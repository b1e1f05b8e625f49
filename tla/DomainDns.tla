------------------------------ MODULE DomainDns ------------------------------
(***************************************************************************)
(* The life of a domain row and of its public CNAME: the orchestrator's     *)
(* periodic reconciler (internal/orchestrator/reconciler), the REST and MCP *)
(* handlers that write domain rows (api/domains.go, mcp/server.go), the     *)
(* agent's apply-ACK (api/agents_stream.go) and the admin's DNS takeover.   *)
(*                                                                          *)
(* Every database statement and every provider call is a step of its own.  *)
(* The handlers are goroutines and share nothing but the database and the   *)
(* zone, so each keeps what it has read (a snapshot of the row) in a        *)
(* variable of its own and may act on it after the row has changed.         *)
(* Cert-only domains have no public record and do not appear.               *)
(***************************************************************************)
EXTENDS DnsZone

CONSTANTS
    Doms,       \* row ids (AUTOINCREMENT: never reused)
    NoRec,      \* dns_record_id = ""
    NoDom,      \* no domain
    Renames,    \* the names a PUT may move a domain to
    Budgets     \* how often the environment may do each of the things in Limits: in each
                \* behaviour one of these

\* edits: operator's changes at the provider; updates: PUT requests; deletes: DELETE
\* requests; takeovers: POST .../dns/takeover; refusals: provider calls that fail without effect;
\* losses: calls that take effect but whose answer is lost; dbfaults: writes of a
\* record id, or removals of a row, that the database fails; crashes: restarts of
\* the orchestrator.
Limits == {"edits", "updates", "deletes", "takeovers", "refusals", "losses", "dbfaults", "crashes"}

ASSUME DomainAssumptions ==
    /\ NoRec \notin RecIds
    /\ NoDom \notin Doms
    /\ Renames \subseteq Hosts
    /\ Budgets \subseteq [Limits -> Nat]

VARIABLES
    row,        \* row[d]: the row of domain d
    rc,         \* the reconciler goroutine
    upd,        \* upd[d]: the row a PUT is about to write, or Blank
    tak,        \* tak[d]: the takeover of d in progress
    ack,        \* the domains an apply-ACK is about to mark
    left        \* what is left of the budget

vars == <<zone, basis, row, rc, upd, tak, ack, left>>

-----------------------------------------------------------------------------
(* Rows. *)

LiveStatuses == {"pending", "active", "degraded", "error"}
Statuses == LiveStatuses \cup {"unborn", "deleting", "gone"}
Row == [status: Statuses, host: Names, agent: Agents \cup {NoAgent},
        rec: RecIds \cup {NoRec}, managed: BOOLEAN]

Blank == [status |-> "unborn", host |-> NoHost, agent |-> NoAgent,
          rec |-> NoRec, managed |-> FALSE]
Gone == [Blank EXCEPT !.status = "gone"]

Present(d) == row[d].status \in LiveStatuses \cup {"deleting"}
\* UNIQUE(subdomain, zone_id): no other row has the name.
NameFree(h, d) == \A e \in Doms \ {d} : Present(e) => row[e].host # h

\* UPDATE domains SET ... WHERE id = d changes nothing when the row is gone.
SetStatus(d, s) == IF Present(d) THEN [row EXCEPT ![d].status = s] ELSE row
SetRecord(d, r, m) ==
    IF Present(d) THEN [row EXCEPT ![d].rec = r, ![d].managed = m] ELSE row

Spend(l) == left[l] > 0 /\ left' = [left EXCEPT ![l] = @ - 1]

\* The reconciler stores a record id; a database error is logged and ignored.
Store(d, r, m) ==
    \/ row' = SetRecord(d, r, m) /\ UNCHANGED left
    \/ Spend("dbfaults") /\ UNCHANGED row

-----------------------------------------------------------------------------
(* Goroutines. *)

\* The reconciler works through the list of a phase: todo are the domains it has
\* still to finish, dom the one it is at, snap the rows as the list returned them,
\* rec a record id it is about to store.
RcPcs == {"idle", "deletions", "clear", "erase",
          "dns", "retarget", "lookup", "create", "store", "adopt", "pending"}
Rc == [pc: RcPcs, dom: Doms \cup {NoDom}, todo: SUBSET Doms, snap: [Doms -> Row],
       rec: RecIds \cup {NoRec}]
RcIdle == [pc |-> "idle", dom |-> NoDom, todo |-> {}, snap |-> [d \in Doms |-> Blank],
           rec |-> NoRec]

\* A takeover keeps the name and target it read, the conflicting records it has
\* still to delete, and the record id it is about to store.
TakPcs == {"idle", "lookup", "own", "clear", "store", "pending"}
Tak == [pc: TakPcs, host: Names, agent: Agents \cup {NoAgent},
        todo: SUBSET RecIds, rec: RecIds \cup {NoRec}]
TakIdle == [pc |-> "idle", host |-> NoHost, agent |-> NoAgent, todo |-> {}, rec |-> NoRec]

\* Every variable holds values of its type.
TypeOK ==
    /\ ZoneTypeOK
    /\ row \in [Doms -> Row]
    /\ rc \in Rc
    /\ upd \in [Doms -> Row]
    /\ tak \in [Doms -> Tak]
    /\ ack \subseteq Doms
    /\ left \in [Limits -> Nat]

Init ==
    /\ ZoneInit
    /\ row = [d \in Doms |-> Blank]
    /\ rc = RcIdle
    /\ upd = [d \in Doms |-> Blank]
    /\ tak = [d \in Doms |-> TakIdle]
    /\ ack = {}
    /\ left \in Budgets

-----------------------------------------------------------------------------
(* One cycle of the reconciler, RunOnce: the rows that are "deleting" are torn *)
(* down, then the CNAMEs of the others are reconciled.                        *)

\* A phase starts with one SELECT over the domains.
ListPhase(phase, D) ==
    rc' = [RcIdle EXCEPT !.pc = phase, !.todo = D,
                         !.snap = [d \in Doms |-> IF d \in D THEN row[d] ELSE Blank]]
\* The reconciler goes on with domain d, or is done with it.
Goto(pc, d) == rc' = [rc EXCEPT !.pc = pc, !.dom = d]
GotoWith(pc, d, r) == rc' = [rc EXCEPT !.pc = pc, !.dom = d, !.rec = r]
Finish(phase, d) == rc' = [rc EXCEPT !.pc = phase, !.dom = NoDom, !.rec = NoRec,
                                     !.todo = @ \ {d}, !.snap[d] = Blank]
Working(pc, d) == rc.pc = pc /\ rc.dom = d
Picks(phase, d) == rc.pc = phase /\ d \in rc.todo

Rest == <<upd, tak, ack>>

ListDeleting ==
    /\ rc.pc = "idle"
    /\ ListPhase("deletions", {d \in Doms : row[d].status = "deleting"})
    /\ UNCHANGED <<zone, basis, row, Rest, left>>

ListLive ==
    /\ rc.pc = "deletions" /\ rc.todo = {}
    /\ ListPhase("dns", {d \in Doms : row[d].status \in LiveStatuses})
    /\ UNCHANGED <<zone, basis, row, Rest, left>>

EndCycle ==
    /\ rc.pc = "dns" /\ rc.todo = {}
    /\ rc' = RcIdle
    /\ UNCHANGED <<zone, basis, row, Rest, left>>

(* reconcileDeletions, for one domain. *)

\* Mutant: any record on file is deleted, the flag (#79) is not looked at.
MutOwns(s) == s.rec # NoRec

\* The listed row has a record to delete: one that is on file as created by NurProxy.
Owns(s) == s.rec # NoRec /\ s.managed

\* No record to delete: there is none on file, or the one on file was adopted.
KeepRecord(d) ==
    /\ Picks("deletions", d)
    /\ ~Owns(rc.snap[d])
    /\ Goto("erase", d)
    /\ UNCHANGED <<zone, basis, row, Rest, left>>

\* Mutant: a record that is already gone counts as a failure to delete it.
MutDeleteRecord(d) ==
    LET s == rc.snap[d] IN
    /\ Picks("deletions", d)
    /\ Owns(s)
    /\ IF HasRecord(s.rec, s.host)
       THEN zone' = Deleted(s.rec) /\ Goto("clear", d)
       ELSE UNCHANGED zone /\ Finish("deletions", d)
    /\ UNCHANGED <<basis, row, Rest, left>>

\* The provider deletes the record or answers ErrRecordNotFound.
DeleteRecord(d) ==
    LET s == rc.snap[d] IN
    /\ Picks("deletions", d)
    /\ Owns(s)
    /\ zone' = IF HasRecord(s.rec, s.host) THEN Deleted(s.rec) ELSE zone
    /\ Goto("clear", d)
    /\ UNCHANGED <<basis, row, Rest, left>>

\* Any other error, and a zone or provider that cannot be resolved: the domain
\* stays "deleting" for the next cycle.  The deletion may have been carried out.
DeferDelete(d) ==
    LET s == rc.snap[d] IN
    /\ Picks("deletions", d)
    /\ Owns(s)
    /\ \/ Spend("refusals") /\ UNCHANGED zone
       \/ Spend("losses") /\ HasRecord(s.rec, s.host) /\ zone' = Deleted(s.rec)
    /\ Finish("deletions", d)
    /\ UNCHANGED <<basis, row, Rest>>

ClearRecord(d) ==
    /\ Working("clear", d)
    /\ Store(d, NoRec, FALSE)
    /\ Goto("erase", d)
    /\ UNCHANGED <<zone, basis, Rest>>

\* The tombstone, the artifact and the row: a failure leaves the row for the next
\* cycle.
EraseRow(d) ==
    /\ Working("erase", d)
    /\ \/ row' = (IF Present(d) THEN [row EXCEPT ![d] = Gone] ELSE row) /\ UNCHANGED left
       \/ Spend("dbfaults") /\ UNCHANGED row
    /\ Finish("deletions", d)
    /\ UNCHANGED <<zone, basis, Rest>>

(* reconcileDNS, for one domain: the record on file is read by its id. *)

VisitUnrecorded(d) ==
    /\ Picks("dns", d)
    /\ rc.snap[d].rec = NoRec
    /\ Goto("lookup", d)
    /\ UNCHANGED <<zone, basis, row, Rest, left>>

\* Mutant: a domain whose record is gone is left for another cycle.
MutVisitMissing(d) ==
    LET s == rc.snap[d] IN
    /\ Picks("dns", d)
    /\ s.rec # NoRec /\ ~HasRecord(s.rec, s.host)
    /\ Finish("dns", d)
    /\ UNCHANGED <<zone, basis, row, Rest, left>>

VisitMissing(d) ==
    LET s == rc.snap[d] IN
    /\ Picks("dns", d)
    /\ s.rec # NoRec /\ ~HasRecord(s.rec, s.host)
    /\ Goto("lookup", d)
    /\ UNCHANGED <<zone, basis, row, Rest, left>>

VisitFound(d) ==
    LET s == rc.snap[d] IN
    /\ Picks("dns", d)
    /\ s.rec # NoRec /\ HasRecord(s.rec, s.host)
    /\ IF zone[s.rec].content = s.agent THEN Finish("dns", d) ELSE Goto("retarget", d)
    /\ UNCHANGED <<zone, basis, row, Rest, left>>

\* Mutant: a transient read error is taken for a miss (#66).
MutVisitUnreadable(d) ==
    /\ Picks("dns", d)
    /\ rc.snap[d].rec # NoRec
    /\ Spend("refusals")
    /\ Goto("lookup", d)
    /\ UNCHANGED <<zone, basis, row, Rest>>

\* A transient read error is not a miss: the stored id and flag are left alone.
VisitUnreadable(d) ==
    /\ Picks("dns", d)
    /\ rc.snap[d].rec # NoRec
    /\ Spend("refusals")
    /\ Finish("dns", d)
    /\ UNCHANGED <<zone, basis, row, Rest>>

\* UpdateRecord writes name and content, whoever created the record; the provider
\* refuses when the record is gone or the name is another record's.
Retargeted(s) == [zone EXCEPT ![s.rec] = Written(s.host, s.agent, "nurproxy")]
CanRetarget(s) == HasRecord(s.rec, s.host) /\ At(s.host) \subseteq {s.rec}

Retarget(d) ==
    LET s == rc.snap[d] IN
    /\ Working("retarget", d)
    /\ CanRetarget(s)
    /\ zone' = Retargeted(s)
    /\ Finish("dns", d)
    /\ UNCHANGED <<basis, row, Rest, left>>

RetargetFails(d) ==
    LET s == rc.snap[d] IN
    /\ Working("retarget", d)
    /\ \/ ~CanRetarget(s) /\ UNCHANGED <<zone, left>>
       \/ Spend("refusals") /\ UNCHANGED zone
       \/ Spend("losses") /\ CanRetarget(s) /\ zone' = Retargeted(s)
    /\ row' = SetStatus(d, "error")
    /\ Finish("dns", d)
    /\ UNCHANGED <<basis, Rest>>

(* ensureDomainCNAME: the record is looked up by name, then adopted, reported as *)
(* a conflict, or created.                                                     *)

LookupMatches(d) ==
    LET s == rc.snap[d] IN
    /\ Working("lookup", d)
    /\ \E r \in Matching(s.host, s.agent) : GotoWith("adopt", d, r)
    /\ UNCHANGED <<zone, basis, row, Rest, left>>

LookupConflicts(d) ==
    LET s == rc.snap[d] IN
    /\ Working("lookup", d)
    /\ At(s.host) # {} /\ Matching(s.host, s.agent) = {}
    /\ row' = SetStatus(d, "error")
    /\ Finish("dns", d)
    /\ UNCHANGED <<zone, basis, Rest, left>>

LookupFindsNone(d) ==
    /\ Working("lookup", d)
    /\ At(rc.snap[d].host) = {}
    /\ Goto("create", d)
    /\ UNCHANGED <<zone, basis, row, Rest, left>>

LookupFails(d) ==
    /\ Working("lookup", d)
    /\ Spend("refusals")
    /\ row' = SetStatus(d, "error")
    /\ Finish("dns", d)
    /\ UNCHANGED <<zone, basis, Rest>>

AdoptRecord(d) ==
    /\ Working("adopt", d)
    /\ Store(d, rc.rec, FALSE)
    /\ basis' = Based({rc.rec}, "adopted")
    /\ GotoWith("pending", d, NoRec)
    /\ UNCHANGED <<zone, Rest>>

MarkAdopted(d) ==
    /\ Working("pending", d)
    /\ row' = SetStatus(d, "pending")
    /\ Finish("dns", d)
    /\ UNCHANGED <<zone, basis, Rest, left>>

\* The provider creates a CNAME at a free name only, under a fresh id.
Create(r, h, a) ==
    /\ IsNextId(r)
    /\ At(h) = {}
    /\ zone' = [zone EXCEPT ![r] = Written(h, a, "nurproxy")]
    /\ basis' = [basis EXCEPT ![r] = "created"]

CreateRecord(d) ==
    LET s == rc.snap[d] IN
    /\ Working("create", d)
    /\ \E r \in RecIds : Create(r, s.host, s.agent) /\ GotoWith("store", d, r)
    /\ UNCHANGED <<row, Rest, left>>

CreateFails(d) ==
    LET s == rc.snap[d] IN
    /\ Working("create", d)
    /\ \/ At(s.host) # {} /\ UNCHANGED <<zone, basis, left>>
       \/ Spend("refusals") /\ UNCHANGED <<zone, basis>>
       \/ Spend("losses") /\ \E r \in RecIds : Create(r, s.host, s.agent)
    /\ row' = SetStatus(d, "error")
    /\ Finish("dns", d)
    /\ UNCHANGED Rest

StoreCreated(d) ==
    /\ Working("store", d)
    /\ Store(d, rc.rec, TRUE)
    /\ Finish("dns", d)
    /\ UNCHANGED <<zone, basis, Rest>>

ReconcilerStep ==
    \/ ListDeleting \/ ListLive \/ EndCycle
    \/ \E d \in Doms :
          \/ KeepRecord(d) \/ DeleteRecord(d) \/ DeferDelete(d)
          \/ ClearRecord(d) \/ EraseRow(d)
          \/ VisitUnrecorded(d) \/ VisitMissing(d) \/ VisitFound(d) \/ VisitUnreadable(d)
          \/ Retarget(d) \/ RetargetFails(d)
          \/ LookupMatches(d) \/ LookupConflicts(d) \/ LookupFindsNone(d) \/ LookupFails(d)
          \/ AdoptRecord(d) \/ MarkAdopted(d)
          \/ CreateRecord(d) \/ CreateFails(d) \/ StoreCreated(d)

-----------------------------------------------------------------------------
(* The handlers. *)

\* POST /domains, and the MCP tool.
CreateDomain(d) ==
    /\ row[d].status = "unborn"
    /\ \E h \in Hosts, a \in Agents :
          /\ NameFree(h, d)
          /\ row' = [row EXCEPT ![d] = [Blank EXCEPT !.status = "pending", !.host = h, !.agent = a]]
    /\ UNCHANGED <<zone, basis, rc, Rest, left>>

\* DELETE /domains/{id}, the MCP tool, and a cascade over a parent.
DeleteDomain(d) ==
    /\ Present(d)
    /\ Spend("deletes")
    /\ row' = SetStatus(d, "deleting")
    /\ UNCHANGED <<zone, basis, rc, Rest>>

\* PUT /domains/{id}, its config and config/reset forms, and the MCP tool: the
\* row is read, changed in memory and written back whole.
ReadForUpdate(d) ==
    /\ Present(d) /\ upd[d] = Blank
    /\ Spend("updates")
    /\ \E h \in Renames \cup {row[d].host}, a \in Agents :
          upd' = [upd EXCEPT ![d] = [row[d] EXCEPT !.status = "pending", !.host = h, !.agent = a]]
    /\ UNCHANGED <<zone, basis, row, rc, tak, ack>>

\* The write fails when the row is gone or another row has the name.
WriteUpdate(d) ==
    /\ upd[d] # Blank
    /\ row' = IF Present(d) /\ NameFree(upd[d].host, d)
              THEN [row EXCEPT ![d] = upd[d]] ELSE row
    /\ upd' = [upd EXCEPT ![d] = Blank]
    /\ UNCHANGED <<zone, basis, rc, tak, ack, left>>

\* POST /agents/{id}/routes/ack: the handler lists the agent's domains, passes
\* over the deleting ones, and then writes the others' statuses one by one; so does
\* the reconciler where it pushes the routes itself.
ListForAck(d) ==
    /\ row[d].status \in LiveStatuses
    /\ ack' = ack \cup {d}
    /\ d \notin ack
    /\ UNCHANGED <<zone, basis, row, rc, upd, tak, left>>

\* "active" or, without a certificate, "degraded"; "error" for a failed apply.
MarkApplied(d) ==
    /\ d \in ack
    /\ \E s \in {"active", "degraded", "error"} : row' = SetStatus(d, s)
    /\ ack' = ack \ {d}
    /\ UNCHANGED <<zone, basis, rc, upd, tak, left>>

(* POST /domains/{id}/dns/takeover: TakeoverDomainDNS. *)

TakGoto(d, pc) == tak' = [tak EXCEPT ![d].pc = pc]
TakAborts(d) == tak' = [tak EXCEPT ![d] = TakIdle]

TakeoverStart(d) ==
    /\ Present(d) /\ tak[d] = TakIdle
    /\ Spend("takeovers")
    /\ tak' = [tak EXCEPT ![d] = [TakIdle EXCEPT !.pc = "lookup",
                                    !.host = row[d].host, !.agent = row[d].agent]]
    /\ UNCHANGED <<zone, basis, row, rc, upd, ack>>

\* A matching record is taken as it is; others are to be deleted.
TakeoverLookup(d) ==
    LET t == tak[d] IN
    /\ t.pc = "lookup"
    /\ \/ \E r \in Matching(t.host, t.agent) :
             /\ tak' = [tak EXCEPT ![d].pc = "own", ![d].rec = r]
             /\ UNCHANGED basis
       \/ /\ Matching(t.host, t.agent) = {}
          /\ tak' = [tak EXCEPT ![d].pc = "clear", ![d].todo = At(t.host)]
          /\ basis' = Based(At(t.host), "takeover")
    /\ UNCHANGED <<zone, row, rc, upd, ack, left>>

TakeoverOwn(d) ==
    /\ tak[d].pc = "own"
    /\ basis' = Based({tak[d].rec}, "takeover")
    /\ row' = SetRecord(d, tak[d].rec, TRUE)
    /\ IF Present(d) THEN tak' = [tak EXCEPT ![d].pc = "pending", ![d].rec = NoRec]
                     ELSE TakAborts(d)
    /\ UNCHANGED <<zone, rc, upd, ack, left>>

\* Here ErrRecordNotFound is an error like any other.
TakeoverDelete(d) ==
    /\ tak[d].pc = "clear"
    /\ \E r \in tak[d].todo :
          IF HasRecord(r, tak[d].host)
          THEN zone' = Deleted(r) /\ tak' = [tak EXCEPT ![d].todo = @ \ {r}]
          ELSE UNCHANGED zone /\ TakAborts(d)
    /\ UNCHANGED <<basis, row, rc, upd, ack, left>>

TakeoverCreate(d) ==
    LET t == tak[d] IN
    /\ t.pc = "clear" /\ t.todo = {}
    /\ \/ /\ At(t.host) # {}
          /\ TakAborts(d)
          /\ UNCHANGED <<zone, basis>>
       \/ \E r \in RecIds :
             /\ Create(r, t.host, t.agent)
             /\ tak' = [tak EXCEPT ![d].pc = "store", ![d].rec = r]
    /\ UNCHANGED <<row, rc, upd, ack, left>>

TakeoverStore(d) ==
    /\ tak[d].pc = "store"
    /\ row' = SetRecord(d, tak[d].rec, TRUE)
    /\ IF Present(d) THEN tak' = [tak EXCEPT ![d].pc = "pending", ![d].rec = NoRec]
                     ELSE TakAborts(d)
    /\ UNCHANGED <<zone, basis, rc, upd, ack, left>>

TakeoverFinish(d) ==
    /\ tak[d].pc = "pending"
    /\ row' = SetStatus(d, "pending")
    /\ TakAborts(d)
    /\ UNCHANGED <<zone, basis, rc, upd, ack, left>>

\* The provider refuses a call, or carries it out and the answer is lost, or the
\* database fails: the request ends with an error.
TakeoverFails(d) ==
    LET t == tak[d] IN
    /\ \/ /\ t.pc \in {"lookup", "clear"} /\ Spend("refusals")
          /\ UNCHANGED <<zone, basis>>
       \/ /\ t.pc = "clear" /\ t.todo = {} /\ Spend("losses")
          /\ \E r \in RecIds : Create(r, t.host, t.agent)
       \/ /\ t.pc = "clear" /\ Spend("losses")
          /\ \E r \in t.todo : HasRecord(r, t.host) /\ zone' = Deleted(r)
          /\ UNCHANGED basis
       \/ /\ t.pc \in {"own", "store"} /\ Spend("dbfaults")
          /\ UNCHANGED <<zone, basis>>
    /\ TakAborts(d)
    /\ UNCHANGED <<row, rc, upd, ack>>

TakeoverStep(d) ==
    \/ TakeoverLookup(d) \/ TakeoverOwn(d) \/ TakeoverDelete(d) \/ TakeoverCreate(d)
    \/ TakeoverStore(d) \/ TakeoverFinish(d) \/ TakeoverFails(d)

-----------------------------------------------------------------------------
(* The environment. *)

\* The operator at the provider's dashboard.
OperatorAdds(r) ==
    /\ IsNextId(r)
    /\ Spend("edits")
    /\ \E h \in Hosts, c \in Agents \cup {Elsewhere} :
          /\ \A q \in At(h) : c = Elsewhere /\ zone[q].content = Elsewhere
          /\ zone' = [zone EXCEPT ![r] = Written(h, c, "operator")]
    /\ UNCHANGED <<basis, row, rc, Rest>>

OperatorEdits(r) ==
    /\ IsLive(r)
    /\ Spend("edits")
    /\ \E c \in Agents \cup {Elsewhere} :
          /\ c # zone[r].content
          /\ At(zone[r].name) = {r}
          /\ zone' = [zone EXCEPT ![r] = Written(zone[r].name, c, "operator")]
    /\ UNCHANGED <<basis, row, rc, Rest>>

OperatorRemoves(r) ==
    /\ IsLive(r)
    /\ Spend("edits")
    /\ zone' = [zone EXCEPT ![r] = Removed("withdrawn")]
    /\ UNCHANGED <<basis, row, rc, Rest>>

\* The orchestrator stops and starts: the database and the zone are all it keeps.
Crash ==
    /\ Spend("crashes")
    /\ rc' = RcIdle
    /\ upd' = [d \in Doms |-> Blank]
    /\ tak' = [d \in Doms |-> TakIdle]
    /\ ack' = {}
    /\ UNCHANGED <<zone, basis, row>>

-----------------------------------------------------------------------------
Next ==
    \/ ReconcilerStep
    \/ \E d \in Doms :
          \/ CreateDomain(d) \/ DeleteDomain(d)
          \/ ReadForUpdate(d) \/ WriteUpdate(d)
          \/ ListForAck(d) \/ MarkApplied(d)
          \/ TakeoverStart(d) \/ TakeoverStep(d)
    \/ \E r \in RecIds : OperatorAdds(r) \/ OperatorEdits(r) \/ OperatorRemoves(r)
    \/ Crash

\* The ticker keeps starting cycles and a goroutine that is running goes on; what
\* users, agents and the operator do is up to them.
Fairness ==
    /\ WF_vars(ReconcilerStep)
    /\ \A d \in Doms : WF_vars(WriteUpdate(d)) /\ WF_vars(MarkApplied(d)) /\ WF_vars(TakeoverStep(d))

Spec == Init /\ [][Next]_vars
FairSpec == Spec /\ Fairness
-----------------------------------------------------------------------------
(* Properties. *)

\* The promise about ownership: NurProxy deletes a record only if it created it or
\* an admin ordered the takeover, and edits one only if it has a basis for it, from
\* whatever snapshot the reconciler and the handlers act (dns_managed, #79).
Ownership == INSTANCE DnsOwnership WITH zone <- zone, basis <- basis
OwnershipHonoured == Ownership!Spec

\* No leak: while a record NurProxy created exists, it is on file with dns_managed
\* set in some row, whose teardown deletes it, or a goroutine is about to put it
\* there.  It takes the transient read error kept apart from a miss (#66) and the
\* teardown of a row deferred until its record is gone.
OnFile(r) ==
    \/ \E d \in Doms : row[d].rec = r /\ row[d].managed
    \/ rc.pc = "store" /\ rc.rec = r
    \/ \E d \in Doms : tak[d].pc = "store" /\ tak[d].rec = r
CreatedOnFile == \A r \in RecIds : IsLive(r) /\ basis[r] = "created" => OnFile(r)

\* A teardown is never wedged: no domain stays "deleting" for ever, even when its
\* record is already gone, and across refused calls, lost answers and restarts.
NeverWedged == \A d \in Doms : ~ <>[](row[d].status = "deleting")

\* Once the environment leaves it alone, a domain that is not being torn down has
\* its CNAME at its name, pointing at its agent and on file, or there is a record
\* at the name that NurProxy may not touch.
Served(d) ==
    LET r == row[d].rec IN
    r # NoRec /\ IsLive(r) /\ zone[r].name = row[d].host /\ zone[r].content = row[d].agent
Blocked(d) == At(row[d].host) # {} /\ Matching(row[d].host, row[d].agent) = {}
Converges ==
    <>[](\A d \in Doms : row[d].status \in LiveStatuses => Served(d) \/ Blocked(d))

\* "It never overwrites a record it did not create" (docs/qa/05, RELEASE-QA 2.2):
\* what NurProxy last wrote, it created or was ordered to take over.
NeverOverwritesForeign ==
    \A r \in RecIds : zone[r].writer = "nurproxy" => basis[r] \in {"created", "takeover"}
=============================================================================
