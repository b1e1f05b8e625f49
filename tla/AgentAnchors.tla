------------------------------ MODULE AgentAnchors ------------------------------
(***************************************************************************)
(* The address record every agent has at its name (reconciler.go,              *)
(* anchor_cleanup.go, db/anchor_cleanups.go), of one family: A and AAAA are     *)
(* tracked apart.  A cycle of the reconciler tears down, retargets the CNAMEs    *)
(* of domains, ensures each agent's record and works through the queue of         *)
(* released ones; meanwhile the API registers, adopts, renames and deletes         *)
(* agents, heartbeats report addresses, and operators edit the zone.                *)
(***************************************************************************)
EXTENDS Naturals, Sequences, FiniteSets

CONSTANTS
    Agents, Names, Addresses,
    NoRow, NoAddress, Nowhere,
    MaxRecords,     \* a bound on the records ever created
    Worlds          \* what to consider: the agents and records at first, what may happen, how often

Rows     == [fqdn : Names, pending : BOOLEAN, ip : Addresses \cup {NoAddress}, rec : 0..MaxRecords, owned : BOOLEAN]
Records  == [name : Names, kind : {"A", "CNAME"}, content : Addresses \cup {Nowhere}, by : {"nurproxy", "operator"}, live : BOOLEAN]
Cleanups == [agent : Agents, fqdn : Names, rec : 1..MaxRecords, owned : BOOLEAN,
             reason : {"rename", "delete", "stale"}, old : BOOLEAN]
Events   == {"register", "update", "delete", "address", "edit", "provider", "database", "crash"}

AnchorWorlds == [agent : [Agents -> Rows \cup {NoRow}], record : Seq(Records), domains : SUBSET Agents,
            ddns : BOOLEAN, events : SUBSET Events, budget : Nat]

(* What earlier cycles may have left: names are unique, a row's record has its    *)
(* name, what NurProxy made is a row's, and a domain belongs to an agent.          *)
SoundWorld(w) ==
    /\ Len(w.record) <= MaxRecords
    /\ \A a \in w.domains : w.agent[a] # NoRow
    /\ \A a, b \in Agents : w.agent[a] # NoRow /\ w.agent[b] # NoRow /\ w.agent[a].fqdn = w.agent[b].fqdn => a = b
    /\ \A a \in Agents : LET row == w.agent[a] IN
          row # NoRow /\ row.rec # 0 =>
             /\ row.rec \in DOMAIN w.record /\ w.record[row.rec].name = row.fqdn
             /\ row.owned => w.record[row.rec].by = "nurproxy"
    /\ \A i \in DOMAIN w.record : w.record[i].live /\ w.record[i].by = "nurproxy" =>
          \E a \in Agents : w.agent[a] # NoRow /\ w.agent[a].rec = i /\ w.agent[a].owned

ASSUME AnchorAssumptions ==
    /\ NoRow \notin Rows /\ NoAddress \notin Addresses /\ Nowhere \notin Names \cup Addresses
    /\ MaxRecords \in Nat
    /\ Worlds \subseteq AnchorWorlds /\ \A w \in Worlds : SoundWorld(w)

VARIABLES
    agent,      \* agent[a]: the row of a
    record,     \* record[i]: what the provider has under the id i
    cleanups,   \* agent_anchor_cleanups
    domain,     \* domain[a]: the state of a's domain, where its CNAME points
    doomed,     \* pending_parent_deletions
    cycle,      \* the reconciler: where it is, what it read
    request,    \* the API handler: the row it read
    ddns, events, allowance,
    astray      \* history: records whose ids were never stored

dbVars == <<agent, cleanups, doomed>>
anchorVars == <<dbVars, record, domain, cycle, request, ddns, events, allowance, astray>>

Off     == [pc |-> "idle", rows |-> [a \in Agents |-> NoRow], todo |-> {}, a |-> Nowhere, rec |-> 0, owned |-> FALSE]
NoOne   == [a |-> Nowhere, row |-> NoRow]
Reads(pc) == cycle.pc = pc
Goes(pc)  == [cycle EXCEPT !.pc = pc]

AnchorInit ==
    \E w \in Worlds :
        /\ agent = w.agent /\ record = w.record
        /\ domain = [a \in Agents |-> IF a \in w.domains THEN [state |-> "kept", target |-> w.agent[a].fqdn]
                                                          ELSE [state |-> "none", target |-> Nowhere]]
        /\ cleanups = {} /\ doomed = {}
        /\ cycle = Off /\ request = NoOne
        /\ ddns = w.ddns /\ events = w.events /\ allowance = w.budget
        /\ astray = {}

Happens(e) == e \in events /\ allowance > 0 /\ allowance' = allowance - 1
Alone      == UNCHANGED <<ddns, events>>
-----------------------------------------------------------------------------
(* The database.                                                             *)

(* queueAnchorCleanupTx: a record that is queued stays as it is queued.         *)
Queued(queue, c) == IF \E d \in queue : d.rec = c.rec THEN queue ELSE queue \cup {c}

(* releaseAgentAnchorsTx.                                                      *)
Released(a, reason) ==
    IF agent[a].rec = 0 THEN cleanups
    ELSE Queued(cleanups, [agent |-> a, fqdn |-> agent[a].fqdn, rec |-> agent[a].rec,
                           owned |-> agent[a].owned, reason |-> reason, old |-> FALSE])

(* UpdateAgent: the whole row as the handler has it, but for the anchor.        *)
UpdateAgent(a, row) ==
    LET renamed == agent[a].fqdn # row.fqdn IN
    /\ agent' = [agent EXCEPT ![a] = [row EXCEPT !.rec = IF renamed THEN 0 ELSE agent[a].rec,
                                                 !.owned = ~renamed /\ agent[a].owned]]
    /\ cleanups' = IF renamed THEN Released(a, "rename") ELSE cleanups

(* Mutant: an adopted record stays in the queue.                               *)
MutReclaimed(i, owned) == {}

(* A record that is adopted while it is queued is taken back, with its owner.   *)
Reclaimed(i, owned) == IF owned THEN {} ELSE {c \in cleanups : c.rec = i}

(* Mutant: what was created for a name the agent has left is forgotten.        *)
MutStale(queue, a, fqdn, i, owned) == queue
Stale(queue, a, fqdn, i, owned) ==
    IF owned THEN Queued(queue, [agent |-> a, fqdn |-> fqdn, rec |-> i, owned |-> TRUE, reason |-> "stale", old |-> FALSE])
             ELSE queue

SetAgentAnchorRecord(a, fqdn, i, created) ==
    LET back  == Reclaimed(i, created)
        owned == created \/ \E c \in back : c.owned
        rest  == cleanups \ back
    IN  IF agent[a] = NoRow \/ agent[a].fqdn # fqdn
        THEN cleanups' = Stale(rest, a, fqdn, i, owned) /\ UNCHANGED agent
        ELSE cleanups' = rest /\ agent' = [agent EXCEPT ![a].rec = i, ![a].owned = owned]
-----------------------------------------------------------------------------
(* The API, and the agents' heartbeats.                                       *)

Taken(n, a) == \E b \in Agents \ {a} : agent[b] # NoRow /\ agent[b].fqdn = n

Register(a, n) ==
    /\ agent[a] = NoRow /\ ~Taken(n, a)
    /\ Happens("register")
    /\ \E ip \in Addresses \cup {NoAddress} :
          agent' = [agent EXCEPT ![a] = [fqdn |-> n, pending |-> TRUE, ip |-> ip, rec |-> 0, owned |-> FALSE]]
    /\ UNCHANGED <<cleanups, doomed, record, domain, cycle, request, astray>> /\ Alone

(* handleAdoptAgent and handleUpdateAgent read the row, and write all of it.    *)
ReadAgent(a) ==
    /\ request = NoOne /\ agent[a] # NoRow
    /\ Happens("update")
    /\ request' = [a |-> a, row |-> agent[a]]
    /\ UNCHANGED <<dbVars, record, domain, cycle, astray>> /\ Alone

WriteAgent(n) ==
    /\ request # NoOne
    /\ LET a == request.a IN
       IF agent[a] # NoRow /\ ~Taken(n, a)
       THEN UpdateAgent(a, [request.row EXCEPT !.fqdn = n, !.pending = FALSE])
       ELSE UNCHANGED <<agent, cleanups>>
    /\ request' = NoOne
    /\ UNCHANGED <<doomed, record, domain, cycle, astray, allowance>> /\ Alone

DeleteAgent(A) ==
    /\ agent' = [a \in Agents |-> IF a \in A THEN NoRow ELSE agent[a]]
    /\ cleanups' = cleanups \cup UNION {Released(a, "delete") : a \in {b \in A : agent[b] # NoRow}}

(* handleDeleteAgent, refused while a domain is left; handleRejectAgent.        *)
Delete(a) ==
    /\ agent[a] # NoRow /\ domain[a].state = "none"
    /\ Happens("delete")
    /\ DeleteAgent({a})
    /\ UNCHANGED <<doomed, record, domain, cycle, request, astray>> /\ Alone

(* cascadeDeleteParent: the domains first, by the reconciler.                  *)
CascadeDelete(a) ==
    /\ agent[a] # NoRow /\ domain[a].state = "kept"
    /\ Happens("delete")
    /\ domain' = [domain EXCEPT ![a].state = "deleting"]
    /\ doomed' = doomed \cup {a}
    /\ UNCHANGED <<agent, cleanups, record, cycle, request, astray>> /\ Alone

Heartbeat(a, ip) ==
    /\ agent[a] # NoRow /\ agent[a].ip # ip
    /\ Happens("address")
    /\ agent' = [agent EXCEPT ![a].ip = ip]
    /\ UNCHANGED <<cleanups, doomed, record, domain, cycle, request, astray>> /\ Alone
-----------------------------------------------------------------------------
(* The provider.  A record that is gone keeps its id.                         *)

Live     == {i \in DOMAIN record : record[i].live}
At(n, k) == {i \in Live : record[i].name = n /\ record[i].kind = k}
Gone(i)  == [record EXCEPT ![i].live = FALSE]
Made(n, ip, by) == Append(record, [name |-> n, kind |-> "A", content |-> ip, by |-> by, live |-> TRUE])

OperatorEdits ==
    /\ Happens("edit")
    /\ \/ \E i \in Live : record' = Gone(i)
       \/ /\ Len(record) < MaxRecords
          /\ \E n \in Names, ip \in Addresses :
                At(n, "CNAME") = {} /\ record' = Made(n, ip, "operator")
    /\ UNCHANGED <<dbVars, domain, cycle, request, astray>> /\ Alone
-----------------------------------------------------------------------------
(* The cycle.                                                                *)

(* reconcileDeletions, finalizePendingParentDeletions.                        *)
TearDown ==
    /\ Reads("idle")
    /\ cycle' = Goes("finalize")
    /\ \/ /\ domain' = [a \in Agents |-> IF domain[a].state = "deleting" THEN [state |-> "none", target |-> Nowhere] ELSE domain[a]]
          /\ UNCHANGED allowance
       \/ /\ \E a \in Agents : domain[a].state = "deleting"
          /\ Happens("provider") /\ UNCHANGED domain
    /\ UNCHANGED <<dbVars, record, request, astray>> /\ Alone

Finalize ==
    /\ Reads("finalize")
    /\ LET ready == {a \in doomed : domain[a].state = "none"} IN
       DeleteAgent(ready) /\ doomed' = doomed \ ready
    /\ cycle' = Goes("domains")
    /\ UNCHANGED <<record, domain, request, astray, allowance>> /\ Alone

(* reconcileDNS: the CNAMEs follow the agents.                                *)
Retarget ==
    /\ Reads("domains")
    /\ LET behind == {a \in Agents : domain[a].state = "kept" /\ domain[a].target # agent[a].fqdn} IN
       \/ /\ domain' = [a \in Agents |-> IF a \in behind THEN [domain[a] EXCEPT !.target = agent[a].fqdn] ELSE domain[a]]
          /\ UNCHANGED allowance
       \/ behind # {} /\ Happens("provider") /\ UNCHANGED domain
    /\ cycle' = Goes("list")
    /\ UNCHANGED <<dbVars, record, request, astray>> /\ Alone

ListAgents ==
    /\ Reads("list")
    /\ cycle' = [Goes("anchors") EXCEPT !.rows = agent,
                    !.todo = {a \in Agents : agent[a] # NoRow /\ ~agent[a].pending /\ agent[a].ip # NoAddress}]
    /\ UNCHANGED <<dbVars, record, domain, request, astray, allowance>> /\ Alone

Row(a)  == cycle.rows[a]
Next1(a) == [cycle EXCEPT !.todo = @ \ {a}]

(* ensureAgentAddressRecord, no record on file: look before creating; a record   *)
(* of this type is adopted if it says what would be written, anything else is     *)
(* a conflict.                                                                     *)
LookUp(a) ==
    /\ Reads("anchors") /\ a \in cycle.todo /\ Row(a).rec = 0
    /\ \/ /\ \E i \in At(Row(a).fqdn, "A") :
                cycle' = IF record[i].content = Row(a).ip
                         THEN [Next1(a) EXCEPT !.pc = "store", !.a = a, !.rec = i, !.owned = FALSE]
                         ELSE Next1(a)
          /\ UNCHANGED allowance
       \/ /\ At(Row(a).fqdn, "A") = {}
          /\ cycle' = IF At(Row(a).fqdn, "CNAME") = {} THEN [Next1(a) EXCEPT !.pc = "create", !.a = a] ELSE Next1(a)
          /\ UNCHANGED allowance
       \/ Happens("provider") /\ cycle' = Next1(a)
    /\ UNCHANGED <<dbVars, record, domain, request, astray>> /\ Alone

(* The answer to a create may be lost.                                        *)
Create ==
    /\ Reads("create") /\ Len(record) < MaxRecords
    /\ LET row == Row(cycle.a)  id == Len(record) + 1 IN
       \/ /\ record' = Made(row.fqdn, row.ip, "nurproxy")
          /\ cycle' = [Goes("store") EXCEPT !.rec = id, !.owned = TRUE]
          /\ UNCHANGED <<allowance, astray>>
       \/ /\ Happens("provider") /\ cycle' = Goes("anchors")
          /\ \/ UNCHANGED <<record, astray>>
             \/ record' = Made(row.fqdn, row.ip, "nurproxy") /\ astray' = astray \cup {id}
    /\ UNCHANGED <<dbVars, domain, request>> /\ Alone

(* persistAgentAnchor.                                                        *)
Store ==
    /\ Reads("store")
    /\ \/ /\ SetAgentAnchorRecord(cycle.a, Row(cycle.a).fqdn, cycle.rec, cycle.owned)
          /\ UNCHANGED <<allowance, astray>>
       \/ /\ Happens("database")
          /\ astray' = (IF cycle.owned THEN astray \cup {cycle.rec} ELSE astray)
          /\ UNCHANGED <<agent, cleanups>>
    /\ cycle' = Goes("anchors")
    /\ UNCHANGED <<doomed, record, domain, request>> /\ Alone

(* A record on file: kept up in DDNS mode, while it can be read.               *)
Follow(a) ==
    /\ Reads("anchors") /\ a \in cycle.todo /\ Row(a).rec # 0
    /\ \/ /\ record' = IF ddns /\ Row(a).rec \in Live THEN [record EXCEPT ![Row(a).rec].content = Row(a).ip] ELSE record
          /\ UNCHANGED allowance
       \/ Happens("provider") /\ UNCHANGED record
    /\ cycle' = Next1(a)
    /\ UNCHANGED <<dbVars, domain, request, astray>> /\ Alone

(* reconcileAgentAnchorCleanups.                                              *)
ListCleanups ==
    /\ Reads("anchors") /\ cycle.todo = {}
    /\ cycle' = [Goes("cleanup") EXCEPT !.rows = agent, !.todo = cleanups]
    /\ UNCHANGED <<dbVars, record, domain, request, astray, allowance>> /\ Alone

Targeted(c) == domain[c.agent].state = "kept" /\ domain[c.agent].target = c.fqdn

(* renamedAnchorStillNeeded.                                                  *)
Needed(c) ==
    c.reason # "delete" /\
        \/ ~c.old
        \/ /\ Row(c.agent) # NoRow
           /\ \/ Row(c.agent).ip # NoAddress /\ Row(c.agent).rec \in {0, c.rec}
              \/ Targeted(c)

Examine(c) ==
    /\ Reads("cleanup") /\ c \in cycle.todo
    /\ \/ /\ ~c.owned
          /\ cleanups' = cleanups \ {c} /\ cycle' = Next1(c)
       \/ /\ c.owned
          /\ cycle' = IF Needed(c) THEN Next1(c) ELSE [Next1(c) EXCEPT !.pc = "delete", !.a = c]
          /\ UNCHANGED cleanups
    /\ UNCHANGED <<agent, doomed, record, domain, request, astray, allowance>> /\ Alone

(* Deleted, or gone already; or it fails, deleted or not.                      *)
DeleteRecord ==
    /\ Reads("delete")
    /\ \/ /\ record' = Gone(cycle.a.rec) /\ cycle' = Goes("remove") /\ UNCHANGED allowance
       \/ /\ Happens("provider") /\ cycle' = [Goes("cleanup") EXCEPT !.a = Nowhere]
          /\ record' \in {record, Gone(cycle.a.rec)}
    /\ UNCHANGED <<dbVars, domain, request, astray>> /\ Alone

RemoveCleanup ==
    /\ Reads("remove")
    /\ \/ cleanups' = {c \in cleanups : c.rec # cycle.a.rec} /\ UNCHANGED allowance
       \/ Happens("database") /\ UNCHANGED cleanups
    /\ cycle' = [Goes("cleanup") EXCEPT !.a = Nowhere]
    /\ UNCHANGED <<agent, doomed, record, domain, request, astray>> /\ Alone

EndCycle ==
    /\ Reads("cleanup") /\ cycle.todo = {}
    /\ cycle' = Off
    /\ UNCHANGED <<dbVars, record, domain, request, astray, allowance>> /\ Alone

(* A released record comes of age.                                            *)
Age(c) ==
    /\ c \in cleanups /\ ~c.old
    /\ cleanups' = (cleanups \ {c}) \cup {[c EXCEPT !.old = TRUE]}
    /\ UNCHANGED <<agent, doomed, record, domain, cycle, request, astray, allowance>> /\ Alone

(* The orchestrator is restarted.                                             *)
Stops ==
    /\ Happens("crash")
    /\ cycle' = Off /\ request' = NoOne
    /\ astray' = IF Reads("store") /\ cycle.owned THEN astray \cup {cycle.rec} ELSE astray
    /\ UNCHANGED <<dbVars, record, domain>> /\ Alone

Cycle ==
    \/ TearDown \/ Finalize \/ Retarget \/ ListAgents \/ Create \/ Store \/ ListCleanups
    \/ DeleteRecord \/ RemoveCleanup \/ EndCycle
    \/ \E a \in Agents : LookUp(a) \/ Follow(a)
    \/ \E c \in Cleanups : Examine(c)
Api ==
    \/ \E a \in Agents : ReadAgent(a) \/ Delete(a) \/ CascadeDelete(a) \/ \E ip \in Addresses : Heartbeat(a, ip)
    \/ \E n \in Names : WriteAgent(n) \/ \E a \in Agents : Register(a, n)

AnchorNext == Cycle \/ Api \/ OperatorEdits \/ Stops \/ \E c \in cleanups : Age(c)

(* The reconciler's timer goes on, handlers end, time passes.                  *)
AnchorFairness ==
    /\ WF_anchorVars(Cycle) /\ WF_anchorVars(\E n \in Names : WriteAgent(n))
    /\ WF_anchorVars(\E c \in cleanups : Age(c))
AnchorSpec == AnchorInit /\ [][AnchorNext]_anchorVars /\ AnchorFairness
-----------------------------------------------------------------------------
(* NurProxy deletes an address record only if it made it, if no agent's row      *)
(* names it, and, where the agent was renamed, if no CNAME of that agent's          *)
(* domains leads to it any more ("so NurProxy never deletes a record it is using"). *)
SparesWhatIsInUse ==
    [][Reads("delete") /\ record' # record /\ cycle' # cycle =>
        LET c == cycle.a IN
        /\ record[c.rec].by = "nurproxy"
        /\ \A a \in Agents : agent[a] # NoRow => agent[a].rec # c.rec
        /\ c.reason # "delete" /\ agent[c.agent] # NoRow => ~(domain[c.agent].state = "kept" /\ domain[c.agent].target = c.fqdn)]_anchorVars

(* Every address record NurProxy made and that is still there is on file, as its *)
(* own: an agent's, or queued, or about to be stored; but for those whose id no     *)
(* write recorded.                                                                   *)
AnchorsOnFile ==
    \A i \in Live \ astray : record[i].by = "nurproxy" =>
        \/ \E a \in Agents : agent[a] # NoRow /\ agent[a].rec = i /\ agent[a].owned
        \/ \E c \in cleanups : c.rec = i /\ c.owned
        \/ Reads("store") /\ cycle.rec = i /\ cycle.owned

(* "for every adopted agent with a non-empty PublicIP, the reconciler ensures an *)
(* A record" (docs/qa/05-dns-lifecycle-and-ipv6.md:235): when nothing else            *)
(* happens any more, every such agent has one in the end.                              *)
Anchored ==
    \A a \in Agents : <>[](agent[a] # NoRow /\ ~agent[a].pending /\ agent[a].ip # NoAddress => agent[a].rec # 0)
================================================================================
