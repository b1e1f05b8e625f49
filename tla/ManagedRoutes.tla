---------------------------- MODULE ManagedRoutes ----------------------------
(* Routes on an agent whose privileged helper applies them.  The helper deletes a virtual   *)
(* host only when a signed intent lists it, so whoever takes a route from the agent has to  *)
(* leave a tombstone, and the tombstone has to stay until the helper's receipt is in.       *)
(* Requests, the teardown, the goroutines that push and the one that applies are each a     *)
(* sequence of steps, with other goroutines between any two.  One agent: what is on another *)
(* agent is not "here".                                                                     *)
EXTENDS Naturals, Sequences, FiniteSetsExt

CONSTANTS
    Entries,    \* the ids of domains
    Callers,    \* requests at a time
    Pushers,    \* goroutines that push at a time: the reconciler's and those of requests
    Inbox,      \* sets the stream buffers
    Overlap,    \* requests for one domain may overlap, and may come while it is being deleted
    Tours       \* initial situations, with their budgets

\* No two rows have the same name.
SoundTour(t) ==
    /\ DOMAIN t = {"hosts", "rows", "requests", "signs", "mishaps"}
    /\ t.rows \in [Entries -> [st : {"unborn", "live", "deleting", "gone"}, here : BOOLEAN]]
    /\ \A d, e \in Entries :
          /\ t.rows[d].st \in {"live", "deleting"} /\ t.rows[e].st \in {"live", "deleting"}
          /\ t.hosts[d] = t.hosts[e]
          => d = e
ASSUME RoutesAssumptions == Inbox \in Nat /\ \A t \in Tours : SoundTour(t)

VARIABLES
    tour,       \* the host of each domain; what is left of requests, intents and mishaps
    entry,      \* rows of domains: state, and whether the server is on the agent
    tombs,      \* managed_route_tombstones of the agent, each with those that are older
    intents,    \* managed_apply_executions, the last is current; and how the helper's journal ends each
    calls,      \* requests under way
    burying,    \* reconcileDeletions: the rows it listed, the one whose tombstone is written
    pushing,    \* publishIntentSet
    inbox,      \* intents in the stream's channel
    worker,     \* the agent's stream goroutine, and the receipt handler it waits for
    vhosts,     \* hosts that have a virtual host on the agent
    spoiled     \* history: hosts of a set built too early, or of a domain that came back too early

routeVars == <<tour, entry, tombs, intents, calls, burying, pushing, inbox, worker, vhosts, spoiled>>

NoCall == [pc |-> "idle", kind |-> "none", dom |-> "none", here |-> FALSE]
Stored(op) == [pc |-> "stored", routes |-> {}, op |-> op]
NoPush == [pc |-> "idle", routes |-> {}, op |-> 0]
NoBurial == [left |-> {}, now |-> {}]
NoTombs == [d \in {} |-> {}]
NoWork == [pc |-> "idle", op |-> 0]

HostOf(d) == tour.hosts[d]
HostsOf(S) == {HostOf(d) : d \in S}
Desired == {d \in Entries : entry[d].st = "live" /\ entry[d].here}
Exists(d) == entry[d].st \in {"live", "deleting"}

ManagedRoutesInit ==
    /\ tour \in Tours
    /\ entry = tour.rows
    /\ vhosts = HostsOf(Desired)
    /\ tombs = NoTombs /\ intents = <<>> /\ inbox = <<>> /\ spoiled = {}
    /\ calls = [c \in Callers |-> NoCall] /\ pushing = [p \in Pushers |-> NoPush]
    /\ burying = NoBurial /\ worker = NoWork

Charge(budget) == tour[budget] > 0 /\ tour' = [tour EXCEPT ![budget] = @ - 1]

---------------------------------------------------------------------------
\* Tombstones.

Upserted(d) == [e \in DOMAIN tombs \cup {d} |-> IF e \in DOMAIN tombs THEN tombs[e] ELSE DOMAIN tombs]
Dropped(S) == [d \in DOMAIN tombs \ S |-> tombs[d] \ S]

\* A route that comes to the agent takes the place of what its host or its resource left.
Colliding(d) == {e \in DOMAIN tombs : e = d \/ HostOf(e) = HostOf(d)}

\* Of the tombstones, those an intent with these routes may list: the oldest of a host.
OutsideDesired(routes) ==
    {d \in DOMAIN tombs :
        /\ d \notin routes /\ HostOf(d) \notin HostsOf(routes)
        /\ \A e \in tombs[d] : HostOf(e) # HostOf(d)}

---------------------------------------------------------------------------
\* Requests.

OneAtATime(d) ==
    \/ Overlap
    \/ entry[d].st = "live" /\ \A c \in Callers : calls[c].pc # "idle" => calls[c].dom # d

\* POST: the row is inserted if its name is free; the claim comes after.
CreateRoute(c, d, here) ==
    /\ calls[c].pc = "idle" /\ entry[d].st = "unborn"
    /\ \A e \in Entries : Exists(e) => HostOf(e) # HostOf(d)
    /\ Charge("requests")
    /\ entry' = [entry EXCEPT ![d] = [st |-> "live", here |-> here]]
    /\ calls' = [calls EXCEPT ![c] =
                    IF here THEN [pc |-> "claim", kind |-> "create", dom |-> d, here |-> here] ELSE @]
    /\ UNCHANGED <<tombs, intents, burying, pushing, inbox, worker, vhosts, spoiled>>

\* PUT with another server, or DELETE: the row is read.
ReadRoute(c, d, kind) ==
    /\ calls[c].pc = "idle" /\ Exists(d) /\ OneAtATime(d)
    /\ Charge("requests")
    /\ calls' = [calls EXCEPT ![c] = [pc |-> IF entry[d].here THEN "mark" ELSE "write", kind |-> kind,
                                      dom |-> d, here |-> entry[d].here]]
    /\ UNCHANGED <<entry, tombs, intents, burying, pushing, inbox, worker, vhosts, spoiled>>

\* The tombstone of what the request takes away comes before the row says so.
MarkRoute(c) ==
    /\ calls[c].pc = "mark"
    /\ tombs' = Upserted(calls[c].dom)
    /\ calls' = [calls EXCEPT ![c].pc = "write"]
    /\ UNCHANGED <<tour, entry, intents, burying, pushing, inbox, worker, vhosts, spoiled>>

\* AbortDomainMove, or the same of a DELETE.
Aborted(call) == IF call.here THEN Dropped({call.dom}) ELSE tombs

\* Deletions the helper may have made, or may still make, and the orchestrator has not heard of.
Unconfirmed == UNION {intents[i].dels : i \in {i \in DOMAIN intents :
    \/ worker.pc # "idle" /\ worker.op = i
    \/ i = Len(intents) /\ intents[i].receipt = "none"}}

WriteRoute(c) ==
    LET call == calls[c] IN
    /\ call.pc = "write" /\ Exists(call.dom)
    /\ entry' = [entry EXCEPT ![call.dom] =
                    IF call.kind = "delete" THEN [@ EXCEPT !.st = "deleting"]
                    ELSE [st |-> "live", here |-> ~call.here]]
    /\ calls' = [calls EXCEPT ![c] =
                    IF call.kind = "move" /\ ~call.here THEN [@ EXCEPT !.pc = "claim"] ELSE NoCall]
    /\ spoiled' = spoiled \cup HostsOf(Desired' \cap Unconfirmed)
    /\ UNCHANGED <<tour, tombs, intents, burying, pushing, inbox, worker, vhosts>>

WriteRefused(c) ==
    LET call == calls[c] IN
    /\ call.pc = "write"
    /\ IF Exists(call.dom) THEN Charge("mishaps") ELSE UNCHANGED tour
    /\ tombs' = Aborted(call)
    /\ calls' = [calls EXCEPT ![c] = NoCall]
    /\ UNCHANGED <<entry, intents, burying, pushing, inbox, worker, vhosts, spoiled>>

ClaimRoute(c) ==
    /\ calls[c].pc = "claim"
    /\ tombs' = Dropped(Colliding(calls[c].dom))
    /\ calls' = [calls EXCEPT ![c] = NoCall]
    /\ UNCHANGED <<tour, entry, intents, burying, pushing, inbox, worker, vhosts, spoiled>>

---------------------------------------------------------------------------
\* The reconciler's teardown.

ListBurials ==
    /\ burying = NoBurial
    /\ burying' = [burying EXCEPT !.left =
                      {<<d, entry[d].here>> : d \in {e \in Entries : entry[e].st = "deleting"}}]
    /\ burying'.left # {}
    /\ UNCHANGED <<tour, entry, tombs, intents, calls, pushing, inbox, worker, vhosts, spoiled>>

MarkBurial ==
    /\ burying.now = {}
    /\ \E b \in burying.left :
        /\ tombs' = IF b[2] THEN Upserted(b[1]) ELSE tombs
        /\ burying' = [left |-> burying.left \ {b}, now |-> {b}]
    /\ UNCHANGED <<tour, entry, intents, calls, pushing, inbox, worker, vhosts, spoiled>>

\* The row goes by its id, whatever it says by now.
EraseRoute ==
    /\ \E b \in burying.now : entry' = [entry EXCEPT ![b[1]] = [st |-> "gone", here |-> FALSE]]
    /\ burying' = [burying EXCEPT !.now = {}]
    /\ UNCHANGED <<tour, tombs, intents, calls, pushing, inbox, worker, vhosts, spoiled>>

---------------------------------------------------------------------------
\* publishIntentSet, by the reconciler's tick or after a request.

BuildSet(p) ==
    /\ pushing[p].pc = "idle" /\ tour.signs > 0
    /\ pushing' = [pushing EXCEPT ![p] = [pc |-> "built", routes |-> Desired, op |-> 0]]
    /\ UNCHANGED <<tour, entry, tombs, intents, calls, burying, inbox, worker, vhosts, spoiled>>

\* The tombstones are listed, and the current intent is published again if it says the same
\* and has 30 s left.
SameIntent(routes, dels) ==
    intents # <<>> /\ LET last == intents[Len(intents)] IN last.routes = routes /\ last.dels = dels
RepeatIntent(p) ==
    /\ pushing[p].pc = "built" /\ SameIntent(pushing[p].routes, OutsideDesired(pushing[p].routes))
    /\ pushing' = [pushing EXCEPT ![p] = Stored(Len(intents))]
    /\ UNCHANGED <<tour, entry, tombs, intents, calls, burying, inbox, worker, vhosts, spoiled>>

\* Otherwise a new one is signed, and supersedes all before it.
NewIntent(routes) ==
    [routes |-> routes, dels |-> OutsideDesired(routes), plan |-> {"none"}, receipt |-> "none", ran |-> "no"]
SignIntent(p) ==
    LET routes == pushing[p].routes IN
    /\ pushing[p].pc = "built" /\ Charge("signs")
    /\ intents' = Append(intents, NewIntent(routes))
    /\ spoiled' = spoiled \cup HostsOf(SymDiff(routes, Desired))
    /\ pushing' = [pushing EXCEPT ![p] = Stored(Len(intents'))]
    /\ UNCHANGED <<entry, tombs, calls, burying, inbox, worker, vhosts>>

\* Dropped when nobody listens or the buffer is full.
PublishIntent(p) ==
    /\ pushing[p].pc = "stored"
    /\ inbox' \in {inbox} \cup (IF Len(inbox) < Inbox THEN {Append(inbox, pushing[p].op)} ELSE {})
    /\ pushing' = [pushing EXCEPT ![p] = NoPush]
    /\ UNCHANGED <<tour, entry, tombs, intents, calls, burying, worker, vhosts, spoiled>>

---------------------------------------------------------------------------
\* The agent, its helper, and what the orchestrator answers.

\* A plan is bound to what is on the host, and only the first one made for an intent is accepted.
Fingerprint == vhosts
PlanAccepted(op) == intents[op].plan \in {{"none"}, Fingerprint}

\* Only the current intent gets a grant, and none once its receipt is in.
MutAuthorized(op) == intents[op].receipt = "none" /\ PlanAccepted(op)
Authorized(op) == op = Len(intents) /\ intents[op].receipt = "none" /\ PlanAccepted(op)

TakeIntent ==
    /\ worker.pc = "idle" /\ inbox # <<>>
    /\ inbox' = Tail(inbox)
    /\ LET op == Head(inbox) IN
       IF Authorized(op)
       THEN /\ worker' = [pc |-> "granted", op |-> op]
            /\ intents' = [intents EXCEPT ![op].plan = Fingerprint]
       ELSE UNCHANGED <<worker, intents>>
    /\ UNCHANGED <<tour, entry, tombs, calls, burying, pushing, vhosts, spoiled>>

\* The helper carries a grant out once: all of it, or it fails and puts back what it changed.
Converged(op) == (vhosts \ HostsOf(intents[op].dels)) \cup HostsOf(intents[op].routes)
Execution(op, outcome) ==
    IF intents[op].ran # "no" THEN UNCHANGED <<intents, vhosts, tour>>
    ELSE /\ intents' = [intents EXCEPT ![op].ran = outcome]
         /\ IF outcome = "failed" THEN UNCHANGED vhosts /\ Charge("mishaps")
            ELSE vhosts' = Converged(op) /\ UNCHANGED tour

ExecuteIntent ==
    /\ worker.pc = "granted"
    /\ \E outcome \in {"succeeded", "failed"} : Execution(worker.op, outcome)
    /\ worker' = [worker EXCEPT !.pc = "executed"]
    /\ UNCHANGED <<entry, tombs, calls, burying, pushing, inbox, spoiled>>

\* The receipt is stored, then what it confirms is removed.
StoreReceipt ==
    /\ worker.pc = "executed"
    /\ intents' = [intents EXCEPT ![worker.op].receipt = intents[worker.op].ran]
    /\ worker' = IF intents[worker.op].ran = "succeeded" THEN [worker EXCEPT !.pc = "stored"] ELSE NoWork
    /\ UNCHANGED <<tour, entry, tombs, calls, burying, pushing, inbox, vhosts, spoiled>>

ConfirmDeletions ==
    /\ worker.pc = "stored"
    /\ tombs' = Dropped(intents[worker.op].dels)
    /\ worker' = NoWork
    /\ UNCHANGED <<tour, entry, intents, calls, burying, pushing, inbox, vhosts, spoiled>>

---------------------------------------------------------------------------
\* The agent dies, or its call fails, before the receipt is in.
LoseReceipt ==
    /\ worker.pc \in {"granted", "executed"} /\ Charge("mishaps")
    /\ worker' = NoWork /\ inbox' = <<>>
    /\ UNCHANGED <<entry, tombs, intents, calls, burying, pushing, vhosts, spoiled>>

\* The orchestrator dies, with every goroutine it has.
OrchestratorDies ==
    /\ Charge("mishaps")
    /\ calls' = [c \in Callers |-> NoCall] /\ pushing' = [p \in Pushers |-> NoPush]
    /\ burying' = NoBurial /\ inbox' = <<>>
    /\ worker' = IF worker.pc = "stored" THEN NoWork ELSE worker
    /\ UNCHANGED <<entry, tombs, intents, vhosts, spoiled>>

RequestStep ==
    \E c \in Callers :
        \/ \E d \in Entries : \/ \E here \in BOOLEAN : CreateRoute(c, d, here)
                            \/ \E kind \in {"move", "delete"} : ReadRoute(c, d, kind)
        \/ MarkRoute(c) \/ WriteRoute(c) \/ WriteRefused(c) \/ ClaimRoute(c)
PushStep == \E p \in Pushers : BuildSet(p) \/ RepeatIntent(p) \/ SignIntent(p) \/ PublishIntent(p)
ManagedRoutesNext ==
    \/ RequestStep \/ ListBurials \/ MarkBurial \/ EraseRoute \/ PushStep
    \/ TakeIntent \/ ExecuteIntent \/ StoreReceipt \/ ConfirmDeletions
    \/ LoseReceipt \/ OrchestratorDies
ManagedRoutesSpec == ManagedRoutesInit /\ [][ManagedRoutesNext]_routeVars

---------------------------------------------------------------------------
\* A virtual host on the agent that no domain has there any more is one that somebody will
\* still delete: a tombstone says so, or a row that the teardown has yet to mark.  No order of
\* moves, deletions, a name used again, pushes, lost receipts and restarts leaves one that
\* NurProxy has forgotten; unless a set was built from rows that had changed when it was signed
\* (it may bring a route back after the receipt that confirmed its deletion), or a domain came
\* back before such a receipt was in (which then takes the next tombstone for its own).
NoneForgotten ==
    \A h \in vhosts \ spoiled :
        \E d \in Entries :
            /\ HostOf(d) = h
            /\ d \in Desired \/ d \in DOMAIN tombs \/ (entry[d].st = "deleting" /\ entry[d].here)
=============================================================================
