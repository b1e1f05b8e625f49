-------------------------- MODULE OrchestratorProofs --------------------------
(* Proofs about four components of the orchestrator, for any instances and budgets:  *)
(* no virtual host is forgotten, what operators decided about agents stays,          *)
(* certificates are ordered once and renewed before they are due, and a restore or a *)
(* backup leaves databases next to their keys.                                        *)
EXTENDS AgentLifecycle, Certificates, DataDir, ManagedRoutes, TLAPS, SequenceTheorems

-----------------------------------------------------------------------------
(* Managed routes.  A domain that keeps its virtual host: it is on the agent, or a *)
(* tombstone names it, or the teardown has yet to mark it.                         *)

Dying == {d \in Entries : entry[d].st = "deleting" /\ entry[d].here}
Keepers == Desired \cup DOMAIN tombs \cup Dying
Cov(h, X) == \E d \in Keepers \ X : HostOf(d) = h

\* An intent the helper may still carry out, one whose deletions somebody may still
\* confirm, and what the receipt of an earlier one may confirm before it.
Busy == worker.pc # "idle"
Current(i) == i = Len(intents) /\ intents[i].receipt = "none"
Runs(i) == i \in DOMAIN intents /\ (Current(i) \/ (worker.pc = "granted" /\ worker.op = i))
Counts(i) == i \in DOMAIN intents /\ (Current(i) \/ (Busy /\ worker.op = i))
Beyond(i) == IF Busy /\ worker.op < i THEN intents[worker.op].dels ELSE {}

RouteRows == [st : {"unborn", "live", "deleting", "gone"}, here : BOOLEAN]
Intents ==
    [routes : SUBSET Entries, dels : SUBSET Entries, plan : SUBSET (HostsOf(Entries) \cup {"none"}),
     receipt : {"none", "succeeded", "failed"}, ran : {"no", "succeeded", "failed"}]
Requests ==
    [pc : {"idle", "mark", "write", "claim"}, kind : {"none", "create", "move", "delete"},
     dom : Entries \cup {"none"}, here : BOOLEAN]
RoutesTyped ==
    /\ DOMAIN tour = {"hosts", "rows", "requests", "signs", "mishaps"}
    /\ entry \in [Entries -> RouteRows]
    /\ DOMAIN tombs \subseteq Entries
    /\ intents \in Seq(Intents)
    /\ calls \in [Callers -> Requests]
    /\ burying \in [left : SUBSET (Entries \X BOOLEAN), now : SUBSET (Entries \X BOOLEAN)]
    /\ pushing \in [Pushers -> [pc : {"idle", "built", "stored"}, routes : SUBSET Entries, op : Nat]]
    /\ inbox \in Seq(Nat)
    /\ worker \in [pc : {"idle", "granted", "executed", "stored"}, op : Nat]
    /\ vhosts \subseteq HostsOf(Entries)

\* A request has read a row that is live and stays as it was read; the next for the same
\* domain waits.
CallsInv ==
    /\ \A c \in Callers : calls[c].pc # "idle" =>
          /\ calls[c].dom \in Entries /\ entry[calls[c].dom].st = "live" /\ calls[c].kind # "none"
          /\ calls[c].pc \in {"mark", "write"} => calls[c].here = entry[calls[c].dom].here
          /\ calls[c].pc \in {"mark", "claim"} => entry[calls[c].dom].here = TRUE
    /\ \A c, b \in Callers :
          calls[c].pc # "idle" /\ calls[b].pc # "idle" /\ calls[c].dom = calls[b].dom => c = b
NamesInv ==
    /\ \A d, e \in Entries : Exists(d) /\ Exists(e) /\ HostOf(d) = HostOf(e) => d = e
    /\ \A d \in Entries : entry[d].st = "unborn" =>
          d \notin DOMAIN tombs /\ \A i \in DOMAIN intents : d \notin intents[i].dels
BurialInv ==
    /\ \A b \in burying.left \cup burying.now : entry[b[1]].st = "deleting" /\ entry[b[1]].here = b[2]
    /\ \A b \in burying.left, n \in burying.now : b[1] # n[1]

\* An intent does not delete what it applies.  While the receipt of one that was
\* superseded is on its way, none after it has been carried out; and what has been
\* deleted stays deleted until the receipt is in.
WorkInv ==
    /\ Busy => worker.op \in DOMAIN intents
    /\ \A j \in DOMAIN inbox : inbox[j] \in DOMAIN intents
    /\ \A p \in Pushers : pushing[p].pc = "stored" => pushing[p].op \in DOMAIN intents
    /\ worker.pc = "executed" => intents[worker.op].ran # "no"
    /\ worker.pc = "stored" => intents[worker.op].ran = "succeeded" /\ intents[worker.op].receipt = "succeeded"
    /\ Busy => \A i \in DOMAIN intents : i > worker.op => intents[i].ran = "no"
DeletedInv ==
    /\ \A i \in DOMAIN intents : \A d \in intents[i].dels, e \in intents[i].routes : HostOf(d) # HostOf(e)
    /\ \A i \in DOMAIN intents : Counts(i) /\ intents[i].ran = "succeeded" =>
          \A d \in intents[i].dels : HostOf(d) \notin vhosts

\* What a request is about to take away has its tombstone, and nothing on the agent is
\* among the deletions that somebody may still confirm.
MarkedInv ==
    \A c \in Callers : calls[c].pc = "write" /\ calls[c].here =>
        calls[c].dom \in DOMAIN tombs \/ HostOf(calls[c].dom) \in spoiled
HeardInv ==
    \A d \in Desired : \A i \in DOMAIN intents :
        Counts(i) /\ d \in intents[i].dels => HostOf(d) \in spoiled

\* Every virtual host has a keeper, and so will those an intent may still create; and the
\* row the teardown is about to erase has its tombstone, or its host another keeper.
ServedInv ==
    /\ \A h \in vhosts \ spoiled : Cov(h, {})
    /\ \A i \in DOMAIN intents : Runs(i) =>
          \A d \in intents[i].routes : HostOf(d) \in spoiled \/ Cov(HostOf(d), Beyond(i))
Replaced(e) ==
    /\ HostOf(e) \in vhosts => Cov(HostOf(e), {e})
    /\ \A i \in DOMAIN intents : Runs(i) =>
          \A d \in intents[i].routes : HostOf(d) = HostOf(e) => Cov(HostOf(e), {e} \cup Beyond(i))
BuriedInv ==
    \A b \in burying.now : b[2] = TRUE =>
        b[1] \in DOMAIN tombs \/ HostOf(b[1]) \in spoiled \/ Replaced(b[1])

RoutesInv ==
    /\ RoutesTyped /\ CallsInv /\ NamesInv /\ BurialInv /\ WorkInv /\ DeletedInv
    /\ MarkedInv /\ HeardInv /\ ServedInv /\ BuriedInv

\* A charge to a budget and nothing else: hosts do not change.
LEMMA ChargeStays ==
    ASSUME RoutesTyped, NEW b \in {"requests", "signs", "mishaps"}, Charge(b)
    PROVE  tour'.hosts = tour.hosts /\ DOMAIN tour' = DOMAIN tour
  BY DEF RoutesTyped, Charge
LEMMA HostsStay ==
    ASSUME tour'.hosts = tour.hosts
    PROVE  (\A d \in Entries : HostOf(d)' = HostOf(d)) /\ HostsOf(Entries)' = HostsOf(Entries) /\ Intents' = Intents
  BY DEF HostOf, HostsOf, Intents

\* What the fields of intents are.
LEMMA IntentFields ==
    ASSUME RoutesTyped
    PROVE  /\ Len(intents) \in Nat /\ DOMAIN intents = 1..Len(intents)
           /\ \A i \in DOMAIN intents :
                 /\ intents[i] \in Intents
                 /\ intents[i].routes \subseteq Entries /\ intents[i].dels \subseteq Entries
                 /\ intents[i].receipt \in {"none", "succeeded", "failed"}
                 /\ intents[i].ran \in {"no", "succeeded", "failed"}
  <1>1. intents \in Seq(Intents)
    BY DEF RoutesTyped
  <1>2. Len(intents) \in Nat /\ DOMAIN intents = 1..Len(intents)
    BY <1>1, LenProperties
  <1>3. \A i \in DOMAIN intents : intents[i] \in Intents
    BY <1>1, <1>2, ElementOfSeq
  <1> QED BY <1>2, <1>3 DEF Intents

\* A keeper of the steps that take none away is one afterwards.
LEMMA CovGrows ==
    ASSUME RoutesTyped, tour'.hosts = tour.hosts, Keepers \subseteq Keepers',
           NEW h, NEW X, NEW Y, Y \subseteq X, Cov(h, X)
    PROVE  Cov(h, Y)'
  <1>1. \A d \in Keepers : d \in Entries
    BY DEF Keepers, Desired, Dying, RoutesTyped
  <1> QED BY <1>1, HostsStay DEF Cov

\* At the start there is nothing but virtual hosts of domains.
LEMMA RoutesStart == ASSUME ManagedRoutesInit PROVE RoutesInv
  <1>0. SoundTour(tour) /\ entry = tour.rows
    BY RoutesAssumptions DEF ManagedRoutesInit
  <1>1. entry \in [Entries -> RouteRows] /\ DOMAIN tour = {"hosts", "rows", "requests", "signs", "mishaps"}
    BY <1>0 DEF SoundTour, RouteRows
  <1>2. \A d, e \in Entries : Exists(d) /\ Exists(e) /\ HostOf(d) = HostOf(e) => d = e
    BY <1>0 DEF SoundTour, Exists, HostOf
  <1>3. /\ vhosts = HostsOf(Desired) /\ intents = <<>> /\ inbox = <<>> /\ DOMAIN tombs = {}
        /\ calls = [c \in Callers |-> NoCall] /\ pushing = [p \in Pushers |-> NoPush]
        /\ burying = NoBurial /\ worker = NoWork
    BY DEF ManagedRoutesInit, NoTombs
  <1>4. RoutesTyped
    <2>1. vhosts \subseteq HostsOf(Entries)
      BY <1>3 DEF HostsOf, Desired
    <2>2. intents \in Seq(Intents) /\ inbox \in Seq(Nat)
      BY <1>3
    <2>3. calls \in [Callers -> Requests] /\ worker \in [pc : {"idle", "granted", "executed", "stored"}, op : Nat]
      BY <1>3 DEF NoCall, Requests, NoWork
    <2>4. pushing \in [Pushers -> [pc : {"idle", "built", "stored"}, routes : SUBSET Entries, op : Nat]]
      BY <1>3 DEF NoPush
    <2>5. burying \in [left : SUBSET (Entries \X BOOLEAN), now : SUBSET (Entries \X BOOLEAN)]
      BY <1>3 DEF NoBurial
    <2> QED BY <1>1, <1>3, <2>1, <2>2, <2>3, <2>4, <2>5 DEF RoutesTyped
  <1>5. CallsInv /\ MarkedInv
    BY <1>3 DEF CallsInv, MarkedInv, NoCall
  <1>6. NamesInv /\ DeletedInv /\ HeardInv
    BY <1>2, <1>3 DEF NamesInv, DeletedInv, HeardInv
  <1>7. BurialInv /\ BuriedInv
    BY <1>3 DEF BurialInv, BuriedInv, NoBurial
  <1>8. WorkInv
    BY <1>3 DEF WorkInv, Busy, NoWork, NoPush
  <1>9. ServedInv
    BY <1>3 DEF ServedInv, Cov, Keepers, HostsOf, Desired
  <1> QED BY <1>4, <1>5, <1>6, <1>7, <1>8, <1>9 DEF RoutesInv

\* What depends on intents and the worker only.
LEMMA IntentsStay ==
    ASSUME UNCHANGED <<intents, worker>>, NEW i
    PROVE  Counts(i)' = Counts(i) /\ Runs(i)' = Runs(i) /\ Beyond(i)' = Beyond(i) /\ Busy' = Busy
  BY DEF Counts, Runs, Beyond, Busy, Current

\* What is served stays served where every keeper that is lost has another in its place:
\* a domain on the agent, which is not about to be erased, nor among the deletions on record.
LEMMA KeepersServe ==
    ASSUME RoutesTyped, WorkInv, ServedInv, BuriedInv, HeardInv', BurialInv',
           tour'.hosts = tour.hosts, UNCHANGED <<intents, worker, vhosts, burying>>, spoiled \subseteq spoiled',
           \A k \in Keepers : \/ k \in Keepers' \/ HostOf(k) \in spoiled'
                              \/ \E d \in Desired' : HostOf(d) = HostOf(k),
           \A b \in burying.now : b[1] \in DOMAIN tombs =>
              \/ b[1] \in DOMAIN tombs' \/ HostOf(b[1]) \in spoiled'
              \/ \E d \in Desired' : HostOf(d) = HostOf(b[1])
    PROVE  ServedInv' /\ BuriedInv'
  <1>1. \A i : Runs(i)' = Runs(i) /\ Beyond(i)' = Beyond(i) /\ Counts(i)' = Counts(i)
    BY IntentsStay
  <1>2. /\ \A d \in Entries : HostOf(d)' = HostOf(d)
        /\ \A d \in Keepers : d \in Entries
        /\ \A d \in Desired' : d \in Entries /\ entry'[d].st = "live" /\ d \in Keepers'
    BY HostsStay DEF Keepers, Desired, Dying, RoutesTyped
  <1>3. \A i \in DOMAIN intents : intents[i].routes \subseteq Entries
    BY IntentFields
  <1>4. \A b \in burying.now : b[1] \in Entries /\ entry'[b[1]].st = "deleting"
    BY DEF RoutesTyped, BurialInv
  <1>5. ASSUME NEW i, NEW d \in Desired', d \in Beyond(i)
        PROVE  HostOf(d) \in spoiled'
    <2>1. Busy /\ worker.op \in DOMAIN intents /\ d \in intents[worker.op].dels
      BY <1>5 DEF Beyond, WorkInv
    <2>2. Counts(worker.op)
      BY <2>1 DEF Counts
    <2> QED BY <1>1, <1>2, <2>1, <2>2 DEF HeardInv
  <1>6. \A k \in Keepers : HostOf(k) \notin spoiled' =>
            \E m \in Keepers' : HostOf(m)' = HostOf(k) /\ HostOf(m) = HostOf(k) /\ (m = k \/ m \in Desired')
    BY <1>2
  <1>7. ServedInv'
    <2>1. ASSUME NEW h \in vhosts \ spoiled' PROVE \E k \in Keepers' : HostOf(k)' = h
      <3>1. PICK k \in Keepers : HostOf(k) = h
        BY <2>1 DEF ServedInv, Cov
      <3> QED BY <1>6, <3>1
    <2>2. ASSUME NEW i \in DOMAIN intents, Runs(i), NEW d \in intents[i].routes, HostOf(d) \notin spoiled'
          PROVE  \E k \in Keepers' \ Beyond(i) : HostOf(k)' = HostOf(d)
      <3>1. PICK k \in Keepers \ Beyond(i) : HostOf(k) = HostOf(d)
        BY <2>2 DEF ServedInv, Cov
      <3>2. \A x \in Desired' : HostOf(x) = HostOf(d) => x \notin Beyond(i)
        BY <1>5, <2>2
      <3> QED BY <1>6, <2>2, <3>1, <3>2
    <2>3. (\A h \in vhosts \ spoiled : Cov(h, {}))'
      BY <2>1 DEF Cov
    <2> QED BY <1>1, <1>2, <1>3, <2>2, <2>3 DEF ServedInv, Cov
  <1>8. ASSUME NEW e \in Entries, entry'[e].st = "deleting", HostOf(e) \notin spoiled', Replaced(e)
        PROVE  Replaced(e)'
    <2>1. \A i : \A d \in Desired' : HostOf(d) = HostOf(e) => d \notin Beyond(i) /\ d # e
      BY <1>2, <1>5, <1>8
    <2>2. ASSUME NEW i, NEW k \in Keepers \ ({e} \cup Beyond(i)), HostOf(k) = HostOf(e)
          PROVE  \E m \in Keepers' \ ({e} \cup Beyond(i)) : HostOf(m)' = HostOf(e)
      BY <1>6, <1>8, <2>1, <2>2
    <2>3. ASSUME NEW k \in Keepers \ {e}, HostOf(k) = HostOf(e)
          PROVE  \E m \in Keepers' \ {e} : HostOf(m)' = HostOf(e)
      BY <1>6, <1>8, <2>1, <2>3
    <2> QED BY <1>1, <1>2, <1>3, <1>8, <2>2, <2>3 DEF Replaced, Cov
  <1>9. ASSUME NEW e \in Entries, entry'[e].st = "deleting", NEW d \in Desired', HostOf(d) = HostOf(e),
               HostOf(e) \notin spoiled'
        PROVE  Replaced(e)'
    <2>1. \A i : d \notin Beyond(i)
      BY <1>5, <1>9
    <2>2. d \in Keepers' /\ d # e /\ HostOf(d)' = HostOf(e)' /\ HostOf(e)' = HostOf(e)
      BY <1>2, <1>9
    <2>3. Cov(HostOf(e), {e})' /\ \A i : Cov(HostOf(e), {e} \cup Beyond(i))'
      BY <1>1, <2>1, <2>2 DEF Cov
    <2> QED BY <2>3 DEF Replaced
  <1>10. BuriedInv'
    BY <1>2, <1>4, <1>8, <1>9 DEF BuriedInv
  <1> QED BY <1>7, <1>10

\* A row is born: no tombstone and no intent names it, and its name is free.
LEMMA CreateKeeps ==
    ASSUME RoutesInv, NEW c \in Callers, NEW d \in Entries, NEW here \in BOOLEAN, CreateRoute(c, d, here)
    PROVE  RoutesInv'
  <1> USE DEF RoutesInv
  <1>1. tour'.hosts = tour.hosts /\ DOMAIN tour' = DOMAIN tour
    BY ChargeStays DEF CreateRoute
  <1>2. (\A e \in Entries : HostOf(e)' = HostOf(e)) /\ HostsOf(Entries)' = HostsOf(Entries) /\ Intents' = Intents
    BY <1>1, HostsStay
  <1>3. /\ entry \in [Entries -> RouteRows] /\ entry[d].st = "unborn"
        /\ entry' = [entry EXCEPT ![d] = [st |-> "live", here |-> here]]
        /\ UNCHANGED <<tombs, intents, burying, pushing, inbox, worker, vhosts, spoiled>>
    BY DEF CreateRoute, RoutesTyped
  <1>4. entry'[d].st = "live" /\ entry'[d].here = here /\ \A e \in Entries : e # d => entry'[e] = entry[e]
    BY <1>3
  <1>5. /\ calls \in [Callers -> Requests] /\ calls[c].pc = "idle"
        /\ calls' = [calls EXCEPT ![c] =
                        IF here THEN [pc |-> "claim", kind |-> "create", dom |-> d, here |-> here] ELSE @]
    BY DEF CreateRoute, RoutesTyped
  <1>6. d \notin DOMAIN tombs /\ \A i \in DOMAIN intents : d \notin intents[i].dels
    BY <1>3 DEF NamesInv
  <1>7. Desired \subseteq Desired' /\ Desired' \subseteq Desired \cup {d} /\ Dying' = Dying
    BY <1>3, <1>4 DEF Desired, Dying
  <1>8. RoutesTyped'
    <2>1. entry' \in [Entries -> RouteRows]
      BY <1>3 DEF RouteRows
    <2>2. calls' \in [Callers -> Requests]
      BY <1>5 DEF Requests
    <2> QED BY <1>1, <1>2, <1>3, <2>1, <2>2 DEF RoutesTyped
  <1>9. CallsInv'
    <2>1. \A b \in Callers : b # c => calls'[b] = calls[b]
      BY <1>5
    <2>2. calls'[c].pc = "idle" \/ (/\ here = TRUE /\ calls'[c].pc = "claim" /\ calls'[c].kind = "create"
                                    /\ calls'[c].dom = d /\ calls'[c].here = TRUE)
      BY <1>5
    <2>3. \A b \in Callers : calls[b].pc # "idle" => calls[b].dom # d
      BY <1>3 DEF CallsInv
    <2> QED BY <1>4, <2>1, <2>2, <2>3 DEF CallsInv
  <1>10. NamesInv'
    <2>1. \A e \in Entries : Exists(e) => HostOf(e) # HostOf(d)
      BY DEF CreateRoute
    <2>2. \A e \in Entries : e # d => (Exists(e)' <=> Exists(e))
      BY <1>4 DEF Exists
    <2>3. \A e \in Entries : (entry[e].st = "unborn")' => entry[e].st = "unborn"
      BY <1>3, <1>4
    <2> QED BY <1>2, <1>3, <2>1, <2>2, <2>3 DEF NamesInv
  <1>11. BurialInv'
    <2>1. \A b \in burying.left \cup burying.now : b[1] \in Entries
      BY DEF RoutesTyped
    <2> QED BY <1>3, <1>4, <2>1 DEF BurialInv
  <1>12. WorkInv' /\ DeletedInv'
    <2>1. \A i : Counts(i)' = Counts(i) /\ Busy' = Busy
      BY <1>3, IntentsStay
    <2>2. \A i \in DOMAIN intents : intents[i].routes \subseteq Entries /\ intents[i].dels \subseteq Entries
      BY IntentFields
    <2>3. WorkInv'
      BY <1>3, <2>1 DEF WorkInv
    <2> QED BY <1>2, <1>3, <2>1, <2>2, <2>3 DEF DeletedInv
  <1>13. MarkedInv'
    <2>1. \A b \in Callers : calls'[b].pc = "write" => calls'[b] = calls[b] /\ calls[b].dom \in Entries
      BY <1>5 DEF CallsInv
    <2> QED BY <1>2, <1>3, <2>1 DEF MarkedInv
  <1>14. HeardInv'
    <2>1. \A i : Counts(i)' = Counts(i)
      BY <1>3, IntentsStay
    <2>2. \A e \in Desired : e \in Entries
      BY DEF Desired
    <2> QED BY <1>2, <1>3, <1>6, <1>7, <2>1, <2>2 DEF HeardInv
  <1>15. ServedInv' /\ BuriedInv'
    <2>1. Keepers \subseteq Keepers'
      BY <1>3, <1>7 DEF Keepers
    <2> QED BY <1>1, <1>3, <1>11, <1>14, <2>1, KeepersServe
  <1> QED BY <1>8, <1>9, <1>10, <1>11, <1>12, <1>13, <1>14, <1>15

\* What does not change the rows, the calls, the tombstones and the intents, keeps what
\* is said of them.
LEMMA RowsStay ==
    ASSUME RoutesInv, tour'.hosts = tour.hosts, UNCHANGED entry, DOMAIN tombs \subseteq DOMAIN tombs',
           \A d \in DOMAIN tombs' : d \in DOMAIN tombs \/ (d \in Entries /\ entry[d].st # "unborn"),
           UNCHANGED <<intents, worker, vhosts, spoiled>>
    PROVE  /\ NamesInv' /\ DeletedInv' /\ HeardInv' /\ Keepers \subseteq Keepers'
           /\ (UNCHANGED calls => CallsInv' /\ MarkedInv')
           /\ (UNCHANGED burying => BurialInv' /\ ServedInv' /\ BuriedInv')
           /\ (UNCHANGED <<inbox, pushing>> => WorkInv')
  <1> USE DEF RoutesInv
  <1>1. \A e \in Entries : HostOf(e)' = HostOf(e) /\ Exists(e)' = Exists(e)
    BY HostsStay DEF Exists
  <1>2. \A i : Counts(i)' = Counts(i) /\ Busy' = Busy
    BY IntentsStay
  <1>3. \A i \in DOMAIN intents : intents[i].routes \subseteq Entries /\ intents[i].dels \subseteq Entries
    BY IntentFields
  <1>4. Desired' = Desired /\ Dying' = Dying
    BY DEF Desired, Dying
  <1>5. NamesInv'
    BY <1>1 DEF NamesInv
  <1>6. DeletedInv'
    BY <1>1, <1>2, <1>3 DEF DeletedInv
  <1>7. HeardInv'
    <2>1. \A e \in Desired : e \in Entries
      BY DEF Desired
    <2> QED BY <1>1, <1>2, <1>4, <2>1 DEF HeardInv
  <1>8. Keepers \subseteq Keepers'
    BY <1>4 DEF Keepers
  <1>9. ASSUME UNCHANGED calls PROVE CallsInv' /\ MarkedInv'
    <2>1. CallsInv'
      BY <1>9 DEF CallsInv
    <2>2. \A c \in Callers : calls[c].pc = "write" => calls[c].dom \in Entries
      BY DEF CallsInv
    <2> QED BY <1>1, <1>9, <2>1, <2>2 DEF MarkedInv
  <1>10. ASSUME UNCHANGED burying PROVE BurialInv' /\ ServedInv' /\ BuriedInv'
    <2>1. BurialInv'
      BY <1>10 DEF BurialInv
    <2> QED BY <1>7, <1>8, <1>10, <2>1, KeepersServe
  <1>11. ASSUME UNCHANGED <<inbox, pushing>> PROVE WorkInv'
    BY <1>2, <1>11 DEF WorkInv
  <1> QED BY <1>5, <1>6, <1>7, <1>8, <1>9, <1>10, <1>11

\* A request reads a row, and no other is under way for it.
LEMMA ReadKeeps ==
    ASSUME ~Overlap, RoutesInv, NEW c \in Callers, NEW d \in Entries, NEW kind \in {"move", "delete"},
           ReadRoute(c, d, kind)
    PROVE  RoutesInv'
  <1> USE DEF RoutesInv
  <1>1. tour'.hosts = tour.hosts /\ DOMAIN tour' = DOMAIN tour
    BY ChargeStays DEF ReadRoute
  <1>2. (\A e \in Entries : HostOf(e)' = HostOf(e)) /\ HostsOf(Entries)' = HostsOf(Entries) /\ Intents' = Intents
    BY <1>1, HostsStay
  <1>3. /\ entry \in [Entries -> RouteRows] /\ entry[d].st = "live" /\ entry[d].here \in BOOLEAN
        /\ \A b \in Callers : calls[b].pc # "idle" => calls[b].dom # d
        /\ UNCHANGED <<entry, tombs, intents, burying, pushing, inbox, worker, vhosts, spoiled>>
    BY DEF ReadRoute, RoutesTyped, OneAtATime, RouteRows
  <1>4. /\ calls \in [Callers -> Requests]
        /\ calls' = [calls EXCEPT ![c] = [pc |-> IF entry[d].here THEN "mark" ELSE "write", kind |-> kind,
                                          dom |-> d, here |-> entry[d].here]]
    BY DEF ReadRoute, RoutesTyped
  <1>5. /\ \A b \in Callers : b # c => calls'[b] = calls[b]
        /\ calls'[c].kind = kind /\ calls'[c].dom = d /\ calls'[c].here = entry[d].here
        /\ \/ calls'[c].pc = "mark" /\ entry[d].here = TRUE
           \/ calls'[c].pc = "write" /\ entry[d].here = FALSE
    BY <1>3, <1>4
  <1>6. RoutesTyped'
    <2>1. calls' \in [Callers -> Requests]
      BY <1>3, <1>4 DEF Requests
    <2> QED BY <1>1, <1>2, <1>3, <2>1 DEF RoutesTyped
  <1>7. CallsInv'
    BY <1>3, <1>5 DEF CallsInv
  <1>8. MarkedInv'
    <2>1. \A b \in Callers : calls[b].pc = "write" => calls[b].dom \in Entries
      BY DEF CallsInv
    <2>2. ASSUME NEW b \in Callers, calls'[b].pc = "write", calls'[b].here
          PROVE  b # c
      BY <1>5, <2>2
    <2> QED BY <1>2, <1>3, <1>5, <2>1, <2>2 DEF MarkedInv
  <1> QED BY <1>1, <1>3, <1>6, <1>7, <1>8, RowsStay

\* The tombstone is there before the row says that the domain has left.
LEMMA MarkKeeps ==
    ASSUME RoutesInv, NEW c \in Callers, MarkRoute(c)
    PROVE  RoutesInv'
  <1> USE DEF RoutesInv
  <1>1. /\ calls \in [Callers -> Requests] /\ calls[c].pc = "mark"
        /\ calls' = [calls EXCEPT ![c].pc = "write"]
        /\ UNCHANGED <<tour, entry, intents, burying, pushing, inbox, worker, vhosts, spoiled>>
    BY DEF MarkRoute, RoutesTyped
  <1>2. calls[c].dom \in Entries /\ entry[calls[c].dom].st = "live" /\ DOMAIN tombs \subseteq Entries
    BY <1>1 DEF CallsInv, RoutesTyped
  <1>3. DOMAIN tombs' = DOMAIN tombs \cup {calls[c].dom}
    BY DEF MarkRoute, Upserted
  <1>4. (\A e \in Entries : HostOf(e)' = HostOf(e)) /\ HostsOf(Entries)' = HostsOf(Entries) /\ Intents' = Intents
    BY <1>1, HostsStay
  <1>5. /\ \A b \in Callers : b # c => calls'[b] = calls[b]
        /\ calls'[c].pc = "write" /\ calls'[c].dom = calls[c].dom /\ calls'[c].here = calls[c].here
        /\ calls'[c].kind = calls[c].kind
    BY <1>1 DEF Requests
  <1>6. RoutesTyped'
    <2>1. calls' \in [Callers -> Requests]
      BY <1>1 DEF Requests
    <2> QED BY <1>1, <1>2, <1>3, <1>4, <2>1 DEF RoutesTyped
  <1>7. CallsInv'
    <2>1. \A b \in Callers : calls'[b].pc # "idle" => calls[b].pc # "idle" /\ calls'[b].dom = calls[b].dom
      BY <1>1, <1>5
    <2> QED BY <1>1, <1>5, <2>1 DEF CallsInv
  <1>8. MarkedInv'
    <2>1. \A b \in Callers : calls[b].pc = "write" => calls[b].dom \in Entries
      BY DEF CallsInv
    <2> QED BY <1>1, <1>3, <1>4, <1>5, <2>1 DEF MarkedInv
  <1> QED BY <1>1, <1>2, <1>3, <1>6, <1>7, <1>8, RowsStay

\* A row is written as the request has read it: what leaves the agent has its tombstone,
\* and what comes back too early is on record as spoiled.
LEMMA WriteKeeps ==
    ASSUME RoutesInv, NEW c \in Callers, WriteRoute(c)
    PROVE  RoutesInv'
  <1> USE DEF RoutesInv
  <1> DEFINE d == calls[c].dom
  <1>1. /\ calls \in [Callers -> Requests] /\ calls[c].pc = "write" /\ entry \in [Entries -> RouteRows]
        /\ UNCHANGED <<tour, tombs, intents, burying, pushing, inbox, worker, vhosts>>
    BY DEF WriteRoute, RoutesTyped
  <1>2. /\ d \in Entries /\ entry[d].st = "live" /\ calls[c].here = entry[d].here
        /\ calls[c].here \in BOOLEAN /\ calls[c].kind \in {"create", "move", "delete"}
    BY <1>1 DEF CallsInv, Requests
  <1>3. /\ entry' = [entry EXCEPT ![d] = IF calls[c].kind = "delete" THEN [@ EXCEPT !.st = "deleting"]
                                         ELSE [st |-> "live", here |-> ~calls[c].here]]
        /\ calls' = [calls EXCEPT ![c] = IF calls[c].kind = "move" /\ ~calls[c].here
                                         THEN [@ EXCEPT !.pc = "claim"] ELSE NoCall]
        /\ spoiled' = spoiled \cup HostsOf(Desired' \cap Unconfirmed)
    BY DEF WriteRoute
  <1>4. (\A e \in Entries : HostOf(e)' = HostOf(e)) /\ HostsOf(Entries)' = HostsOf(Entries) /\ Intents' = Intents
    BY <1>1, HostsStay
  <1> HIDE DEF d
  <1>5. \A e \in Entries : e # d => entry'[e] = entry[e]
    BY <1>1, <1>3
  <1>6. \/ entry'[d].st = "deleting" /\ entry'[d].here = entry[d].here
        \/ entry'[d].st = "live" /\ entry'[d].here = TRUE /\ entry[d].here = FALSE
        \/ entry'[d].st = "live" /\ entry'[d].here = FALSE /\ entry[d].here = TRUE
    <2>1. CASE calls[c].kind = "delete"
      <3>1. entry'[d] = [entry[d] EXCEPT !.st = "deleting"]
        BY <1>1, <1>2, <1>3, <2>1
      <3>2. entry[d] \in RouteRows
        BY <1>1, <1>2
      <3> QED BY <3>1, <3>2 DEF RouteRows
    <2>2. CASE calls[c].kind # "delete"
      <3>1. CASE calls[c].here = TRUE
        <4>1. entry'[d] = [st |-> "live", here |-> FALSE]
          BY <1>1, <1>2, <1>3, <2>2, <3>1
        <4> QED BY <1>2, <3>1, <4>1
      <3>2. CASE calls[c].here = FALSE
        <4>1. entry'[d] = [st |-> "live", here |-> TRUE]
          BY <1>1, <1>2, <1>3, <2>2, <3>2
        <4> QED BY <1>2, <3>2, <4>1
      <3> QED BY <1>2, <3>1, <3>2
    <2> QED BY <2>1, <2>2
  <1>7. /\ \A b \in Callers : b # c => calls'[b] = calls[b]
        /\ \/ calls'[c].pc = "idle"
           \/ /\ calls'[c].pc = "claim" /\ calls'[c].dom = d /\ calls'[c].kind # "none"
              /\ entry'[d].st = "live" /\ entry'[d].here = TRUE
    <2>1. \A b \in Callers : b # c => calls'[b] = calls[b]
      BY <1>1, <1>3
    <2>2. CASE calls[c].kind = "move" /\ calls[c].here = FALSE
      <3>1. calls'[c] = [calls[c] EXCEPT !.pc = "claim"]
        BY <1>1, <1>3, <2>2
      <3>2. calls[c] \in Requests
        BY <1>1
      <3>3. entry'[d] = [st |-> "live", here |-> TRUE]
        BY <1>1, <1>2, <1>3, <2>2
      <3>4. calls[c].dom = d
        BY DEF d
      <3> QED BY <2>1, <2>2, <3>1, <3>2, <3>3, <3>4 DEF Requests
    <2>3. CASE ~(calls[c].kind = "move" /\ calls[c].here = FALSE)
      <3>1. calls'[c] = NoCall
        BY <1>1, <1>2, <1>3, <2>3
      <3> QED BY <2>1, <3>1 DEF NoCall
    <2> QED BY <2>2, <2>3
  <1>8. RoutesTyped'
    <2>1. entry' \in [Entries -> RouteRows]
      BY <1>1, <1>2, <1>3 DEF RouteRows
    <2>2. calls' \in [Callers -> Requests]
      <3>1. NoCall \in Requests
        BY DEF NoCall, Requests
      <3>2. [calls[c] EXCEPT !.pc = "claim"] \in Requests
        BY <1>1 DEF Requests
      <3> QED BY <1>1, <1>3, <3>1, <3>2
    <2> QED BY <1>1, <1>4, <2>1, <2>2 DEF RoutesTyped
  <1>9. \A b \in Callers : calls[b].pc # "idle" /\ b # c => calls[b].dom # d
    BY <1>1 DEF CallsInv, d
  <1>10. CallsInv'
    <2>1. \A b \in Callers : calls'[b].pc # "idle" =>
              \/ b # c /\ calls'[b] = calls[b] /\ calls[b].pc # "idle" /\ calls[b].dom # d
              \/ b = c
      BY <1>7, <1>9
    <2>2. \A b \in Callers : calls[b].pc # "idle" /\ b # c => entry'[calls[b].dom] = entry[calls[b].dom]
      BY <1>5, <1>9 DEF CallsInv
    <2>3. \A b \in Callers : calls'[b].pc # "idle" =>
              /\ calls'[b].dom \in Entries /\ entry'[calls'[b].dom].st = "live" /\ calls'[b].kind # "none"
              /\ calls'[b].pc \in {"mark", "write"} => calls'[b].here = entry'[calls'[b].dom].here
              /\ calls'[b].pc \in {"mark", "claim"} => entry'[calls'[b].dom].here = TRUE
      BY <1>2, <1>7, <2>1, <2>2 DEF CallsInv
    <2>4. \A a, b \in Callers :
              calls'[a].pc # "idle" /\ calls'[b].pc # "idle" /\ calls'[a].dom = calls'[b].dom => a = b
      BY <1>7, <2>1 DEF CallsInv
    <2> QED BY <2>3, <2>4 DEF CallsInv
  <1>11. NamesInv'
    <2>1. \A e \in Entries : Exists(e)' <=> Exists(e)
      BY <1>2, <1>5, <1>6 DEF Exists
    <2>2. \A e \in Entries : (entry[e].st = "unborn")' => entry[e].st = "unborn"
      BY <1>5, <1>6
    <2> QED BY <1>1, <1>4, <2>1, <2>2 DEF NamesInv
  <1>12. BurialInv'
    <2>1. \A b \in burying.left \cup burying.now : b[1] \in Entries /\ b[1] # d
      BY <1>2 DEF RoutesTyped, BurialInv
    <2> QED BY <1>1, <1>5, <2>1 DEF BurialInv
  <1>13. WorkInv' /\ DeletedInv'
    <2>1. \A i : Counts(i)' = Counts(i) /\ Busy' = Busy
      BY <1>1, IntentsStay
    <2>2. \A i \in DOMAIN intents : intents[i].routes \subseteq Entries /\ intents[i].dels \subseteq Entries
      BY IntentFields
    <2>3. WorkInv'
      BY <1>1, <2>1 DEF WorkInv
    <2> QED BY <1>1, <1>4, <2>1, <2>2, <2>3 DEF DeletedInv
  <1>14. MarkedInv'
    <2>1. \A b \in Callers : calls'[b].pc = "write" => b # c /\ calls'[b] = calls[b] /\ calls[b].dom \in Entries
      BY <1>7 DEF CallsInv
    <2> QED BY <1>1, <1>3, <1>4, <2>1 DEF MarkedInv
  <1>15. HeardInv'
    <2>1. \A i : Counts(i)' = Counts(i)
      BY <1>1, IntentsStay
    <2>2. ASSUME NEW e \in Desired', NEW i \in DOMAIN intents, Counts(i), e \in intents[i].dels
          PROVE  HostOf(e) \in spoiled'
      <3>1. e \in Unconfirmed
        BY <2>2 DEF Unconfirmed, Counts, Busy, Current
      <3> QED BY <1>3, <2>2, <3>1 DEF HostsOf
    <2>3. \A e \in Desired' : e \in Entries
      BY DEF Desired
    <2> QED BY <1>1, <1>4, <2>1, <2>2, <2>3 DEF HeardInv
  <1>16. ServedInv' /\ BuriedInv'
    <2>1. \A k \in Keepers : k \in Keepers' \/ HostOf(k) \in spoiled'
      <3>1. ASSUME NEW k \in Keepers, k # d PROVE k \in Keepers'
        BY <1>1, <1>5, <3>1 DEF Keepers, Desired, Dying
      <3>2. ASSUME d \in Keepers PROVE d \in Keepers' \/ HostOf(d) \in spoiled'
        <4>1. CASE d \in DOMAIN tombs
          BY <1>1, <4>1 DEF Keepers
        <4>2. CASE entry[d].here = FALSE
          <5>1. d \notin Desired /\ d \notin Dying
            BY <4>2 DEF Desired, Dying
          <5> QED BY <3>2, <4>1, <5>1 DEF Keepers
        <4>3. CASE entry[d].here = TRUE /\ d \notin DOMAIN tombs
          BY <1>1, <1>2, <1>3, <4>3 DEF MarkedInv, d
        <4> QED BY <1>2, <4>1, <4>2, <4>3
      <3> QED BY <3>1, <3>2
    <2>2. spoiled \subseteq spoiled'
      BY <1>3
    <2> QED BY <1>1, <1>12, <1>15, <2>1, <2>2, KeepersServe
  <1> QED BY <1>8, <1>10, <1>11, <1>12, <1>13, <1>14, <1>15, <1>16

\* Tombstones are dropped of what is on the agent again or still: its domain, or another
\* that has the host, keeps the virtual host.
LEMMA DropKeeps ==
    ASSUME RoutesInv, tour'.hosts = tour.hosts, DOMAIN tour' = DOMAIN tour, NEW c \in Callers,
           calls[c].pc # "idle", calls' = [calls EXCEPT ![c] = NoCall],
           DOMAIN tombs' \subseteq DOMAIN tombs,
           \A e \in DOMAIN tombs \ DOMAIN tombs' :
              \E d \in Desired : HostOf(d) = HostOf(e) /\ d = calls[c].dom,
           UNCHANGED <<entry, intents, burying, pushing, inbox, worker, vhosts, spoiled>>
    PROVE  RoutesInv'
  <1> USE DEF RoutesInv
  <1>1. (\A e \in Entries : HostOf(e)' = HostOf(e)) /\ HostsOf(Entries)' = HostsOf(Entries) /\ Intents' = Intents
    BY HostsStay
  <1>2. calls \in [Callers -> Requests] /\ entry \in [Entries -> RouteRows] /\ DOMAIN tombs \subseteq Entries
    BY DEF RoutesTyped
  <1>3. calls'[c].pc = "idle" /\ \A b \in Callers : b # c => calls'[b] = calls[b]
    BY <1>2 DEF NoCall
  <1>4. Desired' = Desired /\ Dying' = Dying /\ \A e \in Entries : Exists(e)' = Exists(e)
    BY DEF Desired, Dying, Exists
  <1>5. RoutesTyped'
    <2>1. calls' \in [Callers -> Requests]
      BY <1>2 DEF NoCall, Requests
    <2> QED BY <1>1, <1>2, <2>1 DEF RoutesTyped
  <1>6. CallsInv'
    BY <1>3 DEF CallsInv
  <1>7. NamesInv'
    BY <1>1, <1>4 DEF NamesInv
  <1>8. BurialInv'
    BY DEF BurialInv
  <1>9. \A i : Counts(i)' = Counts(i) /\ Busy' = Busy
    BY IntentsStay
  <1>10. WorkInv'
    BY <1>9 DEF WorkInv
  <1>11. DeletedInv'
    <2>1. \A i \in DOMAIN intents : intents[i].routes \subseteq Entries /\ intents[i].dels \subseteq Entries
      BY IntentFields
    <2> QED BY <1>1, <1>9, <2>1 DEF DeletedInv
  <1>12. MarkedInv'
    <2>1. ASSUME NEW b \in Callers, calls'[b].pc = "write", calls'[b].here
          PROVE  calls'[b].dom \in DOMAIN tombs' \/ HostOf(calls[b].dom) \in spoiled
      <3>1. b # c /\ calls'[b] = calls[b] /\ calls[b].dom \in Entries /\ calls[b].dom # calls[c].dom
        BY <1>3, <2>1 DEF CallsInv
      <3>2. calls[b].dom \in DOMAIN tombs \/ HostOf(calls[b].dom) \in spoiled
        BY <2>1, <3>1 DEF MarkedInv
      <3>3. ASSUME calls[b].dom \in DOMAIN tombs \ DOMAIN tombs' PROVE FALSE
        <4>1. PICK d \in Desired : HostOf(d) = HostOf(calls[b].dom) /\ d = calls[c].dom
          BY <3>3
        <4>2. Exists(d) /\ Exists(calls[b].dom) /\ d \in Entries
          BY <2>1, <3>1 DEF Exists, Desired, CallsInv
        <4> QED BY <3>1, <4>1, <4>2 DEF NamesInv
      <3> QED BY <3>1, <3>2, <3>3
    <2>2. \A b \in Callers : calls'[b].pc = "write" => calls'[b].dom = calls[b].dom /\ calls[b].dom \in Entries
      BY <1>3 DEF CallsInv
    <2> QED BY <1>1, <2>1, <2>2 DEF MarkedInv
  <1>13. HeardInv'
    <2>1. \A e \in Desired : e \in Entries
      BY DEF Desired
    <2> QED BY <1>1, <1>4, <1>9, <2>1 DEF HeardInv
  <1>14. ServedInv' /\ BuriedInv'
    <2>1. \A k \in Keepers : k \in Keepers' \/ \E d \in Desired' : HostOf(d) = HostOf(k)
      BY <1>4 DEF Keepers
    <2>2. \A b \in burying.now : b[1] \in DOMAIN tombs =>
             b[1] \in DOMAIN tombs' \/ \E d \in Desired' : HostOf(d) = HostOf(b[1])
      BY <1>4
    <2> QED BY <1>8, <1>13, <2>1, <2>2, KeepersServe
  <1> QED BY <1>5, <1>6, <1>7, <1>8, <1>10, <1>11, <1>12, <1>13, <1>14

\* A request that comes to nothing takes its own tombstone back.
LEMMA RefusedKeeps ==
    ASSUME RoutesInv, NEW c \in Callers, WriteRefused(c)
    PROVE  RoutesInv'
  <1> USE DEF RoutesInv
  <1>1. tour'.hosts = tour.hosts /\ DOMAIN tour' = DOMAIN tour
    BY ChargeStays DEF WriteRefused
  <1>2. /\ calls[c].pc = "write" /\ calls' = [calls EXCEPT ![c] = NoCall]
        /\ UNCHANGED <<entry, intents, burying, pushing, inbox, worker, vhosts, spoiled>>
        /\ tombs' = IF calls[c].here THEN Dropped({calls[c].dom}) ELSE tombs
    BY DEF WriteRefused, Aborted
  <1>3. /\ calls[c].here \in BOOLEAN /\ calls[c].dom \in Entries
        /\ calls[c].here = TRUE => calls[c].dom \in Desired
    BY <1>2 DEF CallsInv, RoutesTyped, Requests, Desired
  <1>4. /\ DOMAIN tombs' \subseteq DOMAIN tombs
        /\ \A e \in DOMAIN tombs \ DOMAIN tombs' : calls[c].here = TRUE /\ e = calls[c].dom
    <2>1. CASE calls[c].here = TRUE
      BY <1>2, <2>1 DEF Dropped
    <2>2. CASE calls[c].here = FALSE
      BY <1>2, <2>2
    <2> QED BY <1>3, <2>1, <2>2
  <1> QED BY <1>1, <1>2, <1>3, <1>4, DropKeeps

\* A domain that comes to the agent takes its host from the tombstones.
LEMMA ClaimKeeps ==
    ASSUME RoutesInv, NEW c \in Callers, ClaimRoute(c)
    PROVE  RoutesInv'
  <1> USE DEF RoutesInv
  <1>1. /\ calls[c].pc = "claim" /\ calls' = [calls EXCEPT ![c] = NoCall]
        /\ UNCHANGED <<tour, entry, intents, burying, pushing, inbox, worker, vhosts, spoiled>>
    BY DEF ClaimRoute
  <1>2. calls[c].dom \in Desired
    BY <1>1 DEF CallsInv, Desired
  <1>3. DOMAIN tombs' = DOMAIN tombs \ {e \in DOMAIN tombs : e = calls[c].dom \/ HostOf(e) = HostOf(calls[c].dom)}
    BY DEF ClaimRoute, Dropped, Colliding
  <1>4. /\ DOMAIN tombs' \subseteq DOMAIN tombs
        /\ \A e \in DOMAIN tombs \ DOMAIN tombs' : HostOf(calls[c].dom) = HostOf(e)
    BY <1>3
  <1> QED BY <1>1, <1>2, <1>4, DropKeeps

\* Where no keeper is lost, the virtual hosts have theirs.
LEMMA GrowthServes ==
    ASSUME RoutesTyped, ServedInv, tour'.hosts = tour.hosts, UNCHANGED <<intents, worker, vhosts, spoiled>>,
           Keepers \subseteq Keepers'
    PROVE  ServedInv'
  <1>1. \A i : Runs(i)' = Runs(i) /\ Beyond(i)' = Beyond(i)
    BY IntentsStay
  <1>2. (\A d \in Entries : HostOf(d)' = HostOf(d)) /\ \A k \in Keepers : k \in Entries
    BY HostsStay DEF Keepers, Desired, Dying, RoutesTyped
  <1>3. \A i \in DOMAIN intents : intents[i].routes \subseteq Entries
    BY IntentFields
  <1>4. (\A h \in vhosts \ spoiled : Cov(h, {}))'
    BY <1>2 DEF ServedInv, Cov
  <1>5. ASSUME NEW i \in DOMAIN intents, Runs(i), NEW d \in intents[i].routes, HostOf(d) \notin spoiled
        PROVE  \E k \in Keepers' \ Beyond(i) : HostOf(k)' = HostOf(d)
    <2>1. PICK k \in Keepers \ Beyond(i) : HostOf(k) = HostOf(d)
      BY <1>5 DEF ServedInv, Cov
    <2> QED BY <1>2, <2>1
  <1> QED BY <1>1, <1>2, <1>3, <1>4, <1>5 DEF ServedInv, Cov

\* The teardown lists what is to be deleted.
LEMMA ListKeeps == ASSUME RoutesInv, ListBurials PROVE RoutesInv'
  <1> USE DEF RoutesInv
  <1>1. UNCHANGED <<tour, entry, tombs, intents, calls, pushing, inbox, worker, vhosts, spoiled>>
    BY DEF ListBurials
  <1>2. HostsOf(Entries)' = HostsOf(Entries) /\ Intents' = Intents
    BY <1>1, HostsStay
  <1>3. /\ burying'.left = {<<d, entry[d].here>> : d \in {e \in Entries : entry[e].st = "deleting"}}
        /\ burying' = [left |-> burying'.left, now |-> {}]
    BY DEF ListBurials, NoBurial
  <1>4. \A b \in burying'.left : b \in Entries \X BOOLEAN /\ entry[b[1]].st = "deleting" /\ entry[b[1]].here = b[2]
    <2>1. \A d \in Entries : entry[d].here \in BOOLEAN
      BY DEF RoutesTyped, RouteRows
    <2> QED BY <1>3, <2>1
  <1>5. burying'.now = {}
    BY <1>3
  <1>6. RoutesTyped'
    <2>1. burying' \in [left : SUBSET (Entries \X BOOLEAN), now : SUBSET (Entries \X BOOLEAN)]
      BY <1>3, <1>4
    <2> QED BY <1>1, <1>2, <2>1 DEF RoutesTyped
  <1>7. BurialInv' /\ BuriedInv'
    <2>1. BurialInv'
      BY <1>1, <1>4, <1>5 DEF BurialInv
    <2> QED BY <1>5, <2>1 DEF BuriedInv
  <1>8. NamesInv' /\ DeletedInv' /\ HeardInv' /\ CallsInv' /\ MarkedInv' /\ WorkInv' /\ Keepers \subseteq Keepers'
    BY <1>1, RowsStay
  <1>9. ServedInv'
    BY <1>1, <1>8, GrowthServes
  <1> QED BY <1>6, <1>7, <1>8, <1>9

\* It leaves a tombstone of what is on the agent.
LEMMA BuryKeeps == ASSUME RoutesInv, MarkBurial PROVE RoutesInv'
  <1> USE DEF RoutesInv
  <1>1. burying.now = {} /\ UNCHANGED <<tour, entry, intents, calls, pushing, inbox, worker, vhosts, spoiled>>
    BY DEF MarkBurial
  <1>2. PICK b \in burying.left : /\ tombs' = IF b[2] THEN Upserted(b[1]) ELSE tombs
                                  /\ burying' = [left |-> burying.left \ {b}, now |-> {b}]
    BY DEF MarkBurial
  <1>3. /\ burying.left \subseteq Entries \X BOOLEAN /\ b \in Entries \X BOOLEAN
        /\ entry[b[1]].st = "deleting" /\ entry[b[1]].here = b[2] /\ DOMAIN tombs \subseteq Entries
    BY <1>2 DEF RoutesTyped, BurialInv
  <1>4. /\ DOMAIN tombs \subseteq DOMAIN tombs' /\ DOMAIN tombs' \subseteq DOMAIN tombs \cup {b[1]}
        /\ b[2] = TRUE => b[1] \in DOMAIN tombs'
    <2>1. CASE b[2] = TRUE
      BY <1>2, <2>1 DEF Upserted
    <2>2. CASE b[2] = FALSE
      BY <1>2, <2>2
    <2> QED BY <1>3, <2>1, <2>2
  <1>5. HostsOf(Entries)' = HostsOf(Entries) /\ Intents' = Intents
    BY <1>1, HostsStay
  <1>6. burying'.left = burying.left \ {b} /\ burying'.now = {b}
    BY <1>2
  <1>7. RoutesTyped'
    <2>1. burying' \in [left : SUBSET (Entries \X BOOLEAN), now : SUBSET (Entries \X BOOLEAN)]
      BY <1>2, <1>3
    <2>2. DOMAIN tombs' \subseteq Entries
      BY <1>3, <1>4
    <2> QED BY <1>1, <1>5, <2>1, <2>2 DEF RoutesTyped
  <1>8. BurialInv'
    <2>1. \A x \in burying.left : entry[x[1]].st = "deleting" /\ entry[x[1]].here = x[2]
      BY DEF BurialInv
    <2>2. ASSUME NEW x \in burying.left \ {b} PROVE x[1] # b[1]
      <3>1. x \in Entries \X BOOLEAN /\ x # b
        BY <1>3
      <3>2. x = <<x[1], x[2]>> /\ b = <<b[1], b[2]>>
        BY <1>3, <3>1
      <3>3. x[1] = b[1] => x[2] = b[2]
        BY <1>3, <2>1
      <3> QED BY <3>1, <3>2, <3>3
    <2> QED BY <1>1, <1>2, <1>6, <2>1, <2>2 DEF BurialInv
  <1>9. BuriedInv'
    BY <1>4, <1>6 DEF BuriedInv
  <1>10. NamesInv' /\ DeletedInv' /\ HeardInv' /\ CallsInv' /\ MarkedInv' /\ WorkInv' /\ Keepers \subseteq Keepers'
    <2>1. \A d \in DOMAIN tombs' : d \in DOMAIN tombs \/ (d \in Entries /\ entry[d].st # "unborn")
      BY <1>3, <1>4
    <2> QED BY <1>1, <1>4, <2>1, RowsStay
  <1>11. ServedInv'
    BY <1>1, <1>10, GrowthServes
  <1> QED BY <1>7, <1>8, <1>9, <1>10, <1>11

\* The row goes: what it kept its tombstone keeps, or another keeper.
LEMMA EraseKeeps == ASSUME RoutesInv, EraseRoute PROVE RoutesInv'
  <1> USE DEF RoutesInv
  <1>1. UNCHANGED <<tour, tombs, intents, calls, pushing, inbox, worker, vhosts, spoiled>>
    BY DEF EraseRoute
  <1>2. PICK b \in burying.now : entry' = [entry EXCEPT ![b[1]] = [st |-> "gone", here |-> FALSE]]
    BY DEF EraseRoute
  <1> DEFINE e == b[1]
  <1>3. /\ b \in Entries \X BOOLEAN /\ entry[e].st = "deleting" /\ entry[e].here = b[2] /\ e \in Entries
        /\ entry \in [Entries -> RouteRows]
    BY <1>2 DEF RoutesTyped, BurialInv
  <1>4. burying' = [left |-> burying.left, now |-> {}]
    BY DEF EraseRoute, RoutesTyped
  <1>5. entry'[e].st = "gone" /\ \A d \in Entries : d # e => entry'[d] = entry[d]
    BY <1>2, <1>3
  <1>6. \A x \in burying.left : x[1] # e /\ x[1] \in Entries
    BY <1>2 DEF BurialInv, RoutesTyped
  <1>7. b[2] = TRUE => e \in DOMAIN tombs \/ HostOf(e) \in spoiled \/ Replaced(e)
    BY <1>2 DEF BuriedInv
  <1> HIDE DEF e
  <1>8. (\A d \in Entries : HostOf(d)' = HostOf(d)) /\ HostsOf(Entries)' = HostsOf(Entries) /\ Intents' = Intents
    BY <1>1, HostsStay
  <1>9. Desired' = Desired /\ Dying' = Dying \ {e} /\ e \notin Desired
    BY <1>3, <1>5 DEF Desired, Dying
  <1>10. RoutesTyped'
    <2>1. entry' \in [Entries -> RouteRows]
      BY <1>2, <1>3 DEF RouteRows
    <2>2. burying' \in [left : SUBSET (Entries \X BOOLEAN), now : SUBSET (Entries \X BOOLEAN)]
      BY <1>4 DEF RoutesTyped
    <2> QED BY <1>1, <1>8, <2>1, <2>2 DEF RoutesTyped
  <1>11. CallsInv'
    <2>1. \A c \in Callers : calls[c].pc # "idle" => entry'[calls[c].dom] = entry[calls[c].dom]
      BY <1>3, <1>5 DEF CallsInv
    <2> QED BY <1>1, <2>1 DEF CallsInv
  <1>12. NamesInv'
    <2>1. \A d \in Entries : (Exists(d)' => Exists(d)) /\ (entry'[d].st = "unborn" => entry[d].st = "unborn")
      BY <1>5 DEF Exists
    <2> QED BY <1>1, <1>8, <2>1 DEF NamesInv
  <1>13. BurialInv' /\ BuriedInv'
    <2>1. burying'.left = burying.left /\ burying'.now = {}
      BY <1>4
    <2>2. BurialInv'
      BY <1>5, <1>6, <2>1 DEF BurialInv
    <2> QED BY <2>1, <2>2 DEF BuriedInv
  <1>14. \A i : Counts(i)' = Counts(i) /\ Runs(i)' = Runs(i) /\ Beyond(i)' = Beyond(i) /\ Busy' = Busy
    BY <1>1, IntentsStay
  <1>15. \A i \in DOMAIN intents : intents[i].routes \subseteq Entries /\ intents[i].dels \subseteq Entries
    BY IntentFields
  <1>16. WorkInv' /\ DeletedInv'
    <2>1. WorkInv'
      BY <1>1, <1>14 DEF WorkInv
    <2> QED BY <1>1, <1>8, <1>14, <1>15, <2>1 DEF DeletedInv
  <1>17. MarkedInv'
    <2>1. \A c \in Callers : calls[c].pc = "write" => calls[c].dom \in Entries
      BY DEF CallsInv
    <2> QED BY <1>1, <1>8, <2>1 DEF MarkedInv
  <1>18. HeardInv'
    <2>1. \A d \in Desired : d \in Entries
      BY DEF Desired
    <2> QED BY <1>1, <1>8, <1>9, <1>14, <2>1 DEF HeardInv
  <1>19. ServedInv'
    <2>1. /\ \A k \in Keepers : k \in Keepers' \/ k = e
          /\ \A k \in Keepers : k \in Entries
      BY <1>1, <1>9 DEF Keepers, Desired, Dying, RoutesTyped
    <2>2. e \in Keepers \ Keepers' => HostOf(e) \in spoiled \/ Replaced(e)
      <3>1. e \in Keepers \ Keepers' => e \notin DOMAIN tombs /\ e \in Dying
        BY <1>1, <1>9 DEF Keepers
      <3>2. e \in Dying => b[2] = TRUE
        BY <1>3 DEF Dying
      <3> QED BY <1>7, <3>1, <3>2
    <2>3. ASSUME NEW h \in vhosts \ spoiled PROVE \E k \in Keepers' : HostOf(k)' = h
      <3>1. PICK k \in Keepers : HostOf(k) = h
        BY <2>3 DEF ServedInv, Cov
      <3>2. CASE k = e /\ k \notin Keepers'
        <4>1. Cov(h, {e})
          BY <2>2, <2>3, <3>1, <3>2 DEF Replaced
        <4> QED BY <1>8, <2>1, <4>1 DEF Cov
      <3> QED BY <1>8, <2>1, <3>1, <3>2
    <2>4. ASSUME NEW i \in DOMAIN intents, Runs(i), NEW d \in intents[i].routes, HostOf(d) \notin spoiled
          PROVE  \E k \in Keepers' \ Beyond(i) : HostOf(k)' = HostOf(d)
      <3>1. PICK k \in Keepers \ Beyond(i) : HostOf(k) = HostOf(d)
        BY <2>4 DEF ServedInv, Cov
      <3>2. CASE k = e /\ k \notin Keepers'
        <4>1. Cov(HostOf(e), {e} \cup Beyond(i))
          BY <2>2, <2>4, <3>1, <3>2 DEF Replaced
        <4> QED BY <1>8, <2>1, <3>1, <3>2, <4>1 DEF Cov
      <3> QED BY <1>8, <2>1, <3>1, <3>2
    <2>5. (\A h \in vhosts \ spoiled : Cov(h, {}))'
      BY <1>1, <2>3 DEF Cov
    <2> QED BY <1>1, <1>8, <1>14, <1>15, <2>4, <2>5 DEF ServedInv, Cov
  <1> QED BY <1>10, <1>11, <1>12, <1>13, <1>16, <1>17, <1>18, <1>19

\* What changes the channel, the pushes and budgets alone keeps the rest.
LEMMA PushKeeps ==
    ASSUME RoutesInv, tour'.hosts = tour.hosts, DOMAIN tour' = DOMAIN tour,
           UNCHANGED <<entry, tombs, intents, calls, burying, worker, vhosts, spoiled>>,
           inbox' \in Seq(Nat), \A j \in DOMAIN inbox' : inbox'[j] \in DOMAIN intents,
           pushing' \in [Pushers -> [pc : {"idle", "built", "stored"}, routes : SUBSET Entries, op : Nat]],
           \A p \in Pushers : pushing'[p].pc = "stored" => pushing'[p].op \in DOMAIN intents
    PROVE  RoutesInv'
  <1> USE DEF RoutesInv
  <1>1. HostsOf(Entries)' = HostsOf(Entries) /\ Intents' = Intents
    BY HostsStay
  <1>2. RoutesTyped'
    BY <1>1 DEF RoutesTyped
  <1>3. WorkInv'
    <2>1. Busy' = Busy
      BY DEF Busy
    <2> QED BY <2>1 DEF WorkInv
  <1> QED BY <1>2, <1>3, RowsStay

LEMMA BuildKeeps == ASSUME RoutesInv, NEW p \in Pushers, BuildSet(p) PROVE RoutesInv'
  <1> USE DEF RoutesInv
  <1>1. UNCHANGED <<tour, entry, tombs, intents, calls, burying, inbox, worker, vhosts, spoiled>>
    BY DEF BuildSet
  <1>2. pushing' = [pushing EXCEPT ![p] = [pc |-> "built", routes |-> Desired, op |-> 0]]
    BY DEF BuildSet
  <1>3. inbox' \in Seq(Nat) /\ \A j \in DOMAIN inbox' : inbox'[j] \in DOMAIN intents
    BY <1>1 DEF RoutesTyped, WorkInv
  <1>4. pushing' \in [Pushers -> [pc : {"idle", "built", "stored"}, routes : SUBSET Entries, op : Nat]]
    <2>1. Desired \subseteq Entries
      BY DEF Desired
    <2> QED BY <1>2, <2>1 DEF RoutesTyped
  <1>5. \A q \in Pushers : pushing'[q].pc = "stored" => pushing'[q].op \in DOMAIN intents
    BY <1>2 DEF WorkInv, RoutesTyped
  <1> QED BY <1>1, <1>3, <1>4, <1>5, PushKeeps

LEMMA RepeatKeeps == ASSUME RoutesInv, NEW p \in Pushers, RepeatIntent(p) PROVE RoutesInv'
  <1> USE DEF RoutesInv
  <1>1. intents # <<>> /\ UNCHANGED <<tour, entry, tombs, intents, calls, burying, inbox, worker, vhosts, spoiled>>
    BY DEF RepeatIntent, SameIntent
  <1>2. Len(intents) \in Nat /\ Len(intents) \in DOMAIN intents
    BY <1>1, EmptySeq, IntentFields DEF RoutesTyped
  <1>3. pushing' = [pushing EXCEPT ![p] = [pc |-> "stored", routes |-> {}, op |-> Len(intents)]]
    BY DEF RepeatIntent, Stored
  <1>4. inbox' \in Seq(Nat) /\ \A j \in DOMAIN inbox' : inbox'[j] \in DOMAIN intents
    BY <1>1 DEF RoutesTyped, WorkInv
  <1>5. pushing' \in [Pushers -> [pc : {"idle", "built", "stored"}, routes : SUBSET Entries, op : Nat]]
    BY <1>2, <1>3 DEF RoutesTyped
  <1>6. \A q \in Pushers : pushing'[q].pc = "stored" => pushing'[q].op \in DOMAIN intents
    BY <1>2, <1>3 DEF WorkInv, RoutesTyped
  <1> QED BY <1>1, <1>4, <1>5, <1>6, PushKeeps

LEMMA PublishKeeps == ASSUME RoutesInv, NEW p \in Pushers, PublishIntent(p) PROVE RoutesInv'
  <1> USE DEF RoutesInv
  <1>1. pushing[p].pc = "stored" /\ UNCHANGED <<tour, entry, tombs, intents, calls, burying, worker, vhosts, spoiled>>
    BY DEF PublishIntent
  <1>2. /\ pushing[p].op \in Nat /\ pushing[p].op \in DOMAIN intents /\ inbox \in Seq(Nat)
        /\ \A j \in DOMAIN inbox : inbox[j] \in DOMAIN intents
    BY <1>1 DEF WorkInv, RoutesTyped
  <1>3. inbox' = inbox \/ inbox' = Append(inbox, pushing[p].op)
    BY DEF PublishIntent
  <1>4. inbox' \in Seq(Nat) /\ \A j \in DOMAIN inbox' : inbox'[j] \in DOMAIN intents
    <2>1. CASE inbox' = Append(inbox, pushing[p].op)
      <3>1. /\ inbox' \in Seq(Nat) /\ DOMAIN inbox' = 1..(Len(inbox) + 1) /\ DOMAIN inbox = 1..Len(inbox)
            /\ \A j \in 1..Len(inbox) : inbox'[j] = inbox[j]
            /\ inbox'[Len(inbox) + 1] = pushing[p].op /\ Len(inbox) \in Nat
        BY <1>2, <2>1, AppendProperties, LenProperties
      <3>2. \A j \in DOMAIN inbox' : j \in 1..Len(inbox) \/ j = Len(inbox) + 1
        BY <3>1
      <3> QED BY <1>2, <3>1, <3>2
    <2> QED BY <1>2, <1>3, <2>1
  <1>5. pushing' = [pushing EXCEPT ![p] = NoPush]
    BY DEF PublishIntent
  <1>6. pushing' \in [Pushers -> [pc : {"idle", "built", "stored"}, routes : SUBSET Entries, op : Nat]]
    BY <1>5 DEF RoutesTyped, NoPush
  <1>7. \A q \in Pushers : pushing'[q].pc = "stored" => pushing'[q].op \in DOMAIN intents
    BY <1>5 DEF WorkInv, RoutesTyped, NoPush
  <1> QED BY <1>1, <1>4, <1>6, <1>7, PushKeeps

\* A new intent applies what is there now, or the host is spoiled; it deletes nothing of
\* what it applies.
LEMMA SignKeeps == ASSUME RoutesInv, NEW p \in Pushers, SignIntent(p) PROVE RoutesInv'
  <1> USE DEF RoutesInv
  <1> DEFINE routes == pushing[p].routes
             dels == OutsideDesired(routes)
             fresh == NewIntent(routes)
  <1>0. PICK n \in Nat : n = Len(intents) + 1
    BY IntentFields
  <1>1. tour'.hosts = tour.hosts /\ DOMAIN tour' = DOMAIN tour
    BY ChargeStays DEF SignIntent
  <1>2. /\ intents' = Append(intents, fresh)
        /\ spoiled' = spoiled \cup HostsOf(SymDiff(routes, Desired))
        /\ pushing' = [pushing EXCEPT ![p] = Stored(Len(intents'))]
        /\ UNCHANGED <<entry, tombs, calls, burying, inbox, worker, vhosts>>
    BY DEF SignIntent
  <1>3. routes \subseteq Entries /\ dels \subseteq DOMAIN tombs /\ DOMAIN tombs \subseteq Entries
    BY DEF RoutesTyped, OutsideDesired
  <1>4. \A d \in dels : d \notin routes /\ \A e \in routes : HostOf(d) # HostOf(e)
    BY DEF OutsideDesired, HostsOf
  <1>5. /\ fresh.routes = routes /\ fresh.dels = dels /\ fresh.receipt = "none" /\ fresh.ran = "no"
        /\ fresh \in Intents
    BY <1>3 DEF NewIntent, Intents
  <1>6. \A d \in Entries : (d \in routes \/ d \in Desired) => (d \in routes /\ d \in Desired) \/ HostOf(d) \in spoiled'
    BY <1>2 DEF HostsOf, SymDiff
  <1>7. /\ Len(intents) \in Nat /\ DOMAIN intents = 1..Len(intents)
        /\ DOMAIN intents' = 1..n /\ Len(intents') = n /\ intents' \in Seq(Intents)
        /\ \A i \in DOMAIN intents : intents'[i] = intents[i]
        /\ intents'[n] = fresh
    <2>1. intents \in Seq(Intents)
      BY DEF RoutesTyped
    <2> HIDE DEF fresh
    <2>2. Len(intents) \in Nat /\ DOMAIN intents = 1..Len(intents)
      BY <2>1, LenProperties
    <2>3. /\ intents' \in Seq(Intents) /\ Len(intents') = n
          /\ \A i \in 1..Len(intents) : intents'[i] = intents[i]
          /\ intents'[n] = fresh
      BY <1>0, <1>2, <1>5, <2>1, AppendProperties
    <2>4. DOMAIN intents' = 1..n
      BY <2>3, LenProperties
    <2> QED BY <1>0, <2>2, <2>3, <2>4
  <1>8. pushing' = [pushing EXCEPT ![p] = [pc |-> "stored", routes |-> {}, op |-> n]]
    BY <1>2, <1>7 DEF Stored
  <1>9. /\ \A i \in DOMAIN intents : intents[i].routes \subseteq Entries /\ intents[i].dels \subseteq Entries
        /\ \A d \in Desired : d \in Entries /\ entry[d].st = "live" /\ d \in Keepers
        /\ \A k \in Keepers : k \in Entries
    BY <1>3, IntentFields DEF Desired, Keepers, Dying
  <1>10. (\A d \in Entries : HostOf(d)' = HostOf(d)) /\ HostsOf(Entries)' = HostsOf(Entries) /\ Intents' = Intents
    BY <1>1, HostsStay
  <1> HIDE DEF routes, dels, fresh
  <1>11. /\ Desired' = Desired /\ Keepers' = Keepers /\ Busy' = Busy /\ \A e \in Entries : Exists(e)' = Exists(e)
         /\ spoiled \subseteq spoiled'
    BY <1>2 DEF Desired, Keepers, Dying, Busy, Exists
  <1>12. /\ \A i \in DOMAIN intents : (Counts(i)' => Counts(i)) /\ (Runs(i)' => Runs(i)) /\ Beyond(i)' = Beyond(i)
         /\ Beyond(n)' = IF Busy THEN intents[worker.op].dels ELSE {}
         /\ Busy => worker.op \in DOMAIN intents /\ Counts(worker.op)
    <2>1. Busy => worker.op \in DOMAIN intents
      BY DEF WorkInv
    <2>2. worker.op \in Nat /\ \A i \in DOMAIN intents : i \in Nat /\ i # n /\ i < n /\ i \in DOMAIN intents'
      BY <1>0, <1>7 DEF RoutesTyped
    <2>3. \A i \in DOMAIN intents : (Counts(i)' => Counts(i)) /\ (Runs(i)' => Runs(i))
      BY <1>2, <1>7, <1>11, <2>1, <2>2 DEF Counts, Runs, Current
    <2>4. \A i \in DOMAIN intents : Beyond(i)' = Beyond(i)
      BY <1>2, <1>7, <1>11, <2>1, <2>2 DEF Beyond
    <2>5. Beyond(n)' = IF Busy THEN intents[worker.op].dels ELSE {}
      BY <1>2, <1>7, <1>11, <2>1, <2>2 DEF Beyond
    <2> QED BY <2>1, <2>3, <2>4, <2>5 DEF Counts
  <1>13. \A i \in DOMAIN intents' : i \in DOMAIN intents \/ i = n
    BY <1>0, <1>7
  <1>14. RoutesTyped'
    <2>1. pushing' \in [Pushers -> [pc : {"idle", "built", "stored"}, routes : SUBSET Entries, op : Nat]]
      BY <1>7, <1>8 DEF RoutesTyped
    <2> QED BY <1>1, <1>2, <1>7, <1>10, <2>1 DEF RoutesTyped
  <1>15. CallsInv' /\ BurialInv'
    BY <1>2 DEF CallsInv, BurialInv
  <1>16. NamesInv'
    <2>1. \A d \in Entries : entry[d].st = "unborn" => d \notin DOMAIN tombs /\ d \notin dels
      BY <1>3 DEF NamesInv
    <2> QED BY <1>2, <1>5, <1>7, <1>10, <1>11, <1>13, <2>1 DEF NamesInv
  <1>17. WorkInv'
    <2>1. DOMAIN intents \subseteq DOMAIN intents' /\ n \in DOMAIN intents'
      BY <1>0, <1>7
    <2>2. \A q \in Pushers : pushing'[q].pc = "stored" => pushing'[q].op \in DOMAIN intents'
      BY <1>7, <1>8, <2>1 DEF WorkInv, RoutesTyped
    <2>3. Busy => \A i \in DOMAIN intents' : i > worker.op => intents'[i].ran = "no"
      BY <1>5, <1>7, <1>13 DEF WorkInv
    <2>4. /\ worker.pc = "executed" => intents'[worker.op].ran # "no"
          /\ worker.pc = "stored" => intents'[worker.op].ran = "succeeded" /\ intents'[worker.op].receipt = "succeeded"
      BY <1>7, <1>12 DEF WorkInv, Busy
    <2> QED BY <1>2, <1>7, <1>11, <2>1, <2>2, <2>3, <2>4 DEF WorkInv
  <1>18. DeletedInv'
    <2>1. \A i \in DOMAIN intents' : \A d \in intents'[i].dels, e \in intents'[i].routes : HostOf(d) # HostOf(e)
      BY <1>4, <1>5, <1>7, <1>13 DEF DeletedInv
    <2>2. \A i \in DOMAIN intents' : Counts(i)' /\ intents'[i].ran = "succeeded" =>
             \A d \in intents'[i].dels : HostOf(d) \notin vhosts
      BY <1>5, <1>7, <1>12, <1>13 DEF DeletedInv
    <2>3. \A i \in DOMAIN intents' : intents'[i].dels \subseteq Entries /\ intents'[i].routes \subseteq Entries
      BY <1>3, <1>5, <1>7, <1>9, <1>13
    <2> QED BY <1>2, <1>10, <2>1, <2>2, <2>3 DEF DeletedInv
  <1>19. MarkedInv'
    <2>1. \A c \in Callers : calls[c].pc = "write" => calls[c].dom \in Entries
      BY DEF CallsInv
    <2> QED BY <1>2, <1>10, <1>11, <2>1 DEF MarkedInv
  <1>20. ASSUME NEW d \in Desired, Busy, d \in intents[worker.op].dels PROVE HostOf(d) \in spoiled
    BY <1>12, <1>20 DEF HeardInv
  <1>21. HeardInv'
    <2>1. ASSUME NEW d \in Desired, d \in dels PROVE HostOf(d) \in spoiled'
      BY <1>4, <1>6, <1>9, <2>1
    <2> QED BY <1>5, <1>7, <1>9, <1>10, <1>11, <1>12, <1>13, <2>1 DEF HeardInv
  <1>22. ServedInv'
    <2>1. (\A h \in vhosts \ spoiled : Cov(h, {}))'
      BY <1>2, <1>9, <1>10, <1>11 DEF ServedInv, Cov
    <2>2. ASSUME NEW i \in DOMAIN intents, Runs(i), NEW d \in intents[i].routes, HostOf(d) \notin spoiled'
          PROVE  \E k \in Keepers \ Beyond(i) : HostOf(k) = HostOf(d)
      BY <1>11, <2>2 DEF ServedInv, Cov
    <2>3. ASSUME NEW d \in routes, HostOf(d) \notin spoiled'
          PROVE  d \in Keepers \ Beyond(n)'
      <3>1. d \in Desired
        BY <1>3, <1>6, <2>3
      <3> QED BY <1>9, <1>11, <1>12, <1>20, <2>3, <3>1
    <2>4. ASSUME NEW i \in DOMAIN intents', Runs(i)', NEW d \in intents'[i].routes, HostOf(d) \notin spoiled'
          PROVE  \E k \in Keepers \ Beyond(i)' : HostOf(k) = HostOf(d)
      <3>1. CASE i = n
        BY <1>5, <1>7, <2>3, <2>4, <3>1
      <3>2. CASE i \in DOMAIN intents
        BY <1>7, <1>12, <2>2, <2>4, <3>2
      <3> QED BY <1>13, <3>1, <3>2
    <2>5. \A i \in DOMAIN intents' : intents'[i].routes \subseteq Entries
      BY <1>3, <1>5, <1>7, <1>9, <1>13
    <2> QED BY <1>9, <1>10, <1>11, <2>1, <2>4, <2>5 DEF ServedInv, Cov
  <1>23. BuriedInv'
    <2>1. ASSUME NEW e \in Entries, entry[e].st = "deleting", Replaced(e), HostOf(e) \notin spoiled'
          PROVE  Replaced(e)'
      <3>1. ASSUME NEW d \in routes, HostOf(d) = HostOf(e)
            PROVE  d \in Keepers \ ({e} \cup Beyond(n)')
        <4>1. d \in Desired
          BY <1>3, <1>6, <2>1, <3>1
        <4> QED BY <1>9, <1>11, <1>12, <1>20, <2>1, <3>1, <4>1
      <3>2. ASSUME NEW i \in DOMAIN intents', Runs(i)', NEW d \in intents'[i].routes, HostOf(d) = HostOf(e)
            PROVE  \E k \in Keepers \ ({e} \cup Beyond(i)') : HostOf(k) = HostOf(e)
        <4>1. CASE i = n
          BY <1>5, <1>7, <3>1, <3>2, <4>1
        <4>2. CASE i \in DOMAIN intents
          BY <1>7, <1>12, <2>1, <3>2, <4>2 DEF Replaced, Cov
        <4> QED BY <1>13, <4>1, <4>2
      <3>3. HostOf(e) \in vhosts => \E k \in Keepers \ {e} : HostOf(k) = HostOf(e)
        BY <2>1 DEF Replaced, Cov
      <3>4. \A i \in DOMAIN intents' : intents'[i].routes \subseteq Entries
        BY <1>3, <1>5, <1>7, <1>9, <1>13
      <3> QED BY <1>2, <1>9, <1>10, <1>11, <3>2, <3>3, <3>4 DEF Replaced, Cov
    <2>2. \A b \in burying.now : b[1] \in Entries /\ entry[b[1]].st = "deleting"
      BY DEF RoutesTyped, BurialInv
    <2> QED BY <1>2, <1>10, <1>11, <2>1, <2>2 DEF BuriedInv
  <1> QED BY <1>14, <1>15, <1>16, <1>17, <1>18, <1>19, <1>21, <1>22, <1>23

\* One intent is written to, in its plan, its receipt or its outcome.
LEMMA IntentEdited ==
    ASSUME RoutesTyped, NEW op \in DOMAIN intents, NEW r \in Intents, intents' = [intents EXCEPT ![op] = r]
    PROVE  /\ intents' \in Seq(Intents) /\ DOMAIN intents' = DOMAIN intents /\ Len(intents') = Len(intents)
           /\ intents'[op] = r /\ \A i \in DOMAIN intents : i # op => intents'[i] = intents[i]
  <1>1. intents \in Seq(Intents) /\ DOMAIN intents = 1..Len(intents)
    BY IntentFields DEF RoutesTyped
  <1>2. intents' \in Seq(Intents) /\ Len(intents') = Len(intents)
    BY <1>1, ExceptSeq
  <1> QED BY <1>1, <1>2

\* Where the worker's step adds no intent that may run or be confirmed, what was true of
\* rows and tombstones stays; a virtual host is new only where an intent applies it.
LEMMA WorkerKeeps ==
    ASSUME RoutesInv, tour'.hosts = tour.hosts, DOMAIN tour' = DOMAIN tour, UNCHANGED <<entry, tombs, spoiled>>,
           DOMAIN intents' = DOMAIN intents,
           \A i \in DOMAIN intents : intents'[i].routes = intents[i].routes /\ intents'[i].dels = intents[i].dels,
           \A i \in DOMAIN intents : (Counts(i)' => Counts(i)) /\ (Runs(i)' => Runs(i)) /\ Beyond(i)' \subseteq Beyond(i),
           \A h \in vhosts' : h \in vhosts \/ \E i \in DOMAIN intents : \E d \in intents[i].routes :
               Runs(i) /\ Beyond(i) = {} /\ h = HostOf(d)
    PROVE  /\ NamesInv' /\ HeardInv' /\ ServedInv'
           /\ UNCHANGED calls => CallsInv' /\ MarkedInv'
           /\ UNCHANGED burying => BurialInv' /\ BuriedInv'
           /\ \A i \in DOMAIN intents' : \A d \in intents'[i].dels, e \in intents'[i].routes : HostOf(d)' # HostOf(e)'
           /\ HostsOf(Entries)' = HostsOf(Entries) /\ Intents' = Intents
  <1> USE DEF RoutesInv
  <1>1. /\ \A e \in Entries : HostOf(e)' = HostOf(e) /\ Exists(e)' = Exists(e)
        /\ HostsOf(Entries)' = HostsOf(Entries) /\ Intents' = Intents
    BY HostsStay DEF Exists
  <1>2. /\ \A i \in DOMAIN intents : intents[i].routes \subseteq Entries /\ intents[i].dels \subseteq Entries
        /\ \A k \in Keepers : k \in Entries
        /\ \A d \in Desired : d \in Entries
    BY IntentFields DEF Keepers, Desired, Dying, RoutesTyped
  <1>3. Keepers' = Keepers /\ Desired' = Desired
    BY DEF Keepers, Desired, Dying
  <1>4. NamesInv'
    BY <1>1 DEF NamesInv
  <1>5. HeardInv'
    BY <1>1, <1>2, <1>3 DEF HeardInv
  <1>6. ServedInv'
    <2>1. ASSUME NEW h \in vhosts' \ spoiled PROVE \E k \in Keepers : HostOf(k) = h
      <3>1. CASE h \in vhosts
        BY <2>1, <3>1 DEF ServedInv, Cov
      <3>2. ASSUME NEW i \in DOMAIN intents, NEW d \in intents[i].routes, Runs(i), Beyond(i) = {}, h = HostOf(d)
            PROVE  \E k \in Keepers : HostOf(k) = h
        BY <2>1, <3>2 DEF ServedInv, Cov
      <3> QED BY <2>1, <3>1, <3>2
    <2>2. ASSUME NEW i \in DOMAIN intents, Runs(i)', NEW d \in intents[i].routes, HostOf(d) \notin spoiled
          PROVE  \E k \in Keepers \ Beyond(i)' : HostOf(k) = HostOf(d)
      <3>1. \E k \in Keepers \ Beyond(i) : HostOf(k) = HostOf(d)
        BY <2>2 DEF ServedInv, Cov
      <3> QED BY <2>2, <3>1
    <2>3. (\A h \in vhosts \ spoiled : Cov(h, {}))'
      BY <1>1, <1>2, <1>3, <2>1 DEF Cov
    <2> QED BY <1>1, <1>2, <1>3, <2>2, <2>3 DEF ServedInv, Cov
  <1>7. ASSUME UNCHANGED calls PROVE CallsInv' /\ MarkedInv'
    <2>1. \A c \in Callers : calls[c].pc = "write" => calls[c].dom \in Entries
      BY DEF CallsInv
    <2>2. CallsInv'
      BY <1>7 DEF CallsInv
    <2> QED BY <1>1, <1>7, <2>1, <2>2 DEF MarkedInv
  <1>8. ASSUME UNCHANGED burying PROVE BurialInv' /\ BuriedInv'
    <2>1. BurialInv'
      BY <1>8 DEF BurialInv
    <2>2. ASSUME NEW e \in Entries, Replaced(e) PROVE Replaced(e)'
      <3>1. HostOf(e) \in vhosts' => \E k \in Keepers \ {e} : HostOf(k) = HostOf(e)
        <4>1. CASE HostOf(e) \in vhosts
          BY <2>2, <4>1 DEF Replaced, Cov
        <4>2. ASSUME NEW i \in DOMAIN intents, NEW d \in intents[i].routes, Runs(i), Beyond(i) = {},
                     HostOf(e) = HostOf(d)
              PROVE  \E k \in Keepers \ {e} : HostOf(k) = HostOf(e)
          BY <2>2, <4>2 DEF Replaced, Cov
        <4> QED BY <4>1, <4>2
      <3>2. ASSUME NEW i \in DOMAIN intents, Runs(i)', NEW d \in intents[i].routes, HostOf(d) = HostOf(e)
            PROVE  \E k \in Keepers \ ({e} \cup Beyond(i)') : HostOf(k) = HostOf(e)
        <4>1. \E k \in Keepers \ ({e} \cup Beyond(i)) : HostOf(k) = HostOf(e)
          BY <2>2, <3>2 DEF Replaced, Cov
        <4> QED BY <3>2, <4>1
      <3> QED BY <1>1, <1>2, <1>3, <3>1, <3>2 DEF Replaced, Cov
    <2>3. \A b \in burying.now : b[1] \in Entries
      BY DEF RoutesTyped
    <2> QED BY <1>1, <1>8, <2>1, <2>2, <2>3 DEF BuriedInv
  <1>9. \A i \in DOMAIN intents' : \A d \in intents'[i].dels, e \in intents'[i].routes : HostOf(d)' # HostOf(e)'
    BY <1>1, <1>2 DEF DeletedInv
  <1> QED BY <1>1, <1>4, <1>5, <1>6, <1>7, <1>8, <1>9

\* The current intent is granted.
LEMMA TakeKeeps == ASSUME RoutesInv, TakeIntent PROVE RoutesInv'
  <1> USE DEF RoutesInv
  <1> DEFINE op == Head(inbox)
  <1>1. /\ worker.pc = "idle" /\ inbox # <<>> /\ inbox' = Tail(inbox)
        /\ UNCHANGED <<tour, entry, tombs, calls, burying, pushing, vhosts, spoiled>>
    BY DEF TakeIntent
  <1>2. \/ UNCHANGED <<worker, intents>>
        \/ /\ op = Len(intents) /\ intents[op].receipt = "none"
           /\ worker' = [pc |-> "granted", op |-> op]
           /\ intents' = [intents EXCEPT ![op].plan = vhosts]
    BY DEF TakeIntent, Authorized, Fingerprint
  <1>3. /\ inbox' \in Seq(Nat) /\ op \in DOMAIN intents /\ op \in Nat
        /\ \A j \in DOMAIN inbox' : inbox'[j] \in DOMAIN intents
    <2>1. inbox \in Seq(Nat) /\ inbox # <<>> /\ DOMAIN inbox = 1..Len(inbox) /\ Len(inbox) \in Nat /\ 1 \in DOMAIN inbox
      BY <1>1, LenProperties, EmptySeq DEF RoutesTyped
    <2>2. op = inbox[1] /\ Tail(inbox) \in Seq(Nat) /\ Len(Tail(inbox)) = Len(inbox) - 1
          /\ \A j \in 1..Len(Tail(inbox)) : Tail(inbox)[j] = inbox[j + 1]
      BY <2>1, HeadTailProperties
    <2>3. DOMAIN Tail(inbox) = 1..(Len(inbox) - 1)
      BY <2>2, LenProperties
    <2>4. \A j \in DOMAIN Tail(inbox) : j + 1 \in DOMAIN inbox
      BY <2>1, <2>3
    <2>5. \A j \in DOMAIN inbox : inbox[j] \in DOMAIN intents
      BY DEF WorkInv
    <2>6. op \in DOMAIN intents
      BY <2>1, <2>2, <2>5
    <2>7. op \in Nat
      BY <2>6, IntentFields
    <2> QED BY <1>1, <2>2, <2>3, <2>4, <2>5, <2>6, <2>7
  <1>4. PICK o \in Nat : o = op
    BY <1>3
  <1> HIDE DEF op
  <1>5. intents[o] \in Intents /\ vhosts \subseteq HostsOf(Entries) /\ DOMAIN intents = 1..Len(intents) /\ Len(intents) \in Nat
    BY <1>3, <1>4, IntentFields DEF RoutesTyped
  <1>6. /\ intents' \in Seq(Intents) /\ DOMAIN intents' = DOMAIN intents /\ Len(intents') = Len(intents)
        /\ \A i \in DOMAIN intents : /\ intents'[i].routes = intents[i].routes /\ intents'[i].dels = intents[i].dels
                                     /\ intents'[i].receipt = intents[i].receipt /\ intents'[i].ran = intents[i].ran
    <2>1. CASE intents' = [intents EXCEPT ![op].plan = vhosts]
      <3> DEFINE r == [intents[o] EXCEPT !.plan = vhosts]
      <3>1. r \in Intents /\ r.routes = intents[o].routes /\ r.dels = intents[o].dels
            /\ r.receipt = intents[o].receipt /\ r.ran = intents[o].ran
        BY <1>5 DEF Intents
      <3>2. intents' = [intents EXCEPT ![o] = r]
        BY <1>4, <2>1
      <3> HIDE DEF r
      <3>3. /\ intents' \in Seq(Intents) /\ DOMAIN intents' = DOMAIN intents /\ Len(intents') = Len(intents)
            /\ intents'[o] = r /\ \A i \in DOMAIN intents : i # o => intents'[i] = intents[i]
        BY <1>3, <1>4, <3>1, <3>2, IntentEdited
      <3> QED BY <3>1, <3>3
    <2>2. CASE UNCHANGED intents
      BY <2>2 DEF RoutesTyped
    <2> QED BY <1>2, <2>1, <2>2
  <1>7. /\ worker' \in [pc : {"idle", "granted", "executed", "stored"}, op : Nat]
        /\ \/ worker' = worker /\ worker'.pc = "idle"
           \/ /\ worker'.pc = "granted" /\ worker'.op = o /\ o = Len(intents) /\ intents[o].receipt = "none"
              /\ o \in DOMAIN intents
    BY <1>1, <1>2, <1>3, <1>4 DEF RoutesTyped
  <1>8. \A i \in DOMAIN intents : (Counts(i)' => Counts(i)) /\ (Runs(i)' => Runs(i)) /\ Beyond(i)' \subseteq Beyond(i)
    <2>1. \A i \in DOMAIN intents : i \in Nat /\ i <= Len(intents) /\ (Current(i)' <=> Current(i))
      BY <1>5, <1>6 DEF Current
    <2>2. \A i \in DOMAIN intents : worker'.op = i /\ worker'.pc # "idle" => Current(i)
      BY <1>5, <1>7 DEF Current
    <2>3. \A i \in DOMAIN intents : (Counts(i)' => Counts(i)) /\ (Runs(i)' => Runs(i))
      BY <1>6, <2>1, <2>2 DEF Counts, Runs, Busy
    <2>4. \A i \in DOMAIN intents : Beyond(i)' = {}
      <3>1. CASE worker'.pc = "idle"
        BY <3>1 DEF Beyond, Busy
      <3>2. CASE worker'.op = o /\ o = Len(intents)
        <4>1. \A i \in DOMAIN intents : ~(worker'.op < i)
          BY <1>5, <2>1, <3>2
        <4> QED BY <4>1 DEF Beyond
      <3> QED BY <1>7, <3>1, <3>2
    <2> QED BY <2>3, <2>4
  <1>9. /\ NamesInv' /\ HeardInv' /\ ServedInv' /\ CallsInv' /\ MarkedInv' /\ BurialInv' /\ BuriedInv'
        /\ \A i \in DOMAIN intents' : \A d \in intents'[i].dels, e \in intents'[i].routes : HostOf(d)' # HostOf(e)'
        /\ HostsOf(Entries)' = HostsOf(Entries) /\ Intents' = Intents
    BY <1>1, <1>6, <1>8, WorkerKeeps
  <1>10. RoutesTyped'
    <2>1. HostsOf(Entries)' = HostsOf(Entries) /\ Intents' = Intents /\ intents' \in Seq(Intents) /\ inbox' \in Seq(Nat)
      BY <1>3, <1>6, <1>9
    <2>2. worker' \in [pc : {"idle", "granted", "executed", "stored"}, op : Nat]
      BY <1>7
    <2> QED BY <1>1, <2>1, <2>2 DEF RoutesTyped
  <1>11. WorkInv'
    <2>1. \A p \in Pushers : pushing[p].pc = "stored" => pushing[p].op \in DOMAIN intents
      BY DEF WorkInv
    <2>2. Busy' => worker'.op \in DOMAIN intents' /\ \A i \in DOMAIN intents' : ~(i > worker'.op)
      <3>1. ASSUME worker'.pc # "idle"
            PROVE  worker'.op = o /\ o = Len(intents) /\ o \in DOMAIN intents
        BY <1>7, <3>1
      <3>2. \A i \in DOMAIN intents : ~(i > Len(intents))
        BY <1>5
      <3> QED BY <1>6, <3>1, <3>2 DEF Busy
    <2>3. worker'.pc \notin {"executed", "stored"}
      BY <1>7
    <2>4. Busy' => \A i \in DOMAIN intents' : i > worker'.op => intents'[i].ran = "no"
      BY <2>2
    <2>5. \A p \in Pushers : pushing'[p].pc = "stored" => pushing'[p].op \in DOMAIN intents'
      BY <1>1, <1>6, <2>1
    <2>6. \A j \in DOMAIN inbox' : inbox'[j] \in DOMAIN intents'
      BY <1>3, <1>6
    <2> QED BY <2>2, <2>3, <2>4, <2>5, <2>6 DEF WorkInv
  <1>12. DeletedInv'
    <2>1. \A i \in DOMAIN intents : \A d \in intents[i].dels : HostOf(d)' = HostOf(d)
      BY <1>1 DEF HostOf
    <2> QED BY <1>1, <1>6, <1>8, <1>9, <2>1 DEF DeletedInv
  <1> QED BY <1>9, <1>10, <1>11, <1>12

\* The helper carries the intent out, once.
LEMMA ExecuteKeeps == ASSUME RoutesInv, ExecuteIntent PROVE RoutesInv'
  <1> USE DEF RoutesInv
  <1>1. /\ worker.pc = "granted" /\ worker' = [worker EXCEPT !.pc = "executed"]
        /\ UNCHANGED <<entry, tombs, calls, burying, pushing, inbox, spoiled>>
    BY DEF ExecuteIntent
  <1>2. PICK o \in DOMAIN intents : o = worker.op
    BY <1>1 DEF WorkInv, Busy
  <1>3. /\ intents[o] \in Intents /\ vhosts \subseteq HostsOf(Entries)
        /\ DOMAIN intents = 1..Len(intents) /\ Len(intents) \in Nat /\ o \in Nat
        /\ \A i \in DOMAIN intents : intents[i].routes \subseteq Entries /\ intents[i].dels \subseteq Entries
    BY <1>2, IntentFields DEF RoutesTyped
  <1>4. PICK outcome \in {"succeeded", "failed"} : Execution(o, outcome)
    BY <1>2 DEF ExecuteIntent
  <1>5. tour'.hosts = tour.hosts /\ DOMAIN tour' = DOMAIN tour
    <2>1. UNCHANGED tour \/ Charge("mishaps")
      BY <1>4 DEF Execution
    <2> QED BY <2>1, ChargeStays
  <1>6. /\ intents' \in Seq(Intents) /\ DOMAIN intents' = DOMAIN intents /\ Len(intents') = Len(intents)
        /\ \A i \in DOMAIN intents : /\ intents'[i].routes = intents[i].routes /\ intents'[i].dels = intents[i].dels
                                     /\ intents'[i].receipt = intents[i].receipt
                                     /\ i # o => intents'[i].ran = intents[i].ran
        /\ intents'[o].ran = IF intents[o].ran = "no" THEN outcome ELSE intents[o].ran
    <2>1. CASE intents[o].ran = "no"
      <3> DEFINE r == [intents[o] EXCEPT !.ran = outcome]
      <3>1. r \in Intents /\ r.routes = intents[o].routes /\ r.dels = intents[o].dels
            /\ r.receipt = intents[o].receipt /\ r.ran = outcome
        BY <1>3 DEF Intents
      <3>2. intents' = [intents EXCEPT ![o] = r]
        BY <1>4, <2>1 DEF Execution
      <3> HIDE DEF r
      <3>3. /\ intents' \in Seq(Intents) /\ DOMAIN intents' = DOMAIN intents /\ Len(intents') = Len(intents)
            /\ intents'[o] = r /\ \A i \in DOMAIN intents : i # o => intents'[i] = intents[i]
        BY <3>1, <3>2, IntentEdited
      <3> QED BY <2>1, <3>1, <3>3
    <2>2. CASE intents[o].ran # "no"
      BY <1>4, <2>2 DEF Execution, RoutesTyped
    <2> QED BY <2>1, <2>2
  <1>7. \/ vhosts' = vhosts /\ (intents[o].ran = "no" => outcome = "failed")
        \/ /\ intents[o].ran = "no" /\ outcome = "succeeded"
           /\ vhosts' = (vhosts \ HostsOf(intents[o].dels)) \cup HostsOf(intents[o].routes)
    BY <1>4 DEF Execution, Converged
  <1>8. worker' \in [pc : {"idle", "granted", "executed", "stored"}, op : Nat] /\ worker'.pc = "executed" /\ worker'.op = o
    BY <1>1, <1>2 DEF RoutesTyped
  <1>9. \A i \in DOMAIN intents : (Counts(i)' => Counts(i)) /\ (Runs(i)' => Runs(i)) /\ Beyond(i)' \subseteq Beyond(i)
    <2>1. \A i \in DOMAIN intents : Current(i)' <=> Current(i)
      BY <1>6 DEF Current
    <2>2. \A i \in DOMAIN intents : (Counts(i)' => Counts(i)) /\ (Runs(i)' => Runs(i))
      BY <1>1, <1>2, <1>6, <1>8, <2>1 DEF Counts, Runs, Busy
    <2> QED BY <1>1, <1>2, <1>6, <1>8, <2>2 DEF Beyond, Busy
  <1>10. Runs(o) /\ Beyond(o) = {}
    BY <1>1, <1>2, <1>3 DEF Runs, Beyond
  <1>11. /\ NamesInv' /\ HeardInv' /\ ServedInv' /\ CallsInv' /\ MarkedInv' /\ BurialInv' /\ BuriedInv'
         /\ \A i \in DOMAIN intents' : \A d \in intents'[i].dels, e \in intents'[i].routes : HostOf(d)' # HostOf(e)'
         /\ HostsOf(Entries)' = HostsOf(Entries) /\ Intents' = Intents
    <2>1. \A h \in vhosts' : h \in vhosts \/ \E i \in DOMAIN intents : \E d \in intents[i].routes :
              Runs(i) /\ Beyond(i) = {} /\ h = HostOf(d)
      <3>1. \A h \in vhosts' : h \in vhosts \/ \E d \in intents[o].routes : h = HostOf(d)
        BY <1>7 DEF HostsOf
      <3> QED BY <1>10, <3>1
    <2> QED BY <1>1, <1>5, <1>6, <1>9, <2>1, WorkerKeeps
  <1>12. RoutesTyped'
    <2>1. vhosts' \subseteq HostsOf(Entries)
      BY <1>3, <1>7 DEF HostsOf
    <2>2. HostsOf(Entries)' = HostsOf(Entries) /\ Intents' = Intents /\ intents' \in Seq(Intents)
      BY <1>6, <1>11
    <2>3. worker' \in [pc : {"idle", "granted", "executed", "stored"}, op : Nat]
      BY <1>8
    <2> QED BY <1>1, <1>5, <2>1, <2>2, <2>3 DEF RoutesTyped
  <1>13. \A i \in DOMAIN intents : i > o => intents[i].ran = "no"
    BY <1>1, <1>2 DEF WorkInv, Busy
  <1>14. WorkInv'
    <2>1. Busy' => \A i \in DOMAIN intents' : i > worker'.op => intents'[i].ran = "no"
      BY <1>3, <1>6, <1>8, <1>13
    <2>2. intents'[o].ran # "no"
      BY <1>6
    <2>3. /\ \A j \in DOMAIN inbox : inbox[j] \in DOMAIN intents
          /\ \A p \in Pushers : pushing[p].pc = "stored" => pushing[p].op \in DOMAIN intents
      BY DEF WorkInv
    <2> QED BY <1>1, <1>6, <1>8, <2>1, <2>2, <2>3 DEF WorkInv
  <1>15. DeletedInv'
    <2>1. \A i \in DOMAIN intents : \A d \in intents[i].dels : HostOf(d)' = HostOf(d)
      BY <1>3, <1>5, HostsStay
    <2>2. ASSUME NEW i \in DOMAIN intents, Counts(i), intents'[i].ran = "succeeded", NEW d \in intents[i].dels
          PROVE  HostOf(d) \notin vhosts'
      <3>1. i = o
        <4>1. ASSUME i # o PROVE FALSE
          <5>1. i = Len(intents)
            BY <1>1, <1>2, <2>2, <4>1 DEF Counts, Current
          <5>2. i > o
            BY <1>3, <4>1, <5>1
          <5> QED BY <1>6, <1>13, <2>2, <4>1, <5>2
        <4> QED BY <4>1
      <3>2. CASE intents[o].ran = "no"
        <4>1. vhosts' = (vhosts \ HostsOf(intents[o].dels)) \cup HostsOf(intents[o].routes)
          BY <1>6, <1>7, <2>2, <3>1, <3>2
        <4>2. HostOf(d) \in HostsOf(intents[o].dels) /\ HostOf(d) \notin HostsOf(intents[o].routes)
          BY <2>2, <3>1 DEF DeletedInv, HostsOf
        <4> QED BY <4>1, <4>2
      <3>3. CASE intents[o].ran # "no"
        BY <1>6, <1>7, <2>2, <3>1, <3>3 DEF DeletedInv
      <3> QED BY <3>2, <3>3
    <2> QED BY <1>6, <1>9, <1>11, <2>1, <2>2 DEF DeletedInv
  <1> QED BY <1>11, <1>12, <1>14, <1>15

\* The receipt of an intent is stored.
LEMMA StoreKeeps == ASSUME RoutesInv, StoreReceipt PROVE RoutesInv'
  <1> USE DEF RoutesInv
  <1>1. worker.pc = "executed" /\ UNCHANGED <<tour, entry, tombs, calls, burying, pushing, inbox, vhosts, spoiled>>
    BY DEF StoreReceipt
  <1>2. PICK o \in DOMAIN intents : o = worker.op
    BY <1>1 DEF WorkInv, Busy
  <1>3. /\ intents[o] \in Intents /\ intents[o].ran \in {"succeeded", "failed"}
        /\ DOMAIN intents = 1..Len(intents) /\ Len(intents) \in Nat
        /\ \A i \in DOMAIN intents : intents[i].routes \subseteq Entries /\ intents[i].dels \subseteq Entries
    BY <1>1, <1>2, IntentFields DEF WorkInv
  <1>4. /\ intents' \in Seq(Intents) /\ DOMAIN intents' = DOMAIN intents /\ Len(intents') = Len(intents)
        /\ \A i \in DOMAIN intents : /\ intents'[i].routes = intents[i].routes /\ intents'[i].dels = intents[i].dels
                                     /\ intents'[i].ran = intents[i].ran
                                     /\ i # o => intents'[i].receipt = intents[i].receipt
        /\ intents'[o].receipt = intents[o].ran
    <2> DEFINE r == [intents[o] EXCEPT !.receipt = intents[o].ran]
    <2>1. r \in Intents /\ r.routes = intents[o].routes /\ r.dels = intents[o].dels
          /\ r.receipt = intents[o].ran /\ r.ran = intents[o].ran
      BY <1>3 DEF Intents
    <2>2. intents' = [intents EXCEPT ![o] = r]
      BY <1>2 DEF StoreReceipt
    <2> HIDE DEF r
    <2>3. /\ intents' \in Seq(Intents) /\ DOMAIN intents' = DOMAIN intents /\ Len(intents') = Len(intents)
          /\ intents'[o] = r /\ \A i \in DOMAIN intents : i # o => intents'[i] = intents[i]
      BY <2>1, <2>2, IntentEdited
    <2> QED BY <2>1, <2>3
  <1>5. /\ worker' \in [pc : {"idle", "granted", "executed", "stored"}, op : Nat]
        /\ \/ worker'.pc = "stored" /\ worker'.op = o /\ intents[o].ran = "succeeded"
           \/ worker'.pc = "idle"
    <2>1. CASE intents[o].ran = "succeeded"
      BY <1>2, <2>1 DEF StoreReceipt, RoutesTyped
    <2>2. CASE intents[o].ran # "succeeded"
      BY <1>2, <2>2 DEF StoreReceipt, NoWork
    <2> QED BY <2>1, <2>2
  <1>6. \A i \in DOMAIN intents : (Counts(i)' => Counts(i)) /\ (Runs(i)' => Runs(i)) /\ Beyond(i)' \subseteq Beyond(i)
    <2>1. \A i \in DOMAIN intents : Current(i)' => Current(i)
      BY <1>3, <1>4 DEF Current
    <2>2. \A i \in DOMAIN intents : (Counts(i)' => Counts(i)) /\ (Runs(i)' => Runs(i))
      BY <1>1, <1>2, <1>4, <1>5, <2>1 DEF Counts, Runs, Busy
    <2> QED BY <1>1, <1>2, <1>4, <1>5, <2>2 DEF Beyond, Busy
  <1>7. /\ NamesInv' /\ HeardInv' /\ ServedInv' /\ CallsInv' /\ MarkedInv' /\ BurialInv' /\ BuriedInv'
        /\ \A i \in DOMAIN intents' : \A d \in intents'[i].dels, e \in intents'[i].routes : HostOf(d)' # HostOf(e)'
        /\ HostsOf(Entries)' = HostsOf(Entries) /\ Intents' = Intents
    BY <1>1, <1>4, <1>6, WorkerKeeps
  <1>8. RoutesTyped'
    <2>1. HostsOf(Entries)' = HostsOf(Entries) /\ Intents' = Intents /\ intents' \in Seq(Intents)
      BY <1>4, <1>7
    <2>2. worker' \in [pc : {"idle", "granted", "executed", "stored"}, op : Nat]
      BY <1>5
    <2> QED BY <1>1, <2>1, <2>2 DEF RoutesTyped
  <1>9. WorkInv'
    <2>1. /\ \A j \in DOMAIN inbox : inbox[j] \in DOMAIN intents
          /\ \A p \in Pushers : pushing[p].pc = "stored" => pushing[p].op \in DOMAIN intents
          /\ \A i \in DOMAIN intents : i > o => intents[i].ran = "no"
      BY <1>1, <1>2 DEF WorkInv, Busy
    <2> QED BY <1>1, <1>4, <1>5, <2>1 DEF WorkInv, Busy
  <1>10. DeletedInv'
    <2>1. \A i \in DOMAIN intents : \A d \in intents[i].dels : HostOf(d)' = HostOf(d)
      BY <1>1 DEF HostOf
    <2> QED BY <1>1, <1>4, <1>6, <1>7, <2>1 DEF DeletedInv
  <1> QED BY <1>7, <1>8, <1>9, <1>10

\* What it confirms has left the agent: nobody needs those tombstones.
LEMMA ConfirmKeeps == ASSUME RoutesInv, ConfirmDeletions PROVE RoutesInv'
  <1> USE DEF RoutesInv
  <1>1. /\ worker.pc = "stored" /\ worker' = NoWork
        /\ UNCHANGED <<tour, entry, intents, calls, burying, pushing, inbox, vhosts, spoiled>>
    BY DEF ConfirmDeletions
  <1>2. PICK o \in DOMAIN intents : o = worker.op
    BY <1>1 DEF WorkInv, Busy
  <1>3. /\ Counts(o) /\ intents[o].ran = "succeeded" /\ intents[o].receipt = "succeeded"
        /\ DOMAIN intents = 1..Len(intents) /\ Len(intents) \in Nat
        /\ \A i \in DOMAIN intents : intents[i].routes \subseteq Entries /\ intents[i].dels \subseteq Entries
    BY <1>1, <1>2, IntentFields DEF WorkInv, Counts, Busy
  <1>4. /\ DOMAIN tombs' = DOMAIN tombs \ intents[o].dels
        /\ \A d \in intents[o].dels : HostOf(d) \notin vhosts
    BY <1>2, <1>3 DEF ConfirmDeletions, Dropped, DeletedInv
  <1>5. /\ \A e \in Entries : HostOf(e)' = HostOf(e) /\ Exists(e)' = Exists(e)
        /\ HostsOf(Entries)' = HostsOf(Entries) /\ Intents' = Intents
    BY <1>1, HostsStay DEF Exists
  <1>6. /\ Desired' = Desired /\ \A d \in Desired : d \in Entries
        /\ \A k \in Keepers : k \in Entries /\ (k \in intents[o].dels \/ k \in Keepers')
    BY <1>1, <1>4 DEF Keepers, Desired, Dying, RoutesTyped
  <1>7. /\ worker'.pc = "idle" /\ worker' \in [pc : {"idle", "granted", "executed", "stored"}, op : Nat]
        /\ ~Busy' /\ \A i : Beyond(i)' = {}
    BY <1>1 DEF NoWork, Busy, Beyond
  <1>8. \A i \in DOMAIN intents : /\ Counts(i)' => Counts(i)
                                  /\ Runs(i)' => Runs(i) /\ Beyond(i) = intents[o].dels
    <2>1. \A i \in DOMAIN intents : Current(i)' = Current(i) /\ i \in Nat
      BY <1>1, <1>3 DEF Current
    <2>2. \A i \in DOMAIN intents : Current(i) => o < i
      BY <1>3 DEF Current
    <2> QED BY <1>1, <1>2, <1>7, <2>1, <2>2 DEF Counts, Runs, Beyond, Busy
  <1>9. RoutesTyped'
    <2>1. DOMAIN tombs' \subseteq Entries
      BY <1>4 DEF RoutesTyped
    <2> QED BY <1>1, <1>5, <1>7, <2>1 DEF RoutesTyped
  <1>10. CallsInv' /\ BurialInv'
    BY <1>1 DEF CallsInv, BurialInv
  <1>11. NamesInv'
    BY <1>1, <1>4, <1>5 DEF NamesInv
  <1>12. WorkInv'
    BY <1>1, <1>7 DEF WorkInv
  <1>13. DeletedInv'
    BY <1>1, <1>3, <1>5, <1>8 DEF DeletedInv
  <1>14. MarkedInv'
    <2>1. ASSUME NEW c \in Callers, calls[c].pc = "write", calls[c].here
          PROVE  calls[c].dom \in DOMAIN tombs' \/ HostOf(calls[c].dom) \in spoiled
      <3>1. calls[c].dom \in Desired
        BY <2>1 DEF CallsInv, Desired
      <3>2. calls[c].dom \in intents[o].dels => HostOf(calls[c].dom) \in spoiled
        BY <1>3, <3>1 DEF HeardInv
      <3> QED BY <1>4, <2>1, <3>2 DEF MarkedInv
    <2>2. \A c \in Callers : calls[c].pc = "write" => calls[c].dom \in Entries
      BY DEF CallsInv
    <2> QED BY <1>1, <1>5, <2>1, <2>2 DEF MarkedInv
  <1>15. HeardInv'
    BY <1>1, <1>5, <1>6, <1>8 DEF HeardInv
  <1>16. ServedInv'
    <2>1. ASSUME NEW h \in vhosts \ spoiled PROVE \E k \in Keepers' : HostOf(k)' = h
      <3>1. PICK k \in Keepers : HostOf(k) = h
        BY <2>1 DEF ServedInv, Cov
      <3> QED BY <1>4, <1>5, <1>6, <2>1, <3>1
    <2>2. ASSUME NEW i \in DOMAIN intents, Runs(i)', NEW d \in intents[i].routes, HostOf(d) \notin spoiled
          PROVE  \E k \in Keepers' : HostOf(k)' = HostOf(d)
      <3>1. PICK k \in Keepers \ intents[o].dels : HostOf(k) = HostOf(d)
        BY <1>8, <2>2 DEF ServedInv, Cov
      <3> QED BY <1>5, <1>6, <3>1
    <2>3. (\A h \in vhosts \ spoiled : Cov(h, {}))'
      BY <1>1, <2>1 DEF Cov
    <2> QED BY <1>1, <1>3, <1>5, <1>7, <2>2, <2>3 DEF ServedInv, Cov
  <1>17. BuriedInv'
    <2>1. ASSUME NEW e \in Entries, e \in intents[o].dels \/ Replaced(e), HostOf(e) \notin spoiled
          PROVE  Replaced(e)'
      <3>1. HostOf(e) \in vhosts => \E k \in Keepers' \ {e} : HostOf(k)' = HostOf(e)
        <4>1. ASSUME HostOf(e) \in vhosts, Replaced(e) PROVE \E k \in Keepers' \ {e} : HostOf(k)' = HostOf(e)
          <5>1. PICK k \in Keepers \ {e} : HostOf(k) = HostOf(e)
            BY <4>1 DEF Replaced, Cov
          <5> QED BY <1>4, <1>5, <1>6, <4>1, <5>1
        <4> QED BY <1>4, <2>1, <4>1
      <3>2. ASSUME NEW i \in DOMAIN intents, Runs(i)', NEW d \in intents[i].routes, HostOf(d) = HostOf(e)
            PROVE  \E k \in Keepers' \ {e} : HostOf(k)' = HostOf(e)
        <4>1. PICK k \in Keepers \ ({e} \cup intents[o].dels) : HostOf(k) = HostOf(e)
          <5>1. CASE e \in intents[o].dels
            <6>1. PICK k \in Keepers \ intents[o].dels : HostOf(k) = HostOf(e)
              BY <1>8, <2>1, <3>2 DEF ServedInv, Cov
            <6> QED BY <5>1, <6>1
          <5>2. CASE Replaced(e)
            BY <1>8, <3>2, <5>2 DEF Replaced, Cov
          <5> QED BY <2>1, <5>1, <5>2
        <4> QED BY <1>5, <1>6, <4>1
      <3> QED BY <1>1, <1>3, <1>5, <1>7, <3>1, <3>2 DEF Replaced, Cov
    <2>2. \A b \in burying.now : b[1] \in Entries
      BY DEF RoutesTyped
    <2> QED BY <1>1, <1>4, <1>5, <2>1, <2>2 DEF BuriedInv
  <1> QED BY <1>9, <1>10, <1>11, <1>12, <1>13, <1>14, <1>15, <1>16, <1>17

\* The worker is gone before its receipt is in.
LEMMA LoseKeeps == ASSUME RoutesInv, LoseReceipt PROVE RoutesInv'
  <1> USE DEF RoutesInv
  <1>1. /\ worker.pc \in {"granted", "executed"} /\ worker' = NoWork /\ inbox' = <<>>
        /\ UNCHANGED <<entry, tombs, intents, calls, burying, pushing, vhosts, spoiled>>
    BY DEF LoseReceipt
  <1>2. tour'.hosts = tour.hosts /\ DOMAIN tour' = DOMAIN tour
    BY ChargeStays DEF LoseReceipt
  <1>3. worker'.pc = "idle" /\ worker' \in [pc : {"idle", "granted", "executed", "stored"}, op : Nat]
    BY <1>1 DEF NoWork
  <1>4. \A i \in DOMAIN intents : (Counts(i)' => Counts(i)) /\ (Runs(i)' => Runs(i)) /\ Beyond(i)' \subseteq Beyond(i)
    <2>1. \A i \in DOMAIN intents : Current(i)' = Current(i)
      BY <1>1 DEF Current
    <2> QED BY <1>1, <1>3, <2>1 DEF Counts, Runs, Beyond, Busy
  <1>5. /\ NamesInv' /\ HeardInv' /\ ServedInv' /\ CallsInv' /\ MarkedInv' /\ BurialInv' /\ BuriedInv'
        /\ \A i \in DOMAIN intents' : \A d \in intents'[i].dels, e \in intents'[i].routes : HostOf(d)' # HostOf(e)'
        /\ HostsOf(Entries)' = HostsOf(Entries) /\ Intents' = Intents
    BY <1>1, <1>2, <1>4, WorkerKeeps
  <1>6. RoutesTyped'
    <2>1. inbox' \in Seq(Nat)
      BY <1>1
    <2> QED BY <1>1, <1>2, <1>3, <1>5, <2>1 DEF RoutesTyped
  <1>7. WorkInv'
    BY <1>1, <1>3 DEF WorkInv, Busy
  <1>8. DeletedInv'
    <2>1. \A i \in DOMAIN intents : \A d \in intents[i].dels : d \in Entries /\ HostOf(d)' = HostOf(d)
      BY <1>2, IntentFields, HostsStay
    <2> QED BY <1>1, <1>4, <1>5, <2>1 DEF DeletedInv
  <1> QED BY <1>5, <1>6, <1>7, <1>8

\* The orchestrator dies: what it was about to do is forgotten, and what it had written stays.
LEMMA DieKeeps == ASSUME RoutesInv, OrchestratorDies PROVE RoutesInv'
  <1> USE DEF RoutesInv
  <1>1. /\ calls' = [c \in Callers |-> NoCall] /\ pushing' = [p \in Pushers |-> NoPush]
        /\ burying' = NoBurial /\ inbox' = <<>>
        /\ UNCHANGED <<entry, tombs, intents, vhosts, spoiled>>
    BY DEF OrchestratorDies
  <1>2. tour'.hosts = tour.hosts /\ DOMAIN tour' = DOMAIN tour
    BY ChargeStays DEF OrchestratorDies
  <1>3. /\ worker' \in [pc : {"idle", "granted", "executed", "stored"}, op : Nat]
        /\ worker' = worker \/ worker'.pc = "idle"
    <2>1. CASE worker.pc = "stored"
      BY <2>1 DEF OrchestratorDies, NoWork
    <2>2. CASE worker.pc # "stored"
      BY <2>2 DEF OrchestratorDies, RoutesTyped
    <2> QED BY <2>1, <2>2
  <1>4. \A i \in DOMAIN intents : (Counts(i)' => Counts(i)) /\ (Runs(i)' => Runs(i)) /\ Beyond(i)' \subseteq Beyond(i)
    <2>1. \A i \in DOMAIN intents : Current(i)' = Current(i)
      BY <1>1 DEF Current
    <2>2. CASE worker' = worker
      BY <1>1, <2>1, <2>2 DEF Counts, Runs, Beyond, Busy
    <2>3. CASE worker'.pc = "idle"
      BY <1>1, <2>1, <2>3 DEF Counts, Runs, Beyond, Busy
    <2> QED BY <1>3, <2>2, <2>3
  <1>5. /\ NamesInv' /\ HeardInv' /\ ServedInv'
        /\ \A i \in DOMAIN intents' : \A d \in intents'[i].dels, e \in intents'[i].routes : HostOf(d)' # HostOf(e)'
        /\ HostsOf(Entries)' = HostsOf(Entries) /\ Intents' = Intents
    BY <1>1, <1>2, <1>4, WorkerKeeps
  <1>6. RoutesTyped'
    <2>1. inbox' \in Seq(Nat)
      BY <1>1
    <2>2. calls' \in [Callers -> Requests]
      BY <1>1 DEF NoCall, Requests
    <2>3. pushing' \in [Pushers -> [pc : {"idle", "built", "stored"}, routes : SUBSET Entries, op : Nat]]
      BY <1>1 DEF NoPush
    <2>4. burying' \in [left : SUBSET (Entries \X BOOLEAN), now : SUBSET (Entries \X BOOLEAN)]
      BY <1>1 DEF NoBurial
    <2> QED BY <1>1, <1>2, <1>3, <1>5, <2>1, <2>2, <2>3, <2>4 DEF RoutesTyped
  <1>7. CallsInv' /\ MarkedInv'
    BY <1>1 DEF CallsInv, MarkedInv, NoCall
  <1>8. BurialInv' /\ BuriedInv'
    BY <1>1 DEF BurialInv, BuriedInv, NoBurial
  <1>9. WorkInv'
    <2>1. CASE worker' = worker
      BY <1>1, <2>1 DEF WorkInv, Busy, NoPush
    <2>2. CASE worker'.pc = "idle"
      BY <1>1, <2>2 DEF WorkInv, Busy, NoPush
    <2> QED BY <1>3, <2>1, <2>2
  <1>10. DeletedInv'
    <2>1. \A i \in DOMAIN intents : \A d \in intents[i].dels : d \in Entries /\ HostOf(d)' = HostOf(d)
      BY <1>2, IntentFields, HostsStay
    <2> QED BY <1>1, <1>4, <1>5, <2>1 DEF DeletedInv
  <1> QED BY <1>5, <1>6, <1>7, <1>8, <1>9, <1>10

\* Every step.
LEMMA RoutesStep == ASSUME ~Overlap, RoutesInv, [ManagedRoutesNext]_routeVars PROVE RoutesInv'
  <1>1. CASE UNCHANGED routeVars
    <2>1. UNCHANGED <<tour, entry, tombs, intents, calls, burying, pushing, inbox, worker, vhosts, spoiled>>
      BY <1>1 DEF routeVars
    <2>2. /\ inbox' \in Seq(Nat) /\ \A j \in DOMAIN inbox' : inbox'[j] \in DOMAIN intents
          /\ pushing' \in [Pushers -> [pc : {"idle", "built", "stored"}, routes : SUBSET Entries, op : Nat]]
          /\ \A p \in Pushers : pushing'[p].pc = "stored" => pushing'[p].op \in DOMAIN intents
      BY <2>1 DEF RoutesInv, RoutesTyped, WorkInv
    <2> QED BY <2>1, <2>2, PushKeeps
  <1>2. CASE RequestStep
    BY <1>2, CreateKeeps, ReadKeeps, MarkKeeps, WriteKeeps, RefusedKeeps, ClaimKeeps DEF RequestStep
  <1>3. CASE PushStep
    BY <1>3, BuildKeeps, RepeatKeeps, SignKeeps, PublishKeeps DEF PushStep
  <1>4. CASE ListBurials \/ MarkBurial \/ EraseRoute
    BY <1>4, ListKeeps, BuryKeeps, EraseKeeps
  <1>5. CASE TakeIntent \/ ExecuteIntent \/ StoreReceipt \/ ConfirmDeletions \/ LoseReceipt \/ OrchestratorDies
    BY <1>5, TakeKeeps, ExecuteKeeps, StoreKeeps, ConfirmKeeps, LoseKeeps, DieKeeps
  <1> QED BY <1>1, <1>2, <1>3, <1>4, <1>5 DEF ManagedRoutesNext

\* No virtual host on an agent is forgotten: whatever requests, deletions, pushes, lost
\* receipts and restarts come in between, a domain has it there, or a tombstone or a row
\* that is to be deleted says that it must go.  Requests for one domain come one at a time.
THEOREM RoutesCorrect == ASSUME ~Overlap PROVE ManagedRoutesSpec => []NoneForgotten
  <1>1. ManagedRoutesInit => RoutesInv
    BY RoutesStart
  <1>2. RoutesInv /\ [ManagedRoutesNext]_routeVars => RoutesInv'
    BY RoutesStep
  <1>3. RoutesInv => NoneForgotten
    <2>1. ASSUME RoutesInv, NEW h \in vhosts \ spoiled
          PROVE  \E d \in Entries : /\ HostOf(d) = h
                                    /\ d \in Desired \/ d \in DOMAIN tombs \/ (entry[d].st = "deleting" /\ entry[d].here)
      <3>1. PICK k \in Keepers : HostOf(k) = h
        BY <2>1 DEF RoutesInv, ServedInv, Cov
      <3> QED BY <2>1, <3>1 DEF Keepers, Desired, Dying, RoutesInv, RoutesTyped
    <2> QED BY <2>1 DEF NoneForgotten
  <1> QED BY <1>1, <1>2, <1>3, PTL DEF ManagedRoutesSpec

-----------------------------------------------------------------------------
(* The life of an agent. *)

Modes == {"inherit", "enabled", "disabled"}
BeatPcs == {"none", "health", "details", "online", "reread", "version", "answer"}
Beats ==
    [pc : BeatPcs, id : Ids \cup {Unlisted}, facts : Nat, blank : BOOLEAN, prev : AgentStates,
     fresh : AgentRows \cup {Unlisted}, policy : BOOLEAN, heard : BOOLEAN, calm : BOOLEAN]
Agents ==
    [pc : {"registering", "waiting", "running"}, id : Ids, fqdn : Fqdns, facts : Nat,
     policy : {"unknown", "on", "off"}]
RowsTyped == listed \in [Ids -> AgentRows \cup {Unlisted}]
SaidTyped == said \in [Ids -> [fqdn : Fqdns, pending : BOOLEAN, override : Modes]]
AskedTyped ==
    /\ DOMAIN asked = Slots /\ asked = [s \in Slots |-> asked[s]]
    /\ \A s \in Slots :
          /\ asked[s] = [pc |-> asked[s].pc, id |-> asked[s].id, copy |-> asked[s].copy, told |-> asked[s].told]
          /\ asked[s].pc \in {"write", "delete"} => asked[s].id \in Ids
          /\ asked[s].pc = "write" => asked[s].copy \in AgentRows
SweepTyped == \A i \in DOMAIN sweep : i \in Ids /\ sweep[i] \in {"adopted", "offline"}
LifeTyped ==
    /\ spare \in AgentLives /\ global \in {"unset", "true", "false"}
    /\ host \in Agents /\ beat \in Beats /\ (beat.pc # "none" => beat.id \in Ids)
    /\ RowsTyped /\ SaidTyped /\ AskedTyped /\ SweepTyped

\* A heartbeat that nobody has disturbed yet: what it has written is in the row, and what
\* it has read is true.
CalmInv ==
    beat.calm = TRUE /\ beat.pc # "none" =>
        /\ beat.id \in Ids /\ Known(beat.id)
        /\ LET e == listed[beat.id] IN
           /\ beat.pc \in {"health", "details", "online"} => e.status = beat.prev
           /\ beat.pc \in {"details", "online", "reread", "version", "answer"} =>
                 e.seen = "fresh" /\ e.health = beat.facts /\ (beat.blank = TRUE \/ e.ip = beat.facts)
           /\ beat.pc \in {"online", "reread", "version", "answer"} =>
                 e.detected = beat.facts /\ e.narrow = beat.facts
           /\ beat.pc \in {"reread", "version", "answer"} => e.status # "offline"
           /\ beat.pc \in {"version", "answer"} => (beat.policy = TRUE <=> Effective(e) = TRUE)
           /\ beat.pc = "version" => beat.fresh = e
           /\ beat.pc = "answer" => e.version = beat.facts
LifeInv == LifeTyped /\ DecisionsKept /\ CalmInv

\* A row that is known is one.
LEMMA KnownRow == ASSUME LifeTyped, NEW i \in Ids PROVE Known(i) <=> listed[i] \in AgentRows
  BY LifecycleAssumptions DEF LifeTyped, RowsTyped, Known

\* A step that leaves names and modes alone, and puts nobody back to pending.
LEMMA RowsEdited ==
    ASSUME LifeTyped, DecisionsKept, UNCHANGED said,
           \A i \in Ids : Known(i)' =>
              /\ Known(i) /\ listed'[i].fqdn = listed[i].fqdn /\ listed'[i].override = listed[i].override
              /\ listed'[i].status = "pending" => listed[i].status = "pending"
    PROVE  DecisionsKept'
  BY DEF DecisionsKept

\* A step of somebody else while a heartbeat is served.
LEMMA Disturbed ==
    ASSUME LifeTyped, Disturbs
    PROVE  beat' \in Beats /\ (beat'.pc # "none" => beat'.id \in Ids) /\ CalmInv'
  <1>1. beat' = [beat EXCEPT !.calm = FALSE] /\ beat \in Beats /\ (beat.pc # "none" => beat.id \in Ids)
    BY DEF Disturbs, LifeTyped
  <1>2. beat' \in Beats /\ beat'.calm = FALSE /\ beat'.pc = beat.pc /\ beat'.id = beat.id
    BY <1>1 DEF Beats
  <1> QED BY <1>1, <1>2 DEF CalmInv

\* A row after a field or two have been written.
LEMMA RowWrites ==
    ASSUME NEW e \in AgentRows, NEW n \in Nat, NEW v \in {"fresh", "stale"}, NEW t \in AgentStates, NEW o \in Modes
    PROVE  /\ [e EXCEPT !.seen = v] \in AgentRows /\ [e EXCEPT !.status = t] \in AgentRows
           /\ [e EXCEPT !.version = n] \in AgentRows /\ [e EXCEPT !.override = o] \in AgentRows
           /\ [e EXCEPT !.detected = n, !.narrow = n] \in AgentRows
           /\ [e EXCEPT !.seen = v, !.status = t] \in AgentRows
           /\ [e EXCEPT !.seen = v, !.health = n, !.ip = n] \in AgentRows
           /\ [e EXCEPT !.seen = v, !.health = n, !.ip = e.ip] \in AgentRows
  BY DEF AgentRows, Modes

LEMMA LifeStart == ASSUME LifecycleInit PROVE LifeInv
  <1>1. /\ spare \in AgentLives /\ global = "unset" /\ beat = NoBeat /\ sweep = NoSweep
        /\ asked = [s \in Slots |-> NoRequest]
        /\ said = [i \in Ids |-> [fqdn |-> spare.fqdn, pending |-> ~spare.adopted, override |-> "inherit"]]
    BY LifecycleAssumptions DEF LifecycleInit
  <1>2. spare.id \in Ids /\ spare.fqdn \in Fqdns /\ spare.adopted \in BOOLEAN
    BY <1>1 DEF AgentLives
  <1>3. host \in Agents
    <2>1. CASE spare.adopted = TRUE
      BY <1>2, <2>1 DEF LifecycleInit, Agents
    <2>2. CASE spare.adopted = FALSE
      BY <1>2, <2>2 DEF LifecycleInit, Agents
    <2> QED BY <1>2, <2>1, <2>2
  <1>4. beat \in Beats /\ beat.pc = "none"
    BY <1>1 DEF NoBeat, Beats, BeatPcs, AgentStates
  <1> DEFINE row == [Entered(spare.fqdn, 1) EXCEPT !.status = "adopted"]
  <1>5. row \in AgentRows /\ row.fqdn = spare.fqdn /\ row.override = "inherit" /\ row.status = "adopted"
    BY <1>2 DEF Entered, AgentRows, AgentStates
  <1>6. listed = [i \in Ids |-> IF spare.adopted /\ i = spare.id THEN row ELSE Unlisted]
    BY DEF LifecycleInit
  <1> HIDE DEF row
  <1>7. RowsTyped
    BY <1>5, <1>6 DEF RowsTyped
  <1>8. SaidTyped
    <2>1. CASE spare.adopted = TRUE
      BY <1>1, <1>2, <2>1 DEF SaidTyped, Modes
    <2>2. CASE spare.adopted = FALSE
      BY <1>1, <1>2, <2>2 DEF SaidTyped, Modes
    <2> QED BY <1>2, <2>1, <2>2
  <1>9. AskedTyped /\ SweepTyped
    BY <1>1 DEF AskedTyped, NoRequest, Request, SweepTyped, NoSweep
  <1>10. DecisionsKept
    BY <1>1, <1>5, <1>6 DEF DecisionsKept, Known
  <1> QED BY <1>1, <1>3, <1>4, <1>7, <1>8, <1>9, <1>10 DEF LifeInv, LifeTyped, CalmInv

LEMMA Occurred == ASSUME LifeTyped, NEW w, Occurs(w) PROVE spare' \in AgentLives
  BY DEF LifeTyped, Occurs, AgentLives

\* What nobody writes stays as it is.
LEMMA TypesStay ==
    /\ RowsTyped /\ UNCHANGED listed => RowsTyped'
    /\ SaidTyped /\ UNCHANGED said => SaidTyped'
    /\ AskedTyped /\ UNCHANGED asked => AskedTyped'
    /\ SweepTyped /\ UNCHANGED sweep => SweepTyped'
    /\ DecisionsKept /\ UNCHANGED <<listed, said>> => DecisionsKept'
    /\ CalmInv /\ UNCHANGED <<listed, global, beat>> => CalmInv'
  <1>1. \A e : UNCHANGED global => Effective(e)' = Effective(e)
    BY DEF Effective
  <1>2. UNCHANGED listed => \A i \in Ids : Known(i)' = Known(i)
    BY DEF Known
  <1>3. CalmInv /\ UNCHANGED <<listed, global, beat>> => CalmInv'
    BY DEF CalmInv, Known, Effective
  <1> QED BY <1>2, <1>3 DEF RowsTyped, SaidTyped, AskedTyped, SweepTyped, DecisionsKept

\* A step of somebody other than the heartbeat.
LEMMA OutsideStep ==
    ASSUME LifeInv, Disturbs, spare' \in AgentLives, global' \in {"unset", "true", "false"}, host' \in Agents,
           RowsTyped', SaidTyped', AskedTyped', SweepTyped', DecisionsKept'
    PROVE  LifeInv'
  BY Disturbed DEF LifeInv, LifeTyped

LEMMA RegisterKeeps == ASSUME LifeInv, Register PROVE LifeInv'
  <1> USE DEF LifeInv
  <1>1. /\ host' = [host EXCEPT !.pc = "waiting"] /\ host \in Agents /\ Disturbs
        /\ UNCHANGED <<global, line, asked, sweep, spare>>
    BY DEF Register, Waits, LifeTyped
  <1>2. host' \in Agents /\ host.id \in Ids /\ host.fqdn \in Fqdns /\ host.facts \in Nat
    BY <1>1 DEF Agents
  <1>3. CASE UNCHANGED <<listed, said>>
    BY <1>1, <1>2, <1>3, TypesStay, OutsideStep DEF LifeTyped
  <1>4. CASE /\ listed' = [listed EXCEPT ![host.id] = Entered(host.fqdn, host.facts)]
             /\ said' = [said EXCEPT ![host.id] = [fqdn |-> host.fqdn, pending |-> TRUE, override |-> "inherit"]]
    <2> DEFINE row == Entered(host.fqdn, host.facts)
               word == [fqdn |-> host.fqdn, pending |-> TRUE, override |-> "inherit"]
    <2>1. row \in AgentRows /\ row.fqdn = host.fqdn /\ row.override = "inherit"
      BY <1>2 DEF Entered, AgentRows, AgentStates
    <2>2. word \in [fqdn : Fqdns, pending : BOOLEAN, override : Modes]
          /\ word.fqdn = host.fqdn /\ word.pending = TRUE /\ word.override = "inherit"
      BY <1>2 DEF Modes
    <2>3. listed' = [listed EXCEPT ![host.id] = row] /\ said' = [said EXCEPT ![host.id] = word]
      BY <1>4
    <2> HIDE DEF row, word
    <2>4. RowsTyped' /\ SaidTyped'
      BY <1>2, <2>1, <2>2, <2>3 DEF LifeTyped, RowsTyped, SaidTyped
    <2>5. /\ listed'[host.id] = row /\ said'[host.id] = word
          /\ \A i \in Ids : i # host.id => listed'[i] = listed[i] /\ said'[i] = said[i]
      BY <1>2, <2>3 DEF LifeTyped, RowsTyped, SaidTyped
    <2>6. DecisionsKept'
      BY <2>1, <2>2, <2>5 DEF DecisionsKept, Known
    <2> QED BY <1>1, <1>2, <2>4, <2>6, TypesStay, OutsideStep DEF LifeTyped
  <1> QED BY <1>3, <1>4 DEF Register

\* The process of the agent alone.
LEMMA AgentKeeps ==
    ASSUME LifeInv, RegisterFails \/ Poll \/ (\E i \in Ids : Restart(i)) \/ Disconnect \/ AnswerLost
    PROVE  LifeInv'
  <1> USE DEF LifeInv
  <1>1. host \in Agents /\ spare \in AgentLives /\ beat \in Beats
    BY DEF LifeTyped
  <1>2. UNCHANGED <<listed, global, asked, sweep, said>>
    BY DEF RegisterFails, Poll, Restart, Disconnect, AnswerLost
  <1>3. host' \in Agents
    <2>1. CASE RegisterFails
      BY <1>1, <2>1 DEF RegisterFails, Waits, Agents
    <2>2. CASE Poll
      BY <1>1, <2>2 DEF Poll, Agents
    <2>3. ASSUME NEW i \in Ids, Restart(i) PROVE host' \in Agents
      <3>1. host' = [host EXCEPT !.pc = "registering", !.id = i, !.policy = "unknown",
                                 !.facts = IF @ < spare.news THEN @ + 1 ELSE @]
        BY <2>3 DEF Restart
      <3>2. host.facts \in Nat
        BY <1>1 DEF Agents
      <3>3. PICK n \in Nat : n = IF host.facts < spare.news THEN host.facts + 1 ELSE host.facts
        BY <3>2
      <3>4. host' = [host EXCEPT !.pc = "registering", !.id = i, !.policy = "unknown", !.facts = n]
        BY <3>1, <3>3
      <3> QED BY <1>1, <3>4 DEF Agents
    <2>4. CASE Disconnect \/ AnswerLost
      BY <1>1, <2>4 DEF Disconnect, AnswerLost
    <2> QED BY <2>1, <2>2, <2>3, <2>4
  <1>4. spare' \in AgentLives
    <2>1. UNCHANGED spare \/ Occurs("unreachable") \/ Occurs("restart") \/ Occurs("lost")
      BY DEF RegisterFails, Poll, Restart, Disconnect, AnswerLost
    <2> QED BY <1>1, <2>1, Occurred
  <1>5. beat' \in Beats /\ (beat'.pc # "none" => beat'.id \in Ids) /\ CalmInv'
    <2>1. CASE UNCHANGED beat
      BY <1>1, <1>2, <2>1, TypesStay DEF LifeTyped
    <2>2. CASE beat' = NoBeat
      BY <2>2 DEF NoBeat, Beats, BeatPcs, AgentStates, CalmInv
    <2>3. CASE beat' = [beat EXCEPT !.heard = FALSE]
      <3>1. /\ beat' \in Beats /\ beat'.pc = beat.pc /\ beat'.id = beat.id /\ beat'.facts = beat.facts
            /\ beat'.blank = beat.blank /\ beat'.prev = beat.prev /\ beat'.fresh = beat.fresh
            /\ beat'.policy = beat.policy /\ beat'.calm = beat.calm
        BY <1>1, <2>3 DEF Beats
      <3>2. \A e : Effective(e)' = Effective(e)
        BY <1>2 DEF Effective
      <3>3. CalmInv'
        BY <1>2, <3>1, <3>2 DEF CalmInv, Known, Effective
      <3> QED BY <3>1, <3>3 DEF LifeTyped
    <2> QED BY <2>1, <2>2, <2>3 DEF RegisterFails, Poll, Restart, Disconnect, AnswerLost, BeatGone
  <1> QED BY <1>2, <1>3, <1>4, <1>5, TypesStay DEF LifeTyped

\* The heartbeat begins: the row is known, and its status is the one that it saw.
LEMMA SendKeeps == ASSUME LifeInv, NEW blank \in BOOLEAN, SendBeat(blank) PROVE LifeInv'
  <1> USE DEF LifeInv
  <1> DEFINE calm == Quiet /\ sweep = NoSweep /\ line.queue = <<>> /\ line.pc # "joining"
             next == [NoBeat EXCEPT !.pc = "health", !.id = host.id, !.facts = host.facts, !.blank = blank,
                                    !.prev = listed[host.id].status, !.heard = TRUE, !.calm = calm]
  <1>1. /\ beat' = next /\ Known(host.id) /\ host.id \in Ids /\ host.facts \in Nat
        /\ UNCHANGED <<listed, global, host, line, asked, sweep, said, spare>>
    BY DEF SendBeat, BeatKeeps, LifeTyped, Agents
  <1>2. listed[host.id] \in AgentRows /\ listed[host.id].status \in AgentStates
    BY <1>1, KnownRow DEF AgentRows
  <1>3. calm \in BOOLEAN
    OBVIOUS
  <1> HIDE DEF calm
  <1>4. /\ next.pc = "health" /\ next.id = host.id /\ next.prev = listed[host.id].status
        /\ next \in Beats
    BY <1>1, <1>2, <1>3 DEF NoBeat, Beats, BeatPcs
  <1> HIDE DEF next
  <1>5. CalmInv'
    BY <1>1, <1>4 DEF CalmInv, Known
  <1> QED BY <1>1, <1>4, <1>5, TypesStay DEF LifeTyped

\* A step of the heartbeat that writes its row, if it is still there.
LEMMA BeatWrites ==
    ASSUME LifeInv, BeatKeeps, NEW row \in AgentRows,
           beat.pc # "none", beat' \in Beats, beat'.pc # "none" => beat'.id \in Ids,
           \/ UNCHANGED listed
           \/ /\ Known(beat.id) /\ listed' = [listed EXCEPT ![beat.id] = row]
              /\ row.fqdn = listed[beat.id].fqdn /\ row.override = listed[beat.id].override
              /\ row.status = "pending" => listed[beat.id].status = "pending",
           CalmInv'
    PROVE  LifeInv'
  <1> USE DEF LifeInv
  <1>1. UNCHANGED <<global, host, line, asked, sweep, said, spare>>
    BY DEF BeatKeeps
  <1>2. CASE UNCHANGED listed
    BY <1>1, <1>2, TypesStay DEF LifeTyped
  <1>3. CASE /\ Known(beat.id) /\ listed' = [listed EXCEPT ![beat.id] = row]
             /\ row.fqdn = listed[beat.id].fqdn /\ row.override = listed[beat.id].override
             /\ row.status = "pending" => listed[beat.id].status = "pending"
    <2>1. RowsTyped'
      BY <1>3 DEF LifeTyped, RowsTyped
    <2>2. \A i \in Ids : listed'[i] = listed[i] \/ (i = beat.id /\ listed'[i] = row)
      BY <1>3 DEF LifeTyped, RowsTyped
    <2>3. DecisionsKept'
      BY <1>1, <1>3, <2>2, RowsEdited DEF Known
    <2> QED BY <1>1, <2>1, <2>3, TypesStay DEF LifeTyped
  <1> QED BY <1>2, <1>3

\* The fields of the heartbeat at its next step.
LEMMA BeatMoves ==
    ASSUME LifeTyped, NEW pc \in BeatPcs, beat' = [beat EXCEPT !.pc = pc]
    PROVE  /\ beat' \in Beats /\ beat'.pc = pc /\ beat'.id = beat.id /\ beat'.facts = beat.facts
           /\ beat'.blank = beat.blank /\ beat'.prev = beat.prev /\ beat'.fresh = beat.fresh
           /\ beat'.policy = beat.policy /\ beat'.calm = beat.calm
           /\ (beat.pc # "none" => beat'.id \in Ids)
  BY DEF LifeTyped, Beats
LEMMA BeatFields ==
    ASSUME LifeTyped
    PROVE  beat.facts \in Nat /\ beat.blank \in BOOLEAN /\ beat.calm \in BOOLEAN /\ beat.policy \in BOOLEAN
  BY DEF LifeTyped, Beats
LEMMA BeatEnds ==
    ASSUME beat' = NoBeat
    PROVE  beat' \in Beats /\ beat'.pc = "none" /\ CalmInv'
  BY DEF NoBeat, Beats, BeatPcs, AgentStates, CalmInv

LEMMA HealthKeeps == ASSUME LifeInv, BeatHealth PROVE LifeInv'
  <1> USE DEF LifeInv
  <1>1. beat.pc = "health" /\ BeatKeeps
    BY DEF BeatHealth, BeatAt
  <1>2. CASE ~Known(beat.id)
    <2>1. beat' = NoBeat /\ UNCHANGED listed
      BY <1>2 DEF BeatHealth, BeatGone
    <2>2. LifeTyped' /\ DecisionsKept'
      BY <1>1, <2>1, BeatEnds, TypesStay DEF BeatKeeps, LifeTyped
    <2> QED BY <2>1, <2>2, BeatEnds
  <1>3. CASE Known(beat.id)
    <2> DEFINE e == listed[beat.id]
               row == [e EXCEPT !.seen = "fresh", !.health = beat.facts,
                                !.ip = IF beat.blank THEN e.ip ELSE beat.facts]
    <2>1. /\ listed' = [listed EXCEPT ![beat.id] = row] /\ beat' = [beat EXCEPT !.pc = "details"]
          /\ UNCHANGED <<global, host, line, asked, sweep, said, spare>>
      BY <1>1, <1>3 DEF BeatHealth, Then, BeatKeeps
    <2>2. CASE beat.id \in Ids
      <3>1. e \in AgentRows
        BY <1>3, <2>2, KnownRow
      <3>2. /\ row \in AgentRows /\ row.fqdn = e.fqdn /\ row.override = e.override /\ row.status = e.status
            /\ row.seen = "fresh" /\ row.health = beat.facts /\ (beat.blank = TRUE \/ row.ip = beat.facts)
        <4>1. CASE beat.blank = TRUE
          BY <3>1, <4>1, BeatFields DEF AgentRows
        <4>2. CASE beat.blank = FALSE
          BY <3>1, <4>2, BeatFields DEF AgentRows
        <4> QED BY <4>1, <4>2, BeatFields
      <3> HIDE DEF row
      <3>3. /\ beat' \in Beats /\ beat'.pc = "details" /\ beat'.id = beat.id /\ beat'.facts = beat.facts
            /\ beat'.blank = beat.blank /\ beat'.prev = beat.prev /\ beat'.calm = beat.calm
        BY <2>1, BeatMoves DEF BeatPcs
      <3>4. listed'[beat.id] = row /\ row # Unlisted
        BY <2>1, <2>2, <3>2, LifecycleAssumptions DEF LifeTyped, RowsTyped
      <3>5. CalmInv'
        BY <1>1, <2>2, <3>2, <3>3, <3>4 DEF CalmInv, Known
      <3> QED BY <1>1, <1>3, <2>1, <2>2, <3>2, <3>3, <3>5, BeatWrites
    <2> QED BY <1>1, <2>2 DEF LifeTyped
  <1> QED BY <1>2, <1>3

\* A step of the heartbeat that finds its row gone, and goes on.
LEMMA BeatMisses ==
    ASSUME LifeInv, beat.pc # "none", ~Known(beat.id),
           beat' \in Beats, beat'.id = beat.id, beat'.calm = beat.calm, UNCHANGED listed, BeatKeeps
    PROVE  LifeInv'
  <1> USE DEF LifeInv
  <1>1. beat.calm = FALSE
    BY BeatFields DEF CalmInv
  <1>2. CalmInv'
    BY <1>1 DEF CalmInv
  <1>3. beat'.id \in Ids
    BY DEF LifeTyped
  <1>4. UNCHANGED <<global, host, asked, sweep, said, spare>>
    BY DEF BeatKeeps
  <1> QED BY <1>2, <1>3, <1>4, TypesStay DEF LifeTyped

LEMMA DetailsKeeps == ASSUME LifeInv, BeatDetails PROVE LifeInv'
  <1> USE DEF LifeInv
  <1>1. beat.pc = "details" /\ BeatKeeps /\ beat' = [beat EXCEPT !.pc = "online"] /\ beat.id \in Ids
    BY DEF BeatDetails, BeatAt, Then, LifeTyped
  <1>2. /\ beat' \in Beats /\ beat'.pc = "online" /\ beat'.id = beat.id /\ beat'.facts = beat.facts
        /\ beat'.blank = beat.blank /\ beat'.prev = beat.prev /\ beat'.calm = beat.calm
    BY <1>1, BeatMoves DEF BeatPcs
  <1>3. CASE ~Known(beat.id)
    BY <1>1, <1>2, <1>3, BeatMisses DEF BeatDetails
  <1>4. CASE Known(beat.id)
    <2> DEFINE e == listed[beat.id]
               row == [e EXCEPT !.detected = beat.facts, !.narrow = beat.facts]
    <2>1. listed' = [listed EXCEPT ![beat.id] = row]
      BY <1>4 DEF BeatDetails
    <2>2. e \in AgentRows
      BY <1>1, <1>4, KnownRow
    <2>3. /\ row \in AgentRows /\ row.fqdn = e.fqdn /\ row.override = e.override /\ row.status = e.status
          /\ row.seen = e.seen /\ row.health = e.health /\ row.ip = e.ip
          /\ row.detected = beat.facts /\ row.narrow = beat.facts
      BY <2>2, BeatFields DEF AgentRows
    <2> HIDE DEF row
    <2>4. listed'[beat.id] = row /\ row # Unlisted
      BY <1>1, <2>1, <2>3, LifecycleAssumptions DEF LifeTyped, RowsTyped
    <2>5. CalmInv'
      BY <1>1, <1>2, <2>3, <2>4 DEF CalmInv, Known
    <2> QED BY <1>1, <1>2, <1>4, <2>1, <2>3, <2>5, BeatWrites
  <1> QED BY <1>3, <1>4

LEMMA OnlineKeeps == ASSUME LifeInv, BeatOnline PROVE LifeInv'
  <1> USE DEF LifeInv
  <1>1. beat.pc = "online" /\ BeatKeeps /\ beat' = [beat EXCEPT !.pc = "reread", !.prev = "pending"] /\ beat.id \in Ids
    BY DEF BeatOnline, BeatAt, LifeTyped
  <1>2. /\ beat' \in Beats /\ beat'.pc = "reread" /\ beat'.id = beat.id /\ beat'.facts = beat.facts
        /\ beat'.blank = beat.blank /\ beat'.calm = beat.calm
    BY <1>1 DEF LifeTyped, Beats, BeatPcs, AgentStates
  <1>3. CASE ~Known(beat.id)
    BY <1>1, <1>2, <1>3, BeatMisses DEF BeatOnline
  <1>4. CASE Known(beat.id)
    <2> DEFINE e == listed[beat.id]
    <2>1. e \in AgentRows
      BY <1>1, <1>4, KnownRow
    <2>2. PICK row \in AgentRows :
              /\ row.fqdn = e.fqdn /\ row.override = e.override
              /\ row.seen = e.seen /\ row.health = e.health /\ row.ip = e.ip
              /\ row.detected = e.detected /\ row.narrow = e.narrow
              /\ row.status = IF beat.prev = "offline" THEN "adopted" ELSE e.status
              /\ (UNCHANGED listed /\ row = e) \/ listed' = [listed EXCEPT ![beat.id] = row]
      <3>1. CASE beat.prev = "offline"
        <4> DEFINE row == [e EXCEPT !.status = "adopted"]
        <4>1. listed' = [listed EXCEPT ![beat.id] = row]
          BY <1>4, <3>1 DEF BeatOnline
        <4>2. row \in AgentRows /\ row.fqdn = e.fqdn /\ row.override = e.override
              /\ row.seen = e.seen /\ row.health = e.health /\ row.ip = e.ip
              /\ row.detected = e.detected /\ row.narrow = e.narrow /\ row.status = "adopted"
          BY <2>1 DEF AgentRows, AgentStates
        <4> HIDE DEF row
        <4> QED BY <3>1, <4>1, <4>2
      <3>2. CASE beat.prev # "offline"
        <4>1. UNCHANGED listed
          BY <3>2 DEF BeatOnline
        <4> QED BY <2>1, <3>2, <4>1
      <3> QED BY <3>1, <3>2
    <2>3. listed'[beat.id] = row /\ row # Unlisted
      BY <1>1, <2>2, LifecycleAssumptions DEF LifeTyped, RowsTyped
    <2>4. CalmInv'
      BY <1>1, <1>2, <2>2, <2>3 DEF CalmInv, Known
    <2>5. UNCHANGED listed \/ listed' = [listed EXCEPT ![beat.id] = row]
      BY <2>2
    <2>6. row.fqdn = e.fqdn /\ row.override = e.override /\ (row.status = "pending" => e.status = "pending")
      BY <2>2
    <2> QED BY <1>1, <1>2, <1>4, <2>4, <2>5, <2>6, BeatWrites
  <1> QED BY <1>3, <1>4

LEMMA RereadKeeps == ASSUME LifeInv, BeatReread PROVE LifeInv'
  <1> USE DEF LifeInv
  <1>1. beat.pc = "reread" /\ BeatKeeps /\ beat.id \in Ids /\ UNCHANGED listed
    BY DEF BeatReread, BeatAt, LifeTyped
  <1>2. CASE ~Known(beat.id)
    <2>1. beat' = NoBeat
      BY <1>2 DEF BeatReread, BeatGone
    <2>2. LifeTyped' /\ DecisionsKept'
      BY <1>1, <2>1, BeatEnds, TypesStay DEF BeatKeeps, LifeTyped
    <2> QED BY <2>1, <2>2, BeatEnds
  <1>3. CASE Known(beat.id)
    <2> DEFINE e == listed[beat.id]
               policy == Effective(e)
    <2>1. e \in AgentRows
      BY <1>1, <1>3, KnownRow
    <2>2. policy \in BOOLEAN
      BY DEF Effective
    <2>3. beat' = [beat EXCEPT !.pc = "version", !.fresh = e, !.policy = policy]
      BY <1>3 DEF BeatReread
    <2> HIDE DEF policy
    <2>4. /\ beat' \in Beats /\ beat'.pc = "version" /\ beat'.id = beat.id /\ beat'.facts = beat.facts
          /\ beat'.blank = beat.blank /\ beat'.calm = beat.calm /\ beat'.fresh = e /\ beat'.policy = policy
      BY <2>1, <2>2, <2>3 DEF LifeTyped, Beats, BeatPcs
    <2>5. Effective(e)' = policy
      BY <1>1, <2>4 DEF Effective, policy, BeatKeeps
    <2>6. CalmInv'
      BY <1>1, <2>2, <2>4, <2>5 DEF CalmInv, Known
    <2> QED BY <1>1, <2>1, <2>4, <2>6, BeatWrites
  <1> QED BY <1>2, <1>3

LEMMA VersionKeeps == ASSUME LifeInv, BeatVersion PROVE LifeInv'
  <1> USE DEF LifeInv
  <1>1. beat.pc = "version" /\ BeatKeeps /\ beat' = [beat EXCEPT !.pc = "answer", !.fresh = Unlisted] /\ beat.id \in Ids
    BY DEF BeatVersion, BeatAt, LifeTyped
  <1>2. /\ beat' \in Beats /\ beat'.pc = "answer" /\ beat'.id = beat.id /\ beat'.facts = beat.facts
        /\ beat'.blank = beat.blank /\ beat'.calm = beat.calm /\ beat'.policy = beat.policy
    BY <1>1 DEF LifeTyped, Beats, BeatPcs
  <1>3. CASE ~Known(beat.id)
    BY <1>1, <1>2, <1>3, BeatMisses DEF BeatVersion
  <1>4. CASE Known(beat.id)
    <2> DEFINE e == listed[beat.id]
    <2>1. e \in AgentRows
      BY <1>1, <1>4, KnownRow
    <2>2. PICK row \in AgentRows :
              /\ row.fqdn = e.fqdn /\ row.override = e.override
              /\ row.seen = e.seen /\ row.health = e.health /\ row.ip = e.ip
              /\ row.detected = e.detected /\ row.narrow = e.narrow /\ row.status = e.status
              /\ beat.fresh = e => row.version = beat.facts
              /\ (UNCHANGED listed /\ row = e) \/ listed' = [listed EXCEPT ![beat.id] = row]
      <3>1. CASE beat.fresh.version # beat.facts
        <4> DEFINE row == [e EXCEPT !.version = beat.facts]
        <4>1. listed' = [listed EXCEPT ![beat.id] = row]
          BY <1>4, <3>1 DEF BeatVersion
        <4>2. row \in AgentRows /\ row.fqdn = e.fqdn /\ row.override = e.override
              /\ row.seen = e.seen /\ row.health = e.health /\ row.ip = e.ip
              /\ row.detected = e.detected /\ row.narrow = e.narrow /\ row.status = e.status
              /\ row.version = beat.facts
          BY <2>1, BeatFields DEF AgentRows
        <4> HIDE DEF row
        <4> QED BY <4>1, <4>2
      <3>2. CASE beat.fresh.version = beat.facts
        <4>1. UNCHANGED listed
          BY <3>2 DEF BeatVersion
        <4> QED BY <2>1, <3>2, <4>1
      <3> QED BY <3>1, <3>2
    <2>3. listed'[beat.id] = row /\ row # Unlisted
      BY <1>1, <2>2, LifecycleAssumptions DEF LifeTyped, RowsTyped
    <2>4. Effective(listed[beat.id])' = Effective(e)
      BY <1>1, <1>2, <2>2, <2>3 DEF Effective, BeatKeeps
    <2>5. CalmInv'
      BY <1>1, <1>2, <2>2, <2>3, <2>4 DEF CalmInv, Known
    <2>6. UNCHANGED listed \/ listed' = [listed EXCEPT ![beat.id] = row]
      BY <2>2
    <2>7. row.fqdn = e.fqdn /\ row.override = e.override /\ (row.status = "pending" => e.status = "pending")
      BY <2>2
    <2> QED BY <1>1, <1>2, <1>4, <2>5, <2>6, <2>7, BeatWrites
  <1> QED BY <1>3, <1>4

\* The answer: the agent follows the policy that was in effect when the row was read.
LEMMA AnswerKeeps == ASSUME LifeInv, BeatAnswer PROVE LifeInv'
  <1> USE DEF LifeInv
  <1>1. beat' = NoBeat /\ UNCHANGED <<listed, global, line, asked, sweep, said, spare>>
    BY DEF BeatAnswer, BeatGone
  <1>2. host' \in Agents
    <2>1. host \in Agents
      BY DEF LifeTyped
    <2>2. CASE beat.policy = TRUE
      BY <2>1, <2>2 DEF BeatAnswer, Agents
    <2>3. CASE beat.policy = FALSE
      BY <2>1, <2>3 DEF BeatAnswer, Agents
    <2> QED BY <2>2, <2>3, BeatFields
  <1>3. beat' \in Beats /\ beat'.pc = "none" /\ CalmInv'
    BY <1>1, BeatEnds
  <1> QED BY <1>1, <1>2, <1>3, TypesStay DEF LifeTyped

\* The stream: it hears the agent, and carries policies.
LEMMA StreamKeeps ==
    ASSUME LifeInv, Connect \/ MarkAgentOnline \/ Keepalive \/ HandlePolicy
    PROVE  LifeInv'
  <1> USE DEF LifeInv
  <1>1. /\ Disturbs /\ UNCHANGED <<global, asked, sweep, said, spare>>
    BY DEF Connect, MarkAgentOnline, Keepalive, HandlePolicy
  <1>2. host \in Agents /\ host.id \in Ids
    BY DEF LifeTyped, Agents
  <1>3. host' \in Agents
    <2>1. CASE HandlePolicy
      <3>1. host' = [host EXCEPT !.policy = "on"] \/ host' = [host EXCEPT !.policy = "off"]
        BY <2>1 DEF HandlePolicy
      <3> QED BY <1>2, <3>1 DEF Agents
    <2>2. CASE Connect \/ MarkAgentOnline \/ Keepalive
      BY <1>2, <2>2 DEF Connect, MarkAgentOnline, Keepalive
    <2> QED BY <2>1, <2>2
  <1>4. CASE UNCHANGED listed
    BY <1>1, <1>3, <1>4, TypesStay, OutsideStep DEF LifeTyped
  <1>5. ASSUME NEW row \in AgentRows, Known(host.id), listed' = [listed EXCEPT ![host.id] = row],
               row.fqdn = listed[host.id].fqdn, row.override = listed[host.id].override,
               row.status = "pending" => listed[host.id].status = "pending"
        PROVE  LifeInv'
    <2>1. RowsTyped'
      BY <1>5 DEF LifeTyped, RowsTyped
    <2>2. \A i \in Ids : listed'[i] = listed[i] \/ (i = host.id /\ listed'[i] = row)
      BY <1>5 DEF LifeTyped, RowsTyped
    <2>3. DecisionsKept'
      BY <1>1, <1>5, <2>2, RowsEdited DEF Known
    <2> QED BY <1>1, <1>3, <2>1, <2>3, TypesStay, OutsideStep DEF LifeTyped
  <1>6. CASE MarkAgentOnline /\ Known(host.id)
    <2> DEFINE e == listed[host.id]
    <2>1. e \in AgentRows
      BY <1>2, <1>6, KnownRow
    <2>2. CASE line.prev = "offline"
      <3> DEFINE row == [e EXCEPT !.seen = "fresh", !.status = "adopted"]
      <3>1. row \in AgentRows /\ row.fqdn = e.fqdn /\ row.override = e.override /\ row.status = "adopted"
        BY <2>1 DEF AgentRows, AgentStates
      <3>2. listed' = [listed EXCEPT ![host.id] = row]
        BY <1>6, <2>2 DEF MarkAgentOnline
      <3> HIDE DEF row
      <3> QED BY <1>5, <1>6, <3>1, <3>2
    <2>3. CASE line.prev # "offline"
      <3> DEFINE row == [e EXCEPT !.seen = "fresh", !.status = e.status]
      <3>1. row \in AgentRows /\ row.fqdn = e.fqdn /\ row.override = e.override /\ row.status = e.status
        BY <2>1 DEF AgentRows, AgentStates
      <3>2. listed' = [listed EXCEPT ![host.id] = row]
        BY <1>6, <2>3 DEF MarkAgentOnline
      <3> HIDE DEF row
      <3> QED BY <1>5, <1>6, <3>1, <3>2
    <2> QED BY <2>2, <2>3
  <1>7. CASE Keepalive
    <2> DEFINE e == listed[host.id]
               row == [e EXCEPT !.seen = "fresh"]
    <2>1. e \in AgentRows /\ Known(host.id)
      BY <1>2, <1>7, KnownRow DEF Keepalive
    <2>2. row \in AgentRows /\ row.fqdn = e.fqdn /\ row.override = e.override /\ row.status = e.status
      BY <2>1 DEF AgentRows
    <2>3. listed' = [listed EXCEPT ![host.id] = row]
      BY <1>7 DEF Keepalive
    <2> HIDE DEF row
    <2> QED BY <1>5, <2>1, <2>2, <2>3
  <1> QED BY <1>4, <1>6, <1>7 DEF Connect, MarkAgentOnline, HandlePolicy

\* The requests of operators.
LEMMA AskedMoves ==
    ASSUME AskedTyped, NEW s \in Slots, NEW r, asked' = [asked EXCEPT ![s] = r],
           r = [pc |-> r.pc, id |-> r.id, copy |-> r.copy, told |-> r.told],
           r.pc \in {"write", "delete"} => r.id \in Ids, r.pc = "write" => r.copy \in AgentRows
    PROVE  AskedTyped'
  <1>1. DOMAIN asked' = Slots /\ \A t \in Slots : asked'[t] = IF t = s THEN r ELSE asked[t]
    BY DEF AskedTyped
  <1>2. asked' = [t \in Slots |-> asked'[t]]
    BY DEF AskedTyped
  <1> QED BY <1>1, <1>2 DEF AskedTyped
LEMMA AskedEnds == ASSUME AskedTyped, NEW s \in Slots, Done(s) PROVE AskedTyped'
  <1>1. asked' = [asked EXCEPT ![s] = NoRequest]
    BY DEF Done
  <1>2. /\ NoRequest = [pc |-> NoRequest.pc, id |-> NoRequest.id, copy |-> NoRequest.copy, told |-> NoRequest.told]
        /\ NoRequest.pc = "none"
    BY DEF NoRequest, Request
  <1> QED BY <1>1, <1>2, AskedMoves

LEMMA ReadAgentKeeps ==
    ASSUME LifeInv, NEW s \in Slots, NEW i \in Ids, NEW f \in Fqdns, NEW adopts \in BOOLEAN,
           ReadAgent(s, i, f, adopts)
    PROVE  LifeInv'
  <1> USE DEF LifeInv
  <1> DEFINE e == listed[i]
             copy == [e EXCEPT !.fqdn = f, !.status = IF adopts THEN "adopted" ELSE e.status]
             r == Request("write", i, copy)
  <1>1. /\ Known(i) /\ Disturbs /\ asked' = [asked EXCEPT ![s] = r]
        /\ UNCHANGED <<host, sweep, listed, global, line, said>>
    BY DEF ReadAgent, Asks, RequestKeeps
  <1>2. e \in AgentRows
    BY <1>1, KnownRow
  <1>3. copy \in AgentRows
    <2>1. CASE adopts = TRUE
      BY <1>2, <2>1 DEF AgentRows, AgentStates
    <2>2. CASE adopts = FALSE
      BY <1>2, <2>2 DEF AgentRows, AgentStates
    <2> QED BY <2>1, <2>2
  <1> HIDE DEF copy
  <1>4. r.pc = "write" /\ r.id = i /\ r.copy = copy /\ r = [pc |-> r.pc, id |-> r.id, copy |-> r.copy, told |-> r.told]
    BY DEF NoRequest, Request
  <1> HIDE DEF r
  <1>5. AskedTyped'
    BY <1>1, <1>3, <1>4, AskedMoves DEF LifeTyped
  <1>6. spare' \in AgentLives
    <2>1. Occurs("adopt") \/ Occurs("update")
      BY DEF ReadAgent
    <2> QED BY <2>1, Occurred
  <1> QED BY <1>1, <1>5, <1>6, TypesStay, OutsideStep DEF LifeTyped

\* What an operator has decided is written, whatever was read before.
LEMMA WriteAgentKeeps == ASSUME LifeInv, NEW s \in Slots, WriteAgent(s) PROVE LifeInv'
  <1> USE DEF LifeInv
  <1> DEFINE i == asked[s].id
             e == asked[s].copy
  <1>1. /\ asked[s].pc = "write" /\ Disturbs /\ Done(s) /\ UNCHANGED <<host, sweep, global, line, spare>>
    BY DEF WriteAgent, RequestKeeps
  <1>2. i \in Ids /\ e \in AgentRows
    BY <1>1 DEF LifeTyped, AskedTyped
  <1>3. AskedTyped'
    BY <1>1, AskedEnds DEF LifeTyped
  <1>4. CASE UNCHANGED <<listed, said>>
    BY <1>1, <1>3, <1>4, TypesStay, OutsideStep DEF LifeTyped
  <1>5. CASE /\ Known(i) /\ listed' = [listed EXCEPT ![i] = FullWrite(i, e)]
             /\ said' = [said EXCEPT ![i] = [@ EXCEPT !.fqdn = e.fqdn, !.pending = e.status = "pending"]]
    <2> DEFINE row == FullWrite(i, e)
               pending == e.status = "pending"
               word == [said[i] EXCEPT !.fqdn = e.fqdn, !.pending = pending]
    <2>1. listed[i] \in AgentRows
      BY <1>2, <1>5, KnownRow
    <2>2. /\ row \in AgentRows /\ row.fqdn = e.fqdn /\ row.status = e.status
          /\ row.override = listed[i].override
      BY <1>2, <2>1 DEF FullWrite, AgentRows
    <2>3. said[i] \in [fqdn : Fqdns, pending : BOOLEAN, override : Modes]
      BY <1>2 DEF LifeTyped, SaidTyped
    <2>4. pending \in BOOLEAN /\ (e.status = "pending" => pending = TRUE) /\ e.fqdn \in Fqdns
      BY <1>2 DEF AgentRows
    <2>5. said' = [said EXCEPT ![i] = word]
      BY <1>5
    <2> HIDE DEF row, pending
    <2>6. /\ word \in [fqdn : Fqdns, pending : BOOLEAN, override : Modes]
          /\ word.fqdn = e.fqdn /\ word.pending = pending /\ word.override = said[i].override
      BY <2>3, <2>4
    <2>7. listed' = [listed EXCEPT ![i] = row]
      BY <1>5 DEF row
    <2> HIDE DEF word
    <2>8. RowsTyped' /\ SaidTyped'
      BY <1>2, <2>2, <2>5, <2>6, <2>7 DEF LifeTyped, RowsTyped, SaidTyped
    <2>9. /\ listed'[i] = row /\ said'[i] = word
          /\ \A j \in Ids : j # i => listed'[j] = listed[j] /\ said'[j] = said[j]
      BY <1>2, <2>5, <2>7 DEF LifeTyped, RowsTyped, SaidTyped
    <2>10. listed[i].override = said[i].override
      BY <1>2, <1>5 DEF DecisionsKept
    <2>11. DecisionsKept'
      <3>1. ASSUME NEW j \in Ids, Known(j)'
            PROVE  /\ listed'[j].fqdn = said'[j].fqdn /\ listed'[j].override = said'[j].override
                   /\ listed'[j].status = "pending" => said'[j].pending
        <4>1. CASE j = i
          BY <2>2, <2>4, <2>6, <2>9, <2>10, <4>1
        <4>2. CASE j # i
          BY <2>9, <3>1, <4>2 DEF DecisionsKept, Known
        <4> QED BY <4>1, <4>2
      <3> QED BY <3>1 DEF DecisionsKept
    <2> QED BY <1>1, <1>3, <2>8, <2>11, TypesStay, OutsideStep DEF LifeTyped
  <1> QED BY <1>4, <1>5 DEF WriteAgent

\* A rejected agent's row goes.
LEMMA DeleteKeeps ==
    ASSUME LifeInv, NEW s \in Slots, DeleteAgent(s) \/ \E i \in Ids : ReadForReject(s, i)
    PROVE  LifeInv'
  <1> USE DEF LifeInv
  <1>1. Disturbs /\ UNCHANGED <<host, sweep, global, said>>
    BY DEF DeleteAgent, ReadForReject, RequestKeeps
  <1>2. CASE DeleteAgent(s)
    <2>1. asked[s].id \in Ids
      BY <1>2 DEF DeleteAgent, LifeTyped, AskedTyped
    <2>2. listed' = [listed EXCEPT ![asked[s].id] = Unlisted]
      BY <1>2 DEF DeleteAgent
    <2>3. RowsTyped'
      BY <2>2 DEF LifeTyped, RowsTyped
    <2>4. \A i \in Ids : Known(i)' => Known(i) /\ listed'[i] = listed[i]
      BY <2>1, <2>2 DEF Known, LifeTyped, RowsTyped
    <2>5. DecisionsKept'
      BY <1>1, <2>4, RowsEdited
    <2>6. AskedTyped' /\ spare' = spare
      BY <1>2, AskedEnds DEF DeleteAgent, LifeTyped
    <2> QED BY <1>1, <2>3, <2>5, <2>6, TypesStay, OutsideStep DEF LifeTyped
  <1>3. ASSUME NEW i \in Ids, ReadForReject(s, i) PROVE LifeInv'
    <2> DEFINE r == Request("delete", i, Unlisted)
    <2>1. asked' = [asked EXCEPT ![s] = r] /\ UNCHANGED listed
      BY <1>3 DEF ReadForReject, Asks
    <2>2. r.pc = "delete" /\ r.id = i /\ r = [pc |-> r.pc, id |-> r.id, copy |-> r.copy, told |-> r.told]
      BY DEF NoRequest, Request
    <2> HIDE DEF r
    <2>3. AskedTyped'
      BY <2>1, <2>2, AskedMoves DEF LifeTyped
    <2>4. spare' \in AgentLives
      <3>1. Occurs("reject") \/ Occurs("delete")
        BY <1>3 DEF ReadForReject
      <3> QED BY <3>1, Occurred
    <2> QED BY <1>1, <2>1, <2>3, <2>4, TypesStay, OutsideStep DEF LifeTyped
  <1> QED BY <1>2, <1>3

\* The policy of repairs: the write, and what is published afterwards.
LEMMA SetOverrideKeeps ==
    ASSUME LifeInv, NEW s \in Slots, NEW i \in Ids, NEW o \in Modes, SetOverride(s, i, o)
    PROVE  LifeInv'
  <1> USE DEF LifeInv
  <1> DEFINE e == listed[i]
             row == [e EXCEPT !.override = o]
             word == [said[i] EXCEPT !.override = o]
             r == Request("read", i, Unlisted)
  <1>1. /\ Known(i) /\ Disturbs /\ Occurs("policy") /\ asked' = [asked EXCEPT ![s] = r]
        /\ listed' = [listed EXCEPT ![i] = row] /\ said' = [said EXCEPT ![i] = word]
        /\ UNCHANGED <<host, sweep, global, line>>
    BY DEF SetOverride, Asks, RequestKeeps
  <1>2. e \in AgentRows
    BY <1>1, KnownRow
  <1>3. /\ row \in AgentRows /\ row.fqdn = e.fqdn /\ row.override = o /\ row.status = e.status
    BY <1>2 DEF AgentRows, Modes
  <1>4. /\ word \in [fqdn : Fqdns, pending : BOOLEAN, override : Modes]
        /\ word.fqdn = said[i].fqdn /\ word.pending = said[i].pending /\ word.override = o
    BY DEF LifeTyped, SaidTyped
  <1>5. r.pc = "read" /\ r = [pc |-> r.pc, id |-> r.id, copy |-> r.copy, told |-> r.told]
    BY DEF Request
  <1> HIDE DEF row, word, r
  <1>6. RowsTyped' /\ SaidTyped'
    BY <1>1, <1>3, <1>4 DEF LifeTyped, RowsTyped, SaidTyped
  <1>7. /\ listed'[i] = row /\ said'[i] = word
        /\ \A j \in Ids : j # i => listed'[j] = listed[j] /\ said'[j] = said[j]
    BY <1>1 DEF LifeTyped, RowsTyped, SaidTyped
  <1>8. DecisionsKept'
    BY <1>1, <1>3, <1>4, <1>7 DEF DecisionsKept, Known
  <1>9. AskedTyped' /\ spare' \in AgentLives
    BY <1>1, <1>5, AskedMoves, Occurred DEF LifeTyped
  <1> QED BY <1>1, <1>6, <1>8, <1>9, TypesStay, OutsideStep DEF LifeTyped

LEMMA PolicyKeeps ==
    ASSUME LifeInv, NEW s \in Slots,
           (\E g \in {"true", "false"} : SetGlobal(s, g)) \/ ReadPolicy(s) \/ PublishPolicy(s)
    PROVE  LifeInv'
  <1> USE DEF LifeInv
  <1>1. Disturbs /\ UNCHANGED <<host, sweep, listed, said>>
    BY DEF SetGlobal, ReadPolicy, PublishPolicy, RequestKeeps
  <1>2. CASE \E g \in {"true", "false"} : SetGlobal(s, g)
    <2> DEFINE r == Request("read", Unlisted, Unlisted)
    <2>1. global' \in {"true", "false"} /\ asked' = [asked EXCEPT ![s] = r] /\ Occurs("policy")
      BY <1>2 DEF SetGlobal, Asks
    <2>2. r.pc = "read" /\ r = [pc |-> r.pc, id |-> r.id, copy |-> r.copy, told |-> r.told]
      BY DEF Request
    <2> HIDE DEF r
    <2>3. AskedTyped' /\ spare' \in AgentLives
      BY <2>1, <2>2, AskedMoves, Occurred DEF LifeTyped
    <2> QED BY <1>1, <2>1, <2>3, TypesStay, OutsideStep DEF LifeTyped
  <1>3. CASE ReadPolicy(s)
    <2>1. PICK told : asked' = [asked EXCEPT ![s] = [Request("publish", asked[s].id, Unlisted) EXCEPT !.told = told]]
      BY <1>3 DEF ReadPolicy, Asks
    <2> DEFINE r == [Request("publish", asked[s].id, Unlisted) EXCEPT !.told = told]
    <2>2. PICK id : id = asked[s].id
      OBVIOUS
    <2>3. r = [pc |-> "publish", id |-> id, copy |-> Unlisted, told |-> told]
      BY <2>2 DEF Request
    <2>4. r.pc = "publish" /\ r = [pc |-> r.pc, id |-> r.id, copy |-> r.copy, told |-> r.told]
      BY <2>3
    <2>5. asked' = [asked EXCEPT ![s] = r] /\ UNCHANGED <<global, spare>>
      BY <1>3, <2>1 DEF ReadPolicy
    <2> HIDE DEF r
    <2>6. AskedTyped'
      BY <2>4, <2>5, AskedMoves DEF LifeTyped
    <2> QED BY <1>1, <2>5, <2>6, TypesStay, OutsideStep DEF LifeTyped
  <1>4. CASE PublishPolicy(s)
    <2>1. Done(s) /\ UNCHANGED <<global, spare>>
      BY <1>4 DEF PublishPolicy
    <2>2. AskedTyped'
      BY <2>1, AskedEnds DEF LifeTyped
    <2> QED BY <1>1, <2>1, <2>2, TypesStay, OutsideStep DEF LifeTyped
  <1> QED BY <1>2, <1>3, <1>4

\* The reconciler: it marks who is silent and who is back, and puts nobody to pending.
LEMMA SweepKeeps ==
    ASSUME LifeInv, NEW i \in Ids, FallsSilent(i) \/ ListAgentRows \/ MarkAgent(i)
    PROVE  LifeInv'
  <1> USE DEF LifeInv
  <1>1. Disturbs /\ UNCHANGED <<global, host, asked, said>>
    BY DEF FallsSilent, ListAgentRows, MarkAgent
  <1>2. spare' \in AgentLives /\ SweepTyped'
    <2>1. CASE FallsSilent(i)
      BY <2>1, Occurred, TypesStay DEF FallsSilent, LifeTyped
    <2>2. CASE ListAgentRows
      BY <2>2 DEF ListAgentRows, LifeTyped, SweepTyped
    <2>3. CASE MarkAgent(i)
      BY <2>3 DEF MarkAgent, LifeTyped, SweepTyped
    <2> QED BY <2>1, <2>2, <2>3
  <1>3. CASE UNCHANGED listed
    BY <1>1, <1>2, <1>3, TypesStay, OutsideStep DEF LifeTyped
  <1>4. ASSUME NEW row \in AgentRows, Known(i), listed' = [listed EXCEPT ![i] = row],
               row.fqdn = listed[i].fqdn, row.override = listed[i].override,
               row.status = "pending" => listed[i].status = "pending"
        PROVE  LifeInv'
    <2>1. RowsTyped'
      BY <1>4 DEF LifeTyped, RowsTyped
    <2>2. \A j \in Ids : listed'[j] = listed[j] \/ (j = i /\ listed'[j] = row)
      BY <1>4 DEF LifeTyped, RowsTyped
    <2>3. DecisionsKept'
      BY <1>1, <1>4, <2>2, RowsEdited DEF Known
    <2> QED BY <1>1, <1>2, <2>1, <2>3, TypesStay, OutsideStep DEF LifeTyped
  <1>5. CASE FallsSilent(i)
    <2> DEFINE e == listed[i]
               row == [e EXCEPT !.seen = "stale"]
    <2>1. Known(i) /\ listed' = [listed EXCEPT ![i] = row]
      BY <1>5 DEF FallsSilent
    <2>2. e \in AgentRows
      BY <2>1, KnownRow
    <2>3. row \in AgentRows /\ row.fqdn = e.fqdn /\ row.override = e.override /\ row.status = e.status
      BY <2>2 DEF AgentRows
    <2> HIDE DEF row
    <2> QED BY <1>4, <2>1, <2>3
  <1>6. CASE MarkAgent(i) /\ Known(i)
    <2> DEFINE e == listed[i]
               status == sweep[i]
               row == [e EXCEPT !.status = status]
    <2>1. listed' = [listed EXCEPT ![i] = row] /\ status \in {"adopted", "offline"}
      BY <1>6 DEF MarkAgent, LifeTyped, SweepTyped
    <2>2. e \in AgentRows
      BY <1>6, KnownRow
    <2> HIDE DEF status
    <2>3. row \in AgentRows /\ row.fqdn = e.fqdn /\ row.override = e.override /\ row.status = status
      BY <2>1, <2>2 DEF AgentRows, AgentStates
    <2> HIDE DEF row
    <2> QED BY <1>4, <1>6, <2>1, <2>3
  <1> QED BY <1>3, <1>5, <1>6 DEF ListAgentRows, MarkAgent

LEMMA LifeStep == ASSUME LifeInv, [LifecycleNext]_lifeVars PROVE LifeInv'
  <1>1. CASE AgentSteps
    BY <1>1, RegisterKeeps, AgentKeeps, SendKeeps, HealthKeeps, DetailsKeeps, OnlineKeeps, RereadKeeps, VersionKeeps,
       AnswerKeeps, StreamKeeps DEF AgentSteps
  <1>2. CASE HandlerSteps
    <2>1. ASSUME NEW s \in Slots, WriteAgent(s) \/ DeleteAgent(s) \/ ReadPolicy(s) \/ PublishPolicy(s) PROVE LifeInv'
      BY <2>1, WriteAgentKeeps, DeleteKeeps, PolicyKeeps
    <2>2. CASE ListAgentRows
      <3>1. PICK i \in Ids : TRUE
        BY DEF LifeInv, LifeTyped, Agents
      <3> QED BY <2>2, SweepKeeps
    <2>3. ASSUME NEW i \in Ids, MarkAgent(i) PROVE LifeInv'
      BY <2>3, SweepKeeps
    <2> QED BY <1>2, <2>1, <2>2, <2>3 DEF HandlerSteps
  <1>3. CASE Environment
    <2>1. CASE RegisterFails \/ AnswerLost \/ Disconnect
      BY <2>1, AgentKeeps
    <2>2. ASSUME NEW i \in Ids, Restart(i) \/ FallsSilent(i) PROVE LifeInv'
      BY <2>2, AgentKeeps, SweepKeeps
    <2>3. ASSUME NEW s \in Slots, NEW i \in Ids,
                 NEW f \in Fqdns, NEW adopts \in BOOLEAN, ReadAgent(s, i, f, adopts) PROVE LifeInv'
      BY <2>3, ReadAgentKeeps
    <2>4. ASSUME NEW s \in Slots, NEW i \in Ids, ReadForReject(s, i) PROVE LifeInv'
      BY <2>4, DeleteKeeps
    <2>5. ASSUME NEW s \in Slots, NEW i \in Ids,
                 NEW o \in {"inherit", "enabled", "disabled"}, SetOverride(s, i, o) PROVE LifeInv'
      BY <2>5, SetOverrideKeeps DEF Modes
    <2>6. ASSUME NEW s \in Slots, NEW g \in {"true", "false"}, SetGlobal(s, g) PROVE LifeInv'
      BY <2>6, PolicyKeeps
    <2> QED BY <1>3, <2>1, <2>2, <2>3, <2>4, <2>5, <2>6 DEF Environment
  <1>4. CASE UNCHANGED lifeVars
    BY <1>4, TypesStay DEF lifeVars, LifeInv, LifeTyped
  <1> QED BY <1>1, <1>2, <1>3, <1>4 DEF LifecycleNext

\* For any ids, names and slots, and any plan of what happens: the name, the mode of repairs
\* and the adoption that operators decided stay in the row until they decide otherwise,
\* whoever else writes it from what was read before.
THEOREM DecisionsCorrect == LifecycleSpec => []DecisionsKept
  <1>1. LifecycleInit => LifeInv
    BY LifeStart
  <1>2. LifeInv /\ [LifecycleNext]_lifeVars => LifeInv'
    BY LifeStep
  <1>3. LifeInv => DecisionsKept
    BY DEF LifeInv
  <1> QED BY <1>1, <1>2, <1>3, PTL DEF LifecycleSpec

\* The step that ends an undisturbed heartbeat is its answer.
LEMMA OnlyAnswers == ASSUME LifeInv, LifecycleNext, Answered PROVE BeatAnswer
  <1>1. /\ beat.pc = "answer" /\ beat' = NoBeat /\ spare' = spare /\ beat \in Beats /\ spare \in AgentLives
    BY DEF Answered, BeatAt, LifeInv, LifeTyped
  <1>2. beat'.pc = "none"
    BY <1>1 DEF NoBeat
  <1>3. ASSUME Disturbs PROVE FALSE
    <2>1. beat' = [beat EXCEPT !.calm = FALSE]
      BY <1>3 DEF Disturbs
    <2>2. beat'.pc = "answer"
      BY <1>1, <2>1 DEF Beats
    <2> QED BY <1>2, <2>2
  <1>4. ASSUME NEW w, Occurs(w) PROVE FALSE
    <2>1. spare.count \in Nat
      BY <1>1 DEF AgentLives
    <2>2. spare'.count = spare.count - 1
      BY <1>1, <1>4 DEF Occurs, AgentLives
    <2> QED BY <1>1, <2>1, <2>2
  <1>5. ASSUME UNCHANGED beat PROVE FALSE
    BY <1>1, <1>2, <1>5
  <1>6. ~RegisterFails /\ ~AnswerLost /\ ~Disconnect
    BY <1>4 DEF RegisterFails, AnswerLost, Disconnect
  <1>7. \A i \in Ids : ~Restart(i) /\ ~FallsSilent(i) /\ ~MarkAgent(i)
    BY <1>3, <1>4 DEF Restart, FallsSilent, MarkAgent
  <1>8. ~(Register \/ Connect \/ MarkAgentOnline \/ Keepalive \/ HandlePolicy \/ ListAgentRows)
    BY <1>3 DEF Register, Connect, MarkAgentOnline, Keepalive, HandlePolicy, ListAgentRows
  <1>9. ~Poll
    BY <1>5 DEF Poll
  <1>10. /\ \A blank \in BOOLEAN : ~SendBeat(blank)
         /\ ~(BeatHealth \/ BeatDetails \/ BeatOnline \/ BeatReread \/ BeatVersion)
    BY <1>1 DEF SendBeat, BeatAt, BeatHealth, BeatDetails, BeatOnline, BeatReread, BeatVersion
  <1>11. \A s \in Slots : ~(WriteAgent(s) \/ DeleteAgent(s) \/ ReadPolicy(s) \/ PublishPolicy(s))
    BY <1>3 DEF WriteAgent, DeleteAgent, ReadPolicy, PublishPolicy, RequestKeeps
  <1>12. \A s \in Slots, i \in Ids : ~ReadForReject(s, i)
    BY <1>3 DEF ReadForReject, RequestKeeps
  <1>13. \A s \in Slots, i \in Ids : \A f \in Fqdns, adopts \in BOOLEAN : ~ReadAgent(s, i, f, adopts)
    BY <1>3 DEF ReadAgent, RequestKeeps
  <1>14. \A s \in Slots, i \in Ids : \A o \in {"inherit", "enabled", "disabled"} : ~SetOverride(s, i, o)
    BY <1>3 DEF SetOverride, RequestKeeps
  <1>15. \A s \in Slots, g \in {"true", "false"} : ~SetGlobal(s, g)
    BY <1>3 DEF SetGlobal, RequestKeeps
  <1> QED BY <1>6, <1>7, <1>8, <1>9, <1>10, <1>11, <1>12, <1>13, <1>14, <1>15
          DEF LifecycleNext, AgentSteps, HandlerSteps, Environment

\* For the same plans: one heartbeat that nobody disturbs makes the row and the agent agree,
\* whatever copies and policies crossed before it.
THEOREM HealsCorrect == LifecycleSpec => BeatHeals
  <1> DEFINE Heals ==
        LET e == listed[beat.id] IN
        /\ e.status # "offline" /\ e.seen = "fresh"
        /\ {e.health, e.detected, e.narrow, e.version} = {beat.facts}
        /\ beat.blank \/ e.ip = beat.facts
        /\ host'.policy = IF Effective(e) THEN "on" ELSE "off"
  <1>1. LifecycleInit => LifeInv
    BY LifeStart
  <1>2. LifeInv /\ [LifecycleNext]_lifeVars => LifeInv'
    BY LifeStep
  <1>3. ASSUME LifeInv, [LifecycleNext]_lifeVars PROVE [Answered => Heals]_lifeVars
    <2> SUFFICES ASSUME Answered, LifecycleNext PROVE Heals
      BY <1>3
    <2> DEFINE e == listed[beat.id]
    <2>1. BeatAnswer
      BY <1>3, OnlyAnswers
    <2>2. beat.pc = "answer" /\ beat.calm = TRUE /\ beat.heard = TRUE
      BY BeatFields, <1>3 DEF Answered, BeatAt, LifeInv, LifeTyped, Beats
    <2>3. /\ e.status # "offline" /\ e.seen = "fresh" /\ e.health = beat.facts /\ e.detected = beat.facts
          /\ e.narrow = beat.facts /\ e.version = beat.facts /\ (beat.blank = TRUE \/ e.ip = beat.facts)
          /\ (beat.policy = TRUE <=> Effective(e) = TRUE)
      BY <1>3, <2>2 DEF LifeInv, CalmInv
    <2>4. host'.policy = IF beat.policy THEN "on" ELSE "off"
      <3>1. host' = [host EXCEPT !.policy = IF beat.policy THEN "on" ELSE "off"] /\ host \in Agents
        BY <1>3, <2>1, <2>2 DEF BeatAnswer, LifeInv, LifeTyped
      <3> QED BY <3>1 DEF Agents
    <2>5. Effective(e) \in BOOLEAN /\ beat.policy \in BOOLEAN
      BY <1>3, BeatFields DEF Effective, LifeInv
    <2>6. host'.policy = IF Effective(e) THEN "on" ELSE "off"
      BY <2>3, <2>4, <2>5
    <2>7. {e.health, e.detected, e.narrow, e.version} = {beat.facts}
      BY <2>3
    <2> QED BY <2>3, <2>6, <2>7
  <1> QED BY <1>1, <1>2, <1>3, PTL DEF LifecycleSpec, BeatHeals

-----------------------------------------------------------------------------
(* Certificates.  Two issuances for a host exclude each other by its lock; what a  *)
(* first order saw under it stays true until the order ends.                       *)

Pcs == {"none", "wait", "check", "backoff", "order", "limited", "save", "clear"}
Jobs == [pc : Pcs, at : Sites \cup {"none"}, first : BOOLEAN, blind : BOOLEAN, tries : Nat]
Holds == [tries : Nat, left : Int]
Rounds ==
    [pc : {"idle", "domains", "resolve", "issuing"}, due : SUBSET Sites, central : SUBSET Sites,
     queue : SUBSET [at : Sites, first : BOOLEAN], calm : Int]
Cleans == [pc : {"none", "lookup", "served", "drop"}, at : Sites \cup {"none"}]

JobsTyped ==
    /\ job \in [Workers -> Jobs]
    /\ \A w \in Workers : job[w].pc # "none" => job[w].at \in Sites
ScanTyped == round \in Rounds /\ (job[Scan].pc # "none" => round.pc = "issuing")
TeardownTyped == clean \in Cleans /\ (clean.pc # "none" => clean.at \in Sites)
CertTyped ==
    /\ plan \in CertPlans /\ site \in [Rows -> [status : SiteStates, at : Sites]]
    /\ crt \in [Sites -> {"none", "good", "due"}] /\ hold \in [Sites -> Holds]
    /\ contact \in BOOLEAN
    /\ JobsTyped /\ ScanTyped /\ TeardownTyped

OneInside ==
    \A v, w \in Workers :
        job[v].pc \in Inside /\ job[w].pc \in Inside /\ job[v].at = job[w].at => v = w
\* What a first order has seen under the lock, as far as it has come.
Warranted(w) ==
    job[w].first =>
        /\ job[w].pc \in {"backoff", "order"} => crt[job[w].at] = "none" \/ job[w].blind
        /\ job[w].pc = "order" => ~(hold[job[w].at].left > 0)
AllWarranted == \A w \in Workers : Warranted(w)
CertInv == CertTyped /\ OneInside /\ AllWarranted

\* What the steps are made of.
LEMMA PlanShrinks ==
    ASSUME plan \in CertPlans, NEW what, Happens(what)
    PROVE  plan' \in CertPlans /\ plan'.count = plan.count - 1 /\ plan'.count \in Nat
BY DEF CertPlans, Happens

LEMMA JobGoes ==
    ASSUME JobsTyped, NEW w \in Workers, job[w].pc # "none", NEW pc \in Pcs, Goes(w, pc)
    PROVE  /\ JobsTyped'
           /\ job'[w] = [job[w] EXCEPT !.pc = pc]
           /\ \A v \in Workers \ {w} : job'[v] = job[v]
BY DEF JobsTyped, Jobs, Pcs, Goes

LEMMA JobEnds ==
    ASSUME JobsTyped, NEW w \in Workers, Ends(w)
    PROVE  /\ JobsTyped' /\ job'[w] = NoJob
           /\ \A v \in Workers \ {w} : job'[v] = job[v]
BY DEF JobsTyped, Jobs, Pcs, Ends, NoJob

LEMMA JobWaits ==
    ASSUME JobsTyped, NEW w \in Workers, NEW h \in Sites, NEW first \in BOOLEAN,
           job' = [job EXCEPT ![w] = Waiting(h, first)]
    PROVE  /\ JobsTyped' /\ job'[w] = Waiting(h, first)
           /\ \A v \in Workers \ {w} : job'[v] = job[v]
BY DEF JobsTyped, Jobs, Pcs, Waiting

\* A worker whose lock is its own already, or that leaves, keeps the others out.
LEMMA InsideStays ==
    ASSUME JobsTyped, OneInside, NEW w \in Workers, JobsTyped',
           \A v \in Workers \ {w} : job'[v] = job[v],
           job'[w].pc \in Inside => job'[w].at = job[w].at /\ job[w].pc \in Inside
    PROVE  OneInside'
BY DEF OneInside

\* The hold a rate limit leaves is bounded by the cap, unless the CA named a later time.
LEMMA BackoffTyped ==
    ASSUME NEW n, NEW later \in Int
    PROVE  NextRateLimitBackoff(n, later) \in Int /\ NextRateLimitBackoff(n, later) > 0
BY CertificateAssumptions DEF NextRateLimitBackoff

\* A step of a worker on its own job.
LEMMA JobTyped ==
    ASSUME CertTyped, NEW w \in Workers, job[w].pc # "none", JobsTyped',
           \A v \in Workers \ {w} : job'[v] = job[v],
           UNCHANGED <<site, clean, contact>>, plan' \in CertPlans,
           crt' \in [Sites -> {"none", "good", "due"}], hold' \in [Sites -> Holds],
           UNCHANGED round \/ (round' = NoRound /\ w = Scan /\ job'[w].pc = "none")
    PROVE  CertTyped'
<1>1. ScanTyped'
  <2>1. CASE UNCHANGED round
    <3>1. round' \in Rounds BY <2>1 DEF CertTyped, ScanTyped
    <3>2. job'[Scan].pc # "none" => job[Scan].pc # "none" BY DEF Workers
    <3> QED BY <2>1, <3>1, <3>2 DEF CertTyped, ScanTyped
  <2>2. CASE round' = NoRound /\ w = Scan /\ job'[w].pc = "none"
    <3>1. NoRound \in Rounds BY DEF NoRound, Rounds
    <3> QED BY <2>2, <3>1 DEF ScanTyped
  <2> QED BY <2>1, <2>2
<1>2. TeardownTyped' BY DEF CertTyped, TeardownTyped
<1> QED BY <1>1, <1>2 DEF CertTyped

\* A worker that keeps its place under the lock, or leaves it, and touches no other host.
LEMMA JobKeeps ==
    ASSUME CertInv, CertTyped', NEW w \in Workers,
           \A v \in Workers \ {w} : job'[v] = job[v],
           job'[w].pc \in Inside => job'[w].at = job[w].at /\ job[w].pc \in Inside,
           Warranted(w)',
           \/ UNCHANGED <<crt, hold>>
           \/ job[w].pc \in Inside /\ \A h \in Sites \ {job[w].at} : crt'[h] = crt[h] /\ hold'[h] = hold[h]
    PROVE  CertInv'
<1>1. JobsTyped /\ JobsTyped' /\ OneInside BY DEF CertInv, CertTyped
<1>2. OneInside' BY <1>1, InsideStays
<1>3. AllWarranted'
  <2> SUFFICES ASSUME NEW v \in Workers
               PROVE  Warranted(v)'
      BY DEF AllWarranted
  <2>1. CASE v = w BY <2>1
  <2>2. CASE v # w /\ job[v].pc \in Inside
    <3>1. job'[v] = job[v] /\ job[v].at \in Sites
        BY <2>2, <1>1 DEF JobsTyped, Inside
    <3>2. Warranted(v) BY DEF CertInv, AllWarranted
    <3>3. job[w].pc \in Inside => job[v].at # job[w].at
        BY <2>2, <1>1 DEF OneInside
    <3> QED BY <3>1, <3>2, <3>3 DEF Warranted
  <2>3. CASE v # w /\ job[v].pc \notin Inside BY <2>3 DEF Warranted, Inside
  <2> QED BY <2>1, <2>2, <2>3
<1> QED BY <1>2, <1>3 DEF CertInv

LEMMA LockTaken ==
    ASSUME CertInv, NEW w \in Workers, TakeLock(w)
    PROVE  CertInv'
<1> DEFINE next == IF job[w].first THEN "check" ELSE "order"
<1>1. JobsTyped /\ next \in Pcs /\ job[w].pc = "wait" /\ job[w] \in Jobs
    BY DEF CertInv, CertTyped, JobsTyped, Pcs, TakeLock
<1>2. Goes(w, next) BY DEF TakeLock
<1> HIDE DEF next
<1>3. /\ JobsTyped' /\ job'[w] = [job[w] EXCEPT !.pc = next]
      /\ \A v \in Workers \ {w} : job'[v] = job[v]
    BY <1>1, <1>2, JobGoes
<1>4. CertTyped' BY <1>1, <1>3, JobTyped DEF CertInv, CertTyped, TakeLock, Alone
<1>5. job'[w].pc = next /\ job'[w].at = job[w].at /\ job'[w].first = job[w].first
    BY <1>1, <1>3 DEF Jobs
<1>6. \A v \in Workers : job[v].pc \in Inside => job[v].at # job[w].at BY DEF TakeLock, Locked
<1>7. OneInside'
  <2> SUFFICES ASSUME NEW u \in Workers, NEW v \in Workers, job'[u].pc \in Inside,
                      job'[v].pc \in Inside, job'[u].at = job'[v].at
               PROVE  u = v
      BY DEF OneInside
  <2>1. CASE u = w /\ v # w BY <2>1, <1>3, <1>5, <1>6
  <2>2. CASE u # w /\ v = w BY <2>2, <1>3, <1>5, <1>6
  <2>3. CASE u # w /\ v # w BY <2>3, <1>3 DEF CertInv, OneInside
  <2> QED BY <2>1, <2>2, <2>3
<1>8. AllWarranted'
  <2> SUFFICES ASSUME NEW v \in Workers
               PROVE  Warranted(v)'
      BY DEF AllWarranted
  <2>1. CASE v = w BY <2>1, <1>5 DEF Warranted, next
  <2>2. CASE v # w BY <2>2, <1>3 DEF CertInv, AllWarranted, Warranted, TakeLock
  <2> QED BY <2>1, <2>2
<1> QED BY <1>4, <1>7, <1>8 DEF CertInv

LEMMA LockHeld ==
    ASSUME CertInv, NEW w \in Workers,
           \/ TargetForHost(w) \/ CertificateUnread(w) \/ GetCertBackoff(w)
           \/ Issued(w) \/ RateLimited(w) \/ SaveRenewed(w)
    PROVE  CertInv'
<1>1. JobsTyped /\ job[w] \in Jobs /\ plan \in CertPlans /\ CertTyped
    BY DEF CertInv, CertTyped, JobsTyped
<1>2. ASSUME NEW pc \in Pcs, job[w].pc # "none", Goes(w, pc)
      PROVE  /\ JobsTyped' /\ \A v \in Workers \ {w} : job'[v] = job[v]
             /\ job'[w].pc = pc /\ job'[w].at = job[w].at /\ job'[w].first = job[w].first
             /\ job'[w].blind = job[w].blind
  <2>1. /\ JobsTyped' /\ job'[w] = [job[w] EXCEPT !.pc = pc]
        /\ \A v \in Workers \ {w} : job'[v] = job[v]
      BY <1>1, <1>2, JobGoes
  <2> QED BY <1>1, <2>1 DEF Jobs
<1>3. CASE \/ TargetForHost(w) /\ crt[job[w].at] # "none"
           \/ GetCertBackoff(w) /\ InBackoff(job[w].at)
  <2>1. Ends(w) /\ job[w].pc \in Inside /\ job[w].pc # "none" /\ Alone /\ UNCHANGED <<crt, hold, plan>>
      BY <1>3 DEF TargetForHost, GetCertBackoff, Inside
  <2>2. JobsTyped' /\ job'[w] = NoJob /\ \A v \in Workers \ {w} : job'[v] = job[v]
      BY <1>1, <2>1, JobEnds
  <2>3. job'[w].pc = "none" BY <2>2 DEF NoJob
  <2>4. CertTyped' BY <1>1, <2>1, <2>2, JobTyped DEF CertTyped, Alone
  <2>5. Warranted(w)' BY <2>3 DEF Warranted
  <2> QED BY <2>1, <2>2, <2>3, <2>4, <2>5, JobKeeps DEF Inside
<1>4. CASE TargetForHost(w) /\ crt[job[w].at] = "none"
  <2>1. /\ Goes(w, "backoff") /\ job[w].pc = "check" /\ Alone /\ UNCHANGED <<crt, hold, plan>>
        /\ crt[job[w].at] = "none"
      BY <1>4 DEF TargetForHost
  <2>2. /\ JobsTyped' /\ \A v \in Workers \ {w} : job'[v] = job[v]
        /\ job'[w].pc = "backoff" /\ job'[w].at = job[w].at
      BY <2>1, <1>2 DEF Pcs
  <2>3. CertTyped' BY <1>1, <2>1, <2>2, JobTyped DEF CertTyped, Alone
  <2>4. Warranted(w)' BY <2>1, <2>2 DEF Warranted
  <2> QED BY <2>1, <2>2, <2>3, <2>4, JobKeeps DEF Inside
<1>8. CASE CertificateUnread(w)
  <2>1. /\ job' = [job EXCEPT ![w].pc = "backoff", ![w].blind = TRUE] /\ job[w].pc = "check"
        /\ Alone /\ UNCHANGED <<crt, hold>> /\ plan' \in CertPlans
      BY <1>1, <1>8, PlanShrinks DEF CertificateUnread
  <2>2. /\ job'[w] = [job[w] EXCEPT !.pc = "backoff", !.blind = TRUE]
        /\ \A v \in Workers \ {w} : job'[v] = job[v]
        /\ job' \in [Workers -> Jobs]
      BY <1>1, <2>1 DEF JobsTyped, Jobs, Pcs
  <2>3. job'[w].pc = "backoff" /\ job'[w].at = job[w].at /\ job'[w].blind
      BY <1>1, <2>2 DEF Jobs
  <2>4. JobsTyped' BY <1>1, <2>1, <2>2, <2>3 DEF JobsTyped
  <2>5. CertTyped' BY <1>1, <2>1, <2>2, <2>4, JobTyped DEF CertTyped, Alone
  <2>6. Warranted(w)' BY <2>3 DEF Warranted
  <2> QED BY <2>1, <2>2, <2>3, <2>5, <2>6, JobKeeps DEF Inside
<1>9. CASE GetCertBackoff(w) /\ ~InBackoff(job[w].at)
  <2>1. /\ Goes(w, "order") /\ job[w].pc = "backoff" /\ Alone /\ UNCHANGED <<crt, hold, plan>>
        /\ ~(hold[job[w].at].left > 0)
      BY <1>9 DEF GetCertBackoff, InBackoff
  <2>2. /\ JobsTyped' /\ \A v \in Workers \ {w} : job'[v] = job[v]
        /\ job'[w].pc = "order" /\ job'[w].at = job[w].at /\ job'[w].first = job[w].first
        /\ job'[w].blind = job[w].blind
      BY <2>1, <1>2 DEF Pcs
  <2>3. CertTyped' BY <1>1, <2>1, <2>2, JobTyped DEF CertTyped, Alone
  <2>4. Warranted(w) BY DEF CertInv, AllWarranted
  <2>5. Warranted(w)' BY <2>1, <2>2, <2>4 DEF Warranted
  <2> QED BY <2>1, <2>2, <2>3, <2>5, JobKeeps DEF Inside
<1>5. CASE Issued(w)
  <2>1. Goes(w, "save") /\ job[w].pc = "order" /\ Alone /\ UNCHANGED <<crt, hold, plan>> BY <1>5 DEF Issued
  <2>2. /\ JobsTyped' /\ \A v \in Workers \ {w} : job'[v] = job[v]
        /\ job'[w].pc = "save" /\ job'[w].at = job[w].at
      BY <2>1, <1>2 DEF Pcs
  <2>3. CertTyped' BY <1>1, <2>1, <2>2, JobTyped DEF CertTyped, Alone
  <2>4. Warranted(w)' BY <2>2 DEF Warranted
  <2> QED BY <2>1, <2>2, <2>3, <2>4, JobKeeps DEF Inside
<1>6. CASE RateLimited(w)
  <2>1. Goes(w, "limited") /\ job[w].pc = "order" /\ Alone /\ UNCHANGED <<crt, hold>> /\ plan' \in CertPlans
      BY <1>1, <1>6, PlanShrinks DEF RateLimited
  <2>2. /\ JobsTyped' /\ \A v \in Workers \ {w} : job'[v] = job[v]
        /\ job'[w].pc = "limited" /\ job'[w].at = job[w].at
      BY <2>1, <1>2 DEF Pcs
  <2>3. CertTyped' BY <1>1, <2>1, <2>2, JobTyped DEF CertTyped, Alone
  <2>4. Warranted(w)' BY <2>2 DEF Warranted
  <2> QED BY <2>1, <2>2, <2>3, <2>4, JobKeeps DEF Inside
<1>7. CASE SaveRenewed(w)
  <2>1. /\ Goes(w, "clear") /\ job[w].pc = "save" /\ Alone /\ UNCHANGED <<hold, plan>>
        /\ crt' = [crt EXCEPT ![job[w].at] = "good"]
      BY <1>7 DEF SaveRenewed
  <2>2. /\ JobsTyped' /\ \A v \in Workers \ {w} : job'[v] = job[v]
        /\ job'[w].pc = "clear" /\ job'[w].at = job[w].at
      BY <2>1, <1>2 DEF Pcs
  <2>3. /\ crt' \in [Sites -> {"none", "good", "due"}]
        /\ \A h \in Sites \ {job[w].at} : crt'[h] = crt[h] /\ hold'[h] = hold[h]
      BY <1>1, <2>1 DEF CertTyped
  <2>4. CertTyped' BY <1>1, <2>1, <2>2, <2>3, JobTyped DEF CertTyped, Alone
  <2>5. Warranted(w)' BY <2>2 DEF Warranted
  <2> QED BY <2>1, <2>2, <2>3, <2>4, <2>5, JobKeeps DEF Inside
<1> QED BY <1>3, <1>4, <1>5, <1>6, <1>7, <1>8, <1>9

LEMMA AttemptKeeps ==
    ASSUME CertInv, NEW w \in Workers, AttemptFails(w)
    PROVE  CertInv'
<1>1. /\ JobsTyped /\ job[w] \in Jobs /\ job \in [Workers -> Jobs] /\ CertTyped /\ job[w].pc = "order"
      /\ Alone /\ UNCHANGED <<crt, hold>>
    BY DEF CertInv, CertTyped, JobsTyped, AttemptFails
<1>2. plan' \in CertPlans BY <1>1, PlanShrinks DEF AttemptFails, CertTyped
<1>3. CASE job[w].tries + 1 < MaxAttempts
  <2>1. job' = [job EXCEPT ![w].tries = @ + 1] BY <1>3 DEF AttemptFails
  <2>2. job'[w] = [job[w] EXCEPT !.tries = @ + 1] /\ \A v \in Workers \ {w} : job'[v] = job[v]
      BY <1>1, <2>1
  <2>3. /\ job'[w] \in Jobs /\ job'[w].pc = "order" /\ job'[w].at = job[w].at
        /\ job'[w].first = job[w].first /\ job'[w].blind = job[w].blind
      BY <1>1, <2>2 DEF Jobs
  <2>4. job' \in [Workers -> Jobs] BY <1>1, <2>1, <2>2, <2>3
  <2>5. JobsTyped' BY <1>1, <2>2, <2>3, <2>4 DEF JobsTyped
  <2>6. CertTyped' BY <1>1, <1>2, <2>2, <2>5, JobTyped DEF CertTyped, Alone
  <2>7. Warranted(w) BY DEF CertInv, AllWarranted
  <2>8. Warranted(w)' BY <1>1, <2>3, <2>7 DEF Warranted
  <2> QED BY <1>1, <2>2, <2>3, <2>6, <2>8, JobKeeps DEF Inside
<1>4. CASE ~(job[w].tries + 1 < MaxAttempts)
  <2>1. Ends(w) BY <1>4 DEF AttemptFails
  <2>2. JobsTyped' /\ job'[w] = NoJob /\ \A v \in Workers \ {w} : job'[v] = job[v]
      BY <1>1, <2>1, JobEnds
  <2>3. job'[w].pc = "none" BY <2>2 DEF NoJob
  <2>4. CertTyped' BY <1>1, <1>2, <2>2, JobTyped DEF CertTyped, Alone
  <2>5. Warranted(w)' BY <2>3 DEF Warranted
  <2> QED BY <1>1, <2>2, <2>3, <2>4, <2>5, JobKeeps DEF Inside
<1> QED BY <1>3, <1>4

LEMMA LockReleased ==
    ASSUME CertInv, NEW w \in Workers,
           \/ StatementFails(w) \/ NotConfigured(w) \/ ClearBackoff(w)
           \/ \E later \in {0, Cap + 1} : MarkRateLimited(w, later)
    PROVE  CertInv'
<1>1. JobsTyped /\ job[w] \in Jobs /\ plan \in CertPlans /\ CertTyped
    BY DEF CertInv, CertTyped, JobsTyped
<1>2. Ends(w) /\ job[w].pc \in Inside /\ UNCHANGED <<site, clean, contact, crt>>
    BY DEF StatementFails, NotConfigured, ClearBackoff, MarkRateLimited, Alone, Inside
<1>3. JobsTyped' /\ job'[w] = NoJob /\ \A v \in Workers \ {w} : job'[v] = job[v]
    BY <1>1, <1>2, JobEnds
<1>4. job[w].pc # "none" /\ job'[w].pc = "none" /\ job[w].at \in Sites
    BY <1>1, <1>2, <1>3 DEF NoJob, Inside, JobsTyped
<1>5. plan' \in CertPlans
    BY <1>1, PlanShrinks DEF StatementFails, NotConfigured, ClearBackoff, MarkRateLimited, Alone
<1>6. UNCHANGED round \/ (round' = NoRound /\ w = Scan)
    BY DEF StatementFails, NotConfigured, ClearBackoff, MarkRateLimited, Alone
<1>7. hold' \in [Sites -> Holds] /\ \A h \in Sites \ {job[w].at} : hold'[h] = hold[h]
  <2>1. CASE StatementFails(w) \/ NotConfigured(w)
      BY <2>1, <1>1 DEF StatementFails, NotConfigured, Alone, CertTyped
  <2>2. CASE ClearBackoff(w)
    <3>1. NoHold \in Holds BY DEF NoHold, Holds
    <3> QED BY <2>2, <3>1, <1>1, <1>4 DEF ClearBackoff, CertTyped
  <2>3. ASSUME NEW later \in {0, Cap + 1}, MarkRateLimited(w, later)
        PROVE  hold' \in [Sites -> Holds] /\ \A h \in Sites \ {job[w].at} : hold'[h] = hold[h]
    <3> DEFINE n == IF Consecutive(job[w].at) THEN hold[job[w].at].tries + 1 ELSE 1
               held == [tries |-> n, left |-> NextRateLimitBackoff(n, later)]
    <3>1. hold[job[w].at].tries \in Nat BY <1>1, <1>4 DEF CertTyped, Holds
    <3>2. n \in Nat BY <3>1
    <3>3. later \in Int BY CertificateAssumptions
    <3>4. held \in Holds BY <3>2, <3>3, BackoffTyped DEF Holds
    <3>5. hold' = [hold EXCEPT ![job[w].at] = held] BY <2>3 DEF MarkRateLimited
    <3> HIDE DEF held
    <3> QED BY <3>4, <3>5, <1>1, <1>4 DEF CertTyped
  <2> QED BY <2>1, <2>2, <2>3
<1>8. CertTyped' BY <1>1, <1>2, <1>3, <1>4, <1>5, <1>6, <1>7, JobTyped DEF CertTyped
<1>9. Warranted(w)' BY <1>4 DEF Warranted
<1> QED BY <1>2, <1>3, <1>4, <1>7, <1>8, <1>9, JobKeeps DEF Inside

LEMMA JobStepKeeps ==
    ASSUME CertInv, NEW w \in Workers, JobSteps(w)
    PROVE  CertInv'
<1>1. CASE TakeLock(w) BY <1>1, LockTaken
<1>2. CASE \/ TargetForHost(w) \/ CertificateUnread(w) \/ GetCertBackoff(w)
           \/ Issued(w) \/ RateLimited(w) \/ SaveRenewed(w)
    BY <1>2, LockHeld
<1>3. CASE AttemptFails(w) BY <1>3, AttemptKeeps
<1>4. CASE \/ StatementFails(w) \/ NotConfigured(w) \/ ClearBackoff(w)
           \/ \E later \in {0, Cap + 1} : MarkRateLimited(w, later)
    BY <1>4, LockReleased
<1> QED BY <1>1, <1>2, <1>3, <1>4 DEF JobSteps

\* What the scan is going to issue for: what it listed as due, unless held, and then hosts
\* without a certificate, unless held.
LEMMA TargetsListed ==
    ASSUME round \in Rounds, NEW unread
    PROVE  /\ DueForRenewal(unread) \in SUBSET [at : Sites, first : BOOLEAN]
           /\ \A h \in round.due \cap round.central : InBackoff(h) \/ [at |-> h, first |-> FALSE] \in DueForRenewal(unread)
           /\ \A h \in round.central :
                 \/ InBackoff(h) \/ crt[h] # "none"
                 \/ \E t \in DueForRenewal(unread) : t.at = h
           /\ \A t \in DueForRenewal(unread) : t.first => crt[t.at] = "none" \/ t.at \in unread
<1> DEFINE renew == {h \in round.due \cap round.central : ~InBackoff(h)}
           issue == {h \in round.central \ renew : (crt[h] = "none" \/ h \in unread) /\ ~InBackoff(h)}
           renewals == {[at |-> h, first |-> FALSE] : h \in renew}
           firsts == {[at |-> h, first |-> TRUE] : h \in issue}
<1>1. DueForRenewal(unread) = renewals \cup firsts BY DEF DueForRenewal
<1>2. round.due \in SUBSET Sites /\ round.central \in SUBSET Sites BY DEF Rounds
<1>3. renew \subseteq Sites /\ issue \subseteq Sites BY <1>2
<1>4. ASSUME NEW t \in renewals
      PROVE  t \in [at : Sites, first : BOOLEAN] /\ t.first = FALSE
  <2>1. PICK h \in renew : t = [at |-> h, first |-> FALSE] OBVIOUS
  <2> QED BY <1>3, <2>1
<1>5. ASSUME NEW t \in firsts
      PROVE  t \in [at : Sites, first : BOOLEAN] /\ (crt[t.at] = "none" \/ t.at \in unread)
  <2>1. PICK h \in issue : t = [at |-> h, first |-> TRUE] OBVIOUS
  <2> QED BY <1>3, <2>1
<1>6. \A h \in renew : [at |-> h, first |-> FALSE] \in renewals OBVIOUS
<1>7. \A h \in issue : [at |-> h, first |-> TRUE] \in firsts OBVIOUS
<1>8. \A h \in round.due \cap round.central : InBackoff(h) \/ h \in renew OBVIOUS
<1>9. \A h \in round.central : InBackoff(h) \/ crt[h] # "none" \/ h \in renew \/ h \in issue OBVIOUS
<1>10. \A h \in renew : \E t \in renewals : t.at = h
  <2> TAKE h \in renew
  <2> WITNESS [at |-> h, first |-> FALSE] \in renewals
  <2> QED OBVIOUS
<1>11. \A h \in issue : \E t \in firsts : t.at = h
  <2> TAKE h \in issue
  <2> WITNESS [at |-> h, first |-> TRUE] \in firsts
  <2> QED OBVIOUS
<1> HIDE DEF renew, issue, renewals, firsts
<1>12. DueForRenewal(unread) \in SUBSET [at : Sites, first : BOOLEAN] BY <1>1, <1>4, <1>5
<1>13. \A h \in round.central : InBackoff(h) \/ crt[h] # "none" \/ \E t \in DueForRenewal(unread) : t.at = h
    BY <1>1, <1>9, <1>10, <1>11
<1> QED BY <1>1, <1>4, <1>5, <1>6, <1>8, <1>12, <1>13

\* The scan's lists, and the issuance it starts.
LEMMA ScanKeepsInv ==
    ASSUME CertInv,
           \/ ListDueCerts \/ ListCentral \/ Resolve \/ ScanFails \/ ScanEnds
           \/ \E t \in round.queue : RenewOne(t)
    PROVE  CertInv'
<1>1. /\ CertTyped /\ JobsTyped /\ round \in Rounds /\ plan.count \in Nat
      /\ UNCHANGED <<site, crt, hold, clean, contact>> /\ plan' \in CertPlans
    BY PlanShrinks
       DEF CertInv, CertTyped, ScanTyped, CertPlans, ListDueCerts, ListCentral, Resolve, ScanFails, ScanEnds,
           RenewOne, ScanKeeps
<1>2. CASE UNCHANGED job /\ round' \in Rounds /\ (job[Scan].pc # "none" => round'.pc = "issuing")
  <2>1. CertTyped' BY <1>1, <1>2 DEF CertTyped, JobsTyped, ScanTyped, TeardownTyped
  <2>2. OneInside' /\ AllWarranted'
      BY <1>1, <1>2 DEF CertInv, OneInside, AllWarranted, Warranted
  <2> QED BY <2>1, <2>2 DEF CertInv
<1>3. job[Scan].pc # "none" => round.pc = "issuing" BY <1>1 DEF CertTyped, ScanTyped
<1>4. CASE ListDueCerts
  <2> DEFINE calm == IF Undisturbed THEN plan.count ELSE -1
             due == {h \in Sites : crt[h] = "due"}
  <2>1. calm \in Int /\ due \in SUBSET Sites BY <1>1
  <2>2. round' = [pc |-> "domains", due |-> due, central |-> {}, queue |-> {}, calm |-> calm]
      BY <1>4 DEF ListDueCerts
  <2> HIDE DEF calm, due
  <2>3. round' \in Rounds BY <2>1, <2>2 DEF Rounds
  <2>4. UNCHANGED job /\ job[Scan].pc = "none" BY <1>3, <1>4 DEF ListDueCerts
  <2> QED BY <1>2, <2>3, <2>4
<1>5. CASE ListCentral
  <2>1. CentralHosts \in SUBSET Sites BY <1>1 DEF CentralHosts, CertTyped
  <2>2. round' \in Rounds BY <1>1, <1>5, <2>1 DEF ListCentral, Rounds
  <2>3. UNCHANGED job /\ job[Scan].pc = "none" BY <1>3, <1>5 DEF ListCentral
  <2> QED BY <1>2, <2>2, <2>3
<1>6. CASE Resolve
  <2>1. DueForRenewal({}) \in SUBSET [at : Sites, first : BOOLEAN] BY <1>1, TargetsListed
  <2>2. round' \in Rounds BY <1>1, <1>6, <2>1 DEF Resolve, Rounds
  <2>3. UNCHANGED job /\ job[Scan].pc = "none" BY <1>3, <1>6 DEF Resolve
  <2> QED BY <1>2, <2>2, <2>3
<1>9. CASE ScanFails
  <2>1. \A unread : DueForRenewal(unread) \in SUBSET [at : Sites, first : BOOLEAN] BY <1>1, TargetsListed
  <2>2. UNCHANGED job /\ job[Scan].pc = "none" BY <1>3, <1>9 DEF ScanFails
  <2>3. CASE round' = NoRound
    <3>1. NoRound \in Rounds BY DEF NoRound, Rounds
    <3> QED BY <1>2, <2>2, <2>3, <3>1
  <2>4. ASSUME NEW queue \in SUBSET [at : Sites, first : BOOLEAN],
               round' = [round EXCEPT !.pc = "issuing", !.queue = queue]
        PROVE  CertInv'
    <3>1. round' \in Rounds BY <1>1, <2>4 DEF Rounds
    <3> QED BY <1>2, <2>2, <3>1
  <2>5. ASSUME NEW h \in Sites, round' = [round EXCEPT !.pc = "issuing", !.queue = DueForRenewal({h})]
        PROVE  CertInv'
    BY <2>1, <2>4, <2>5
  <2>6. ASSUME NEW t \in DueForRenewal({}),
               round' = [round EXCEPT !.pc = "issuing", !.queue = DueForRenewal({}) \ {t}]
        PROVE  CertInv'
    <3>1. DueForRenewal({}) \ {t} \in SUBSET [at : Sites, first : BOOLEAN] BY <2>1
    <3> QED BY <2>4, <2>6, <3>1
  <2> QED BY <1>9, <2>3, <2>5, <2>6 DEF ScanFails
<1>7. CASE ScanEnds
  <2>1. NoRound \in Rounds BY DEF NoRound, Rounds
  <2> QED BY <1>2, <1>7, <2>1 DEF ScanEnds
<1>8. ASSUME NEW t \in round.queue, RenewOne(t)
      PROVE  CertInv'
  <2>1. /\ t.at \in Sites /\ t.first \in BOOLEAN /\ Scan \in Workers /\ job[Scan].pc = "none"
        /\ round.pc = "issuing"
        /\ job' = [job EXCEPT ![Scan] = Waiting(t.at, t.first)]
        /\ round' = [round EXCEPT !.queue = @ \ {t}]
      BY <1>1, <1>8 DEF RenewOne, Rounds, Workers
  <2>2. /\ JobsTyped' /\ job'[Scan] = Waiting(t.at, t.first)
        /\ \A v \in Workers \ {Scan} : job'[v] = job[v]
      BY <1>1, <2>1, JobWaits
  <2>3. job'[Scan].pc = "wait" BY <2>2 DEF Waiting
  <2>4. round' \in Rounds /\ round'.pc = "issuing" BY <1>1, <2>1 DEF Rounds
  <2>5. CertTyped' BY <1>1, <2>2, <2>4 DEF CertTyped, ScanTyped, TeardownTyped
  <2>6. Warranted(Scan)' BY <2>3 DEF Warranted
  <2> QED BY <1>1, <2>1, <2>2, <2>3, <2>5, <2>6, JobKeeps DEF Inside
<1> QED BY <1>4, <1>5, <1>6, <1>7, <1>8, <1>9

\* Domains, teardowns, time and a restart.
LEMMA SiteKeepsInv ==
    ASSUME CertInv,
           \/ \E d \in Rows : DeleteSite(d)
           \/ \E d \in Rows, h \in plan.sites, s \in {"central", "plain"} : CreateSite(d, h, s) \/ UpdateSite(d, h, s)
    PROVE  CertInv'
<1>1. /\ CertTyped /\ JobsTyped /\ round \in Rounds /\ plan.sites \in SUBSET Sites
      /\ site \in [Rows -> [status : SiteStates, at : Sites]] /\ OperatorKeeps /\ plan' \in CertPlans
    BY PlanShrinks
       DEF CertInv, CertTyped, ScanTyped, CertPlans, DeleteSite, CreateSite, UpdateSite
<1>2. site' \in [Rows -> [status : SiteStates, at : Sites]]
  <2>1. ASSUME NEW d \in Rows, DeleteSite(d)
        PROVE  site' \in [Rows -> [status : SiteStates, at : Sites]]
      BY <1>1, <2>1 DEF DeleteSite, SiteStates
  <2>2. ASSUME NEW d \in Rows, NEW h \in plan.sites, NEW s \in {"central", "plain"},
               CreateSite(d, h, s) \/ UpdateSite(d, h, s)
        PROVE  site' \in [Rows -> [status : SiteStates, at : Sites]]
    <3>1. [status |-> s, at |-> h] \in [status : SiteStates, at : Sites] BY <1>1 DEF SiteStates
    <3> QED BY <1>1, <2>2, <3>1 DEF CreateSite, UpdateSite
  <2> QED BY <2>1, <2>2
<1>3. CASE UNCHANGED job
  <2>1. CertTyped' BY <1>1, <1>2, <1>3 DEF CertTyped, JobsTyped, ScanTyped, TeardownTyped, OperatorKeeps
  <2>2. OneInside' /\ AllWarranted'
      BY <1>1, <1>3 DEF CertInv, OneInside, AllWarranted, Warranted, OperatorKeeps
  <2> QED BY <2>1, <2>2 DEF CertInv
<1>4. ASSUME NEW c \in Calls, NEW h \in plan.sites, job[c].pc = "none",
             job' = [job EXCEPT ![c] = Waiting(h, TRUE)]
      PROVE  CertInv'
  <2>1. h \in Sites /\ c \in Workers /\ c # Scan BY <1>1, CertificateAssumptions DEF Workers
  <2>2. /\ JobsTyped' /\ job'[c] = Waiting(h, TRUE)
        /\ \A v \in Workers \ {c} : job'[v] = job[v]
      BY <1>1, <1>4, <2>1, JobWaits
  <2>3. job'[c].pc = "wait" BY <2>2 DEF Waiting
  <2>4. job'[Scan] = job[Scan] BY <2>1, <2>2 DEF Workers
  <2>5. CertTyped'
      BY <1>1, <1>2, <2>2, <2>4 DEF CertTyped, ScanTyped, TeardownTyped, OperatorKeeps
  <2>6. Warranted(c)' BY <2>3 DEF Warranted
  <2> QED BY <1>1, <2>1, <2>2, <2>3, <2>5, <2>6, JobKeeps DEF Inside, OperatorKeeps
<1> QED BY <1>3, <1>4 DEF DeleteSite, CreateSite, UpdateSite

LEMMA CleanKeepsInv ==
    ASSUME CertInv, CleanSteps \/ CleanFails
    PROVE  CertInv'
<1>1. CertTyped /\ TeardownTyped /\ UNCHANGED <<hold, job, round, contact>> /\ plan' \in CertPlans
    BY PlanShrinks
       DEF CertInv, CertTyped, CleanSteps, CleanFails, LookupCert, HostStillServed, DeleteCertificate, EraseSite,
           CleanKeeps
<1>2. site' \in [Rows -> [status : SiteStates, at : Sites]] /\ TeardownTyped'
  <2>1. CASE CleanFails
      BY <1>1, <2>1 DEF CleanFails, CleanKeeps, CertTyped, TeardownTyped, NoClean, Cleans
  <2>2. CASE LookupCert \/ HostStillServed
    <3>1. clean' = NoClean \/ clean' = [clean EXCEPT !.pc = "served"] \/ clean' = [clean EXCEPT !.pc = "drop"]
        BY <2>2 DEF LookupCert, HostStillServed, CleanGoes
    <3>2. clean.at \in Sites /\ clean \in Cleans /\ UNCHANGED site
        BY <2>2, <1>1 DEF LookupCert, HostStillServed, TeardownTyped, CleanKeeps
    <3>3. NoClean \in Cleans /\ NoClean.pc = "none" BY DEF NoClean, Cleans
    <3>4. TeardownTyped' BY <3>1, <3>2, <3>3 DEF TeardownTyped, Cleans
    <3> QED BY <1>1, <3>2, <3>4 DEF CertTyped
  <2>3. CASE DeleteCertificate
      BY <1>1, <2>3 DEF DeleteCertificate, CleanKeeps, CertTyped, TeardownTyped, NoClean, Cleans
  <2>4. ASSUME NEW d \in Rows, EraseSite(d)
        PROVE  site' \in [Rows -> [status : SiteStates, at : Sites]] /\ TeardownTyped'
    <3>1. site[d].at \in Sites BY <1>1 DEF CertTyped
    <3>2. TeardownTyped' BY <2>4, <3>1 DEF EraseSite, TeardownTyped, Cleans
    <3> QED BY <1>1, <2>4, <3>2 DEF EraseSite, CertTyped, SiteStates
  <2> QED BY <2>1, <2>2, <2>3, <2>4 DEF CleanSteps
<1>3. /\ crt' \in [Sites -> {"none", "good", "due"}]
      /\ \A h \in Sites : crt'[h] = crt[h] \/ crt'[h] = "none"
    BY <1>1 DEF CertTyped, CleanSteps, CleanFails, LookupCert, HostStillServed, DeleteCertificate, EraseSite
<1>4. CertTyped' BY <1>1, <1>2, <1>3 DEF CertTyped, JobsTyped, ScanTyped
<1>5. OneInside' BY <1>1 DEF CertInv, OneInside
<1>6. AllWarranted'
  <2> SUFFICES ASSUME NEW v \in Workers
               PROVE  Warranted(v)'
      BY DEF AllWarranted
  <2>1. Warranted(v) BY DEF CertInv, AllWarranted
  <2> QED BY <1>1, <1>3, <2>1 DEF Warranted, CertTyped, JobsTyped
<1> QED BY <1>4, <1>5, <1>6 DEF CertInv

LEMMA TimeKeepsInv ==
    ASSUME CertInv, Elapses \/ SetContact \/ \E h \in Sites : Ages(h)
    PROVE  CertInv'
<1>1. CertTyped /\ UNCHANGED <<site, job, round, clean>> /\ plan' \in CertPlans /\ contact' \in BOOLEAN
    BY PlanShrinks DEF CertInv, CertTyped, Elapses, SetContact, Ages
<1>2. crt' \in [Sites -> {"none", "good", "due"}] /\ \A h \in Sites : crt[h] = "none" => crt'[h] = "none"
    BY <1>1 DEF CertTyped, Elapses, SetContact, Ages
<1>3. hold' \in [Sites -> Holds] /\ \A h \in Sites : hold[h].left <= 0 => hold'[h].left <= 0
  <2>1. CASE Elapses
    <3>1. ASSUME NEW h \in Sites
          PROVE  /\ hold'[h] \in Holds
                 /\ hold[h].left <= 0 => hold'[h].left <= 0
      <4>1. hold[h] \in Holds BY <1>1 DEF CertTyped
      <4>2. hold'[h] = [hold[h] EXCEPT !.left = IF hold[h].left > -Cap THEN hold[h].left - 1 ELSE hold[h].left]
          BY <2>1 DEF Elapses
      <4> QED BY <4>1, <4>2, CertificateAssumptions DEF Holds
    <3>2. hold' = [h \in Sites |-> hold'[h]] BY <2>1 DEF Elapses
    <3> QED BY <3>1, <3>2
  <2>2. CASE SetContact \/ \E h \in Sites : Ages(h) BY <2>2, <1>1 DEF SetContact, Ages, CertTyped
  <2> QED BY <2>1, <2>2
<1>4. CertTyped' BY <1>1, <1>2, <1>3 DEF CertTyped, JobsTyped, ScanTyped, TeardownTyped
<1>5. OneInside' BY <1>1 DEF CertInv, OneInside
<1>6. AllWarranted'
  <2> SUFFICES ASSUME NEW v \in Workers
               PROVE  Warranted(v)'
      BY DEF AllWarranted
  <2>1. CASE job[v].pc = "none" BY <1>1, <2>1 DEF Warranted
  <2>2. CASE job[v].pc # "none"
    <3>1. job[v].at \in Sites /\ hold[job[v].at] \in Holds /\ hold'[job[v].at] \in Holds
        BY <1>1, <1>3, <2>2 DEF CertTyped, JobsTyped
    <3>2. Warranted(v) BY DEF CertInv, AllWarranted
    <3> QED BY <1>1, <1>2, <1>3, <3>1, <3>2 DEF Holds, Warranted
  <2> QED BY <2>1, <2>2
<1> QED BY <1>4, <1>5, <1>6 DEF CertInv

LEMMA RestartKeepsInv ==
    ASSUME CertInv, OrchestratorRestarts
    PROVE  CertInv'
<1>1. /\ CertTyped /\ UNCHANGED <<site, crt, hold, contact>> /\ plan' \in CertPlans
      /\ job' = [w \in Workers |-> NoJob] /\ round' = NoRound /\ clean' = NoClean
    BY PlanShrinks DEF CertInv, CertTyped, OrchestratorRestarts
<1>2. NoJob \in Jobs /\ NoJob.pc = "none" BY DEF NoJob, Jobs, Pcs
<1>3. NoRound \in Rounds BY DEF NoRound, Rounds
<1>4. NoClean \in Cleans /\ NoClean.pc = "none" BY DEF NoClean, Cleans
<1>5. \A w \in Workers : job'[w].pc = "none" /\ Scan \in Workers BY <1>1, <1>2 DEF Workers
<1>6. CertTyped'
    BY <1>1, <1>2, <1>3, <1>4, <1>5 DEF CertTyped, JobsTyped, ScanTyped, TeardownTyped, Workers
<1>7. OneInside' /\ AllWarranted' BY <1>5 DEF OneInside, AllWarranted, Warranted, Inside
<1> QED BY <1>6, <1>7 DEF CertInv

LEMMA CertBegins ==
    ASSUME CertInit
    PROVE  CertInv
<1>1. plan \in CertPlans BY CertificateAssumptions DEF CertInit
<1>2. NoJob \in Jobs /\ NoJob.pc = "none" BY DEF NoJob, Jobs, Pcs
<1>3. NoRound \in Rounds BY DEF NoRound, Rounds
<1>4. NoClean \in Cleans /\ NoClean.pc = "none" BY DEF NoClean, Cleans
<1>5. NoHold \in Holds BY DEF NoHold, Holds
<1>6. /\ job = [w \in Workers |-> NoJob] /\ round = NoRound /\ clean = NoClean /\ site = plan.site
      /\ crt = [h \in Sites |-> "none"] /\ hold = [h \in Sites |-> NoHold]
      /\ contact = ("contact" \notin plan.events)
    BY DEF CertInit
<1>7. site \in [Rows -> [status : SiteStates, at : Sites]] BY <1>1, <1>6 DEF CertPlans
<1>8. \A w \in Workers : job[w].pc = "none" BY <1>6, <1>2
<1>9. contact \in BOOLEAN BY <1>6
<1>10. CertTyped
    BY <1>1, <1>2, <1>3, <1>4, <1>5, <1>6, <1>7, <1>8, <1>9
       DEF CertTyped, JobsTyped, ScanTyped, TeardownTyped, Workers
<1>11. OneInside /\ AllWarranted BY <1>8 DEF OneInside, AllWarranted, Warranted, Inside
<1> QED BY <1>10, <1>11 DEF CertInv

LEMMA CertSteps ==
    ASSUME CertInv, [CertNext]_certVars
    PROVE  CertInv'
<1>1. CASE ScanSteps
    BY <1>1, ScanKeepsInv, JobStepKeeps DEF ScanSteps, Workers
<1>2. CASE CleanSteps \/ CleanFails BY <1>2, CleanKeepsInv
<1>3. CASE Elapses \/ SetContact \/ \E h \in Sites : Ages(h) BY <1>3, TimeKeepsInv
<1>4. CASE OrchestratorRestarts BY <1>4, RestartKeepsInv
<1>5. CASE \E c \in Calls : JobSteps(c) BY <1>5, JobStepKeeps DEF Workers
<1>6. CASE \/ \E d \in Rows : DeleteSite(d)
           \/ \E d \in Rows, h \in plan.sites, s \in {"central", "plain"} : CreateSite(d, h, s) \/ UpdateSite(d, h, s)
    BY <1>6, SiteKeepsInv
<1>7. CASE UNCHANGED certVars
  <2>1. CertTyped' BY <1>7 DEF certVars, CertInv, CertTyped, JobsTyped, ScanTyped, TeardownTyped
  <2>2. OneInside' /\ AllWarranted' BY <1>7 DEF certVars, CertInv, OneInside, AllWarranted, Warranted
  <2> QED BY <2>1, <2>2 DEF CertInv
<1> QED BY <1>1, <1>2, <1>3, <1>4, <1>5, <1>6, <1>7 DEF CertNext

\* A first order is placed at the CA only while the host has no hold, and no certificate or
\* one that could not be read under the lock, whatever the creations, scans, teardowns and restarts around it (tls/manager.go,
\* EnsureCertForHost and renewOne under the lock of the host).
THEOREM OrdersCorrect == CertSpec => []FirstOrderOnce
<1>1. CertInit => CertInv BY CertBegins
<1>2. CertInv /\ [CertNext]_certVars => CertInv' BY CertSteps
<1>3. CertInv => FirstOrderOnce BY DEF CertInv, AllWarranted, Warranted, FirstOrderOnce, InBackoff
<1> QED BY <1>1, <1>2, <1>3, PTL DEF CertSpec

-----------------------------------------------------------------------------
(* A scan that nothing disturbs covers every host that wants a central certificate. *)

\* The scan has yet to come to the host, or is at it and has seen what is still true.
Pending(h) ==
    \/ \E t \in round.queue : t.at = h /\ (t.first => crt[h] = "none")
    \/ /\ job[Scan].at = h /\ job[Scan].pc \in {"wait", "check", "backoff", "order", "save"}
       /\ job[Scan].first /\ job[Scan].pc # "save" => crt[h] = "none"
Provided(h) == crt[h] = "good" \/ hold[h].tries > 0

\* Nothing of the plan happened since a scan began with nothing else under way.
Calm == round.pc # "idle" /\ round.calm = plan.count
OnlyTheScan ==
    /\ clean.pc = "none" /\ \A d \in Rows : site[d].status # "deleting"
    /\ \A c \in Calls : job[c].pc = "none"
    /\ job[Scan].pc # "limited" /\ (job[Scan].pc = "clear" => crt[job[Scan].at] = "good")
ListsTrue ==
    /\ round.pc \in {"domains", "resolve"} => round.due = {h \in Sites : crt[h] = "due"}
    /\ round.pc = "resolve" => round.central = CentralHosts
    /\ round.pc = "issuing" => \A h \in CentralHosts : Provided(h) \/ Pending(h)
HoldsCount == \A h \in Sites : InBackoff(h) => hold[h].tries > 0
ScanInv ==
    /\ round.calm >= plan.count \/ round.calm = -1
    /\ HoldsCount
    /\ job[Scan].pc = "check" => job[Scan].first
    /\ Calm => OnlyTheScan /\ ListsTrue

\* What is part of the plan ends the calm.
LEMMA CalmEnds ==
    ASSUME CertTyped, ScanInv, NEW what, Happens(what), UNCHANGED round \/ round' = NoRound,
           HoldsCount', job'[Scan].pc = "check" => job'[Scan].first
    PROVE  ScanInv'
<1>1. plan.count \in Nat /\ round.calm \in Int /\ plan'.count = plan.count - 1 /\ plan'.count \in Nat
    BY PlanShrinks DEF CertTyped, CertPlans, ScanTyped, Rounds
<1>2. round.calm >= plan.count \/ round.calm = -1 BY DEF ScanInv
<1>3. CASE UNCHANGED round
  <2>1. round'.calm >= plan'.count \/ round'.calm = -1 BY <1>1, <1>2, <1>3
  <2>2. round'.calm # plan'.count BY <1>1, <1>2, <1>3
  <2> QED BY <2>1, <2>2 DEF ScanInv, Calm
<1>4. CASE round' = NoRound BY <1>4 DEF ScanInv, Calm, NoRound
<1> QED BY <1>3, <1>4

\* A step of another, or of a scan that was disturbed before.
LEMMA NotCalm ==
    ASSUME ScanInv, ~Calm, UNCHANGED <<round, plan>> \/ round' = NoRound,
           HoldsCount', job'[Scan].pc = "check" => job'[Scan].first
    PROVE  ScanInv'
<1>1. CASE UNCHANGED <<round, plan>> BY <1>1 DEF ScanInv, Calm
<1>2. CASE round' = NoRound BY <1>2 DEF ScanInv, Calm, NoRound
<1> QED BY <1>1, <1>2

\* Holds are counted from one.
LEMMA HoldsStay ==
    ASSUME CertTyped, ScanInv, NEW w \in Workers, job[w].pc # "none",
           JobSteps(w)
    PROVE  HoldsCount'
<1>1. HoldsCount /\ hold \in [Sites -> Holds] /\ job[w].at \in Sites BY DEF CertTyped, ScanInv, JobsTyped
<1>2. CASE UNCHANGED hold BY <1>1, <1>2 DEF HoldsCount, InBackoff
<1>3. CASE hold' = [hold EXCEPT ![job[w].at] = NoHold] BY <1>1, <1>3 DEF HoldsCount, InBackoff, NoHold
<1>4. ASSUME NEW n \in Nat, n > 0, NEW left, hold' = [hold EXCEPT ![job[w].at] = [tries |-> n, left |-> left]]
      PROVE  HoldsCount'
    BY <1>1, <1>4 DEF HoldsCount, InBackoff
<1>5. ASSUME NEW later \in {0, Cap + 1}, MarkRateLimited(w, later)
      PROVE  HoldsCount'
  <2> DEFINE n == IF Consecutive(job[w].at) THEN hold[job[w].at].tries + 1 ELSE 1
             left == NextRateLimitBackoff(n, later)
  <2>1. n \in Nat /\ n > 0 BY <1>1 DEF Holds
  <2>2. hold' = [hold EXCEPT ![job[w].at] = [tries |-> n, left |-> left]] BY <1>5 DEF MarkRateLimited
  <2> HIDE DEF n, left
  <2> QED BY <2>1, <2>2, <1>4
<1>6. CASE ~\E later \in {0, Cap + 1} : MarkRateLimited(w, later)
    BY <1>2, <1>3, <1>6
       DEF JobSteps, TakeLock, TargetForHost, CertificateUnread, GetCertBackoff, StatementFails, NotConfigured, Issued, AttemptFails, RateLimited,
           SaveRenewed, ClearBackoff, Alone
<1> QED BY <1>5, <1>6

\* A worker's step: whose job it changes, and whether it looks again only at a first order.
LEMMA JobLocal ==
    ASSUME CertTyped, NEW w \in Workers, JobSteps(w)
    PROVE  /\ job[w].pc # "none" /\ \A v \in Workers \ {w} : job'[v] = job[v]
           /\ job'[w].pc = "check" => job'[w].first
<1>1. JobsTyped /\ job[w] \in Jobs /\ job \in [Workers -> Jobs] BY DEF CertTyped, JobsTyped
<1>2. job[w].pc # "none"
    BY DEF JobSteps, TakeLock, TargetForHost, CertificateUnread, GetCertBackoff, StatementFails, NotConfigured, Issued, AttemptFails, RateLimited,
           SaveRenewed, ClearBackoff, MarkRateLimited
<1>3. CASE Ends(w)
  <2>1. job'[w] = NoJob /\ \A v \in Workers \ {w} : job'[v] = job[v] BY <1>1, <1>3, JobEnds
  <2> QED BY <1>2, <2>1 DEF NoJob
<1>4. ASSUME NEW pc \in Pcs, Goes(w, pc), pc = "check" => job[w].first
      PROVE  /\ \A v \in Workers \ {w} : job'[v] = job[v]
             /\ job'[w].pc = "check" => job'[w].first
  <2>1. job'[w] = [job[w] EXCEPT !.pc = pc] /\ \A v \in Workers \ {w} : job'[v] = job[v]
      BY <1>1, <1>2, <1>4, JobGoes
  <2> QED BY <1>1, <1>4, <2>1 DEF Jobs
<1>5. CASE job[w].pc = "order" /\ job' = [job EXCEPT ![w].tries = @ + 1]
  <2>1. job'[w] = [job[w] EXCEPT !.tries = @ + 1] /\ \A v \in Workers \ {w} : job'[v] = job[v]
      BY <1>1, <1>5
  <2> QED BY <1>1, <1>2, <1>5, <2>1 DEF Jobs
<1>6. CASE TakeLock(w)
  <2> DEFINE next == IF job[w].first THEN "check" ELSE "order"
  <2>1. next \in Pcs /\ Goes(w, next) /\ (next = "check" => job[w].first) BY <1>6 DEF TakeLock, Pcs
  <2> HIDE DEF next
  <2> QED BY <1>2, <1>4, <2>1
<1>7. CASE StatementFails(w) \/ NotConfigured(w) \/ ClearBackoff(w) \/ AttemptFails(w)
           \/ \E later \in {0, Cap + 1} : MarkRateLimited(w, later)
    BY <1>2, <1>3, <1>5, <1>7 DEF StatementFails, NotConfigured, ClearBackoff, AttemptFails, MarkRateLimited
<1>8. CASE TargetForHost(w) \/ GetCertBackoff(w)
    BY <1>2, <1>3, <1>4, <1>8 DEF TargetForHost, GetCertBackoff, Pcs
<1>10. CASE CertificateUnread(w)
  <2>1. job' = [job EXCEPT ![w].pc = "backoff", ![w].blind = TRUE] BY <1>10 DEF CertificateUnread
  <2>2. job'[w] = [job[w] EXCEPT !.pc = "backoff", !.blind = TRUE] /\ \A v \in Workers \ {w} : job'[v] = job[v]
      BY <1>1, <2>1
  <2> QED BY <1>1, <1>2, <2>2 DEF Jobs
<1>9. CASE Issued(w) \/ RateLimited(w) \/ SaveRenewed(w)
    BY <1>2, <1>4, <1>9 DEF Issued, RateLimited, SaveRenewed, Pcs
<1> QED BY <1>6, <1>7, <1>8, <1>9, <1>10 DEF JobSteps

\* A step of another issuance means that the scan is not alone.
LEMMA CallKeepsScan ==
    ASSUME CertTyped, ScanInv, NEW c \in Calls, JobSteps(c)
    PROVE  ScanInv'
<1>1. c \in Workers /\ c # Scan /\ Scan \in Workers BY CertificateAssumptions DEF Workers
<1>2. job[c].pc # "none" /\ job'[Scan] = job[Scan] BY <1>1, JobLocal
<1>3. HoldsCount' /\ (job'[Scan].pc = "check" => job'[Scan].first)
    BY <1>1, <1>2, HoldsStay DEF ScanInv
<1>4. ~Calm BY <1>2 DEF ScanInv, OnlyTheScan
<1>5. CASE CertificateUnread(c) \/ StatementFails(c) \/ AttemptFails(c) \/ RateLimited(c)
    BY <1>3, <1>5, CalmEnds DEF CertificateUnread, StatementFails, AttemptFails, RateLimited, Alone
<1>6. CASE ~(CertificateUnread(c) \/ StatementFails(c) \/ AttemptFails(c) \/ RateLimited(c))
  <2>1. UNCHANGED <<round, plan>>
      BY <1>1, <1>6
         DEF JobSteps, TakeLock, TargetForHost, GetCertBackoff, NotConfigured, Issued, SaveRenewed, ClearBackoff, MarkRateLimited,
             Alone
  <2> QED BY <1>3, <1>4, <2>1, NotCalm
<1> QED BY <1>5, <1>6

\* What the scan does for one host leaves the others as they are.
LEMMA StaysCalm ==
    ASSUME CertTyped, ScanInv, Calm, round.pc = "issuing",
           UNCHANGED <<site, clean, round, plan>>, \A c \in Calls : job'[c] = job[c],
           HoldsCount', job'[Scan].pc = "check" => job'[Scan].first,
           job'[Scan].pc # "limited", job'[Scan].pc = "clear" => crt'[job'[Scan].at] = "good",
           \A h \in Sites : Provided(h) \/ Pending(h) => Provided(h)' \/ Pending(h)'
    PROVE  ScanInv'
<1>1. CentralHosts' = CentralHosts BY DEF CentralHosts
<1>2. CentralHosts \subseteq Sites BY DEF CentralHosts, CertTyped
<1>3. OnlyTheScan' BY DEF ScanInv, OnlyTheScan
<1>4. ListsTrue' BY <1>1, <1>2 DEF ScanInv, ListsTrue
<1> QED BY <1>3, <1>4 DEF ScanInv

\* A step of the scan's own issuance.
LEMMA ScanJobKeepsScan ==
    ASSUME CertTyped, ScanInv, JobSteps(Scan)
    PROVE  ScanInv'
<1> DEFINE at == job[Scan].at
<1>1. Scan \in Workers /\ JobsTyped /\ crt \in [Sites -> {"none", "good", "due"}] /\ hold \in [Sites -> Holds]
    BY DEF Workers, CertTyped
<1>2. /\ job[Scan].pc # "none" /\ (job'[Scan].pc = "check" => job'[Scan].first)
      /\ \A v \in Workers \ {Scan} : job'[v] = job[v]
    BY <1>1, JobLocal
<1>3. \A c \in Calls : job'[c] = job[c] BY <1>2, CertificateAssumptions DEF Workers
<1>4. HoldsCount' BY <1>1, <1>2, HoldsStay
<1>5. round.pc = "issuing" /\ at \in Sites /\ job[Scan] \in Jobs BY <1>1, <1>2 DEF CertTyped, ScanTyped, JobsTyped
<1>6. ASSUME NEW pc \in Pcs, Goes(Scan, pc)
      PROVE  job'[Scan].pc = pc /\ job'[Scan].at = at /\ job'[Scan].first = job[Scan].first
  <2>1. job'[Scan] = [job[Scan] EXCEPT !.pc = pc] BY <1>1, <1>2, <1>6, JobGoes
  <2> QED BY <1>5, <2>1 DEF Jobs
<1>7. CASE CertificateUnread(Scan) \/ StatementFails(Scan) \/ AttemptFails(Scan) \/ RateLimited(Scan)
    BY <1>2, <1>4, <1>7, CalmEnds DEF CertificateUnread, StatementFails, AttemptFails, RateLimited, Alone
<1>8. CASE NotConfigured(Scan)
    BY <1>2, <1>4, <1>8 DEF NotConfigured, ScanInv, Calm, NoRound
<1>9. CASE \E later \in {0, Cap + 1} : MarkRateLimited(Scan, later)
  <2>1. ~Calm BY <1>9 DEF ScanInv, OnlyTheScan, MarkRateLimited
  <2> QED BY <1>2, <1>4, <1>9, <2>1, NotCalm DEF MarkRateLimited, Alone
<1>10. CASE /\ ~Calm
            /\ \/ TakeLock(Scan) \/ TargetForHost(Scan) \/ GetCertBackoff(Scan) \/ Issued(Scan)
               \/ SaveRenewed(Scan) \/ ClearBackoff(Scan)
    BY <1>2, <1>4, <1>10, NotCalm DEF TakeLock, TargetForHost, GetCertBackoff, Issued, SaveRenewed, ClearBackoff, Alone
<1>11. CASE Calm /\ TakeLock(Scan)
  <2> DEFINE next == IF job[Scan].first THEN "check" ELSE "order"
  <2>1. next \in Pcs /\ Goes(Scan, next) /\ job[Scan].pc = "wait" /\ UNCHANGED <<site, clean, round, plan, crt, hold>>
      BY <1>11 DEF TakeLock, Pcs, Alone
  <2>2. next \in {"check", "order"} OBVIOUS
  <2> HIDE DEF next
  <2>3. job'[Scan].pc = next /\ job'[Scan].at = at /\ job'[Scan].first = job[Scan].first BY <1>6, <2>1
  <2>4. \A h \in Sites : Provided(h) \/ Pending(h) => Provided(h)' \/ Pending(h)'
      BY <2>1, <2>2, <2>3 DEF Provided, Pending
  <2> QED BY <1>2, <1>3, <1>4, <1>5, <1>11, <2>1, <2>2, <2>3, <2>4, StaysCalm
<1>12. CASE /\ Calm
            /\ \/ TargetForHost(Scan) /\ crt[at] # "none"
               \/ GetCertBackoff(Scan) /\ InBackoff(at)
  <2>1. /\ Ends(Scan) /\ job[Scan].pc \in {"check", "backoff"} /\ (job[Scan].pc = "check" => crt[at] # "none")
        /\ (job[Scan].pc = "backoff" => InBackoff(at)) /\ UNCHANGED <<site, clean, round, plan, crt, hold>>
      BY <1>12 DEF TargetForHost, GetCertBackoff, Alone
  <2>2. job'[Scan] = NoJob BY <1>1, <2>1, JobEnds
  <2>3. (job[Scan].pc = "check" => job[Scan].first) /\ (InBackoff(at) => hold[at].tries > 0)
      BY <1>5, <2>1 DEF ScanInv, HoldsCount
  <2>4. job'[Scan].pc = "none" BY <2>2 DEF NoJob
  <2>5. \A h \in Sites : Provided(h) \/ Pending(h) => Provided(h)' \/ Pending(h)'
      BY <2>1, <2>3 DEF Provided, Pending
  <2> QED BY <1>2, <1>3, <1>4, <1>5, <1>12, <2>1, <2>4, <2>5, StaysCalm
<1>13. CASE /\ Calm
            /\ \/ TargetForHost(Scan) /\ crt[at] = "none"
               \/ GetCertBackoff(Scan) /\ ~InBackoff(at)
  <2>1. /\ Goes(Scan, "backoff") \/ Goes(Scan, "order")
        /\ job[Scan].pc \in {"check", "backoff"} /\ UNCHANGED <<site, clean, round, plan, crt, hold>>
      BY <1>13 DEF TargetForHost, GetCertBackoff, Alone
  <2>2. job'[Scan].pc \in {"backoff", "order"} /\ job'[Scan].at = at /\ job'[Scan].first = job[Scan].first
      BY <1>6, <2>1 DEF Pcs
  <2>3. \A h \in Sites : Provided(h) \/ Pending(h) => Provided(h)' \/ Pending(h)'
      BY <2>1, <2>2 DEF Provided, Pending
  <2> QED BY <1>2, <1>3, <1>4, <1>5, <1>13, <2>1, <2>2, <2>3, StaysCalm
<1>14. CASE Calm /\ Issued(Scan)
  <2>1. Goes(Scan, "save") /\ job[Scan].pc = "order" /\ UNCHANGED <<site, clean, round, plan, crt, hold>>
      BY <1>14 DEF Issued, Alone
  <2>2. job'[Scan].pc = "save" /\ job'[Scan].at = at BY <1>6, <2>1 DEF Pcs
  <2>3. \A h \in Sites : Provided(h) \/ Pending(h) => Provided(h)' \/ Pending(h)'
      BY <2>1, <2>2 DEF Provided, Pending
  <2> QED BY <1>2, <1>3, <1>4, <1>5, <1>14, <2>1, <2>2, <2>3, StaysCalm
<1>15. CASE Calm /\ SaveRenewed(Scan)
  <2>1. /\ Goes(Scan, "clear") /\ UNCHANGED <<site, clean, round, plan, hold>>
        /\ crt' = [crt EXCEPT ![at] = "good"]
      BY <1>15 DEF SaveRenewed, Alone
  <2>2. job'[Scan].pc = "clear" /\ job'[Scan].at = at BY <1>6, <2>1 DEF Pcs
  <2>3. crt'[at] = "good" /\ \A h \in Sites \ {at} : crt'[h] = crt[h] BY <1>1, <1>5, <2>1
  <2>4. \A h \in Sites : Provided(h) \/ Pending(h) => Provided(h)' \/ Pending(h)'
      BY <2>1, <2>3 DEF Provided, Pending
  <2> QED BY <1>2, <1>3, <1>4, <1>5, <1>15, <2>1, <2>2, <2>3, <2>4, StaysCalm
<1>16. CASE Calm /\ ClearBackoff(Scan)
  <2>1. /\ Ends(Scan) /\ job[Scan].pc = "clear" /\ UNCHANGED <<site, clean, round, plan, crt>>
        /\ hold' = [hold EXCEPT ![at] = NoHold]
      BY <1>16 DEF ClearBackoff, Alone
  <2>2. job'[Scan] = NoJob BY <1>1, <2>1, JobEnds
  <2>3. job'[Scan].pc = "none" BY <2>2 DEF NoJob
  <2>4. crt[at] = "good" BY <1>16, <2>1 DEF ScanInv, OnlyTheScan
  <2>5. \A h \in Sites \ {at} : hold'[h] = hold[h] BY <1>1, <2>1
  <2>6. \A h \in Sites : Provided(h) \/ Pending(h) => Provided(h)' \/ Pending(h)'
      BY <2>1, <2>4, <2>5 DEF Provided, Pending
  <2> QED BY <1>2, <1>3, <1>4, <1>5, <1>16, <2>1, <2>3, <2>6, StaysCalm
<1> QED BY <1>7, <1>8, <1>9, <1>10, <1>11, <1>12, <1>13, <1>14, <1>15, <1>16 DEF JobSteps

\* The scan's lists.
LEMMA ListsKeepScan ==
    ASSUME CertTyped, ScanInv,
           \/ ListDueCerts \/ ListCentral \/ Resolve \/ ScanFails \/ ScanEnds
           \/ \E t \in round.queue : RenewOne(t)
    PROVE  ScanInv'
<1>a. CASE ScanFails
  <2>1. UNCHANGED <<hold, job>> BY <1>a DEF ScanFails
  <2>2. HoldsCount' /\ (job'[Scan].pc = "check" => job'[Scan].first) BY <2>1 DEF ScanInv, HoldsCount, InBackoff
  <2>3. CASE round' = NoRound BY <1>a, <2>2, <2>3, CalmEnds DEF ScanFails
  <2>4. CASE round' # NoRound
    <3>1. round \in Rounds BY DEF CertTyped, ScanTyped
    <3>2. round'.calm = round.calm BY <1>a, <2>4, <3>1 DEF ScanFails, Rounds
    <3>3. Happens("dbfault") BY <1>a DEF ScanFails
    <3>4. plan \in CertPlans BY DEF CertTyped
    <3>5. /\ plan.count \in Nat /\ round.calm \in Int /\ plan'.count = plan.count - 1 /\ plan'.count \in Nat
          /\ (round.calm >= plan.count \/ round.calm = -1)
        BY <3>1, <3>3, <3>4, PlanShrinks DEF CertPlans, Rounds, ScanInv
    <3>6. round'.calm # plan'.count /\ (round'.calm >= plan'.count \/ round'.calm = -1) BY <3>2, <3>5
    <3> QED BY <2>2, <3>6 DEF ScanInv, Calm
  <2> QED BY <2>3, <2>4
<1> SUFFICES ASSUME ListDueCerts \/ ListCentral \/ Resolve \/ ScanEnds \/ \E t \in round.queue : RenewOne(t)
             PROVE  ScanInv'
    BY <1>a
<1>1. /\ UNCHANGED <<site, crt, hold, clean, contact, plan>> /\ round \in Rounds /\ plan.count \in Nat
      /\ crt \in [Sites -> {"none", "good", "due"}] /\ JobsTyped /\ Scan \in Workers
    BY DEF CertTyped, ScanTyped, CertPlans, Workers, ListDueCerts, ListCentral, Resolve, ScanEnds, RenewOne, ScanKeeps
<1>2. HoldsCount' /\ CentralHosts' = CentralHosts BY <1>1 DEF ScanInv, HoldsCount, InBackoff, CentralHosts
<1>3. CentralHosts \in SUBSET Sites BY DEF CentralHosts, CertTyped
<1>4. job[Scan].pc # "none" => round.pc = "issuing" BY DEF CertTyped, ScanTyped
<1>5. CASE ListDueCerts
  <2>1. /\ UNCHANGED job /\ round.pc = "idle" /\ round'.pc = "domains"
        /\ round'.due = {h \in Sites : crt[h] = "due"}
        /\ round'.calm = IF Undisturbed THEN plan.count ELSE -1
      BY <1>5 DEF ListDueCerts
  <2>2. Undisturbed => OnlyTheScan BY <1>1 DEF Undisturbed, OnlyTheScan, Workers
  <2>3. CASE Undisturbed
    <3>1. OnlyTheScan' BY <1>1, <2>1, <2>2, <2>3 DEF OnlyTheScan
    <3>2. ListsTrue' BY <1>1, <2>1 DEF ListsTrue
    <3>3. round'.calm >= plan'.count BY <1>1, <2>1, <2>3
    <3> QED BY <1>2, <2>1, <3>1, <3>2, <3>3 DEF ScanInv
  <2>4. CASE ~Undisturbed
    <3>1. round'.calm = -1 /\ round'.calm # plan'.count BY <1>1, <2>1, <2>4
    <3> QED BY <1>2, <2>1, <3>1 DEF ScanInv, Calm
  <2> QED BY <2>3, <2>4
<1>6. CASE ~Calm /\ (ListCentral \/ Resolve \/ ScanEnds \/ \E t \in round.queue : RenewOne(t))
  <2>1. CASE ListCentral \/ Resolve
    <3>1. UNCHANGED job /\ round'.calm = round.calm /\ round.pc # "idle"
        BY <1>1, <2>1 DEF ListCentral, Resolve, Rounds
    <3> QED BY <1>1, <1>2, <1>6, <3>1 DEF ScanInv, Calm
  <2>2. CASE ScanEnds BY <1>2, <2>2, <1>6, NotCalm DEF ScanEnds, ScanInv
  <2>3. ASSUME NEW t \in round.queue, RenewOne(t)
        PROVE  ScanInv'
    <3>1. round'.calm = round.calm /\ round.pc # "idle" BY <1>1, <2>3 DEF RenewOne, Rounds
    <3>2. t.at \in Sites /\ t.first \in BOOLEAN BY <1>1 DEF Rounds
    <3>3. job'[Scan] = Waiting(t.at, t.first)
      <4>1. job' = [job EXCEPT ![Scan] = Waiting(t.at, t.first)] BY <2>3 DEF RenewOne
      <4> QED BY <1>1, <3>2, <4>1, JobWaits
    <3>4. job'[Scan].pc = "wait" BY <3>3 DEF Waiting
    <3> QED BY <1>1, <1>2, <1>6, <3>1, <3>4 DEF ScanInv, Calm
  <2> QED BY <1>6, <2>1, <2>2, <2>3
<1>7. CASE Calm /\ ListCentral
  <2>1. /\ UNCHANGED job /\ round.pc = "domains" /\ round'.pc = "resolve" /\ round'.due = round.due
        /\ round'.central = CentralHosts /\ round'.calm = round.calm
      BY <1>1, <1>7 DEF ListCentral, Rounds
  <2>2. OnlyTheScan' BY <1>1, <1>7, <2>1 DEF ScanInv, OnlyTheScan
  <2>3. ListsTrue' BY <1>1, <1>2, <1>7, <2>1 DEF ScanInv, ListsTrue
  <2> QED BY <1>1, <1>2, <2>1, <2>2, <2>3 DEF ScanInv
<1>8. CASE Calm /\ Resolve
  <2>1. /\ UNCHANGED job /\ round.pc = "resolve" /\ round'.pc = "issuing" /\ round'.queue = DueForRenewal({})
        /\ round'.calm = round.calm
      BY <1>1, <1>8 DEF Resolve, Rounds
  <2>2. OnlyTheScan' BY <1>1, <1>8, <2>1 DEF ScanInv, OnlyTheScan
  <2>3. round.due = {h \in Sites : crt[h] = "due"} /\ round.central = CentralHosts
      BY <1>8, <2>1 DEF ScanInv, ListsTrue
  <2>4. ASSUME NEW h \in CentralHosts
        PROVE  Provided(h)' \/ Pending(h)'
    <3>1. h \in Sites /\ h \in round.central /\ (InBackoff(h) => hold[h].tries > 0)
        BY <1>3, <2>3 DEF ScanInv, HoldsCount
    <3>2. CASE InBackoff(h) BY <1>1, <3>1, <3>2 DEF Provided
    <3>3. CASE ~InBackoff(h) /\ crt[h] = "due"
      <4>1. h \in round.due BY <2>3, <3>1, <3>3
      <4>2. [at |-> h, first |-> FALSE] \in DueForRenewal({}) BY <1>1, <3>1, <3>3, <4>1, TargetsListed
      <4>3. [at |-> h, first |-> FALSE].at = h /\ ~[at |-> h, first |-> FALSE].first OBVIOUS
      <4> QED BY <2>1, <4>2, <4>3 DEF Pending
    <3>4. CASE ~InBackoff(h) /\ crt[h] = "none"
      <4>1. PICK t \in DueForRenewal({}) : t.at = h BY <1>1, <3>1, <3>4, TargetsListed
      <4> QED BY <1>1, <2>1, <3>4, <4>1 DEF Pending
    <3>5. CASE crt[h] = "good" BY <1>1, <3>5 DEF Provided
    <3> QED BY <1>1, <3>1, <3>2, <3>3, <3>4, <3>5
  <2>5. ListsTrue' BY <1>2, <2>1, <2>4 DEF ListsTrue
  <2> QED BY <1>1, <1>2, <2>1, <2>2, <2>5 DEF ScanInv
<1>9. CASE Calm /\ ScanEnds BY <1>2, <1>9 DEF ScanEnds, ScanInv, Calm, NoRound
<1>10. ASSUME Calm, NEW t \in round.queue, RenewOne(t)
       PROVE  ScanInv'
  <2>1. /\ round.pc = "issuing" /\ round'.pc = "issuing" /\ round'.queue = round.queue \ {t}
        /\ round'.calm = round.calm /\ job[Scan].pc = "none"
      BY <1>1, <1>10 DEF RenewOne, Rounds
  <2>2. t.at \in Sites /\ t.first \in BOOLEAN BY <1>1 DEF Rounds
  <2>3. job'[Scan] = Waiting(t.at, t.first) /\ \A v \in Workers \ {Scan} : job'[v] = job[v]
    <3>1. job' = [job EXCEPT ![Scan] = Waiting(t.at, t.first)] BY <1>10 DEF RenewOne
    <3> QED BY <1>1, <2>2, <3>1, JobWaits
  <2>4. job'[Scan].pc = "wait" /\ job'[Scan].at = t.at /\ job'[Scan].first = t.first BY <2>3 DEF Waiting
  <2>5. \A c \in Calls : job'[c] = job[c] BY <2>3, CertificateAssumptions DEF Workers
  <2>6. OnlyTheScan' BY <1>1, <1>10, <2>4, <2>5 DEF ScanInv, OnlyTheScan
  <2>7. ASSUME NEW h \in CentralHosts
        PROVE  Provided(h)' \/ Pending(h)'
    <3>1. Provided(h) \/ Pending(h) BY <1>10, <2>1 DEF ScanInv, ListsTrue
    <3>2. CASE Provided(h) BY <1>1, <3>2 DEF Provided
    <3>3. CASE Pending(h)
      <4>1. PICK u \in round.queue : u.at = h /\ (u.first => crt[h] = "none") BY <2>1, <3>3 DEF Pending
      <4>2. CASE u = t BY <1>1, <2>4, <4>1, <4>2 DEF Pending
      <4>3. CASE u # t BY <1>1, <2>1, <4>1, <4>3 DEF Pending
      <4> QED BY <4>2, <4>3
    <3> QED BY <3>1, <3>2, <3>3
  <2>8. ListsTrue' BY <1>2, <2>1, <2>7 DEF ListsTrue
  <2> QED BY <1>1, <1>2, <2>1, <2>4, <2>6, <2>8 DEF ScanInv
<1> QED BY <1>5, <1>6, <1>7, <1>8, <1>9, <1>10

\* Operators, teardowns, time and a restart.
LEMMA OthersKeepScan ==
    ASSUME CertTyped, ScanInv,
           \/ \E d \in Rows : DeleteSite(d)
           \/ \E d \in Rows, h \in plan.sites, s \in {"central", "plain"} : CreateSite(d, h, s) \/ UpdateSite(d, h, s)
           \/ CleanSteps \/ CleanFails \/ Elapses \/ SetContact \/ (\E h \in Sites : Ages(h))
           \/ OrchestratorRestarts
    PROVE  ScanInv'
<1>1. CASE Elapses
  <2>1. UNCHANGED <<site, crt, job, round, clean, contact, plan>> /\ hold \in [Sites -> Holds]
      BY <1>1 DEF Elapses, CertTyped
  <2>2. ASSUME NEW h \in Sites
        PROVE  hold'[h].tries = hold[h].tries /\ (InBackoff(h)' => InBackoff(h))
    <3>1. hold[h] \in Holds BY <2>1
    <3>2. hold'[h] = [hold[h] EXCEPT !.left = IF hold[h].left > -Cap THEN hold[h].left - 1 ELSE hold[h].left]
        BY <1>1 DEF Elapses
    <3> QED BY <3>1, <3>2, CertificateAssumptions DEF Holds, InBackoff
  <2>3. HoldsCount' BY <2>2 DEF ScanInv, HoldsCount
  <2>4. CentralHosts' = CentralHosts /\ CentralHosts \subseteq Sites BY <2>1 DEF CentralHosts, CertTyped
  <2>5. \A h \in Sites : Provided(h) \/ Pending(h) => Provided(h)' \/ Pending(h)'
      BY <2>1, <2>2 DEF Provided, Pending
  <2>6. Calm => OnlyTheScan' /\ ListsTrue'
      BY <2>1, <2>4, <2>5 DEF ScanInv, OnlyTheScan, ListsTrue
  <2> QED BY <2>1, <2>3, <2>6 DEF ScanInv, Calm
<1>2. CASE CleanSteps
  <2>1. ~Calm BY <1>2 DEF ScanInv, OnlyTheScan, CleanSteps, LookupCert, HostStillServed, DeleteCertificate, EraseSite
  <2>2. UNCHANGED <<round, plan, job, hold>>
      BY <1>2 DEF CleanSteps, LookupCert, HostStillServed, DeleteCertificate, EraseSite, CleanKeeps
  <2>3. HoldsCount' /\ (job'[Scan].pc = "check" => job'[Scan].first) BY <2>2 DEF ScanInv, HoldsCount, InBackoff
  <2> QED BY <2>1, <2>2, <2>3, NotCalm
<1>3. CASE CleanFails \/ SetContact \/ \E h \in Sites : Ages(h)
  <2>1. UNCHANGED <<round, job, hold>> BY <1>3 DEF CleanFails, CleanKeeps, SetContact, Ages
  <2>2. HoldsCount' /\ (job'[Scan].pc = "check" => job'[Scan].first) BY <2>1 DEF ScanInv, HoldsCount, InBackoff
  <2> QED BY <1>3, <2>1, <2>2, CalmEnds DEF CleanFails, SetContact, Ages
<1>4. CASE \E d \in Rows : DeleteSite(d)
  <2>1. UNCHANGED <<round, job, hold>> BY <1>4 DEF DeleteSite, OperatorKeeps
  <2>2. HoldsCount' /\ (job'[Scan].pc = "check" => job'[Scan].first) BY <2>1 DEF ScanInv, HoldsCount, InBackoff
  <2> QED BY <1>4, <2>1, <2>2, CalmEnds DEF DeleteSite
<1>5. ASSUME NEW d \in Rows, NEW h \in plan.sites, NEW s \in {"central", "plain"},
             CreateSite(d, h, s) \/ UpdateSite(d, h, s)
      PROVE  ScanInv'
  <2>1. UNCHANGED <<round, hold>> BY <1>5 DEF CreateSite, UpdateSite, OperatorKeeps
  <2>2. job'[Scan] = job[Scan]
    <3>1. UNCHANGED job \/ \E c \in Calls : job' = [job EXCEPT ![c] = Waiting(h, TRUE)]
        BY <1>5 DEF CreateSite, UpdateSite
    <3> QED BY <3>1, CertificateAssumptions DEF CertTyped, JobsTyped, Workers
  <2>3. HoldsCount' /\ (job'[Scan].pc = "check" => job'[Scan].first)
      BY <2>1, <2>2 DEF ScanInv, HoldsCount, InBackoff
  <2> QED BY <1>5, <2>1, <2>3, CalmEnds DEF CreateSite, UpdateSite
<1>6. CASE OrchestratorRestarts
  <2>1. Scan \in Workers /\ NoJob.pc = "none" BY DEF Workers, NoJob
  <2>2. UNCHANGED hold /\ round' = NoRound /\ job'[Scan] = NoJob BY <1>6, <2>1 DEF OrchestratorRestarts
  <2>3. HoldsCount' /\ (job'[Scan].pc = "check" => job'[Scan].first)
      BY <2>1, <2>2 DEF ScanInv, HoldsCount, InBackoff
  <2> QED BY <1>6, <2>2, <2>3, CalmEnds DEF OrchestratorRestarts
<1> QED BY <1>1, <1>2, <1>3, <1>4, <1>5, <1>6

LEMMA ScanBegins ==
    ASSUME CertInit
    PROVE  ScanInv
<1>1. Scan \in Workers /\ NoJob.pc = "none" BY DEF Workers, NoJob
<1>2. job[Scan] = NoJob /\ round = NoRound BY <1>1 DEF CertInit
<1>3. HoldsCount BY CertificateAssumptions DEF CertInit, HoldsCount, InBackoff, NoHold
<1> QED BY <1>1, <1>2, <1>3 DEF ScanInv, Calm, NoRound

LEMMA ScanStays ==
    ASSUME CertTyped, ScanInv, [CertNext]_certVars
    PROVE  ScanInv'
<1>1. CASE ScanSteps BY <1>1, ListsKeepScan, ScanJobKeepsScan DEF ScanSteps
<1>2. CASE \E c \in Calls : JobSteps(c) BY <1>2, CallKeepsScan
<1>3. CASE \/ \E d \in Rows : DeleteSite(d)
           \/ \E d \in Rows, h \in plan.sites, s \in {"central", "plain"} : CreateSite(d, h, s) \/ UpdateSite(d, h, s)
           \/ CleanSteps \/ CleanFails \/ Elapses \/ SetContact \/ (\E h \in Sites : Ages(h))
           \/ OrchestratorRestarts
    BY <1>3, OthersKeepScan
<1>4. CASE UNCHANGED certVars
  <2>1. CentralHosts' = CentralHosts /\ HoldsCount'
      BY <1>4 DEF certVars, CentralHosts, ScanInv, HoldsCount, InBackoff
  <2>2. \A h : Provided(h)' = Provided(h) /\ Pending(h)' = Pending(h)
      BY <1>4 DEF certVars, Provided, Pending
  <2>3. OnlyTheScan' = OnlyTheScan BY <1>4 DEF certVars, OnlyTheScan
  <2>4. ListsTrue => ListsTrue' BY <1>4, <2>1, <2>2 DEF certVars, ListsTrue
  <2> QED BY <1>4, <2>1, <2>3, <2>4 DEF certVars, ScanInv, Calm
<1> QED BY <1>1, <1>2, <1>3, <1>4 DEF CertNext

\* The end of a scan with a contact address.
LEMMA ScanDone ==
    ASSUME CertTyped, ScanInv, CertNext,
           round.pc = "issuing", round'.pc = "idle", contact, round.calm = plan'.count
    PROVE  \A h \in CentralHosts : crt[h] = "good" \/ hold[h].tries > 0
<1>1. plan.count \in Nat /\ round.calm \in Int /\ (round.calm >= plan.count \/ round.calm = -1)
    BY DEF CertTyped, CertPlans, ScanTyped, Rounds, ScanInv
<1>2. CASE ScanEnds
  <2>1. Calm /\ job[Scan].pc = "none" /\ round.queue = {} BY <1>2 DEF ScanEnds, ScanKeeps, Calm
  <2>2. \A h \in CentralHosts : Provided(h) \/ Pending(h) BY <2>1 DEF ScanInv, ListsTrue
  <2> QED BY <2>1, <2>2 DEF Provided, Pending
<1>3. ASSUME NEW what, Happens(what)
      PROVE  FALSE
  <2>1. plan'.count = plan.count - 1 /\ plan'.count \in Nat BY <1>3, PlanShrinks DEF CertTyped
  <2> QED BY <1>1, <2>1
<1>4. CASE OrchestratorRestarts BY <1>3, <1>4 DEF OrchestratorRestarts
<1>5. CASE UNCHANGED round BY <1>5
<1>6. CASE ListDueCerts \/ ListCentral \/ Resolve \/ \E t \in round.queue : RenewOne(t)
    BY <1>6 DEF ListDueCerts, ListCentral, Resolve, RenewOne, CertTyped, ScanTyped, Rounds
<1>7. ASSUME NEW w \in Workers, JobSteps(w)
      PROVE  UNCHANGED round
    BY <1>7
       DEF JobSteps, TakeLock, TargetForHost, CertificateUnread, GetCertBackoff, StatementFails, NotConfigured, Issued, AttemptFails, RateLimited,
           SaveRenewed, ClearBackoff, MarkRateLimited, Alone
<1>8. CASE ScanSteps
  <2>1. CASE ScanFails BY <1>3, <2>1 DEF ScanFails
  <2> QED BY <1>2, <1>5, <1>6, <1>7, <1>8, <2>1 DEF ScanSteps, Workers
<1>9. CASE \E c \in Calls : JobSteps(c) BY <1>5, <1>7, <1>9 DEF Workers
<1>10. CASE \/ \E d \in Rows : DeleteSite(d)
            \/ \E d \in Rows, h \in plan.sites, s \in {"central", "plain"} : CreateSite(d, h, s) \/ UpdateSite(d, h, s)
            \/ CleanSteps \/ CleanFails \/ Elapses \/ SetContact \/ \E h \in Sites : Ages(h)
  <2>1. UNCHANGED round
      BY <1>10
         DEF DeleteSite, CreateSite, UpdateSite, OperatorKeeps, CleanSteps, CleanFails, LookupCert, HostStillServed,
             DeleteCertificate, EraseSite, CleanKeeps, Elapses, SetContact, Ages
  <2> QED BY <1>5, <2>1
<1> QED BY <1>4, <1>8, <1>9, <1>10 DEF CertNext

\* A scan that nothing disturbed, of any number of hosts, leaves none that wants a central
\* certificate without one that is not due, unless a rate limit holds it back (tls/manager.go,
\* RunOnce).
THEOREM ScansCorrect == CertSpec => ScanCovers
<1>1. CertInit => CertInv /\ ScanInv BY CertBegins, ScanBegins
<1>2. CertInv /\ ScanInv /\ [CertNext]_certVars => CertInv' /\ ScanInv'
    BY CertSteps, ScanStays DEF CertInv
<1>3. CertInv /\ ScanInv /\ [CertNext]_certVars =>
        [round.pc = "issuing" /\ round'.pc = "idle" /\ contact /\ round.calm = plan'.count =>
           \A h \in CentralHosts : crt[h] = "good" \/ hold[h].tries > 0]_certVars
    BY ScanDone DEF CertInv
<1> QED BY <1>1, <1>2, <1>3, PTL DEF CertSpec, ScanCovers

-----------------------------------------------------------------------------
(* The data directory.  Nobody mixes a database with the log or the key of another  *)
(* but a restore that is cut off or brings no key, and what a backup holds open tells *)
(* it when that happens.                                                              *)

(* What a database is that has come to no harm, and the key a file holds.      *)
HealthyAt(d, now) == DOMAIN d = {"keys", "ver", "data"} /\ d.ver \in Nat /\ d.data \in Nat /\ d.data < now
Healthy(d) == HealthyAt(d, serial)
KeyNow == dataDir["encryption"].holds

(* Files have inodes that are no longer given out.                             *)
DirType ==
    /\ serial \in Nat /\ serial > 9
    /\ DOMAIN dataDir = FileNames
    /\ \A n \in FileNames : /\ dataDir[n] = [ino |-> dataDir[n].ino, holds |-> dataDir[n].holds]
                            /\ dataDir[n].ino \in Nat /\ dataDir[n].ino < serial
    /\ mixed \in BOOLEAN

(* A start that has just made the key file has not written the key yet.        *)
Fresh == server.pc = "encryption" /\ server.created

(* A database nobody has mixed up lies next to its key and has its own log.     *)
DirSound ==
    ~mixed =>
      /\ dataDir["wal"].ino \in {0, dataDir["db"].ino}
      /\ There("db") => /\ There("encryption") /\ ~Fresh
                        /\ Healthy(Readable) /\ Readable.keys \subseteq {KeyNow}

ServerFields == {"pc", "target", "opened", "created", "key"}
ServerSound ==
    /\ DOMAIN server = ServerFields /\ server.target \in Nat /\ server.created \in BOOLEAN
    /\ server.pc \in {"off", "encryption", "authority", "db", "migrate", "account", "up"}
    /\ server.pc # "off" => restoring.pc = "off"
    /\ server.pc = "encryption" /\ server.opened # 0 => There("encryption")
    /\ server.pc = "db" /\ server.opened # 0 => There("db")
    /\ server.pc \in {"authority", "db", "migrate", "account", "up"} => There("encryption") /\ server.key = KeyNow
    /\ server.pc \in {"migrate", "account", "up"} => There("db")
    /\ server.pc \in {"account", "up"} /\ ~mixed => Readable.ver >= server.target

(* A backup: what it holds open are files that were there.                      *)
KeyHeld ==
    SameFile("encryption") => /\ KeyNow = copying.held["encryption"].holds /\ ~Fresh

Later(d, was) == d.data >= was.data /\ d.ver >= was.ver
CopyType ==
    /\ DOMAIN copying = {"pc", "held", "was", "shot", "doubtful"} /\ copying.doubtful \in BOOLEAN
    /\ copying.pc \in {"off", "db", "encryption", "account", "snapshot", "verify", "write"}
    /\ \A n \in DOMAIN copying.held : copying.held[n].ino \in Nat /\ copying.held[n].ino < serial /\ n \in FileNames
    /\ copying.pc \in {"encryption", "account", "snapshot", "verify", "write"} => "db" \in DOMAIN copying.held
    /\ copying.pc \in {"off", "db"} => copying.held = <<>>

(* As long as the database it has opened is in place, nothing was mixed since,   *)
(* and what it opened, read and copied belongs together.                          *)
CopySound ==
    ~copying.doubtful =>
      /\ copying.pc \in {"encryption", "account", "snapshot", "verify"} /\ SameFile("db") =>
            ~mixed /\ copying.was.ver \in Nat /\ copying.was.data \in Nat /\ Later(Readable, copying.was)
      /\ copying.pc \in {"account", "snapshot", "verify"} /\ SameFile("db") =>
            "encryption" \in DOMAIN copying.held /\ KeyHeld
      /\ copying.pc = "verify" /\ SameFile("db") /\ SameFile("encryption") =>
            /\ Healthy(copying.shot) /\ Later(copying.shot, copying.was)
            /\ copying.shot.keys \subseteq {copying.held["encryption"].holds}
      /\ copying.pc = "write" =>
            /\ "encryption" \in DOMAIN copying.held /\ KeyHeld
            /\ Healthy(copying.shot) /\ Later(copying.shot, copying.was)
            /\ copying.shot.keys \subseteq {copying.held["encryption"].holds}

(* An archive that is whole can be put in place.                                *)
Usable(a) ==
    a.whole /\ ~a.doubtful =>
      Healthy(a.files["db"]) /\ ("encryption" \in DOMAIN a.files => a.files["db"].keys \subseteq {a.files["encryption"]})
ArchivesUsable ==
    /\ Usable(archive) /\ ArchivesOpen
    /\ DOMAIN affair = {"found", "archives", "targets", "starts", "writes", "kills", "copies", "restores"}
    /\ affair.targets \subseteq Nat
    /\ \A a \in affair.archives : Usable(a)

(* A restore, file by file.                                                      *)
Put(n) == n \in DOMAIN restoring.from.files \ restoring.left
KeysPut ==
    \A n \in KeyFiles :
      dataDir[n].holds = IF Put(n) THEN restoring.from.files[n] ELSE restoring.before[n].holds
DbPut == There("db") /\ dataDir["db"].holds = restoring.from.files["db"]
RestoreSound ==
    /\ DOMAIN restoring = {"pc", "from", "left", "before"}
    /\ restoring.pc \in {"off", "stage", "check", "db", "sidecars", "keys", "done", "failed", "cut"}
    /\ restoring.pc \in {"stage", "check", "db", "sidecars", "keys"} =>
         Usable(restoring.from) /\ restoring.left \subseteq DOMAIN restoring.from.files
    /\ restoring.pc \in {"check", "db", "sidecars", "keys"} => restoring.from.whole
    /\ restoring.pc \in {"stage", "check", "db"} => restoring.left = DOMAIN restoring.from.files
    /\ restoring.pc \in {"stage", "check", "db", "failed"} => Told(dataDir) = Told(restoring.before)
    /\ restoring.pc \in {"db", "sidecars", "keys"} => "encryption" \in DOMAIN restoring.from.files \/ ~There("encryption")
    /\ restoring.pc \in {"sidecars", "keys"} => mixed /\ DbPut /\ KeysPut
    /\ restoring.pc = "sidecars" => dataDir["wal"].ino # dataDir["db"].ino
    /\ restoring.pc = "keys" => ~There("wal")
    /\ restoring.pc = "done" =>
         /\ There("db") /\ Readable = restoring.from.files["db"]
         /\ \A n \in KeyFiles :
              dataDir[n].holds = IF n \in DOMAIN restoring.from.files THEN restoring.from.files[n]
                                 ELSE restoring.before[n].holds

DataInv ==
    /\ DirType /\ DirSound /\ ServerSound /\ CopyType /\ CopySound /\ ArchivesUsable /\ RestoreSound

-----------------------------------------------------------------------------
(* What a write does to the files.                                              *)
Makes(n, h) == dataDir' = [dataDir EXCEPT ![n] = File(serial, h)] /\ serial' = serial + 1
Says(n, h) == dataDir' = [dataDir EXCEPT ![n].holds = h] /\ serial' \in {serial, serial + 1}
Logs(h) == dataDir' = [dataDir EXCEPT !["wal"] = File(dataDir["db"].ino, h)] /\ serial' \in {serial, serial + 1}

LEMMA FileMade ==
    ASSUME DirType, NEW n \in FileNames, NEW h, mixed' \in BOOLEAN,
           Makes(n, h)
    PROVE  /\ DirType' /\ dataDir'[n].ino = serial /\ dataDir'[n].holds = h
           /\ \A m \in FileNames \ {n} : dataDir'[m] = dataDir[m]
<1>1. dataDir'[n] = [ino |-> serial, holds |-> h] /\ DOMAIN dataDir' = FileNames
  BY DEF DirType, File, Makes
<1>2. \A m \in FileNames \ {n} : dataDir'[m] = dataDir[m]
  BY DEF DirType, Makes
<1>3. dataDir'[n].ino = serial /\ dataDir'[n].holds = h
  BY <1>1
<1> QED  BY <1>1, <1>2, <1>3 DEF DirType, Makes

LEMMA FileSays ==
    ASSUME DirType, NEW n \in FileNames, NEW h, mixed' \in BOOLEAN,
           Says(n, h)
    PROVE  /\ DirType' /\ dataDir'[n].ino = dataDir[n].ino /\ dataDir'[n].holds = h
           /\ \A m \in FileNames \ {n} : dataDir'[m] = dataDir[m]
<1> DEFINE i == dataDir[n].ino   k == dataDir[n].holds
<1>0. dataDir[n] = [ino |-> i, holds |-> k] /\ i \in Nat /\ i < serial
  BY DEF DirType, Says
<1> HIDE DEF i, k
<1>1. dataDir'[n] = [ino |-> i, holds |-> h] /\ DOMAIN dataDir' = FileNames
  BY <1>0 DEF DirType, Says
<1>2. \A m \in FileNames \ {n} : dataDir'[m] = dataDir[m]
  BY DEF DirType, Says
<1>3. dataDir'[n].ino = i /\ dataDir'[n].holds = h
  BY <1>1
<1> QED  BY <1>0, <1>1, <1>2, <1>3 DEF DirType, i, Says

LEMMA LogWritten ==
    ASSUME DirType, NEW h, mixed' \in BOOLEAN,
           Logs(h)
    PROVE  /\ DirType' /\ dataDir'["wal"].ino = dataDir["db"].ino /\ dataDir'["wal"].holds = h
           /\ \A m \in FileNames \ {"wal"} : dataDir'[m] = dataDir[m]
<1>0. "wal" \in FileNames /\ "db" \in FileNames
  BY DEF FileNames, Logs
<1>1. dataDir'["wal"] = [ino |-> dataDir["db"].ino, holds |-> h] /\ DOMAIN dataDir' = FileNames
  BY <1>0 DEF DirType, File, Logs
<1>2. \A m \in FileNames \ {"wal"} : dataDir'[m] = dataDir[m]
  BY DEF DirType, Logs
<1>3. dataDir'["wal"].ino = dataDir["db"].ino /\ dataDir'["wal"].holds = h
  BY <1>1
<1> QED  BY <1>0, <1>1, <1>2, <1>3 DEF DirType, Logs

LEMMA LogGone ==
    ASSUME DirType, mixed' \in BOOLEAN, dataDir' = [dataDir EXCEPT !["wal"] = Missing], serial' = serial
    PROVE  /\ DirType' /\ dataDir'["wal"].ino = 0
           /\ \A m \in FileNames \ {"wal"} : dataDir'[m] = dataDir[m]
<1>0. "wal" \in FileNames
  BY DEF FileNames
<1>1. dataDir'["wal"] = [ino |-> 0, holds |-> 0] /\ DOMAIN dataDir' = FileNames
  BY <1>0 DEF DirType, Missing
<1>2. \A m \in FileNames \ {"wal"} : dataDir'[m] = dataDir[m]
  BY DEF DirType
<1>3. dataDir'["wal"].ino = 0 /\ dataDir'["wal"].holds = 0
  BY <1>1
<1> QED  BY <1>0, <1>1, <1>2, <1>3 DEF DirType

(* The log is played into its database.                                         *)
LEMMA LogPlayed ==
    ASSUME DirType, mixed' \in BOOLEAN, serial' = serial,
           dataDir' = [dataDir EXCEPT !["db"].holds = Readable, !["wal"] = Missing]
    PROVE  /\ DirType' /\ dataDir'["wal"].ino = 0 /\ dataDir'["db"].ino = dataDir["db"].ino
           /\ dataDir'["db"].holds = Readable /\ Readable' = Readable
           /\ \A m \in KeyFiles : dataDir'[m] = dataDir[m]
<1> DEFINE i == dataDir["db"].ino   k == dataDir["db"].holds   r == Readable
<1>0. "wal" \in FileNames /\ "db" \in FileNames /\ KeyFiles \subseteq FileNames \ {"db", "wal"}
  BY DEF FileNames, KeyFiles
<1>1. dataDir["db"] = [ino |-> i, holds |-> k] /\ i \in Nat /\ i < serial
  BY <1>0 DEF DirType
<1> HIDE DEF i, k, r
<1>2. /\ dataDir'["db"] = [ino |-> i, holds |-> r] /\ dataDir'["wal"] = [ino |-> 0, holds |-> 0]
      /\ DOMAIN dataDir' = FileNames
  BY <1>0, <1>1 DEF DirType, Missing, r
<1>3. \A m \in FileNames \ {"db", "wal"} : dataDir'[m] = dataDir[m]
  BY DEF DirType
<1>4. dataDir'["db"].ino = i /\ dataDir'["db"].holds = r /\ dataDir'["wal"].ino = 0 /\ dataDir'["wal"].holds = 0
  BY <1>2
<1>5. DirType'
  BY <1>0, <1>1, <1>2, <1>3, <1>4 DEF DirType
<1>6. Readable' = r
  BY <1>4 DEF Readable, ReadableIn
<1> QED  BY <1>0, <1>3, <1>4, <1>5, <1>6 DEF i, r

LEMMA Names ==
    /\ "db" \in FileNames /\ "wal" \in FileNames /\ "encryption" \in FileNames
    /\ KeyFiles = {"encryption", "authority", "account"} /\ KeyFiles \subseteq FileNames
    /\ FileNames = {"encryption", "authority", "account", "db", "wal"}
BY DEF FileNames, KeyFiles

LEMMA AfterKeys ==
    /\ After["encryption"] = "authority" /\ After["authority"] = "db" /\ After["account"] = "up"
BY DEF After

(* What happens less often is all that changes of the case.                     *)
LEMMA AffairStays ==
    ASSUME ArchivesUsable, NEW w \in {"starts", "writes", "kills", "copies", "restores"},
           affair' = affair \/ Spends(w)
    PROVE  /\ DOMAIN affair' = DOMAIN affair
           /\ affair'.archives = affair.archives /\ affair'.targets = affair.targets
<1>1. "archives" \in DOMAIN affair /\ "targets" \in DOMAIN affair
  BY DEF ArchivesUsable
<1>2. CASE Spends(w)
  <2>1. affair' = [affair EXCEPT ![w] = affair[w] - 1]
    BY <1>2 DEF Spends
  <2> QED  BY <1>1, <2>1
<1>3. CASE affair' = affair
  BY <1>3
<1> QED  BY <1>2, <1>3

LEMMA ArchivesStay ==
    ASSUME ArchivesUsable, serial \in Nat, serial' \in {serial, serial + 1}, archive' = archive,
           NEW w \in {"starts", "writes", "kills", "copies", "restores"}, affair' = affair \/ Spends(w)
    PROVE  ArchivesUsable'
<1>1. \A a : Usable(a) => Usable(a)'
  BY DEF Usable, Healthy, HealthyAt
<1>2. /\ DOMAIN affair' = DOMAIN affair
      /\ affair'.archives = affair.archives /\ affair'.targets = affair.targets
  BY AffairStays
<1>3. ArchivesOpen'
  BY DEF ArchivesUsable, ArchivesOpen
<1> QED  BY <1>1, <1>2, <1>3 DEF ArchivesUsable

(* A step beside the backup.                                                    *)
LEMMA CopyStays ==
    ASSUME CopyType, CopySound, serial \in Nat, serial' \in {serial, serial + 1}, copying' = copying,
           "db" \in DOMAIN copying.held /\ SameFile("db")' =>
             SameFile("db") /\ (~mixed => /\ ~mixed' /\ Later(Readable', Readable)
                                          /\ Healthy(Readable) /\ Healthy(Readable)'),
           "encryption" \in DOMAIN copying.held /\ SameFile("encryption")' =>
             SameFile("encryption") /\ (~Fresh => ~Fresh' /\ KeyNow' = KeyNow)
    PROVE  CopyType' /\ CopySound'
<1>1. CopyType'
  BY DEF CopyType
<1>3. SUFFICES ASSUME ~copying.doubtful PROVE CopySound'
  BY <1>1 DEF CopySound
<1>4. copying.pc \in {"encryption", "account", "snapshot", "verify"} /\ SameFile("db")' =>
         ~mixed' /\ copying.was.ver \in Nat /\ copying.was.data \in Nat /\ Later(Readable', copying.was)
  <2> SUFFICES ASSUME copying.pc \in {"encryption", "account", "snapshot", "verify"}, SameFile("db")'
               PROVE  ~mixed' /\ copying.was.ver \in Nat /\ copying.was.data \in Nat /\ Later(Readable', copying.was)
    OBVIOUS
  <2>0. SameFile("db") /\ "db" \in DOMAIN copying.held
    BY DEF CopyType
  <2>1. SameFile("db") /\ ~mixed /\ copying.was.ver \in Nat /\ copying.was.data \in Nat /\ Later(Readable, copying.was)
    BY <1>3, <2>0 DEF CopySound
  <2>2. ~mixed' /\ Later(Readable', Readable) /\ Healthy(Readable) /\ Healthy(Readable)'
    BY <2>0, <2>1
  <2>3. /\ Readable.ver \in Nat /\ Readable.data \in Nat /\ Readable'.ver \in Nat /\ Readable'.data \in Nat
        /\ Readable'.ver >= Readable.ver /\ Readable.ver >= copying.was.ver
        /\ Readable'.data >= Readable.data /\ Readable.data >= copying.was.data
    BY <2>1, <2>2 DEF Healthy, HealthyAt, Later
  <2>4. Readable'.ver >= copying.was.ver /\ Readable'.data >= copying.was.data
    BY <2>1, <2>3
  <2> QED  BY <2>1, <2>2, <2>4 DEF Later
<1>5. "encryption" \in DOMAIN copying.held /\ KeyHeld => KeyHeld'
  BY DEF KeyHeld
<1>6. Healthy(copying.shot) => Healthy(copying.shot)'
  BY DEF Healthy, HealthyAt
<1>7. copying.pc \in {"account", "snapshot", "verify"} /\ SameFile("db")' =>
         "encryption" \in DOMAIN copying.held /\ KeyHeld'
  BY <1>3, <1>5 DEF CopySound, CopyType
<1>8. copying.pc = "verify" /\ SameFile("db")' /\ SameFile("encryption")' =>
            /\ Healthy(copying.shot)' /\ Later(copying.shot, copying.was)
            /\ copying.shot.keys \subseteq {copying.held["encryption"].holds}
  BY <1>3, <1>6, <1>7 DEF CopySound, CopyType
<1>9. copying.pc = "write" =>
            /\ "encryption" \in DOMAIN copying.held /\ KeyHeld'
            /\ Healthy(copying.shot)' /\ Later(copying.shot, copying.was)
            /\ copying.shot.keys \subseteq {copying.held["encryption"].holds}
  BY <1>3, <1>5, <1>6 DEF CopySound
<1> QED  BY <1>4, <1>7, <1>8, <1>9 DEF CopySound, Later

(* The files are as they were, whatever else is done.                           *)
LEMMA DirStays ==
    ASSUME DirType, DirSound, dataDir' = dataDir, mixed' = mixed, serial' = serial, Fresh' => Fresh
    PROVE  /\ DirType' /\ DirSound' /\ Readable' = Readable /\ KeyNow' = KeyNow
           /\ \A n : There(n)' = There(n)
           /\ There("db") /\ ~mixed => Healthy(Readable) /\ Healthy(Readable)'
<1>1. Readable' = Readable /\ KeyNow' = KeyNow /\ \A n : There(n)' = There(n)
  BY DEF Readable, ReadableIn, KeyNow, There
<1>2. DirType'
  BY DEF DirType
<1>3. DirSound'
  BY <1>1 DEF DirSound, Healthy, HealthyAt
<1> QED  BY <1>1, <1>2, <1>3 DEF DirSound, Healthy, HealthyAt

(* The backup is beside a step that leaves the files as they are.                *)
LEMMA CopyBeside ==
    ASSUME DataInv, dataDir' = dataDir, mixed' = mixed, serial' = serial, copying' = copying, Fresh' => Fresh
    PROVE  CopyType' /\ CopySound'
<1>1. /\ DirType /\ DirSound /\ CopyType /\ CopySound /\ serial \in Nat
  BY DEF DataInv, DirType
<1>2. /\ Readable' = Readable /\ KeyNow' = KeyNow
      /\ There("db") /\ ~mixed => Healthy(Readable) /\ Healthy(Readable)'
  BY <1>1, DirStays
<1>3. SameFile("db")' => SameFile("db") /\ (~mixed => /\ ~mixed' /\ Later(Readable', Readable)
                                                         /\ Healthy(Readable) /\ Healthy(Readable)')
  <2>1. SameFile("db")' => SameFile("db") /\ There("db")
    BY DEF SameFile, There
  <2>2. Healthy(Readable) => Later(Readable, Readable)
    BY DEF Healthy, HealthyAt, Later
  <2> QED  BY <1>2, <2>1, <2>2
<1>4. SameFile("encryption")' => SameFile("encryption") /\ (~Fresh => ~Fresh' /\ KeyNow' = KeyNow)
  BY <1>2 DEF SameFile, There
<1> QED  BY <1>1, <1>2, <1>3, <1>4, CopyStays

(* No restore is under way.                                                     *)
LEMMA RestoreOff ==
    ASSUME restoring'.pc = "off", DOMAIN restoring' = {"pc", "from", "left", "before"}
    PROVE  RestoreSound'
BY DEF RestoreSound

(* A step of the server that leaves the files as they are.                       *)
LEMMA ServerStays ==
    ASSUME DataInv, dataDir' = dataDir, mixed' = mixed, serial' = serial, copying' = copying, Fresh' => Fresh,
           archive' = archive, NEW w \in {"starts", "writes", "kills", "copies", "restores"},
           affair' = affair \/ Spends(w), ServerSound',
           restoring'.pc = "off", DOMAIN restoring' = {"pc", "from", "left", "before"}
    PROVE  DataInv'
<1>1. DirType' /\ DirSound'
  BY DirStays DEF DataInv
<1>2. CopyType' /\ CopySound'
  BY CopyBeside
<1>3. ArchivesUsable'
  BY ArchivesStay DEF DataInv, DirType
<1> QED  BY <1>1, <1>2, <1>3, RestoreOff DEF DataInv

LEMMA StartServerKeeps == ASSUME DataInv, NEW target, StartServer(target) PROVE DataInv'
<1>1. server' = [pc |-> "encryption", target |-> target, opened |-> 0, created |-> FALSE, key |-> 0]
  BY DEF StartServer, Down
<1>2. target \in Nat
  BY DEF StartServer, DataInv, ArchivesUsable
<1>3. restoring'.pc = "off" /\ DOMAIN restoring' = {"pc", "from", "left", "before"}
  BY DEF StartServer, NotRestoring
<1>4. ServerSound'
  BY <1>1, <1>2, <1>3 DEF ServerSound, ServerFields
<1>5. ~Fresh'
  BY <1>1 DEF Fresh
<1> QED  BY <1>3, <1>4, <1>5, ServerStays DEF StartServer

LEMMA KillServerKeeps == ASSUME DataInv, KillServer PROVE DataInv'
<1>1. server' = [pc |-> "off", target |-> 0, opened |-> 0, created |-> FALSE, key |-> 0]
  BY DEF KillServer, Down
<1>2. restoring'.pc = "off" /\ DOMAIN restoring' = {"pc", "from", "left", "before"}
  BY DEF KillServer, DataInv, ServerSound, RestoreSound
<1>3. ServerSound'
  BY <1>1, <1>2 DEF ServerSound, ServerFields
<1>4. ~Fresh'
  BY <1>1 DEF Fresh
<1> QED  BY <1>2, <1>3, <1>4, ServerStays DEF KillServer

LEMMA DatabaseOpenKeeps == ASSUME DataInv, DatabaseOpen PROVE DataInv'
<1>1. /\ server'.pc = "migrate" /\ server'.target = server.target /\ server'.opened = 0 /\ server'.created = FALSE
      /\ server'.key = server.key /\ DOMAIN server' = ServerFields
  BY DEF DatabaseOpen, ServerAt, DataInv, ServerSound, ServerFields
<1>2. restoring'.pc = "off" /\ DOMAIN restoring' = {"pc", "from", "left", "before"}
  BY DEF DatabaseOpen, DataInv, ServerSound, RestoreSound
<1>3. server.pc = "db" /\ server.opened # 0 /\ dataDir' = dataDir
  BY DEF DatabaseOpen
<1>4. ServerSound'
  BY <1>1, <1>2, <1>3 DEF DataInv, ServerSound, There, KeyNow
<1>5. ~Fresh'
  BY <1>1 DEF Fresh
<1> QED  BY <1>2, <1>4, <1>5, ServerStays DEF DatabaseOpen

(* A step of the server that changes the files, and what of them the others look at. *)
LEMMA ServerWrites ==
    ASSUME DataInv, server.pc # "off", DirType', DirSound', ServerSound', serial' \in {serial, serial + 1},
           UNCHANGED <<mixed, copying, archive, restoring>>, affair' = affair \/ Spends("writes"),
           There("db") /\ ~mixed => Healthy(Readable)',
           "db" \in DOMAIN copying.held /\ SameFile("db")' =>
             SameFile("db") /\ (~mixed => Later(Readable', Readable)),
           "encryption" \in DOMAIN copying.held /\ SameFile("encryption")' => SameFile("encryption") /\ (~Fresh => ~Fresh' /\ KeyNow' = KeyNow)
    PROVE  DataInv'
<1>1. There("db") /\ ~mixed => Healthy(Readable)
  BY DEF DataInv, DirSound
<1>5. SameFile("db") => There("db")
  BY DEF SameFile
<1>2. CopyType' /\ CopySound'
  BY <1>1, <1>5, CopyStays DEF DataInv, DirType
<1>3. ArchivesUsable'
  BY ArchivesStay DEF DataInv, DirType
<1>4. RestoreSound'
  BY RestoreOff DEF DataInv, ServerSound, RestoreSound
<1> QED  BY <1>2, <1>3, <1>4 DEF DataInv

LEMMA OpenKeyFileKeeps == ASSUME DataInv, NEW n \in KeyFiles, OpenKeyFile(n) PROVE DataInv'
<1>0. /\ server.pc = n /\ server.opened = 0 /\ UNCHANGED <<copying, archive, restoring, mixed, affair>>
      /\ DirType /\ DirSound /\ ServerSound /\ CopyType /\ n \in FileNames
  BY Names DEF OpenKeyFile, OpenOrCreate, DataInv
<1>1. CASE There(n)
  <2>1. server' = [server EXCEPT !.opened = dataDir[n].ino] /\ UNCHANGED <<dataDir, serial>>
    BY <1>1 DEF OpenKeyFile, OpenOrCreate
  <2>2. /\ server'.pc = n /\ server'.target = server.target /\ server'.created = server.created
        /\ server'.key = server.key /\ DOMAIN server' = ServerFields
    BY <1>0, <2>1 DEF ServerSound, ServerFields
  <2>3. Fresh' => Fresh
    BY <1>0, <2>2 DEF Fresh
  <2>4. ServerSound'
    <3>1. Readable' = Readable /\ KeyNow' = KeyNow /\ \A m : There(m)' = There(m)
      BY <2>1 DEF Readable, ReadableIn, KeyNow, There
    <3> QED  BY <1>0, <1>1, <2>2, <3>1, Names DEF ServerSound
  <2> QED
    <3>1. restoring'.pc = "off" /\ DOMAIN restoring' = {"pc", "from", "left", "before"}
      BY <1>0, Names DEF ServerSound, DataInv, RestoreSound
    <3> QED  BY <1>0, <2>1, <2>3, <2>4, <3>1, ServerStays
<1>2. CASE ~There(n)
  <2>1. /\ dataDir' = [dataDir EXCEPT ![n] = File(serial, 0)] /\ serial' = serial + 1
        /\ server' = [server EXCEPT !.opened = serial, !.created = TRUE]
    BY <1>2 DEF OpenKeyFile, OpenOrCreate
  <2>2. /\ server'.pc = n /\ server'.target = server.target /\ server'.created = TRUE
        /\ server'.key = server.key /\ DOMAIN server' = ServerFields
    BY <1>0, <2>1 DEF ServerSound, ServerFields
  <2>3. /\ DirType' /\ dataDir'[n].ino = serial /\ \A m \in FileNames \ {n} : dataDir'[m] = dataDir[m]
    <3>1. mixed' \in BOOLEAN
      BY <1>0 DEF DirType
    <3>2. DirType /\ n \in FileNames
      BY <1>0
    <3>3. Makes(n, 0)
      BY <2>1 DEF Makes
    <3>4. /\ DirType' /\ dataDir'[n].ino = serial /\ dataDir'[n].holds = 0
          /\ \A m \in FileNames \ {n} : dataDir'[m] = dataDir[m]
      BY <3>1, <3>2, <3>3, FileMade
    <3> QED  BY <3>4
  <2>4. serial \in Nat /\ serial # 0
    BY <1>0 DEF DirType
  <2>5. There(n)' /\ \A m \in FileNames \ {n} : There(m)' = There(m)
    BY <2>3, <2>4 DEF There
  <2>6. Readable' = Readable
    BY <1>0, <2>3, Names DEF Readable, ReadableIn
  <2>7. n # "encryption" => KeyNow' = KeyNow /\ ~Fresh'
    BY <2>2, <2>3, Names DEF KeyNow, Fresh
  <2>8. DirSound'
    <3> SUFFICES ASSUME ~mixed PROVE DirSound'
      BY <1>0 DEF DirSound
    <3>1. /\ dataDir'["wal"].ino \in {0, dataDir'["db"].ino} /\ (There("db")' = There("db"))
      BY <1>0, <2>3, <2>5, Names DEF DirSound
    <3>2. There("db") => n # "encryption"
      BY <1>0, <1>2 DEF DirSound
    <3>3. There("db") => There("encryption")' /\ ~Fresh' /\ Healthy(Readable)' /\ Readable'.keys \subseteq {KeyNow'}
      BY <1>0, <2>1, <2>4, <2>5, <2>6, <2>7, <3>2, Names DEF DirSound, Healthy, HealthyAt
    <3> QED  BY <3>1, <3>3 DEF DirSound
  <2>9. ServerSound'
    BY <1>0, <2>2, <2>5, <2>6, <2>7, Names DEF ServerSound
  <2>10. "encryption" \in DOMAIN copying.held /\ SameFile("encryption")' => SameFile("encryption") /\ (~Fresh => ~Fresh' /\ KeyNow' = KeyNow)
    <3>1. CASE n = "encryption"
      <4>1. "encryption" \in DOMAIN copying.held => copying.held["encryption"].ino # serial
        BY <1>0, <2>4 DEF CopyType
      <4> QED  BY <1>0, <2>3, <3>1, <4>1 DEF SameFile
    <3>2. CASE n # "encryption"
      BY <1>0, <2>3, <2>7, <3>2, Names DEF SameFile, There
    <3> QED  BY <3>1, <3>2
  <2>11. SameFile("db")' => SameFile("db") /\ (~mixed => Later(Readable', Readable))
    <3>1. SameFile("db")' => SameFile("db") /\ There("db")
      BY <1>0, <2>3, Names DEF SameFile, There
    <3>2. There("db") /\ ~mixed => Later(Readable, Readable)
      BY <1>0 DEF DirSound, Healthy, HealthyAt, Later
    <3> QED  BY <2>6, <3>1, <3>2
  <2>12. There("db") /\ ~mixed => Healthy(Readable)'
    BY <1>0, <2>1, <2>4, <2>6 DEF DirSound, Healthy, HealthyAt
  <2>13. server.pc # "off"
    BY <1>0, Names
  <2> QED  BY <1>0, <2>1, <2>3, <2>8, <2>9, <2>10, <2>11, <2>12, <2>13, ServerWrites
<1> QED  BY <1>1, <1>2

LEMMA LoadEnds == ASSUME ServerSound, NEW n \in KeyFiles, LoadKeyFile(n) PROVE ~Fresh'
<1>1. CASE StartEnds(n)
  <2>1. server'.pc = "off"
    BY <1>1 DEF LoadKeyFile, Down
  <2> QED  BY <2>1 DEF Fresh
<1>2. CASE ~StartEnds(n)
  <2>1. server'.created = FALSE
    BY <1>2 DEF LoadKeyFile, ServerSound, ServerFields
  <2> QED  BY <2>1 DEF Fresh
<1> QED  BY <1>1, <1>2

LEMMA LoadKeyFileKeeps == ASSUME DataInv, NEW n \in KeyFiles, LoadKeyFile(n) PROVE DataInv'
<1>0. /\ server.pc = n /\ server.opened # 0 /\ UNCHANGED <<copying, archive, restoring, mixed, affair>>
      /\ DirType /\ DirSound /\ ServerSound /\ CopyType /\ n \in FileNames /\ n \in KeyFiles
      /\ n \in {"encryption", "authority", "account"} /\ server.created \in BOOLEAN
      /\ serial \in Nat /\ serial > 9 /\ mixed' \in BOOLEAN
  BY Names DEF LoadKeyFile, DataInv, DirType, ServerSound
<1>1. restoring'.pc = "off" /\ DOMAIN restoring' = {"pc", "from", "left", "before"}
  BY <1>0, Names DEF ServerSound, DataInv, RestoreSound
<1>2. Says(n, KeyOf(n)) /\ dataDir' = [dataDir EXCEPT ![n].holds = KeyOf(n)] /\ serial' \in {serial, serial + 1}
  BY DEF LoadKeyFile, Says
<1>3. /\ DirType' /\ dataDir'[n].ino = dataDir[n].ino /\ dataDir'[n].holds = KeyOf(n)
      /\ \A m \in FileNames \ {n} : dataDir'[m] = dataDir[m]
  BY <1>0, <1>2, FileSays
<1>4. \A m \in FileNames : There(m)' = There(m) /\ dataDir'[m].ino = dataDir[m].ino
  BY <1>3 DEF There
<1>5. Readable' = Readable
  BY <1>0, <1>3, Names DEF Readable, ReadableIn
<1>6. KeyNow' = IF n = "encryption" THEN KeyOf(n) ELSE KeyNow
  BY <1>0, <1>3, Names DEF KeyNow
<1>7. (~server.created => KeyOf(n) = dataDir[n].holds) /\ ~Fresh' /\ (server.created /\ n = "encryption" <=> Fresh)
  BY <1>0, LoadEnds DEF KeyOf, Fresh
<1>8. ~Fresh => KeyNow' = KeyNow
  BY <1>0, <1>6, <1>7 DEF KeyNow
<1>9. ServerSound'
  <2>1. CASE StartEnds(n)
    <3>1. server' = [pc |-> "off", target |-> 0, opened |-> 0, created |-> FALSE, key |-> 0]
      BY <2>1 DEF LoadKeyFile, Down
    <3> QED  BY <1>1, <3>1 DEF ServerSound, ServerFields
  <2>2. CASE ~StartEnds(n)
    <3>1. /\ server'.pc = After[n] /\ server'.opened = 0 /\ server'.created = FALSE
          /\ server'.target = server.target /\ DOMAIN server' = ServerFields
          /\ server'.key = IF n = "encryption" THEN KeyOf(n) ELSE server.key
      BY <1>0, <2>2 DEF LoadKeyFile, ServerSound, ServerFields
    <3>2. After[n] \in {"authority", "db", "up"} /\ (After[n] = "up" <=> n = "account")
      BY <1>0, AfterKeys
    <3>3. There("encryption")' /\ server'.key = KeyNow'
      BY <1>0, <1>4, <1>6, <3>1, Names DEF ServerSound
    <3>4. n = "account" => There("db")' /\ (~mixed' => Readable'.ver >= server'.target)
      BY <1>0, <1>4, <1>5, <3>1, Names DEF ServerSound
    <3> QED  BY <1>0, <1>1, <3>1, <3>2, <3>3, <3>4 DEF ServerSound
  <2> QED  BY <2>1, <2>2
<1>10. There("db") /\ ~mixed => /\ Healthy(Readable) /\ Healthy(Readable)' /\ Later(Readable', Readable)
                                /\ Readable'.keys \subseteq {KeyNow'} /\ There("encryption")' /\ ~Fresh
  BY <1>0, <1>2, <1>4, <1>5, <1>8, Names DEF DirSound, Healthy, HealthyAt, Later
<1>11. DirSound'
  <2>1. ~mixed => dataDir'["wal"].ino \in {0, dataDir'["db"].ino}
    BY <1>0, <1>4, Names DEF DirSound
  <2> QED  BY <1>0, <1>4, <1>7, <1>10, <2>1, Names DEF DirSound
<1>12. SameFile("db")' => SameFile("db") /\ There("db")
  BY <1>0, <1>4, Names DEF SameFile
<1>13. SameFile("encryption")' => SameFile("encryption")
  BY <1>0, <1>4, Names DEF SameFile
<1>14. server.pc # "off"
  BY <1>0
<1> QED  BY <1>0, <1>2, <1>3, <1>7, <1>8, <1>9, <1>10, <1>11, <1>12, <1>13, <1>14, ServerWrites

LEMMA OpenDatabaseKeeps == ASSUME DataInv, OpenDatabase PROVE DataInv'
<1>0. /\ server.pc = "db" /\ server.opened = 0 /\ UNCHANGED <<copying, archive, restoring, mixed, affair>>
      /\ DirType /\ DirSound /\ ServerSound /\ CopyType /\ "db" \in FileNames /\ mixed' \in BOOLEAN
      /\ serial \in Nat /\ serial > 9
  BY Names DEF OpenDatabase, OpenOrCreate, DataInv, DirType
<1>1. restoring'.pc = "off" /\ DOMAIN restoring' = {"pc", "from", "left", "before"}
  BY <1>0 DEF ServerSound, DataInv, RestoreSound
<1>2. CASE There("db")
  <2>1. server' = [server EXCEPT !.opened = dataDir["db"].ino] /\ UNCHANGED <<dataDir, serial>>
    BY <1>2 DEF OpenDatabase, OpenOrCreate
  <2>2. /\ server'.pc = "db" /\ server'.target = server.target /\ server'.created = server.created
        /\ server'.key = server.key /\ DOMAIN server' = ServerFields
    BY <1>0, <2>1 DEF ServerSound, ServerFields
  <2>3. Readable' = Readable /\ KeyNow' = KeyNow /\ \A m : There(m)' = There(m)
    BY <2>1 DEF Readable, ReadableIn, KeyNow, There
  <2>4. ~Fresh' /\ ServerSound'
    BY <1>0, <1>1, <1>2, <2>2, <2>3 DEF ServerSound, Fresh
  <2> QED  BY <1>0, <1>1, <2>1, <2>4, ServerStays
<1>3. CASE ~There("db")
  <2>1. /\ dataDir' = [dataDir EXCEPT !["db"] = File(serial, EmptyDb)] /\ serial' = serial + 1
        /\ server' = [server EXCEPT !.opened = serial, !.created = TRUE]
    BY <1>3 DEF OpenDatabase, OpenOrCreate
  <2>2. /\ server'.pc = "db" /\ server'.target = server.target /\ server'.created = TRUE
        /\ server'.key = server.key /\ DOMAIN server' = ServerFields
    BY <1>0, <2>1 DEF ServerSound, ServerFields
  <2>3. /\ DirType' /\ dataDir'["db"].ino = serial /\ dataDir'["db"].holds = EmptyDb
        /\ \A m \in FileNames \ {"db"} : dataDir'[m] = dataDir[m]
    <3>1. Makes("db", EmptyDb)
      BY <2>1 DEF Makes
    <3> QED  BY <1>0, <3>1, FileMade
  <2>4. There("db")' /\ KeyNow' = KeyNow /\ There("encryption")' = There("encryption") /\ There("encryption")
    BY <1>0, <2>3, Names DEF There, KeyNow, ServerSound
  <2>5. ~Fresh' /\ ~Fresh
    BY <1>0, <2>2 DEF Fresh
  <2>6. ServerSound'
    BY <1>0, <1>1, <2>2, <2>4 DEF ServerSound
  <2>7. ~mixed => dataDir'["wal"].ino = 0 /\ Readable' = EmptyDb
    BY <1>0, <1>3, <2>3, Names DEF DirSound, There, Readable, ReadableIn
  <2>8. /\ EmptyDb = [keys |-> {}, ver |-> 0, data |-> 0] /\ EmptyDb.keys = {} /\ EmptyDb.ver = 0 /\ EmptyDb.data = 0
        /\ DOMAIN EmptyDb = {"keys", "ver", "data"}
    BY DEF EmptyDb, DbState
  <2>9. DirSound'
    BY <1>0, <2>1, <2>4, <2>5, <2>7, <2>8 DEF DirSound, Healthy, HealthyAt
  <2>10. "db" \in DOMAIN copying.held => ~SameFile("db")'
    BY <1>0, <2>3 DEF SameFile, CopyType
  <2>11. SameFile("encryption")' => SameFile("encryption")
    BY <1>0, <2>3, Names DEF SameFile, There
  <2>12. server.pc # "off"
    BY <1>0
  <2> QED  BY <1>0, <1>3, <2>1, <2>3, <2>4, <2>5, <2>6, <2>9, <2>10, <2>11, <2>12, ServerWrites
<1> QED  BY <1>2, <1>3

(* What a commit to the log does, where nothing was mixed up: a healthy state stays one. *)
LEMMA CommittedKeeps ==
    ASSUME DataInv, server.pc \in {"migrate", "up"}, NEW h, Logs(h), UNCHANGED <<mixed, copying, archive, restoring>>, affair' = affair \/ Spends("writes"),
           DOMAIN server' = ServerFields, server'.target = server.target, server'.created \in BOOLEAN,
           server'.key = server.key, server'.pc \in {"account", "up"}, server.pc = "up" => server'.pc = "up",
           ~mixed => HealthyAt(h, serial') /\ Later(h, Readable) /\ h.keys \subseteq {KeyNow} /\ h.ver >= server.target
    PROVE  DataInv'
<1>0. /\ DirType /\ DirSound /\ ServerSound /\ CopyType /\ "db" \in FileNames /\ mixed' \in BOOLEAN
      /\ server.pc # "off" /\ There("db") /\ There("encryption") /\ restoring.pc = "off"
      /\ server.key = KeyNow /\ server.target \in Nat
  BY Names DEF DataInv, DirType, ServerSound
<1>1. /\ DirType' /\ dataDir'["wal"].ino = dataDir["db"].ino /\ dataDir'["wal"].holds = h
      /\ \A m \in FileNames \ {"wal"} : dataDir'[m] = dataDir[m]
  BY <1>0, LogWritten
<1>2. There("db")' /\ KeyNow' = KeyNow /\ There("encryption")' /\ dataDir'["db"].ino = dataDir["db"].ino
  BY <1>0, <1>1, Names DEF There, KeyNow
<1>3. Readable' = h
  BY <1>0, <1>1, <1>2 DEF There, Readable, ReadableIn
<1>4. ~Fresh' /\ ~Fresh
  BY <1>0 DEF Fresh
<1>9. ~mixed => Healthy(Readable)' /\ Readable'.keys \subseteq {KeyNow}
  <2>1. Healthy(Readable)' <=> HealthyAt(Readable', serial')
    BY DEF Healthy, HealthyAt
  <2> QED  BY <1>3, <2>1
<1>5. DirSound'
  <2>1. ~mixed => Healthy(Readable)' /\ Readable'.keys \subseteq {KeyNow'}
    BY <1>2, <1>9
  <2> QED  BY <1>0, <1>1, <1>2, <1>4, <2>1 DEF DirSound
<1>6. ServerSound'
  BY <1>0, <1>2, <1>3 DEF ServerSound
<1>7. SameFile("db")' => SameFile("db")
  BY <1>0, <1>2 DEF SameFile
<1>8. SameFile("encryption")' => SameFile("encryption")
  BY <1>1, Names DEF SameFile, There
<1>10. serial' \in {serial, serial + 1} /\ (~mixed => Later(Readable', Readable))
  BY <1>3 DEF Logs
<1> QED  BY <1>0, <1>1, <1>2, <1>4, <1>5, <1>6, <1>7, <1>8, <1>9, <1>10, ServerWrites

LEMMA MigrateKeeps == ASSUME DataInv, Migrate PROVE DataInv'
<1>0. /\ server.pc = "migrate" /\ UNCHANGED <<copying, archive, restoring, mixed, serial, affair>>
      /\ DirType /\ DirSound /\ ServerSound /\ There("db") /\ restoring.pc = "off" /\ server.target \in Nat
  BY DEF Migrate, DataInv, ServerSound
<1>1. /\ server'.pc = "account" /\ server'.target = server.target /\ server'.opened = 0 /\ server'.created = FALSE
      /\ server'.key = server.key /\ DOMAIN server' = ServerFields
  BY <1>0 DEF Migrate, ServerAt, ServerSound, ServerFields
<1>2. ~mixed => Healthy(Readable) /\ Readable.keys \subseteq {KeyNow}
  BY <1>0 DEF DirSound
<1>3. CASE Readable.ver < server.target
  <2> DEFINE h == [Readable EXCEPT !.ver = server.target]
  <2>1. Logs(h)
    BY <1>3 DEF Migrate, Committed, Logs
  <2>2. ~mixed => /\ h.ver = server.target /\ h.data = Readable.data /\ h.keys = Readable.keys
                  /\ DOMAIN h = {"keys", "ver", "data"}
    BY <1>2 DEF Healthy, HealthyAt
  <2> HIDE DEF h
  <2>3. ~mixed => HealthyAt(h, serial') /\ Later(h, Readable) /\ h.keys \subseteq {KeyNow} /\ h.ver >= server.target
    BY <1>0, <1>2, <1>3, <2>2 DEF Healthy, HealthyAt, Later
  <2> QED  BY <1>0, <1>1, <2>1, <2>3, CommittedKeeps
<1>4. CASE ~(Readable.ver < server.target)
  <2>1. dataDir' = dataDir
    BY <1>4 DEF Migrate
  <2>2. Readable' = Readable /\ KeyNow' = KeyNow /\ \A m : There(m)' = There(m)
    BY <2>1 DEF Readable, ReadableIn, KeyNow, There
  <2>3. ~mixed => Readable.ver >= server.target
    BY <1>0, <1>2, <1>4 DEF Healthy, HealthyAt
  <2>4. ~Fresh' /\ ServerSound'
    BY <1>0, <1>1, <2>2, <2>3 DEF ServerSound, Fresh
  <2>5. restoring'.pc = "off" /\ DOMAIN restoring' = {"pc", "from", "left", "before"}
    BY <1>0 DEF DataInv, RestoreSound
  <2> QED  BY <1>0, <2>1, <2>4, <2>5, ServerStays
<1> QED  BY <1>3, <1>4

LEMMA StoreRowKeeps == ASSUME DataInv, NEW secret \in BOOLEAN, StoreRow(secret) PROVE DataInv'
<1> DEFINE keys == IF secret THEN Readable.keys \cup {server.key} ELSE Readable.keys
           h == [Readable EXCEPT !.data = serial, !.keys = keys]
<1>0. /\ server.pc = "up" /\ UNCHANGED <<server, copying, archive, restoring, mixed>> /\ Spends("writes")
      /\ DirType /\ DirSound /\ ServerSound /\ There("db") /\ server.target \in Nat /\ server.key = KeyNow
      /\ DOMAIN server = ServerFields /\ server.created \in BOOLEAN /\ serial' = serial + 1 /\ serial \in Nat
      /\ (~mixed => Readable.ver >= server.target)
  BY DEF StoreRow, DataInv, ServerSound, DirType
<1>1. Logs(h)
  BY DEF StoreRow, Committed, Logs
<1>2. ~mixed => Healthy(Readable) /\ Readable.keys \subseteq {KeyNow}
  BY <1>0 DEF DirSound
<1>3. ~mixed => /\ h.ver = Readable.ver /\ h.data = serial /\ h.keys = keys /\ DOMAIN h = {"keys", "ver", "data"}
  BY <1>2 DEF Healthy, HealthyAt
<1>4. ~mixed => keys \subseteq {KeyNow}
  BY <1>0, <1>2
<1> HIDE DEF h, keys
<1>5. ~mixed => HealthyAt(h, serial') /\ Later(h, Readable) /\ h.keys \subseteq {KeyNow} /\ h.ver >= server.target
  BY <1>0, <1>2, <1>3, <1>4 DEF Healthy, HealthyAt, Later
<1> QED  BY <1>0, <1>1, <1>5, CommittedKeeps

LEMMA CheckpointKeeps == ASSUME DataInv, Checkpoint PROVE DataInv'
<1>0. /\ server.pc = "up" /\ There("wal") /\ Readable # Torn /\ UNCHANGED <<server, copying, archive, restoring, mixed, serial, affair>>
      /\ dataDir' = [dataDir EXCEPT !["db"].holds = Readable]
      /\ DirType /\ DirSound /\ ServerSound /\ There("db") /\ mixed' \in BOOLEAN /\ "db" \in FileNames
  BY Names DEF Checkpoint, DataInv, ServerSound, DirType
<1>1. /\ DirType' /\ dataDir'["db"].ino = dataDir["db"].ino /\ dataDir'["db"].holds = Readable
      /\ \A m \in FileNames \ {"db"} : dataDir'[m] = dataDir[m]
  <2>1. Says("db", Readable)
    BY <1>0 DEF Says
  <2> QED  BY <1>0, <2>1, FileSays
<1>2. dataDir["wal"].ino = dataDir["db"].ino
  BY <1>0 DEF Readable, ReadableIn, There
<1>3. Readable' = Readable
  BY <1>0, <1>1, <1>2, Names DEF Readable, ReadableIn, There
<1>4. KeyNow' = KeyNow /\ \A m \in FileNames : There(m)' = There(m) /\ dataDir'[m].ino = dataDir[m].ino
  BY <1>1, Names DEF KeyNow, There
<1>5. ~Fresh' /\ ~Fresh
  BY <1>0 DEF Fresh
<1>6. DirSound'
  BY <1>0, <1>3, <1>4, <1>5, Names DEF DirSound, Healthy, HealthyAt
<1>7. ServerSound'
  BY <1>0, <1>3, <1>4, Names DEF ServerSound
<1>8. SameFile("db")' => SameFile("db") /\ There("db")
  BY <1>0, <1>4, Names DEF SameFile
<1>9. SameFile("encryption")' => SameFile("encryption")
  BY <1>0, <1>4, Names DEF SameFile
<1>10. ~mixed => Healthy(Readable) /\ Healthy(Readable)' /\ Later(Readable', Readable)
  BY <1>0, <1>3 DEF DirSound, Healthy, HealthyAt, Later
<1>11. server.pc # "off"
  BY <1>0
<1> QED  BY <1>0, <1>1, <1>4, <1>5, <1>6, <1>7, <1>8, <1>9, <1>10, <1>11, ServerWrites

LEMMA StopServerKeeps == ASSUME DataInv, StopServer PROVE DataInv'
<1>0. /\ server.pc = "up" /\ UNCHANGED <<copying, archive, restoring, mixed, serial, affair>>
      /\ dataDir' = [dataDir EXCEPT !["db"].holds = Readable, !["wal"] = Missing]
      /\ DirType /\ DirSound /\ ServerSound /\ There("db") /\ mixed' \in BOOLEAN /\ restoring.pc = "off"
  BY Names DEF StopServer, DataInv, ServerSound, DirType
<1>1. /\ DirType' /\ dataDir'["wal"].ino = 0 /\ dataDir'["db"].ino = dataDir["db"].ino
      /\ dataDir'["db"].holds = Readable /\ Readable' = Readable
      /\ \A m \in KeyFiles : dataDir'[m] = dataDir[m]
  BY <1>0, LogPlayed
<1>2. server' = [pc |-> "off", target |-> 0, opened |-> 0, created |-> FALSE, key |-> 0]
  BY DEF StopServer, Down
<1>3. KeyNow' = KeyNow /\ There("db")' = There("db") /\ There("encryption")' = There("encryption")
  BY <1>1, Names DEF KeyNow, There
<1>5. ~Fresh' /\ ~Fresh
  BY <1>0, <1>2 DEF Fresh
<1>6. DirSound'
  BY <1>0, <1>1, <1>3, <1>5 DEF DirSound, Healthy, HealthyAt
<1>7. ServerSound'
  BY <1>0, <1>2 DEF ServerSound, ServerFields
<1>8. SameFile("db")' => SameFile("db") /\ There("db")
  BY <1>0, <1>1, <1>3 DEF SameFile
<1>9. SameFile("encryption")' => SameFile("encryption")
  BY <1>0, <1>1, <1>3, Names DEF SameFile
<1>10. ~mixed => Healthy(Readable) /\ Healthy(Readable)' /\ Later(Readable', Readable)
  BY <1>0, <1>1 DEF DirSound, Healthy, HealthyAt, Later
<1>11. server.pc # "off"
  BY <1>0
<1> QED  BY <1>0, <1>1, <1>3, <1>5, <1>6, <1>7, <1>8, <1>9, <1>10, <1>11, ServerWrites

(* A step of the backup alone.                                                  *)
LEMMA CopyMoves ==
    ASSUME DataInv, UNCHANGED <<dataDir, server, restoring, mixed, serial>>, CopyType', CopySound', ArchivesUsable'
    PROVE  DataInv'
<1>1. Fresh' = Fresh
  BY DEF Fresh
<1>2. /\ DirType' /\ DirSound' /\ Readable' = Readable /\ KeyNow' = KeyNow
      /\ \A n : There(n)' = There(n)
  BY <1>1, DirStays DEF DataInv
<1>3. ServerSound'
  BY <1>2 DEF DataInv, ServerSound
<1>4. RestoreSound'
  <2>1. \A a : Usable(a) => Usable(a)'
    BY DEF Usable, Healthy, HealthyAt
  <2>2. Told(dataDir)' = Told(dataDir) /\ Told(restoring.before)' = Told(restoring.before)
    BY DEF Told, ReadableIn
  <2>3. DbPut => DbPut'
    BY <1>2 DEF DbPut
  <2>4. KeysPut => KeysPut'
    BY DEF KeysPut, Put
  <2> QED  BY <1>2, <2>1, <2>2, <2>3, <2>4 DEF DataInv, RestoreSound
<1> QED  BY <1>2, <1>3, <1>4 DEF DataInv

LEMMA NoCopy ==
    ASSUME copying' = NotCopying
    PROVE  CopyType' /\ CopySound'
<1>1. /\ copying'.pc = "off" /\ copying'.held = <<>> /\ copying'.doubtful = FALSE
      /\ DOMAIN copying' = {"pc", "held", "was", "shot", "doubtful"}
  BY DEF NotCopying
<1>2. DOMAIN copying'.held = {}
  BY <1>1
<1> QED  BY <1>1, <1>2 DEF CopyType, CopySound

LEMMA BeginBackupKeeps == ASSUME DataInv, BeginBackup PROVE DataInv'
<1>1. /\ copying'.pc = "db" /\ copying'.held = <<>> /\ copying'.doubtful = FALSE
      /\ DOMAIN copying' = {"pc", "held", "was", "shot", "doubtful"}
  BY DEF BeginBackup, NotCopying
<1>2. DOMAIN copying'.held = {}
  BY <1>1
<1>3. CopyType' /\ CopySound'
  BY <1>1, <1>2 DEF CopyType, CopySound
<1>4. ArchivesUsable'
  BY ArchivesStay DEF DataInv, DirType, BeginBackup
<1> QED  BY <1>3, <1>4, CopyMoves DEF BeginBackup

LEMMA EndBackupKeeps == ASSUME DataInv, EndBackup PROVE DataInv'
<1>1. ArchivesUsable'
  BY ArchivesStay DEF DataInv, DirType, EndBackup
<1> QED  BY <1>1, NoCopy, CopyMoves DEF EndBackup

LEMMA HoldKeeps == ASSUME DataInv, NEW n, Hold(n) PROVE DataInv'
<1>0. /\ DirType /\ DirSound /\ CopyType /\ CopySound /\ copying.pc = n
      /\ UNCHANGED <<dataDir, server, archive, restoring, mixed, serial, affair>> /\ mixed \in BOOLEAN
  BY DEF Hold, DataInv, DirType
<1>1. n \in {"db", "encryption", "account"} /\ n \in FileNames
  BY Names DEF Hold, NextHeld, FileNames
<1>2. ArchivesUsable'
  BY <1>0, ArchivesStay DEF DataInv, DirType
<1>3. CASE n = "db" /\ ~There(n)
  BY <1>0, <1>2, <1>3, NoCopy, CopyMoves DEF Hold
<1>4. CASE ~(n = "db" /\ ~There(n))
  <2> DEFINE held == IF There(n) THEN HeldToo(n) ELSE copying.held
  <2>1. /\ copying'.pc = NextHeld[n] /\ copying'.held = held /\ copying'.shot = copying.shot
        /\ copying'.was = (IF n = "db" THEN Readable ELSE copying.was)
        /\ copying'.doubtful = (IF n = "db" THEN mixed ELSE copying.doubtful)
        /\ DOMAIN copying' = {"pc", "held", "was", "shot", "doubtful"}
    BY <1>0, <1>4 DEF Hold, CopyType
  <2>2. /\ NextHeld["db"] = "encryption" /\ NextHeld["encryption"] = "account" /\ NextHeld["account"] = "snapshot"
    BY DEF NextHeld
  <2>3. There(n) => /\ n \in DOMAIN held /\ held[n] = dataDir[n] /\ DOMAIN copying.held \subseteq DOMAIN held
                    /\ \A m \in DOMAIN held : m # n => m \in DOMAIN copying.held /\ held[m] = copying.held[m]
                    /\ \A m \in DOMAIN copying.held : m # n => held[m] = copying.held[m]
    BY DEF HeldToo
  <2>4. ~There(n) => held = copying.held
    OBVIOUS
  <2> HIDE DEF held
  <2>5. \A m \in DOMAIN held : held[m].ino \in Nat /\ held[m].ino < serial /\ m \in FileNames
    BY <1>0, <1>1, <2>3, <2>4 DEF CopyType, DirType
  <2>6. "db" \in DOMAIN held
    BY <1>0, <1>1, <1>4, <2>3, <2>4 DEF CopyType
  <2>7. CopyType'
    BY <1>0, <1>1, <2>1, <2>2, <2>5, <2>6 DEF CopyType
  <2>8. CopySound'
    <3>1. Readable' = Readable /\ KeyNow' = KeyNow /\ Fresh' = Fresh /\ \A m : There(m)' = There(m)
      BY <1>0 DEF Readable, ReadableIn, KeyNow, Fresh, There
    <3>2. CASE n = "db"
      <4>1. copying'.pc = "encryption" /\ There("db") /\ copying'.doubtful = mixed /\ copying'.was = Readable
        BY <1>4, <2>1, <2>2, <3>2
      <4>2. ~mixed => Healthy(Readable) /\ Later(Readable, Readable)
        BY <1>0, <4>1 DEF DirSound, Healthy, HealthyAt, Later
      <4>3. ~copying'.doubtful => ~mixed' /\ copying'.was.ver \in Nat /\ copying'.was.data \in Nat /\ Later(Readable', copying'.was)
        BY <1>0, <3>1, <4>1, <4>2 DEF Healthy, HealthyAt
      <4> QED  BY <4>1, <4>3 DEF CopySound, Later
    <3>3. CASE n # "db"
      <4>1. /\ copying.pc \in {"encryption", "account"} /\ copying'.pc \in {"account", "snapshot"}
            /\ copying'.was = copying.was /\ copying'.doubtful = copying.doubtful
            /\ held["db"] = copying.held["db"] /\ "db" \in DOMAIN copying.held
        BY <1>0, <1>1, <2>1, <2>2, <2>3, <2>4, <2>6, <3>3
      <4>2. SUFFICES ASSUME ~copying.doubtful, SameFile("db")'
                     PROVE  /\ ~mixed' /\ copying'.was.ver \in Nat /\ copying'.was.data \in Nat /\ Later(Readable', copying'.was)
                            /\ "encryption" \in DOMAIN held /\ KeyHeld'
        BY <2>1, <4>1 DEF CopySound, Later
      <4>3. SameFile("db") /\ There("db")
        BY <1>0, <2>1, <4>1, <4>2 DEF SameFile, There
      <4>4. ~mixed /\ copying.was.ver \in Nat /\ copying.was.data \in Nat /\ Later(Readable, copying.was)
        BY <4>1, <4>2, <4>3, <1>0 DEF CopySound
      <4>5. There("encryption") /\ ~Fresh
        BY <1>0, <4>3, <4>4 DEF DirSound
      <4>6. CASE n = "encryption"
        <5>1. "encryption" \in DOMAIN held /\ held["encryption"] = dataDir["encryption"]
          BY <2>3, <4>5, <4>6
        <5> QED  BY <1>0, <2>1, <3>1, <4>1, <4>4, <4>5, <5>1 DEF KeyHeld, KeyNow
      <4>7. CASE n = "account"
        <5>1. "encryption" \in DOMAIN copying.held /\ KeyHeld
          BY <1>0, <4>2, <4>3, <4>7 DEF CopySound
        <5>2. "encryption" \in DOMAIN held /\ held["encryption"] = copying.held["encryption"]
          BY <2>3, <2>4, <4>7, <5>1
        <5> QED  BY <1>0, <2>1, <3>1, <4>1, <4>4, <5>1, <5>2 DEF KeyHeld, SameFile
      <4> QED  BY <1>1, <3>3, <4>6, <4>7
    <3> QED  BY <3>2, <3>3
  <2> QED  BY <1>0, <1>2, <2>7, <2>8, CopyMoves
<1> QED  BY <1>3, <1>4

LEMMA SnapshotKeeps == ASSUME DataInv, Snapshot PROVE DataInv'
<1> DEFINE shot == IF SameFile("db") THEN Readable ELSE EmptyDb
<1>0. /\ DirType /\ DirSound /\ CopyType /\ CopySound /\ ServerSound /\ RestoreSound /\ copying.pc = "snapshot"
      /\ UNCHANGED <<server, archive, restoring, mixed, serial, affair>> /\ mixed' \in BOOLEAN /\ serial' = serial
  BY DEF Snapshot, DataInv, DirType
<1>1. ArchivesUsable'
  BY <1>0, ArchivesStay DEF DataInv, DirType
<1>2. /\ copying'.pc = "verify" /\ copying'.shot = shot /\ copying'.held = copying.held /\ copying'.was = copying.was
      /\ copying'.doubtful = copying.doubtful /\ DOMAIN copying' = {"pc", "held", "was", "shot", "doubtful"}
  BY <1>0 DEF Snapshot, CopyType
<1>3. SameFile("db") => shot = Readable
  OBVIOUS
<1> HIDE DEF shot
<1>4. CopyType'
  BY <1>0, <1>2 DEF CopyType
<1>5. Fresh' = Fresh
  BY <1>0 DEF Fresh
<1>6. ASSUME Readable' = Readable, \A m \in FileNames \ {"wal"} : dataDir'[m].ino = dataDir[m].ino,
             \A m \in KeyFiles : dataDir'[m] = dataDir[m], DirType'
      PROVE  CopySound'
  <2>1. KeyNow' = KeyNow /\ (SameFile("db")' => SameFile("db")) /\ (SameFile("encryption")' => SameFile("encryption"))
    BY <1>2, <1>6, Names DEF KeyNow, SameFile, There
  <2>2. SUFFICES ASSUME ~copying.doubtful, SameFile("db")'
                 PROVE  /\ ~mixed' /\ copying.was.ver \in Nat /\ copying.was.data \in Nat /\ Later(Readable, copying.was)
                        /\ "encryption" \in DOMAIN copying.held /\ KeyHeld'
                        /\ SameFile("encryption")' =>
                             /\ HealthyAt(shot, serial') /\ Later(shot, copying.was)
                             /\ shot.keys \subseteq {copying.held["encryption"].holds}
    BY <1>2, <1>6 DEF CopySound, Later, Healthy, HealthyAt
  <2>3. SameFile("db") /\ There("db")
    BY <2>1, <2>2 DEF SameFile
  <2>4. ~mixed /\ copying.was.ver \in Nat /\ copying.was.data \in Nat /\ Later(Readable, copying.was)
        /\ "encryption" \in DOMAIN copying.held /\ KeyHeld
    BY <1>0, <2>2, <2>3 DEF CopySound
  <2>5. Healthy(Readable) /\ Readable.keys \subseteq {KeyNow}
    BY <1>0, <2>3, <2>4 DEF DirSound
  <2>6. KeyHeld'
    BY <1>2, <1>5, <2>1, <2>4 DEF KeyHeld
  <2>7. HealthyAt(shot, serial')
    BY <1>0, <1>3, <2>3, <2>5, <1>6, <1>2 DEF Healthy, HealthyAt
  <2> QED  BY <1>0, <1>3, <2>1, <2>3, <2>4, <2>5, <2>6, <2>7 DEF KeyHeld
<1>7. CASE dataDir' = dataDir
  <2>1. DirType' /\ DirSound' /\ Readable' = Readable
    BY <1>0, <1>5, <1>7, DirStays
  <2>2. CopySound'
    BY <1>6, <1>7, <2>1, Names
  <2> QED  BY <1>0, <1>1, <1>4, <1>7, <2>2, CopyMoves
<1>8. CASE /\ SameFile("db") /\ Readable # Torn /\ server.pc \in {"off", "encryption", "authority", "db"}
           /\ dataDir' = [dataDir EXCEPT !["db"].holds = Readable, !["wal"] = Missing]
  <2>0. dataDir' = [dataDir EXCEPT !["db"].holds = Readable, !["wal"] = Missing]
    BY <1>8
  <2>1. /\ DirType' /\ dataDir'["wal"].ino = 0 /\ dataDir'["db"].ino = dataDir["db"].ino
        /\ dataDir'["db"].holds = Readable /\ Readable' = Readable
        /\ \A m \in KeyFiles : dataDir'[m] = dataDir[m]
    BY <1>0, <2>0, LogPlayed
  <2>2. KeyNow' = KeyNow /\ There("db")' = There("db") /\ There("encryption")' = There("encryption") /\ There("db")
    BY <1>8, <2>1, Names DEF KeyNow, There, SameFile
  <2>3. DirSound'
    BY <1>0, <1>5, <2>1, <2>2 DEF DirSound, Healthy, HealthyAt
  <2>4. CopySound'
    BY <1>6, <2>1, Names
  <2>5. ServerSound'
    BY <1>0, <1>8, <2>1, <2>2 DEF ServerSound
  <2>6. RestoreSound'
    <3>1. \A a : Usable(a) => Usable(a)'
      BY <1>0 DEF Usable, Healthy, HealthyAt
    <3>2. Told(dataDir)' = Told(dataDir) /\ Told(restoring.before)' = Told(restoring.before)
      <4>1. ReadableIn(dataDir)' = ReadableIn(dataDir)
        BY <2>1 DEF Readable
      <4> QED  BY <1>0, <2>1, <4>1 DEF Told, ReadableIn
    <3>3. restoring.pc = "keys" => dataDir["wal"].ino = 0
      BY <1>0 DEF RestoreSound, There
    <3>4. restoring.pc = "sidecars" => dataDir["wal"].ino = 0
      BY <1>0, <1>8 DEF RestoreSound, Readable, ReadableIn
    <3>5. restoring.pc \in {"sidecars", "keys"} /\ DbPut => DbPut'
      BY <1>0, <2>1, <2>2, <3>3, <3>4 DEF DbPut, Readable, ReadableIn
    <3>6. KeysPut => KeysPut'
      BY <1>0, <2>1 DEF KeysPut, Put
    <3>7. dataDir'["wal"].ino # dataDir'["db"].ino /\ ~There("wal")'
      BY <2>1, <2>2 DEF There
    <3>8. restoring.pc = "done" =>
            /\ There("db")' /\ Readable' = restoring'.from.files["db"]
            /\ \A n \in KeyFiles :
                 dataDir'[n].holds = IF n \in DOMAIN restoring'.from.files THEN restoring'.from.files[n]
                                     ELSE restoring'.before[n].holds
      BY <1>0, <2>1, <2>2 DEF RestoreSound
    <3> QED  BY <1>0, <2>2, <3>1, <3>2, <3>5, <3>6, <3>7, <3>8 DEF RestoreSound
  <2> QED  BY <1>1, <1>4, <2>1, <2>3, <2>4, <2>5, <2>6 DEF DataInv
<1> QED  BY <1>7, <1>8 DEF Snapshot

LEMMA VerifyKeeps == ASSUME DataInv, Verify PROVE DataInv'
<1>0. /\ DirType /\ CopyType /\ CopySound /\ copying.pc = "verify"
      /\ UNCHANGED <<dataDir, server, archive, restoring, mixed, serial, affair>>
  BY DEF Verify, DataInv
<1>1. ArchivesUsable'
  BY <1>0, ArchivesStay DEF DataInv, DirType
<1>2. CASE \A n \in DOMAIN copying.held : SameFile(n)
  <2>1. /\ copying'.pc = "write" /\ copying'.shot = copying.shot /\ copying'.held = copying.held /\ copying'.was = copying.was
        /\ copying'.doubtful = copying.doubtful /\ DOMAIN copying' = {"pc", "held", "was", "shot", "doubtful"}
    BY <1>0, <1>2 DEF Verify, CopyType
  <2>2. CopyType'
    BY <1>0, <2>1 DEF CopyType
  <2>3. SameFile("db")
    BY <1>0, <1>2 DEF CopyType
  <2>4. ~copying.doubtful => "encryption" \in DOMAIN copying.held /\ KeyHeld /\ SameFile("encryption")
    BY <1>0, <1>2, <2>3 DEF CopySound
  <2>5. KeyHeld => KeyHeld'
    BY <1>0, <2>1 DEF KeyHeld, SameFile, There, KeyNow, Fresh
  <2>6. ~copying.doubtful => /\ Healthy(copying.shot)' /\ Later(copying.shot, copying.was)
                             /\ copying.shot.keys \subseteq {copying.held["encryption"].holds}
    BY <1>0, <2>1, <2>3, <2>4 DEF CopySound, Healthy, HealthyAt
  <2>7. CopySound'
    BY <2>1, <2>4, <2>5, <2>6 DEF CopySound, Later
  <2> QED  BY <1>0, <1>1, <2>2, <2>7, CopyMoves
<1>3. CASE ~(\A n \in DOMAIN copying.held : SameFile(n))
  BY <1>0, <1>1, <1>3, NoCopy, CopyMoves DEF Verify
<1> QED  BY <1>2, <1>3

LEMMA InstallArchiveKeeps == ASSUME DataInv, InstallArchive PROVE DataInv'
<1> DEFINE held(n) == IF SameFile(n) THEN dataDir[n].holds ELSE copying.held[n].holds
           taken == [n \in DOMAIN copying.held |-> IF n = "db" THEN copying.shot ELSE held(n)]
<1>0. /\ DirType /\ CopyType /\ CopySound /\ ArchivesUsable /\ copying.pc = "write" /\ copying' = NotCopying
      /\ UNCHANGED <<dataDir, server, restoring, mixed, serial, affair>>
  BY DEF InstallArchive, DataInv
<1>1. archive' = [files |-> taken, was |-> copying.was, whole |-> TRUE, doubtful |-> copying.doubtful]
  BY DEF InstallArchive
<1>2. archive'.files = taken /\ archive'.was = copying.was /\ archive'.doubtful = copying.doubtful
  BY <1>1
<1>3. "db" \in DOMAIN copying.held
  BY <1>0 DEF CopyType
<1>4. taken["db"] = copying.shot /\ DOMAIN taken = DOMAIN copying.held
  BY <1>3
<1>5. ~copying.doubtful =>
        /\ "encryption" \in DOMAIN copying.held /\ KeyHeld
        /\ Healthy(copying.shot) /\ Later(copying.shot, copying.was)
        /\ copying.shot.keys \subseteq {copying.held["encryption"].holds}
  BY <1>0 DEF CopySound
<1>6. ~copying.doubtful => taken["encryption"] = copying.held["encryption"].holds
  BY <1>5 DEF KeyHeld, KeyNow
<1> HIDE DEF taken
<1>7. Healthy(copying.shot) => Healthy(archive.files["db"])'
  BY <1>0, <1>2, <1>4 DEF Healthy, HealthyAt
<1>8. Usable(archive)'
  BY <1>0, <1>2, <1>4, <1>5, <1>6, <1>7 DEF Usable, Healthy, HealthyAt
<1>9. ArchivesOpen'
  BY <1>2, <1>4, <1>5, <1>6 DEF ArchivesOpen, Later
<1>10. \A a : Usable(a) => Usable(a)'
  BY <1>0 DEF Usable, Healthy, HealthyAt
<1>11. ArchivesUsable'
  BY <1>0, <1>8, <1>9, <1>10 DEF ArchivesUsable
<1> QED  BY <1>0, <1>11, NoCopy, CopyMoves

-----------------------------------------------------------------------------
(* A step of a restore: the server is down, and the backup may be beside it.     *)
LEMMA RestoreMoves ==
    ASSUME DataInv, server.pc = "off", DirType', DirSound', RestoreSound', serial' \in {serial, serial + 1},
           UNCHANGED <<server, copying, archive>>,
           NEW w \in {"starts", "writes", "kills", "copies", "restores"}, affair' = affair \/ Spends(w),
           "db" \in DOMAIN copying.held /\ SameFile("db")' =>
             SameFile("db") /\ (~mixed => ~mixed' /\ dataDir' = dataDir),
           "encryption" \in DOMAIN copying.held /\ SameFile("encryption")' =>
             SameFile("encryption") /\ KeyNow' = KeyNow
    PROVE  DataInv'
<1>0. DirSound /\ CopyType /\ CopySound /\ ServerSound /\ serial \in Nat /\ ~Fresh /\ ~Fresh'
  BY DEF DataInv, DirType, Fresh
<1>1. "db" \in DOMAIN copying.held /\ SameFile("db")' =>
             SameFile("db") /\ (~mixed => /\ ~mixed' /\ Later(Readable', Readable)
                                          /\ Healthy(Readable) /\ Healthy(Readable)')
  <2> SUFFICES ASSUME "db" \in DOMAIN copying.held, SameFile("db")', SameFile("db"), ~mixed, ~mixed', dataDir' = dataDir
               PROVE  Later(Readable', Readable) /\ Healthy(Readable) /\ Healthy(Readable)'
    OBVIOUS
  <2>1. Readable' = Readable
    BY DEF Readable, ReadableIn
  <2>2. There("db")
    BY DEF SameFile
  <2> QED  BY <1>0, <2>1, <2>2 DEF DirSound, Healthy, HealthyAt, Later
<1>2. CopyType' /\ CopySound'
  BY <1>0, <1>1, CopyStays
<1>3. ArchivesUsable'
  BY <1>0, ArchivesStay DEF DataInv
<1>4. ServerSound'
  BY <1>0 DEF ServerSound
<1> QED  BY <1>2, <1>3, <1>4 DEF DataInv

LEMMA BeginRestoreKeeps ==
    ASSUME DataInv, NEW from \in affair.archives \cup {archive}, NEW force, BeginRestore(from, force)
    PROVE  DataInv'
<1>1. /\ restoring'.pc = "stage" /\ restoring'.from = from /\ restoring'.left = DOMAIN from.files
      /\ restoring'.before = dataDir /\ DOMAIN restoring' = {"pc", "from", "left", "before"}
      /\ UNCHANGED <<dataDir, server, copying, archive, mixed, serial>> /\ server.pc = "off" /\ Spends("restores")
  BY DEF BeginRestore
<1>2. Usable(from)'
  <2>1. Usable(from)
    BY DEF DataInv, ArchivesUsable
  <2> QED  BY <1>1, <2>1 DEF Usable, Healthy, HealthyAt
<1>3. RestoreSound'
  BY <1>1, <1>2 DEF RestoreSound
<1>4. ~Fresh' /\ ~Fresh
  BY <1>1 DEF Fresh
<1>5. DirType' /\ DirSound'
  BY <1>1, <1>4, DirStays DEF DataInv
<1>6. KeyNow' = KeyNow /\ SameFile("db")' = SameFile("db") /\ SameFile("encryption")' = SameFile("encryption")
  BY <1>1 DEF KeyNow, SameFile, There
<1> QED  BY <1>1, <1>3, <1>5, <1>6, RestoreMoves

(* A restore that moves on without a write.                                      *)
LEMMA RestoreTurns ==
    ASSUME DataInv, restoring.pc \in {"stage", "check", "db", "sidecars", "keys"}, RestoreSound',
           UNCHANGED <<dataDir, server, copying, archive, mixed, serial>>, affair' = affair \/ Spends("kills")
    PROVE  DataInv'
<1>1. server.pc = "off"
  BY DEF DataInv, ServerSound
<1>2. ~Fresh' /\ ~Fresh
  BY <1>1 DEF Fresh
<1>3. DirType' /\ DirSound'
  BY <1>2, DirStays DEF DataInv
<1>4. KeyNow' = KeyNow /\ SameFile("db")' = SameFile("db") /\ SameFile("encryption")' = SameFile("encryption")
  BY DEF KeyNow, SameFile, There
<1> QED  BY <1>1, <1>3, <1>4, RestoreMoves

LEMMA StageKeeps == ASSUME DataInv, Stage PROVE DataInv'
<1>1. /\ restoring.pc = "stage" /\ RestoreSound
      /\ UNCHANGED <<dataDir, server, copying, archive, mixed, serial, affair>>
  BY DEF Stage, DataInv
<1>2. /\ restoring'.pc = (IF restoring.from.whole THEN "check" ELSE "failed") /\ restoring'.from = restoring.from
      /\ restoring'.left = restoring.left /\ restoring'.before = restoring.before
      /\ DOMAIN restoring' = {"pc", "from", "left", "before"}
  BY <1>1 DEF Stage, RestoreAt, RestoreSound
<1>3. Usable(restoring.from) => Usable(restoring.from)'
  BY <1>1, <1>2 DEF Usable, Healthy, HealthyAt
<1>4. Told(dataDir)' = Told(dataDir) /\ Told(restoring.before)' = Told(restoring.before)
  BY <1>1, <1>2 DEF Told, ReadableIn
<1>5. RestoreSound'
  BY <1>1, <1>2, <1>3, <1>4 DEF RestoreSound, Usable, Healthy, HealthyAt
<1> QED  BY <1>1, <1>5, RestoreTurns

LEMMA CheckKeyKeeps == ASSUME DataInv, CheckKey PROVE DataInv'
<1>1. /\ restoring.pc = "check" /\ RestoreSound
      /\ UNCHANGED <<dataDir, server, copying, archive, mixed, serial, affair>>
  BY DEF CheckKey, DataInv
<1>2. /\ restoring'.pc = (IF BringsStaleKey THEN "failed" ELSE "db") /\ restoring'.from = restoring.from
      /\ restoring'.left = restoring.left /\ restoring'.before = restoring.before
      /\ DOMAIN restoring' = {"pc", "from", "left", "before"}
  BY <1>1 DEF CheckKey, RestoreAt, RestoreSound
<1>3. Usable(restoring.from) => Usable(restoring.from)'
  BY <1>1, <1>2 DEF Usable, Healthy, HealthyAt
<1>4. Told(dataDir)' = Told(dataDir) /\ Told(restoring.before)' = Told(restoring.before)
  BY <1>1, <1>2 DEF Told, ReadableIn
<1>5. ~BringsStaleKey => "encryption" \in DOMAIN restoring'.from.files \/ ~There("encryption")'
  BY <1>1, <1>2 DEF BringsStaleKey, There
<1>6. RestoreSound'
  BY <1>1, <1>2, <1>3, <1>4, <1>5 DEF RestoreSound, Usable, Healthy, HealthyAt
<1> QED  BY <1>1, <1>6, RestoreTurns

LEMMA CutRestoreKeeps == ASSUME DataInv, CutRestore PROVE DataInv'
<1>1. /\ restoring.pc \notin AtRest /\ RestoreSound /\ Spends("kills")
      /\ UNCHANGED <<dataDir, server, copying, archive, mixed, serial>>
  BY DEF CutRestore, DataInv
<1>2. /\ restoring'.pc = (IF restoring.pc \in {"stage", "check", "db"} THEN "failed" ELSE "cut")
      /\ restoring'.before = restoring.before
      /\ DOMAIN restoring' = {"pc", "from", "left", "before"}
  BY <1>1 DEF CutRestore, RestoreAt, RestoreSound
<1>3. Told(dataDir)' = Told(dataDir) /\ Told(restoring.before)' = Told(restoring.before)
  BY <1>1, <1>2 DEF Told, ReadableIn
<1>4. RestoreSound'
  BY <1>1, <1>2, <1>3 DEF RestoreSound
<1>5. restoring.pc \in {"stage", "check", "db", "sidecars", "keys"}
  BY <1>1 DEF AtRest, RestoreSound
<1> QED  BY <1>1, <1>4, <1>5, RestoreTurns

LEMMA CommitDbKeeps == ASSUME DataInv, CommitDb PROVE DataInv'
<1> DEFINE brought == restoring.from.files["db"]
<1>1. /\ restoring.pc = "db" /\ RestoreSound /\ DirType /\ CopyType /\ server.pc = "off" /\ serial \in Nat /\ serial > 9
      /\ UNCHANGED <<server, copying, archive, affair>>
  BY DEF CommitDb, DataInv, ServerSound, DirType
<1>2. Makes("db", brought) /\ serial' = serial + 1 /\ mixed' = TRUE
  BY DEF CommitDb, Commit, MixUnless, Makes
<1>3. /\ restoring'.pc = "sidecars" /\ restoring'.from = restoring.from /\ restoring'.before = restoring.before
      /\ restoring'.left = restoring.left \ {"db"} /\ DOMAIN restoring' = {"pc", "from", "left", "before"}
  BY <1>1 DEF CommitDb, RestoreSound
<1> HIDE DEF brought
<1>4. /\ DirType' /\ dataDir'["db"].ino = serial /\ dataDir'["db"].holds = brought
      /\ \A m \in FileNames \ {"db"} : dataDir'[m] = dataDir[m]
  BY <1>1, <1>2, Names, FileMade
<1>5. DirSound'
  BY <1>2 DEF DirSound
<1>6. DbPut'
  BY <1>1, <1>3, <1>4 DEF DbPut, There, brought
<1>7. KeysPut'
  <2> SUFFICES ASSUME NEW n \in KeyFiles
               PROVE  dataDir'[n].holds = IF Put(n)' THEN restoring'.from.files[n] ELSE restoring'.before[n].holds
    BY DEF KeysPut
  <2>1. n # "db" /\ n \in FileNames
    BY Names
  <2>2. ~Put(n)'
    BY <1>1, <1>3, <2>1 DEF Put, RestoreSound
  <2>3. Told(dataDir).keys[n] = dataDir[n].holds /\ Told(restoring.before).keys[n] = restoring.before[n].holds
    BY DEF Told
  <2>4. dataDir[n].holds = restoring.before[n].holds
    BY <1>1, <2>3 DEF RestoreSound
  <2> QED  BY <1>3, <1>4, <2>1, <2>2, <2>4
<1>8. Usable(restoring.from) => Usable(restoring.from)'
  BY <1>1, <1>2, <1>3 DEF Usable, Healthy, HealthyAt
<1>9. dataDir'["wal"].ino # dataDir'["db"].ino
  BY <1>1, <1>4, Names DEF DirType
<1>10. There("encryption")' = There("encryption") /\ KeyNow' = KeyNow
  BY <1>4, Names DEF There, KeyNow
<1>11. RestoreSound'
  BY <1>1, <1>2, <1>3, <1>6, <1>7, <1>8, <1>9, <1>10 DEF RestoreSound
<1>12. "db" \in DOMAIN copying.held => ~SameFile("db")'
  BY <1>1, <1>4 DEF SameFile, CopyType
<1>13. SameFile("encryption")' => SameFile("encryption")
  BY <1>1, <1>4, Names DEF SameFile, There
<1> QED  BY <1>1, <1>2, <1>4, <1>5, <1>10, <1>11, <1>12, <1>13, RestoreMoves

LEMMA RemoveSidecarsKeeps == ASSUME DataInv, RemoveSidecars PROVE DataInv'
<1>1. /\ restoring.pc = "sidecars" /\ RestoreSound /\ DirType /\ server.pc = "off" /\ mixed /\ mixed' = mixed
      /\ dataDir' = [dataDir EXCEPT !["wal"] = Missing]
      /\ UNCHANGED <<server, copying, archive, affair>> /\ serial' = serial /\ mixed' \in BOOLEAN
  BY DEF RemoveSidecars, DataInv, ServerSound, DirType, RestoreSound
<1>2. /\ restoring'.pc = "keys" /\ restoring'.from = restoring.from /\ restoring'.before = restoring.before
      /\ restoring'.left = restoring.left /\ DOMAIN restoring' = {"pc", "from", "left", "before"}
  BY <1>1 DEF RemoveSidecars, RestoreAt, RestoreSound
<1>3. /\ DirType' /\ dataDir'["wal"].ino = 0
      /\ \A m \in FileNames \ {"wal"} : dataDir'[m] = dataDir[m]
  BY <1>1, LogGone
<1>4. DirSound'
  BY <1>1 DEF DirSound
<1>5. DbPut' /\ KeysPut'
  <2>1. DbPut /\ KeysPut
    BY <1>1 DEF RestoreSound
  <2> QED  BY <1>2, <1>3, <2>1, Names DEF DbPut, KeysPut, Put, There
<1>6. Usable(restoring.from) => Usable(restoring.from)'
  BY <1>1, <1>2 DEF Usable, Healthy, HealthyAt
<1>7. There("encryption")' = There("encryption") /\ KeyNow' = KeyNow /\ ~There("wal")'
  BY <1>3, Names DEF There, KeyNow
<1>8. RestoreSound'
  BY <1>1, <1>2, <1>5, <1>6, <1>7 DEF RestoreSound
<1>9. (SameFile("db")' => SameFile("db")) /\ (SameFile("encryption")' => SameFile("encryption"))
  BY <1>1, <1>3, Names DEF SameFile, There
<1> QED  BY <1>1, <1>3, <1>4, <1>7, <1>8, <1>9, RestoreMoves

LEMMA CommitKeyKeeps == ASSUME DataInv, NEW n \in KeyFiles, CommitKey(n) PROVE DataInv'
<1> DEFINE brought == restoring.from.files[n]
<1>1. /\ restoring.pc = "keys" /\ n \in restoring.left /\ RestoreSound /\ DirType /\ CopyType /\ server.pc = "off"
      /\ mixed /\ mixed' = mixed /\ serial \in Nat /\ serial > 9 /\ mixed' \in BOOLEAN
      /\ UNCHANGED <<server, copying, archive, affair>> /\ n \in FileNames /\ n # "db" /\ n # "wal"
  BY Names DEF CommitKey, DataInv, ServerSound, DirType, RestoreSound
<1>2. Makes(n, brought) /\ serial' = serial + 1
  BY DEF CommitKey, Commit, Makes
<1>3. /\ restoring'.pc = "keys" /\ restoring'.from = restoring.from /\ restoring'.before = restoring.before
      /\ restoring'.left = restoring.left \ {n} /\ DOMAIN restoring' = {"pc", "from", "left", "before"}
  BY <1>1 DEF CommitKey, RestoreSound
<1> HIDE DEF brought
<1>4. /\ DirType' /\ dataDir'[n].ino = serial /\ dataDir'[n].holds = brought
      /\ \A m \in FileNames \ {n} : dataDir'[m] = dataDir[m]
  BY <1>1, <1>2, FileMade
<1>5. DirSound'
  BY <1>1 DEF DirSound
<1>6. DbPut' /\ ~There("wal")'
  BY <1>1, <1>3, <1>4, Names DEF DbPut, There, RestoreSound
<1>7. KeysPut'
  <2> SUFFICES ASSUME NEW m \in KeyFiles
               PROVE  dataDir'[m].holds = IF Put(m)' THEN restoring'.from.files[m] ELSE restoring'.before[m].holds
    BY DEF KeysPut
  <2>1. m \in FileNames
    BY Names
  <2>2. CASE m = n
    <3>1. Put(m)'
      BY <1>1, <1>3, <2>2 DEF Put, RestoreSound
    <3> QED  BY <1>3, <1>4, <2>2, <3>1 DEF brought
  <2>3. CASE m # n
    <3>1. Put(m)' = Put(m) /\ dataDir'[m] = dataDir[m]
      BY <1>3, <1>4, <2>1, <2>3 DEF Put
    <3>2. dataDir[m].holds = IF Put(m) THEN restoring.from.files[m] ELSE restoring.before[m].holds
      BY <1>1 DEF RestoreSound, KeysPut
    <3> QED  BY <1>3, <3>1, <3>2
  <2> QED  BY <2>2, <2>3
<1>8. Usable(restoring.from) => Usable(restoring.from)'
  BY <1>1, <1>2, <1>3 DEF Usable, Healthy, HealthyAt
<1>9. "encryption" \in DOMAIN restoring.from.files \/ ~There("encryption")'
  <2>1. CASE n = "encryption"
    BY <1>1, <2>1 DEF RestoreSound
  <2>2. CASE n # "encryption"
    BY <1>1, <1>4, <2>2, Names DEF RestoreSound, There
  <2> QED  BY <2>1, <2>2
<1>10. RestoreSound'
  BY <1>1, <1>3, <1>6, <1>7, <1>8, <1>9 DEF RestoreSound
<1>11. SameFile("db")' => SameFile("db")
  BY <1>1, <1>4, Names DEF SameFile, There
<1>12. "encryption" \in DOMAIN copying.held /\ SameFile("encryption")' => SameFile("encryption") /\ KeyNow' = KeyNow
  <2>1. CASE n = "encryption"
    BY <1>1, <1>4, <2>1 DEF SameFile, CopyType
  <2>2. CASE n # "encryption"
    BY <1>1, <1>4, <2>2, Names DEF SameFile, There, KeyNow
  <2> QED  BY <2>1, <2>2
<1> QED  BY <1>1, <1>2, <1>4, <1>5, <1>10, <1>11, <1>12, RestoreMoves

LEMMA FinishRestoreKeeps == ASSUME DataInv, FinishRestore PROVE DataInv'
<1>1. /\ restoring.pc = "keys" /\ restoring.left = {} /\ RestoreSound /\ DirType /\ server.pc = "off" /\ mixed
      /\ UNCHANGED <<dataDir, server, copying, archive, serial, affair>>
      /\ mixed' = ~(There("encryption") /\ ~restoring.from.doubtful)
  BY DEF FinishRestore, MixUnless, DataInv, ServerSound, RestoreSound
<1>2. /\ restoring'.pc = "done" /\ restoring'.from = restoring.from /\ restoring'.before = restoring.before
      /\ DOMAIN restoring' = {"pc", "from", "left", "before"}
  BY <1>1 DEF FinishRestore, RestoreAt, RestoreSound
<1>3. Readable' = Readable /\ KeyNow' = KeyNow /\ \A m : There(m)' = There(m)
  BY <1>1 DEF Readable, ReadableIn, KeyNow, There
<1>4. There("db") /\ ~There("wal") /\ Readable = restoring.from.files["db"]
  BY <1>1 DEF RestoreSound, DbPut, Readable, ReadableIn, There
<1>5. \A n \in KeyFiles :
        dataDir[n].holds = IF n \in DOMAIN restoring.from.files THEN restoring.from.files[n] ELSE restoring.before[n].holds
  BY <1>1 DEF RestoreSound, KeysPut, Put
<1>6. DirType'
  BY <1>1 DEF DirType
<1>7. DirSound'
  <2> SUFFICES ASSUME ~mixed' PROVE DirSound'
    BY DEF DirSound
  <2>1. There("encryption") /\ Usable(restoring.from) /\ restoring.from.whole /\ ~restoring.from.doubtful
        /\ "encryption" \in DOMAIN restoring.from.files
    BY <1>1 DEF RestoreSound
  <2>2. Healthy(Readable) /\ Readable.keys \subseteq {restoring.from.files["encryption"]}
    BY <1>4, <2>1 DEF Usable
  <2>3. KeyNow = restoring.from.files["encryption"]
    BY <1>5, <2>1, Names DEF KeyNow
  <2>4. dataDir'["wal"].ino = 0 /\ ~Fresh'
    BY <1>1, <1>4 DEF There, Fresh
  <2> QED  BY <1>1, <1>3, <2>1, <2>2, <2>3, <2>4 DEF DirSound, Healthy, HealthyAt
<1>8. RestoreSound'
  BY <1>1, <1>2, <1>3, <1>4, <1>5 DEF RestoreSound
<1>9. (SameFile("db")' => SameFile("db")) /\ (SameFile("encryption")' => SameFile("encryption"))
  BY <1>1 DEF SameFile, There
<1> QED  BY <1>1, <1>3, <1>6, <1>7, <1>8, <1>9, RestoreMoves

-----------------------------------------------------------------------------
(* What is found.                                                              *)
LEMMA DataBegins == DataInit => DataInv
<1> SUFFICES ASSUME DataInit PROVE DataInv
  OBVIOUS
<1> DEFINE found == affair.found
<1>1. /\ DOMAIN affair = {"found", "archives", "targets", "starts", "writes", "kills", "copies", "restores"}
      /\ SoundDir(found) /\ affair.targets \subseteq Nat /\ \A b \in affair.archives : SoundArchive(b)
  BY DataAssumptions DEF DataInit
<1>2. /\ dataDir = [n \in FileNames |-> IF n \in DOMAIN found THEN found[n] ELSE Missing]
      /\ mixed = FALSE /\ serial = 10
  BY DEF DataInit
<1> HIDE DEF found
<1>3. \A n \in FileNames : dataDir[n] = IF n \in DOMAIN found THEN found[n] ELSE Missing
  BY <1>2
<1>4. Missing = [ino |-> 0, holds |-> 0] /\ Missing.ino = 0 /\ Missing.holds = 0
  BY DEF Missing
<1>5. DirType
  <2> SUFFICES ASSUME NEW n \in FileNames
               PROVE  /\ dataDir[n] = [ino |-> dataDir[n].ino, holds |-> dataDir[n].holds]
                      /\ dataDir[n].ino \in Nat /\ dataDir[n].ino < serial
    <3>1. DOMAIN dataDir = FileNames
      BY <1>2
    <3>2. serial \in Nat /\ serial > 9
      BY <1>2
    <3>3. mixed \in BOOLEAN
      BY <1>2
    <3> QED  BY <3>1, <3>2, <3>3 DEF DirType
  <2>1. CASE n \in DOMAIN found
    <3>1. dataDir[n] = found[n]
      BY <1>3, <2>1
    <3>2. found[n] = [ino |-> found[n].ino, holds |-> found[n].holds] /\ found[n].ino \in 1..9
      BY <1>1, <2>1 DEF SoundDir
    <3> QED  BY <1>2, <3>1, <3>2
  <2>2. CASE n \notin DOMAIN found
    BY <1>2, <1>3, <1>4, <2>2
  <2> QED  BY <2>1, <2>2
<1>6. \A n \in FileNames : There(n) <=> n \in DOMAIN found
  BY <1>1, <1>3, <1>4 DEF There, SoundDir
<1>7. server = [pc |-> "off", target |-> 0, opened |-> 0, created |-> FALSE, key |-> 0]
  BY DEF DataInit, Down
<1>8. restoring.pc = "off" /\ DOMAIN restoring = {"pc", "from", "left", "before"}
  BY DEF DataInit, NotRestoring
<1>9. DirSound
  <2>1. dataDir["wal"].ino \in {0, dataDir["db"].ino}
    BY <1>1, <1>3, <1>4, Names DEF SoundDir
  <2>2. ASSUME There("db")
        PROVE  There("encryption") /\ Healthy(Readable) /\ Readable.keys \subseteq {KeyNow}
    <3>1. /\ "db" \in DOMAIN found /\ "encryption" \in DOMAIN found
          /\ dataDir["db"] = found["db"] /\ dataDir["encryption"] = found["encryption"]
      BY <1>1, <1>3, <1>6, <2>2, Names DEF SoundDir
    <3>2. Counted(found["db"].holds) /\ found["db"].holds.keys \subseteq {found["encryption"].holds}
      BY <1>1, <3>1 DEF SoundDir
    <3>3. CASE "wal" \in DOMAIN found
      <4>1. /\ dataDir["wal"] = found["wal"] /\ found["wal"].ino = found["db"].ino /\ found["wal"].ino # 0
            /\ Counted(found["wal"].holds) /\ found["wal"].holds.keys \subseteq {found["encryption"].holds}
        BY <1>1, <1>3, <3>3, Names DEF SoundDir
      <4>2. Readable = found["wal"].holds
        BY <3>1, <4>1 DEF Readable, ReadableIn
      <4> QED  BY <1>2, <1>6, <3>1, <4>1, <4>2, Names DEF Counted, Healthy, HealthyAt, KeyNow
    <3>4. CASE "wal" \notin DOMAIN found
      <4>1. Readable = found["db"].holds
        BY <1>3, <1>4, <3>1, <3>4, Names DEF Readable, ReadableIn
      <4> QED  BY <1>2, <1>6, <3>1, <3>2, <4>1, Names DEF Counted, Healthy, HealthyAt, KeyNow
    <3> QED  BY <3>3, <3>4
  <2>3. ~Fresh
    BY <1>7 DEF Fresh
  <2> QED  BY <2>1, <2>2, <2>3 DEF DirSound
<1>10. ServerSound
  BY <1>7 DEF ServerSound, ServerFields
<1>11. CopyType /\ CopySound
  <2>1. copying.pc = "off" /\ copying.held = <<>> /\ copying.doubtful = FALSE /\ DOMAIN copying = {"pc", "held", "was", "shot", "doubtful"}
    BY DEF DataInit, NotCopying
  <2>2. DOMAIN copying.held = {}
    BY <2>1
  <2> QED  BY <2>1, <2>2 DEF CopyType, CopySound
<1>12. \A b : SoundArchive(b) => Usable(b)
  BY <1>2 DEF SoundArchive, Usable, Counted, Healthy, HealthyAt
<1>13. archive.whole = FALSE
  BY DEF DataInit, NoArchive
<1>14. ArchivesUsable
  BY <1>1, <1>12, <1>13 DEF ArchivesUsable, Usable, ArchivesOpen
<1>15. RestoreSound
  BY <1>8 DEF RestoreSound
<1> QED  BY <1>5, <1>9, <1>10, <1>11, <1>14, <1>15 DEF DataInv

LEMMA DataSteps == DataInv /\ [DataNext]_dataVars => DataInv'
<1> SUFFICES ASSUME DataInv, [DataNext]_dataVars PROVE DataInv'
  OBVIOUS
<1>1. ASSUME NEW target \in 1..9, StartServer(target) PROVE DataInv'
  BY <1>1, StartServerKeeps
<1>2. ASSUME NEW n \in KeyFiles, OpenKeyFile(n) \/ LoadKeyFile(n) \/ CommitKey(n) PROVE DataInv'
  BY <1>2, OpenKeyFileKeeps, LoadKeyFileKeeps, CommitKeyKeeps
<1>3. CASE OpenDatabase \/ DatabaseOpen \/ Migrate \/ Checkpoint \/ StopServer \/ KillServer
  BY <1>3, OpenDatabaseKeeps, DatabaseOpenKeeps, MigrateKeeps, CheckpointKeeps, StopServerKeeps, KillServerKeeps
<1>4. ASSUME NEW secret \in BOOLEAN, StoreRow(secret) PROVE DataInv'
  BY <1>4, StoreRowKeeps
<1>5. CASE BeginBackup \/ Snapshot \/ Verify \/ InstallArchive \/ EndBackup
  BY <1>5, BeginBackupKeeps, SnapshotKeeps, VerifyKeeps, InstallArchiveKeeps, EndBackupKeeps
<1>6. ASSUME NEW n \in Archived, Hold(n) PROVE DataInv'
  BY <1>6, HoldKeeps
<1>7. ASSUME NEW from \in affair.archives \cup ({archive} \ {NoArchive}), NEW force \in BOOLEAN, BeginRestore(from, force)
      PROVE  DataInv'
  BY <1>7, BeginRestoreKeeps
<1>8. CASE Stage \/ CheckKey \/ CommitDb \/ RemoveSidecars \/ FinishRestore \/ CutRestore
  BY <1>8, StageKeeps, CheckKeyKeeps, CommitDbKeeps, RemoveSidecarsKeeps, FinishRestoreKeeps, CutRestoreKeeps
<1>9. CASE UNCHANGED dataVars
  <2>1. UNCHANGED <<dataDir, server, restoring, mixed, serial, copying, archive, affair>>
    BY <1>9 DEF dataVars
  <2>2. Fresh' => Fresh
    BY <2>1 DEF Fresh
  <2> QED  BY <2>1, <2>2, CopyBeside, CopyMoves, ArchivesStay DEF DataInv, DirType
<1> QED  BY <1>1, <1>2, <1>3, <1>4, <1>5, <1>6, <1>7, <1>8, <1>9 DEF DataNext

LEMMA DataInvKeeps == DataInv => DataKept
<1> SUFFICES ASSUME DataInv PROVE DataKept
  OBVIOUS
<1>1. RestoresWhole
  <2>1. restoring.pc = "done" =>
         Told(dataDir) =
           [db |-> {restoring.from.files["db"]},
            keys |-> [n \in KeyFiles |-> IF n \in DOMAIN restoring.from.files THEN restoring.from.files[n]
                                          ELSE restoring.before[n].holds]]
    BY DEF DataInv, RestoreSound, Told, Readable, There
  <2> QED  BY <2>1 DEF DataInv, RestoreSound, RestoresWhole
<1>2. OpensItsSecrets
  <2> SUFFICES ASSUME server.pc = "up", ~mixed
               PROVE  Readable # Torn /\ Readable.ver >= server.target /\ Readable.keys \subseteq {server.key}
    BY DEF OpensItsSecrets
  <2>1. There("db") /\ Readable.ver >= server.target /\ server.key = KeyNow
    BY DEF DataInv, ServerSound
  <2>2. Healthy(Readable) /\ Readable.keys \subseteq {KeyNow}
    BY <2>1 DEF DataInv, DirSound
  <2>3. Torn.data = -1
    BY DEF Torn, DbState
  <2> QED  BY <2>1, <2>2, <2>3 DEF Healthy, HealthyAt
<1> QED  BY <1>1, <1>2 DEF DataKept, DataInv, ArchivesUsable

\* A restore leaves the old state or makes the new one, and a database never comes without the
\* key of its secrets, in an archive or in a directory an orchestrator runs on (backup.go,
\* main.go), in whatever order starts, kills, migrations, backups and restores come.
THEOREM DataCorrect == DataSpec => []DataKept
<1>1. DataInit => DataInv BY DataBegins
<1>2. DataInv /\ [DataNext]_dataVars => DataInv' BY DataSteps
<1>3. DataInv => DataKept BY DataInvKeeps
<1> QED BY <1>1, <1>2, <1>3, PTL DEF DataSpec

================================================================================
