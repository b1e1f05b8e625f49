------------------------------- MODULE Breaker -------------------------------
(***************************************************************************)
(* The circuit breaker of a resource over time, with crashes and restarts   *)
(* of the agent, beside what the orchestrator knows of the same resource:   *)
(* it keeps every outcome reported to it and derives from them whether the  *)
(* breaker is open (db/recovery.go), to show it and to refuse a request.    *)
(*                                                                          *)
(* The coordinator's lock serialises the attempts; a report is taken to     *)
(* arrive at the moment it is made (RecoveryReports models its delivery).   *)
(***************************************************************************)
EXTENDS BreakerState

CONSTANTS
    NoKey,
    Outcomes,     \* the outcomes an attempt may have
    Cases,        \* what to consider, each with its faults
                  \*   "disk": the breaker's file cannot be written,
                  \*   "slip": a request made before the breaker opened arrives after,
                  \*   "crash": the agent crashes in an attempt that changed something,
                  \* and its bounds
                  \*   horizon: the clock stops here,
                  \*   failures: of a key between two clearings
    MaxManifests  \* bound: the failed rollbacks of a key

ASSUME ModelAssumptions ==
    /\ NoKey \notin Keys
    /\ Outcomes \subseteq AllOutcomes
    /\ Cases \subseteq [faults : SUBSET {"disk", "slip", "crash"}, horizon : Nat, failures : Nat]
    /\ MaxManifests \in Nat

VARIABLES
    now,        \* the clock
    states,     \* the breaker in memory
    disk,       \* breakers.json
    available,  \* the file was readable when the agent started
    attempt,    \* the attempt under way, and whether a restart resumed it
    manifests,  \* manifests[k]: when the rollbacks of k failed, kept in the snapshot store
    pending,    \* the manifests the restarted agent has still to go through
    seen,       \* seen[k]: what the orchestrator derives from the reported outcomes
    lost,       \* the keys with an outcome the breaker could not write
    case        \* the case considered

vars == <<now, states, disk, available, attempt, manifests, pending, seen, lost, case>>

Idle == [key |-> NoKey, source |-> "automatic", resumed |-> FALSE]
Attempt == [key: Keys, source: Sources, resumed: BOOLEAN] \cup {Idle}
\* The failures since the last success, and whether a failed rollback has not been
\* followed by the success of a repair a user asked for.
Reported == [failures: Seq(Nat \ {0}), latched: BOOLEAN]
Clear == [failures |-> <<>>, latched |-> FALSE]

\* Every variable holds values of its type.
TypeOK ==
    /\ now \in Nat \ {0}
    /\ states \in [Keys -> State]
    /\ disk \in [Keys -> State]
    /\ available \in BOOLEAN
    /\ attempt \in Attempt
    /\ manifests \in [Keys -> Seq(Nat \ {0})]
    /\ \A p \in pending : p[1] \in Keys /\ p[2] \in DOMAIN manifests[p[1]]
    /\ seen \in [Keys -> Reported]
    /\ lost \subseteq Keys
    /\ case \in Cases

Init ==
    /\ now = 1
    /\ states = [k \in Keys |-> Fresh]
    /\ disk = states
    /\ available = TRUE
    /\ attempt = Idle
    /\ manifests = [k \in Keys |-> <<>>]
    /\ pending = {}
    /\ seen = [k \in Keys |-> Clear]
    /\ lost = {}
    /\ case \in Cases

Tick ==
    /\ now < case.horizon
    /\ now' = now + 1
    /\ UNCHANGED <<states, disk, available, attempt, manifests, pending, seen, lost, case>>

\* repairBreakerStatusFromHistory: for less than an hour the last of three failures
\* within a quarter of an hour has been on record.
Tripped(r, t) ==
    \E i \in Threshold..Len(r.failures) :
        /\ r.failures[i] <= r.failures[i - Threshold + 1] + Window
        /\ t < r.failures[i] + OpenTime

OrchestratorOpen(k) == seen[k].latched \/ Tripped(seen[k], now)

\* The orchestrator refuses a user's request while it sees the breaker open, unless
\* a failed rollback holds it open.
Requestable(k) == seen[k].latched \/ ~Tripped(seen[k], now) \/ "slip" \in case.faults

Allow(k, source) ==
    /\ available
    /\ attempt = Idle /\ pending = {}
    /\ Len(seen[k].failures) < case.failures
    /\ source = "user" => Requestable(k)
    /\ states' = [states EXCEPT ![k] = AfterAllow(@, now)]
    /\ attempt' = IF Permits(states[k], source, now)
                  THEN [key |-> k, source |-> source, resumed |-> FALSE] ELSE Idle
    /\ UNCHANGED <<now, disk, available, manifests, pending, seen, lost, case>>

\* The orchestrator receives the outcome; the manifest of a failed rollback stays.
Report(outcome) ==
    LET k == attempt.key
        r == seen[k] IN
    /\ attempt # Idle /\ available
    /\ outcome = "rollback_failed" => Len(manifests[k]) < MaxManifests
    /\ seen' = [seen EXCEPT ![k] =
          IF outcome = "succeeded"
          THEN [failures |-> <<>>, latched |-> r.latched /\ attempt.source # "user"]
          ELSE [failures |-> Append(r.failures, now),
                latched  |-> r.latched \/ outcome = "rollback_failed"]]
    /\ manifests' = IF outcome = "rollback_failed"
                    THEN [manifests EXCEPT ![k] = Append(@, now)] ELSE manifests
    /\ attempt' = Idle
    /\ UNCHANGED <<now, available, pending, case>>

\* The outcome is recorded and the file written, whole.  An attempt that a restart
\* resumed counts as automatic, whoever asked for it.
Record(outcome) ==
    LET k == attempt.key
        manual == attempt.source = "user" /\ ~attempt.resumed IN
    /\ Report(outcome)
    /\ states' = [states EXCEPT ![k] = Recorded(@, outcome, now, manual)]
    /\ disk' = states'
    /\ lost' = IF seen'[k] = Clear THEN lost \ {k} ELSE lost

\* The file cannot be written: the breaker restores its state, and the coordinator
\* ignores the error.
RecordFails(outcome) ==
    /\ "disk" \in case.faults
    /\ Report(outcome)
    /\ lost' = lost \cup {attempt.key}
    /\ UNCHANGED <<states, disk>>

\* The agent restarts.  An attempt under way is resumed from its manifest, or it had
\* changed nothing and is gone.  Without a readable breaker there is no recovery.
Restart ==
    /\ states' = disk
    /\ available' = \A k \in Keys : Readable(disk[k])
    /\ \/ attempt' = Idle
       \/ "crash" \in case.faults /\ attempt # Idle /\ attempt' = [attempt EXCEPT !.resumed = TRUE]
    /\ pending' = IF available' THEN UNION {{k} \X DOMAIN manifests[k] : k \in Keys} ELSE {}
    /\ UNCHANGED <<now, disk, manifests, seen, lost, case>>

\* Recover of a failed rollback: its outcome is recorded again, with its old time.
Rerecord(k, i) ==
    /\ <<k, i>> \in pending
    /\ pending' = pending \ {<<k, i>>}
    /\ states' = [states EXCEPT ![k] = Recorded(@, "rollback_failed", manifests[k][i], FALSE)]
    /\ disk' = states'
    /\ UNCHANGED <<now, available, attempt, manifests, seen, lost, case>>

Next ==
    \/ Tick \/ Restart
    \/ \E k \in Keys, s \in Sources : Allow(k, s)
    \/ \E o \in Outcomes : Record(o) \/ RecordFails(o)
    \/ \E p \in pending : Rerecord(p[1], p[2])

Spec == Init /\ [][Next]_vars
-----------------------------------------------------------------------------
(* Properties. *)

Settled == available /\ pending = {}

\* While a failed rollback awaits a user's repair no automatic attempt is let through,
\* whatever crashes, late requests and failed writes of other outcomes there were.
LatchHolds ==
    Settled => \A k \in Keys \ lost :
        seen[k].latched => ~Permits(states[k], "automatic", now)

\* The agent's breaker, which keeps three times and forgets as it is asked, never lets
\* an automatic attempt through while the whole history says it is open: for an hour
\* after three failures within a quarter of an hour, or while a failed rollback awaits
\* a user's repair.  Nor does it hold one back without that reason; but after a failed
\* rollback, which every restart records again, it may.
BreakersAgree ==
    Settled /\ case.faults = {} => \A k \in Keys :
        /\ OrchestratorOpen(k) => ~Permits(states[k], "automatic", now)
        /\ ~OrchestratorOpen(k) /\ manifests[k] = <<>> => Permits(states[k], "automatic", now)

\* What the breaker writes, it reads back: a restart does not switch recovery off.
ReadsBack == \A k \in Keys : Readable(disk[k])
==============================================================================
