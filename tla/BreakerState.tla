----------------------------- MODULE BreakerState -----------------------------
(***************************************************************************)
(* The circuit breaker of the agent's recovery, one state per key           *)
(* (internal/agent/recovery/breaker.go): what an attempt asks of it, what   *)
(* an outcome does to it, and what its file may hold.                       *)
(*                                                                          *)
(* Time is a natural number; 0 is Go's zero time.                           *)
(***************************************************************************)
EXTENDS Naturals, Sequences, FiniteSets

CONSTANTS
    Keys,       \* an action on a resource: BreakerKey
    Threshold,  \* breakerFailures, 3
    Window,     \* breakerWindow, 15 minutes
    OpenTime    \* breakerOpenTime, 1 hour

ASSUME BreakerAssumptions ==
    /\ Threshold \in Nat \ {0}
    /\ Window \in Nat
    /\ OpenTime \in Nat
    /\ Window < OpenTime

Sources == {"automatic", "user"}
AllOutcomes == {"succeeded", "rolled_back", "rollback_failed"}

State == [failures: Seq(Nat \ {0}), openedAt: Nat, latched: BOOLEAN]
\* No entry for the key.
Fresh == [failures |-> <<>>, openedAt |-> 0, latched |-> FALSE]

\* Mutant: the failure at the edge of the window is forgotten.
MutCompact(s, t) ==
    LET f    == s.failures
        old  == {i \in 1..Len(f) : f[i] + Window <= t}
        past == {i \in 1..Len(f) : f[i] <= t}
    IN  [s EXCEPT !.failures = SubSeq(f, Cardinality(old) + 1, Cardinality(past))]

\* Failures older than the window, or in the future, are forgotten; they are kept in
\* the order of their times.
Compact(s, t) ==
    LET f    == s.failures
        old  == {i \in 1..Len(f) : f[i] + Window < t}
        past == {i \in 1..Len(f) : f[i] <= t}
    IN  [s EXCEPT !.failures = SubSeq(f, Cardinality(old) + 1, Cardinality(past))]

IsOpen(s) == s.openedAt # 0
Expired(s, t) == t >= s.openedAt + OpenTime

\* Allow: the decision ...
Permits(s, source, t) ==
    source = "user" \/ (~s.latched /\ (IsOpen(s) => Expired(s, t)))

\* ... and what asking changes: a breaker whose hour is over closes.
AfterAllow(s, t) ==
    IF ~s.latched /\ IsOpen(s) /\ Expired(s, t)
    THEN [Compact(s, t) EXCEPT !.failures = <<>>, !.openedAt = 0]
    ELSE Compact(s, t)

Latest(f) == IF Len(f) > Threshold THEN SubSeq(f, Len(f) - Threshold + 1, Len(f)) ELSE f

\* Mutant: a later failure that was rolled back lifts the latch.
MutFailed(s, outcome, t) ==
    LET f == Latest(Append(Compact(s, t).failures, t)) IN
    [failures |-> f,
     openedAt |-> IF Len(f) >= Threshold THEN t ELSE s.openedAt,
     latched  |-> outcome = "rollback_failed"]

\* Record of a failure.
Failed(s, outcome, t) ==
    LET f == Latest(Append(Compact(s, t).failures, t)) IN
    [failures |-> f,
     openedAt |-> IF Len(f) >= Threshold THEN t ELSE s.openedAt,
     latched  |-> s.latched \/ outcome = "rollback_failed"]

\* Record; manual: the success of a repair a user asked for.
Recorded(s, outcome, t, manual) ==
    IF outcome # "succeeded" THEN Failed(s, outcome, t)
    ELSE IF s.latched /\ ~manual THEN s ELSE Fresh

\* What NewPersistentBreaker accepts of its file.
Readable(s) ==
    /\ Len(s.failures) <= Threshold
    /\ \A i \in 1..Len(s.failures) : s.failures[i] # 0
    /\ \A i \in 2..Len(s.failures) : s.failures[i - 1] <= s.failures[i]
    /\ IsOpen(s) => Len(s.failures) >= Threshold
===============================================================================
