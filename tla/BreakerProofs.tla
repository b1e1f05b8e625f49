----------------------------- MODULE BreakerProofs -----------------------------
(***************************************************************************)
(* Proofs about what keeps a repair from harm.                              *)
(* The circuit breaker, for every number of keys, threshold, window and open *)
(* time: types and the latch under every fault, and that without one the     *)
(* agent's breaker and the orchestrator's history agree.  The diagnosis and  *)
(* the offers, for any files, reports and mishaps: a verdict is just, and a   *)
(* repair removes nothing but NurProxy's (OfferInv).                           *)
(***************************************************************************)
EXTENDS Breaker, Diagnosis, TLAPS, FiniteSetTheorems, SequenceTheorems

\* A part of a sequence cut out between two counts of its positions is one of the type.
LEMMA CutType ==
    ASSUME NEW S, NEW f \in Seq(S), NEW A \in SUBSET (1..Len(f)), NEW B \in SUBSET (1..Len(f))
    PROVE  SubSeq(f, Cardinality(A) + 1, Cardinality(B)) \in Seq(S)
<1> Len(f) \in Nat
    OBVIOUS
<1>1. IsFiniteSet(1..Len(f)) /\ Cardinality(1..Len(f)) = Len(f)
    BY FS_Interval
<1>2. Cardinality(A) \in Nat /\ Cardinality(B) \in Nat /\ Cardinality(B) <= Len(f)
    BY <1>1, FS_Subset, FS_CardinalityType
<1>3. \A i \in (Cardinality(A) + 1)..Cardinality(B) : i \in 1..Len(f)
    BY <1>2
<1> QED
    BY <1>2, <1>3, SubSeqProperties

\* The operators of the breaker keep its type.
LEMMA CompactType ==
    ASSUME NEW s \in State, NEW t \in Nat
    PROVE  Compact(s, t) \in State /\ Compact(s, t).latched = s.latched
           /\ Compact(s, t).openedAt = s.openedAt
<1> DEFINE f == s.failures
           old == {i \in 1..Len(f) : f[i] + Window < t}
           past == {i \in 1..Len(f) : f[i] <= t}
           g == SubSeq(f, Cardinality(old) + 1, Cardinality(past))
<1>1. f \in Seq(Nat \ {0})
    BY DEF State
<1>2. g \in Seq(Nat \ {0})
    <2>1. old \in SUBSET (1..Len(f)) /\ past \in SUBSET (1..Len(f))
        OBVIOUS
    <2> HIDE DEF f, old, past
    <2> QED
        BY <1>1, <2>1, CutType
<1>3. Compact(s, t) = [s EXCEPT !.failures = g]
    BY DEF Compact
<1> HIDE DEF g
<1> QED
    BY <1>2, <1>3 DEF State

LEMMA AfterAllowType ==
    ASSUME NEW s \in State, NEW t \in Nat
    PROVE  AfterAllow(s, t) \in State /\ AfterAllow(s, t).latched = s.latched
<1>1. Compact(s, t) \in State /\ Compact(s, t).latched = s.latched
    BY CompactType
<1>2. <<>> \in Seq(Nat \ {0})
    OBVIOUS
<1> QED
    BY <1>1, <1>2 DEF AfterAllow, State

LEMMA FailedType ==
    ASSUME NEW s \in State, NEW t \in Nat \ {0}, NEW o \in AllOutcomes
    PROVE  Failed(s, o, t) \in State
           /\ Failed(s, o, t).latched = (s.latched \/ o = "rollback_failed")
<1> DEFINE h == Append(Compact(s, t).failures, t)
           f == Latest(h)
<1>1. Compact(s, t).failures \in Seq(Nat \ {0})
    BY CompactType DEF State
<1>2. h \in Seq(Nat \ {0})
    BY <1>1
<1>3. f \in Seq(Nat \ {0})
    <2> HIDE DEF h
    <2>1. CASE Len(h) > Threshold
        <3>1. Len(h) - Threshold + 1 \in 1..Len(h) + 1 /\ Len(h) \in Nat
            BY <1>2, <2>1, BreakerAssumptions
        <3>2. \A i \in (Len(h) - Threshold + 1)..Len(h) : i \in 1..Len(h)
            BY <3>1
        <3> QED
            BY <1>2, <2>1, <3>1, <3>2, SubSeqProperties DEF Latest
    <2>2. CASE ~(Len(h) > Threshold)
        BY <1>2, <2>2 DEF Latest
    <2> QED
        BY <2>1, <2>2
<1>4. Failed(s, o, t) = [failures |-> f,
                         openedAt |-> IF Len(f) >= Threshold THEN t ELSE s.openedAt,
                         latched  |-> s.latched \/ o = "rollback_failed"]
    BY DEF Failed
<1> HIDE DEF f
<1>5. s.openedAt \in Nat /\ s.latched \in BOOLEAN
    BY DEF State
<1> QED
    BY <1>3, <1>4, <1>5 DEF State

LEMMA RecordedType ==
    ASSUME NEW s \in State, NEW t \in Nat \ {0}, NEW o \in AllOutcomes, NEW m \in BOOLEAN
    PROVE  Recorded(s, o, t, m) \in State
<1>1. Fresh \in State
    BY DEF Fresh, State
<1> QED
    BY <1>1, FailedType DEF Recorded

\* What keeps a latched breaker latched: only the success of a repair a user asked for.
LEMMA RecordedLatched ==
    ASSUME NEW s \in State, NEW t \in Nat \ {0}, NEW o \in AllOutcomes, NEW m \in BOOLEAN,
           s.latched \/ o = "rollback_failed", o # "succeeded" \/ ~m
    PROVE  Recorded(s, o, t, m).latched
BY FailedType DEF Recorded
-----------------------------------------------------------------------------
(* Type correctness. *)

LEMMA InitType == Init => TypeOK
<1>1. Fresh \in State /\ Clear \in Reported /\ <<>> \in Seq(Nat \ {0})
    BY DEF Fresh, State, Clear, Reported
<1> QED
    BY <1>1 DEF Init, TypeOK, Attempt

\* What Report, a part of Record and of RecordFails, does to its own variables.
LEMMA ReportType ==
    ASSUME TypeOK, NEW o \in Outcomes, Report(o)
    PROVE  /\ attempt.key \in Keys /\ attempt.source \in Sources /\ attempt.resumed \in BOOLEAN
           /\ attempt' \in Attempt
           /\ seen' \in [Keys -> Reported]
           /\ manifests' \in [Keys -> Seq(Nat \ {0})]
           /\ \A p \in pending' : p[1] \in Keys /\ p[2] \in DOMAIN manifests'[p[1]]
<1> DEFINE k == attempt.key
           r == seen[k]
<1>1. attempt.key \in Keys /\ attempt.source \in Sources /\ attempt.resumed \in BOOLEAN
    BY DEF TypeOK, Attempt, Report
<1>2. attempt' \in Attempt
    BY DEF Report, Attempt
<1>3. seen' \in [Keys -> Reported]
    <2>1. r \in Reported /\ now \in Nat \ {0}
        BY <1>1 DEF TypeOK
    <2>2. [failures |-> <<>>, latched |-> r.latched /\ attempt.source # "user"] \in Reported
        BY <2>1 DEF Reported
    <2>3. [failures |-> Append(r.failures, now),
           latched |-> r.latched \/ o = "rollback_failed"] \in Reported
        BY <2>1 DEF Reported
    <2> QED
        BY <1>1, <2>2, <2>3 DEF Report, TypeOK
<1>4. manifests' \in [Keys -> Seq(Nat \ {0})]
    BY <1>1 DEF Report, TypeOK
<1>5. \A p \in pending' : p[1] \in Keys /\ p[2] \in DOMAIN manifests'[p[1]]
    <2> SUFFICES ASSUME NEW p \in pending
                 PROVE  p[1] \in Keys /\ p[2] \in DOMAIN manifests'[p[1]]
        BY DEF Report
    <2>1. p[1] \in Keys /\ p[2] \in DOMAIN manifests[p[1]]
        BY DEF TypeOK
    <2>2. manifests[p[1]] \in Seq(Nat \ {0}) /\ now \in Nat \ {0}
        BY <2>1 DEF TypeOK
    <2>3. manifests'[p[1]] \in {manifests[p[1]], Append(manifests[p[1]], now)}
        BY <1>1, <2>1 DEF Report, TypeOK
    <2>4. DOMAIN manifests[p[1]] \subseteq DOMAIN Append(manifests[p[1]], now)
        BY <2>2
    <2> QED
        BY <2>1, <2>3, <2>4
<1> QED
    BY <1>1, <1>2, <1>3, <1>4, <1>5

\* Every step keeps the type invariant.
LEMMA NextType == TypeOK /\ [Next]_vars => TypeOK'
<1> SUFFICES ASSUME TypeOK, [Next]_vars PROVE TypeOK'
    OBVIOUS
<1> USE DEF TypeOK
<1>1. CASE Tick
    BY <1>1 DEF Tick
<1>2. CASE Restart
    <2>1. attempt' \in Attempt
        BY <1>2 DEF Restart, Attempt
    <2>2. \A p \in pending' : p[1] \in Keys /\ p[2] \in DOMAIN manifests'[p[1]]
        BY <1>2 DEF Restart
    <2>3. available' \in BOOLEAN
        BY <1>2 DEF Restart
    <2> QED
        BY <1>2, <2>1, <2>2, <2>3 DEF Restart
<1>3. ASSUME NEW k \in Keys, NEW source \in Sources, Allow(k, source) PROVE TypeOK'
    <2>1. attempt' \in Attempt
        BY <1>3 DEF Allow, Attempt, Idle
    <2>2. AfterAllow(states[k], now) \in State
        BY AfterAllowType
    <2> QED
        BY <1>3, <2>1, <2>2 DEF Allow
<1>4. ASSUME NEW o \in Outcomes, Record(o) PROVE TypeOK'
    <2> DEFINE k == attempt.key
               m == attempt.source = "user" /\ ~attempt.resumed
    <2>1. Report(o)
        BY <1>4 DEF Record
    <2>2. k \in Keys /\ o \in AllOutcomes
        BY <2>1, ReportType, ModelAssumptions
    <2>3. Recorded(states[k], o, now, m) \in State
        BY <2>2, RecordedType
    <2>4. states' \in [Keys -> State] /\ disk' \in [Keys -> State]
        BY <1>4, <2>2, <2>3 DEF Record
    <2>5. lost' \subseteq Keys
        BY <1>4 DEF Record
    <2>6. UNCHANGED <<now, available, case>>
        BY <2>1 DEF Report
    <2> QED
        BY <2>1, <2>4, <2>5, <2>6, ReportType
<1>5. ASSUME NEW o \in Outcomes, RecordFails(o) PROVE TypeOK'
    <2>1. Report(o)
        BY <1>5 DEF RecordFails
    <2>2. attempt.key \in Keys /\ UNCHANGED <<now, available, case>>
        BY <2>1, ReportType DEF Report
    <2>3. UNCHANGED <<states, disk>> /\ lost' = lost \cup {attempt.key}
        BY <1>5 DEF RecordFails
    <2> QED
        BY <2>1, <2>2, <2>3, ReportType
<1>6. ASSUME NEW p \in pending, Rerecord(p[1], p[2]) PROVE TypeOK'
    <2>1. p[1] \in Keys /\ p[2] \in DOMAIN manifests[p[1]]
        OBVIOUS
    <2>2. manifests[p[1]][p[2]] \in Nat \ {0}
        BY <2>1
    <2>3. Recorded(states[p[1]], "rollback_failed", manifests[p[1]][p[2]], FALSE) \in State
        BY <2>1, <2>2, RecordedType DEF AllOutcomes
    <2> QED
        BY <1>6, <2>1, <2>3 DEF Rerecord
<1>7. CASE UNCHANGED vars
    BY <1>7 DEF vars
<1> QED
    BY <1>1, <1>2, <1>3, <1>4, <1>5, <1>6, <1>7 DEF Next

\* Every variable of the breaker, its file and the orchestrator's record of it holds
\* values of its type, through crashes, restarts and failed writes.
THEOREM TypeCorrect == Spec => []TypeOK
BY InitType, NextType, PTL DEF Spec
-----------------------------------------------------------------------------
(* The latch. *)

\* The orchestrator's latch is the agent's, in memory and on disk.
LatchInv ==
    \A k \in Keys \ lost : seen[k].latched => states[k].latched /\ disk[k].latched

LEMMA LatchInit == Init => LatchInv
BY DEF Init, LatchInv, Clear

LEMMA LatchNext == TypeOK /\ LatchInv /\ [Next]_vars => LatchInv'
<1> SUFFICES ASSUME TypeOK, LatchInv, [Next]_vars PROVE LatchInv'
    OBVIOUS
<1>1. CASE Tick
    BY <1>1 DEF Tick, LatchInv
<1>2. CASE Restart
    BY <1>2 DEF Restart, LatchInv
<1>3. ASSUME NEW k \in Keys, NEW source \in Sources, Allow(k, source) PROVE LatchInv'
    <2>1. AfterAllow(states[k], now).latched = states[k].latched
        BY AfterAllowType DEF TypeOK
    <2> QED
        BY <1>3, <2>1 DEF Allow, LatchInv, TypeOK
<1>4. ASSUME NEW o \in Outcomes, Record(o) PROVE LatchInv'
    <2> DEFINE k == attempt.key
               m == attempt.source = "user" /\ ~attempt.resumed
    <2>1. Report(o) /\ k \in Keys /\ o \in AllOutcomes
        BY <1>4, ReportType, ModelAssumptions DEF Record
    <2> SUFFICES ASSUME NEW j \in Keys, j \notin lost', seen'[j].latched
                 PROVE  states'[j].latched /\ disk'[j].latched
        BY DEF LatchInv
    <2>2. disk' = states' /\ states' = [states EXCEPT ![k] = Recorded(@, o, now, m)]
        BY <1>4 DEF Record
    <2>3. CASE j # k
        <3>1. j \notin lost
            BY <1>4, <2>3 DEF Record
        <3>2. seen'[j] = seen[j]
            BY <2>1, <2>3 DEF Report, TypeOK
        <3>3. states'[j] = states[j]
            BY <2>2, <2>3 DEF TypeOK
        <3> QED
            BY <2>2, <3>1, <3>2, <3>3 DEF LatchInv
    <2>4. CASE j = k
        <3>1. k \notin lost
            <4>1. seen'[k] # Clear
                BY <2>4 DEF Clear
            <4> QED
                BY <1>4, <2>4, <4>1 DEF Record
        <3>2. /\ o = "succeeded" => seen[k].latched /\ attempt.source # "user"
              /\ o # "succeeded" => seen[k].latched \/ o = "rollback_failed"
            BY <2>1, <2>4 DEF Report, TypeOK
        <3>3. states[k].latched \/ o = "rollback_failed"
            BY <2>1, <3>1, <3>2 DEF LatchInv
        <3>4. Recorded(states[k], o, now, m).latched
            BY <2>1, <3>2, <3>3, RecordedLatched DEF TypeOK
        <3> QED
            BY <2>1, <2>2, <2>4, <3>4 DEF TypeOK
    <2> QED
        BY <2>3, <2>4
<1>5. ASSUME NEW o \in Outcomes, RecordFails(o) PROVE LatchInv'
    <2>1. Report(o) /\ attempt.key \in Keys
        BY <1>5, ReportType DEF RecordFails
    <2> SUFFICES ASSUME NEW j \in Keys, j \notin lost', seen'[j].latched
                 PROVE  states'[j].latched /\ disk'[j].latched
        BY DEF LatchInv
    <2>2. j \notin lost /\ j # attempt.key /\ UNCHANGED <<states, disk>>
        BY <1>5 DEF RecordFails
    <2>3. seen'[j] = seen[j]
        BY <2>1, <2>2 DEF Report, TypeOK
    <2> QED
        BY <2>2, <2>3 DEF LatchInv
<1>6. ASSUME NEW p \in pending, Rerecord(p[1], p[2]) PROVE LatchInv'
    <2> DEFINE k == p[1]
               t == manifests[k][p[2]]
    <2>1. k \in Keys /\ t \in Nat \ {0}
        BY DEF TypeOK
    <2>2. Recorded(states[k], "rollback_failed", t, FALSE).latched
        BY <2>1, RecordedLatched DEF TypeOK, AllOutcomes
    <2>3. /\ states' = [states EXCEPT ![k] = Recorded(@, "rollback_failed", t, FALSE)]
          /\ disk' = states' /\ UNCHANGED <<seen, lost>>
        BY <1>6 DEF Rerecord
    <2> HIDE DEF k, t
    <2> QED
        BY <2>1, <2>2, <2>3 DEF LatchInv, TypeOK
<1>7. CASE UNCHANGED vars
    BY <1>7 DEF vars, LatchInv
<1> QED
    BY <1>1, <1>2, <1>3, <1>4, <1>5, <1>6, <1>7 DEF Next

LEMMA LatchInvHolds == TypeOK /\ LatchInv => LatchHolds
BY DEF LatchInv, LatchHolds, Permits

\* While a failed rollback awaits a user's repair no automatic attempt on the resource
\* is let through, whatever crashes, restarts, late requests and failed writes there are.
THEOREM LatchCorrect == Spec => []LatchHolds
<1>1. Init => TypeOK /\ LatchInv
    BY InitType, LatchInit
<1>2. TypeOK /\ LatchInv /\ [Next]_vars => (TypeOK /\ LatchInv)'
    BY NextType, LatchNext
<1> QED
    BY <1>1, <1>2, LatchInvHolds, PTL DEF Spec
-----------------------------------------------------------------------------
(* Without a fault, the breaker and the history the orchestrator keeps agree.      *)

Times == Seq(Nat \ {0})

\* At time t, the failures on record are in the order of their times.
Ordered(F, t) ==
    /\ \A i, j \in 1..Len(F) : i <= j => F[i] <= F[j]
    /\ \A i \in 1..Len(F) : F[i] <= t

\* The failures on record that are the last of as many as trip a breaker, in its window.
Trips(F) == {i \in Threshold..Len(F) : F[i] <= F[i - Threshold + 1] + Window}

\* What the breaker has of the failures on record are the last of them, and what it has
\* not is out of the window, unless it has as many as it keeps.
Keeps(f, F, t) ==
    /\ Len(f) <= Len(F) /\ Len(f) <= Threshold
    /\ \A i \in 1..Len(f) : f[i] = F[Len(F) - Len(f) + i]
    /\ Len(f) < Len(F) /\ Len(f) < Threshold => F[Len(F) - Len(f)] + Window < t

\* An open breaker was opened by the last failure on record, and one that is not open has
\* waited for the last that opened it.
Tracks(s, F, t) ==
    /\ Keeps(s.failures, F, t)
    /\ IsOpen(s) => Len(F) \in Trips(F) /\ s.openedAt = F[Len(F)]
    /\ ~IsOpen(s) => \A i \in Trips(F) : F[i] + OpenTime <= t

\* Nothing is attempted on a breaker that is open, unless it is latched.
AgreeInv ==
    /\ lost = {} /\ ~attempt.resumed
    /\ \A k \in Keys :
          /\ Ordered(seen[k].failures, now)
          /\ states[k].latched \/ Tracks(states[k], seen[k].failures, now)
          /\ disk[k].latched \/ Tracks(disk[k], seen[k].failures, now)
          /\ attempt = Idle \/ attempt.key # k \/ states[k].latched \/ ~IsOpen(states[k])
          /\ manifests[k] = <<>> => ~states[k].latched /\ ~disk[k].latched /\ ~seen[k].latched
          /\ seen[k].latched => states[k].latched /\ disk[k].latched

LEMMA UpTo == ASSUME NEW n \in Nat PROVE IsFiniteSet(1..n) /\ Cardinality(1..n) = n
BY FS_Interval

LEMMA TimesAre ==
    ASSUME NEW F \in Times
    PROVE  Len(F) \in Nat /\ \A i \in 1..Len(F) : F[i] \in Nat /\ F[i] # 0
BY DEF Times

\* The old failures come first, and are what is dropped.
LEMMA CompactIs ==
    ASSUME NEW s \in State, NEW t \in Nat, Ordered(s.failures, t)
    PROVE  \E c \in 0..Len(s.failures) :
              /\ Len(Compact(s, t).failures) = Len(s.failures) - c
              /\ \A i \in 1..(Len(s.failures) - c) : Compact(s, t).failures[i] = s.failures[c + i]
              /\ \A i \in 1..c : s.failures[i] + Window < t
              /\ \A i \in (c + 1)..Len(s.failures) : s.failures[i] + Window >= t
<1> DEFINE f == s.failures
           old == {i \in 1..Len(f) : f[i] + Window < t}
           past == {i \in 1..Len(f) : f[i] <= t}
           c == Cardinality(old)
<1>1. f \in Times /\ Len(f) \in Nat /\ \A i \in 1..Len(f) : f[i] \in Nat \ {0}
    BY DEF State, Times
<1>2. past = 1..Len(f) /\ Cardinality(past) = Len(f)
    <2>1. past = 1..Len(f)
        BY DEF Ordered
    <2> HIDE DEF past, f
    <2> QED BY <1>1, <2>1, UpTo
<1>3. IsFiniteSet(old) /\ c \in 0..Len(f)
    <2>1. IsFiniteSet(1..Len(f)) /\ Cardinality(1..Len(f)) = Len(f)
        <3> HIDE DEF f
        <3> QED BY <1>1, UpTo
    <2>2. IsFiniteSet(old) /\ c <= Len(f)
        BY <2>1, FS_Subset
    <2> QED BY <2>2, FS_CardinalityType, <1>1
<1>4. old = 1..c
    <2>1. ASSUME NEW j \in old PROVE j <= c
        <3>1. 1..j \in SUBSET old
            BY <1>1, BreakerAssumptions DEF Ordered
        <3>2. Cardinality(1..j) = j /\ j \in Nat
            BY <1>1, FS_Interval
        <3> HIDE DEF old
        <3> QED BY <1>3, <3>1, <3>2, FS_Subset
    <2>2. old \in SUBSET (1..c)
        BY <1>3, <2>1
    <2>3. IsFiniteSet(1..c) /\ Cardinality(1..c) = c
        BY <1>3, UpTo
    <2> HIDE DEF old
    <2> QED BY <2>2, <2>3, FS_Subset
<1>5. Compact(s, t).failures = SubSeq(f, c + 1, Len(f))
    <2>1. Compact(s, t) = [s EXCEPT !.failures = SubSeq(f, c + 1, Cardinality(past))]
        BY DEF Compact
    <2> HIDE DEF f, c, past
    <2> QED BY <1>2, <2>1 DEF State
<1>6. /\ \A i \in 1..c : f[i] + Window < t
      /\ \A i \in (c + 1)..Len(f) : f[i] + Window >= t
    <2>1. \A i \in 1..c : f[i] + Window < t
        BY <1>4
    <2>2. \A i \in (c + 1)..Len(f) : f[i] + Window >= t
        <3> SUFFICES ASSUME NEW i \in (c + 1)..Len(f) PROVE f[i] + Window >= t
            OBVIOUS
        <3>1. i \in 1..Len(f) /\ i \notin 1..c
            BY <1>3
        <3>2. ~(f[i] + Window < t)
            BY <1>4, <3>1
        <3> QED BY <1>1, <3>1, <3>2, BreakerAssumptions
    <2> QED BY <2>1, <2>2
<1> HIDE DEF c, f
<1>7. /\ Len(SubSeq(f, c + 1, Len(f))) = Len(f) - c
      /\ \A i \in 1..(Len(f) - c) : SubSeq(f, c + 1, Len(f))[i] = f[c + i]
    <2>1. \A i \in (c + 1)..Len(f) : f[i] \in Nat \ {0}
        BY <1>1, <1>3
    <2>2. c + 1 \in Int /\ Len(f) \in Int
        BY <1>1, <1>3
    <2> QED BY <1>1, <1>3, <2>1, <2>2, SubSeqProperties
<1> QED BY <1>3, <1>5, <1>6, <1>7 DEF f

\* What the breaker has is in the order of its times.
LEMMA KeptOrdered ==
    ASSUME NEW f \in Times, NEW F \in Times, NEW t \in Nat, Ordered(F, t), Keeps(f, F, t)
    PROVE  Ordered(f, t)
<1>1. /\ Len(f) \in Nat /\ Len(F) \in Nat /\ Len(f) <= Len(F)
    BY TimesAre DEF Keeps
<1>2. \A i \in 1..Len(f) : f[i] = F[Len(F) - Len(f) + i] /\ Len(F) - Len(f) + i \in 1..Len(F)
    BY <1>1 DEF Keeps
<1>3. ASSUME NEW i \in 1..Len(f), NEW j \in 1..Len(f), i <= j PROVE f[i] <= f[j]
    <2>1. Len(F) - Len(f) + i <= Len(F) - Len(f) + j
        BY <1>1, <1>3
    <2> QED BY <1>2, <2>1 DEF Ordered
<1>4. \A i \in 1..Len(f) : f[i] <= t
    BY <1>2 DEF Ordered
<1> QED BY <1>3, <1>4 DEF Ordered

LEMMA CompactKeeps ==
    ASSUME NEW s \in State, NEW F \in Times, NEW t \in Nat, Ordered(F, t), Keeps(s.failures, F, t)
    PROVE  /\ Keeps(Compact(s, t).failures, F, t)
           /\ \A i \in 1..Len(Compact(s, t).failures) : Compact(s, t).failures[i] + Window >= t
<1> DEFINE f == s.failures
           g == Compact(s, t).failures
<1>1. f \in Times /\ Ordered(f, t)
    BY KeptOrdered DEF State, Times
<1>2. PICK c \in 0..Len(f) :
              /\ Len(g) = Len(f) - c
              /\ \A i \in 1..(Len(f) - c) : g[i] = f[c + i]
              /\ \A i \in 1..c : f[i] + Window < t
              /\ \A i \in (c + 1)..Len(f) : f[i] + Window >= t
    BY <1>1, CompactIs
<1>3. /\ Len(f) \in Nat /\ Len(F) \in Nat /\ Len(f) <= Len(F) /\ Len(f) <= Threshold
      /\ \A i \in 1..Len(f) : f[i] = F[Len(F) - Len(f) + i]
      /\ Len(f) < Len(F) /\ Len(f) < Threshold => F[Len(F) - Len(f)] + Window < t
    <2>1. Len(f) \in Nat /\ Len(F) \in Nat
        BY <1>1, TimesAre
    <2> QED BY <2>1 DEF Keeps
<1> HIDE DEF f, g
<1>4. Len(g) \in Nat /\ Len(g) <= Len(F) /\ Len(g) <= Threshold
    BY <1>2, <1>3, BreakerAssumptions
<1>5. ASSUME NEW i \in 1..Len(g) PROVE g[i] = F[Len(F) - Len(g) + i] /\ g[i] + Window >= t
    <2>1. i \in 1..(Len(f) - c) /\ c + i \in (c + 1)..Len(f) /\ c + i \in 1..Len(f)
        BY <1>2, <1>3, <1>5
    <2>2. g[i] = f[c + i] /\ f[c + i] = F[Len(F) - Len(f) + (c + i)] /\ f[c + i] + Window >= t
        BY <1>2, <1>3, <2>1
    <2>3. Len(F) - Len(f) + (c + i) = Len(F) - Len(g) + i
        BY <1>2, <1>3
    <2> QED BY <2>2, <2>3
<1>6. Len(g) < Len(F) /\ Len(g) < Threshold => F[Len(F) - Len(g)] + Window < t
    <2>1. CASE c = 0
        BY <1>2, <1>3, <2>1
    <2>2. CASE c # 0
        <3>1. c \in 1..Len(f) /\ Len(F) - Len(g) = Len(F) - Len(f) + c
            BY <1>2, <1>3, <2>2
        <3> QED BY <1>2, <1>3, <3>1
    <2> QED BY <2>1, <2>2
<1> QED BY <1>4, <1>5, <1>6 DEF Keeps, f, g

\* What opened a breaker, opens it for as long as the orchestrator says.
LEMMA TrippedIs ==
    ASSUME NEW s \in State, NEW F \in Times, NEW t \in Nat, Ordered(F, t), Tracks(s, F, t)
    PROVE  (\E i \in Trips(F) : t < F[i] + OpenTime) <=> (IsOpen(s) /\ ~Expired(s, t))
<1>1. Len(F) \in Nat /\ \A i \in 1..Len(F) : F[i] \in Nat
    BY DEF Times
<1>2. \A i \in Trips(F) : i \in 1..Len(F)
    BY <1>1, BreakerAssumptions DEF Trips
<1>3. CASE IsOpen(s)
    <2>1. Len(F) \in Trips(F) /\ s.openedAt = F[Len(F)] /\ Len(F) \in 1..Len(F)
        BY <1>2, <1>3 DEF Tracks
    <2>2. \A i \in Trips(F) : F[i] <= F[Len(F)]
        BY <1>2, <2>1 DEF Ordered
    <2> QED BY <1>1, <1>2, <1>3, <2>1, <2>2, BreakerAssumptions DEF Expired
<1>4. CASE ~IsOpen(s)
    BY <1>1, <1>2, <1>4, BreakerAssumptions DEF Tracks
<1> QED BY <1>3, <1>4

LEMMA AllowTracks ==
    ASSUME NEW s \in State, NEW F \in Times, NEW t \in Nat, Ordered(F, t), Tracks(s, F, t), ~s.latched
    PROVE  /\ Tracks(AfterAllow(s, t), F, t)
           /\ IsOpen(AfterAllow(s, t)) => IsOpen(s) /\ ~Expired(s, t)
<1>1. Len(F) \in Nat /\ \A i \in 1..Len(F) : F[i] \in Nat
    BY DEF Times
<1>2. \A i \in Trips(F) : i \in 1..Len(F)
    BY <1>1, BreakerAssumptions DEF Trips
<1>3. Compact(s, t) \in State /\ Compact(s, t).openedAt = s.openedAt
    BY CompactType
<1>4. CASE IsOpen(s) /\ Expired(s, t)
    <2>1. AfterAllow(s, t).failures = <<>> /\ AfterAllow(s, t).openedAt = 0
        BY <1>3, <1>4 DEF AfterAllow, State
    <2>2. /\ Len(F) \in 1..Len(F) /\ F[Len(F)] + OpenTime <= t
          /\ \A i \in Trips(F) : F[i] <= F[Len(F)]
        BY <1>1, <1>2, <1>4 DEF Tracks, Expired, Ordered
    <2>3. \A i \in Trips(F) : F[i] + OpenTime <= t
        BY <1>1, <1>2, <2>2, BreakerAssumptions
    <2>4. F[Len(F)] + Window < t
        BY <1>1, <2>2, BreakerAssumptions
    <2>5. Keeps(<<>>, F, t)
        BY <1>1, <2>4, BreakerAssumptions DEF Keeps
    <2> QED BY <2>1, <2>3, <2>5 DEF Tracks, IsOpen
<1>5. CASE ~(IsOpen(s) /\ Expired(s, t))
    <2>1. AfterAllow(s, t) = Compact(s, t)
        BY <1>5 DEF AfterAllow
    <2> QED BY <1>3, <1>5, <2>1, CompactKeeps DEF Tracks, IsOpen
<1> QED BY <1>4, <1>5

LEMMA RecordOrdered ==
    ASSUME NEW F \in Times, NEW t \in Nat \ {0}, Ordered(F, t)
    PROVE  Append(F, t) \in Times /\ Ordered(Append(F, t), t)
<1>1. /\ Append(F, t) \in Times /\ Len(Append(F, t)) = Len(F) + 1 /\ Len(F) \in Nat
      /\ \A i \in 1..Len(F) : Append(F, t)[i] = F[i] /\ F[i] \in Nat
      /\ Append(F, t)[Len(F) + 1] = t
    BY AppendProperties DEF Times
<1> QED BY <1>1 DEF Ordered

\* A failure on a breaker that is not open: it trips the breaker if the failures on record do.
LEMMA FailedTracks ==
    ASSUME NEW s \in State, NEW F \in Times, NEW t \in Nat \ {0}, NEW o,
           Ordered(F, t), Tracks(s, F, t), ~IsOpen(s)
    PROVE  Tracks(Failed(s, o, t), Append(F, t), t)
<1> DEFINE g == Compact(s, t).failures
           h == Append(g, t)
           f == Latest(h)
           G == Append(F, t)
           n == Len(F) + 1
<1>1. /\ g \in Times /\ Len(g) \in Nat /\ Len(F) \in Nat /\ Keeps(g, F, t)
      /\ \A i \in 1..Len(g) : g[i] + Window >= t /\ g[i] \in Nat
      /\ \A i \in 1..Len(F) : F[i] \in Nat
    <2>1. g \in Times /\ t \in Nat
        BY CompactType DEF State, Times
    <2>2. Keeps(g, F, t) /\ \A i \in 1..Len(g) : g[i] + Window >= t
        BY <2>1, CompactKeeps DEF Tracks
    <2> HIDE DEF g
    <2> QED BY <2>1, <2>2, TimesAre
<1>2. /\ Len(G) = n /\ n \in Nat /\ G[n] = t /\ \A i \in 1..Len(F) : G[i] = F[i]
    BY AppendProperties DEF Times
<1>3. /\ h \in Times /\ Len(h) = Len(g) + 1 /\ h[Len(g) + 1] = t /\ \A i \in 1..Len(g) : h[i] = g[i]
    BY <1>1, AppendProperties DEF Times
<1> HIDE DEF g, h, G
<1>4. /\ Len(g) <= Len(F) /\ Len(g) <= Threshold
      /\ \A i \in 1..Len(g) : g[i] = F[Len(F) - Len(g) + i]
      /\ Len(g) < Len(F) /\ Len(g) < Threshold => F[Len(F) - Len(g)] + Window < t
    BY <1>1 DEF Keeps
<1>5. \A i \in 1..Len(h) : h[i] = G[n - Len(h) + i] /\ h[i] + Window >= t
    <2> SUFFICES ASSUME NEW i \in 1..Len(h) PROVE h[i] = G[n - Len(h) + i] /\ h[i] + Window >= t
        OBVIOUS
    <2>1. CASE i = Len(g) + 1
        BY <1>1, <1>2, <1>3, <2>1, BreakerAssumptions
    <2>2. CASE i \in 1..Len(g)
        <3>1. Len(F) - Len(g) + i \in 1..Len(F) /\ n - Len(h) + i = Len(F) - Len(g) + i
            BY <1>1, <1>2, <1>3, <1>4, <2>2
        <3> QED BY <1>1, <1>2, <1>3, <1>4, <2>2, <3>1
    <2> QED BY <1>1, <1>3, <2>1, <2>2
<1>6. /\ Len(f) = IF Len(h) > Threshold THEN Threshold ELSE Len(h)
      /\ \A i \in 1..Len(f) : f[i] = h[Len(h) - Len(f) + i]
    <2>1. CASE Len(h) > Threshold
        <3>1. /\ Len(h) - Threshold + 1 \in Int /\ Len(h) \in Int /\ Threshold \in Nat
              /\ \A i \in (Len(h) - Threshold + 1)..Len(h) : h[i] \in Nat \ {0}
            <4>1. Len(h) \in Nat /\ \A i \in 1..Len(h) : h[i] \in Nat \ {0}
                BY <1>3, TimesAre
            <4>2. \A i \in (Len(h) - Threshold + 1)..Len(h) : i \in 1..Len(h)
                BY <2>1, <4>1, BreakerAssumptions
            <4> QED BY <4>1, <4>2, BreakerAssumptions
        <3>2. f = SubSeq(h, Len(h) - Threshold + 1, Len(h))
            BY <2>1 DEF Latest
        <3>3. /\ Len(f) = IF Len(h) - Threshold + 1 <= Len(h) THEN Len(h) - (Len(h) - Threshold + 1) + 1 ELSE 0
              /\ \A i \in 1..(Len(h) - (Len(h) - Threshold + 1) + 1) : f[i] = h[(Len(h) - Threshold + 1) + i - 1]
            <4> HIDE DEF f
            <4> QED BY <3>1, <3>2, SubSeqProperties
        <3> HIDE DEF f
        <3>4. Len(f) = Threshold
            BY <1>1, <1>3, <3>1, <3>3, BreakerAssumptions
        <3>5. \A i \in 1..Threshold : f[i] = h[Len(h) - Threshold + i]
            <4> SUFFICES ASSUME NEW i \in 1..Threshold PROVE f[i] = h[Len(h) - Threshold + i]
                OBVIOUS
            <4>1. i \in 1..(Len(h) - (Len(h) - Threshold + 1) + 1)
                  /\ (Len(h) - Threshold + 1) + i - 1 = Len(h) - Threshold + i
                BY <1>1, <1>3, <3>1
            <4> QED BY <3>3, <4>1
        <3> QED BY <2>1, <3>4, <3>5
    <2>2. CASE ~(Len(h) > Threshold)
        <3>1. f = h
            BY <2>2 DEF Latest
        <3> HIDE DEF f
        <3> QED BY <1>1, <1>3, <2>2, <3>1
    <2> QED BY <2>1, <2>2
<1> HIDE DEF f
<1>7. Len(f) \in Nat /\ Len(f) <= Len(h) /\ Len(f) <= Threshold /\ Len(h) \in Nat /\ Len(h) <= n
    BY <1>1, <1>2, <1>3, <1>4, <1>6, BreakerAssumptions
<1>8. Keeps(f, G, t)
    <2>1. \A i \in 1..Len(f) : f[i] = G[n - Len(f) + i]
        <3> SUFFICES ASSUME NEW i \in 1..Len(f) PROVE f[i] = G[n - Len(f) + i]
            OBVIOUS
        <3>1. Len(h) - Len(f) + i \in 1..Len(h)
            BY <1>7
        <3>2. n - Len(h) + (Len(h) - Len(f) + i) = n - Len(f) + i
            BY <1>2, <1>7
        <3> QED BY <1>5, <1>6, <3>1, <3>2
    <2>2. ASSUME Len(f) < n, Len(f) < Threshold PROVE G[n - Len(f)] + Window < t
        <3>1. Len(f) = Len(h) /\ Len(g) < Len(F) /\ Len(g) < Threshold
            BY <1>1, <1>3, <1>6, <1>7, <2>2, BreakerAssumptions
        <3>2. n - Len(f) = Len(F) - Len(g) /\ Len(F) - Len(g) \in 1..Len(F)
            BY <1>1, <1>3, <3>1
        <3> QED BY <1>2, <1>4, <3>1, <3>2
    <2> QED BY <1>2, <1>7, <2>1, <2>2 DEF Keeps
<1>9. n \in Trips(G) <=> Len(f) >= Threshold
    <2>1. ASSUME Len(f) >= Threshold PROVE n \in Trips(G)
        <3>1. Len(f) = Threshold /\ n - Threshold + 1 \in 1..n /\ n >= Threshold
            BY <1>2, <1>7, <2>1, BreakerAssumptions
        <3>2. f[1] = h[Len(h) - Threshold + 1] /\ Len(h) - Threshold + 1 \in 1..Len(h)
            <4>1. 1 \in 1..Len(f)
                BY <3>1, BreakerAssumptions
            <4>2. f[1] = h[Len(h) - Len(f) + 1]
                BY <1>6, <4>1
            <4>3. Len(h) - Threshold + 1 \in 1..Len(h)
                BY <1>7, <3>1, BreakerAssumptions
            <4> QED BY <3>1, <4>2, <4>3
        <3>3. n - Len(h) + (Len(h) - Threshold + 1) = n - Threshold + 1
            BY <1>2, <1>7, BreakerAssumptions
        <3>4. G[n - Threshold + 1] + Window >= t
            BY <1>5, <3>2, <3>3
        <3> QED BY <1>2, <3>1, <3>4, BreakerAssumptions DEF Trips
    <2>2. ASSUME n \in Trips(G), Len(f) < Threshold PROVE FALSE
        <3>1. n >= Threshold /\ t <= G[n - Threshold + 1] + Window
            BY <1>2, <2>2 DEF Trips
        <3>2. G[n - Len(f)] + Window < t
            BY <1>2, <1>8, <2>2, <3>1, BreakerAssumptions DEF Keeps
        <3>3. n - Threshold + 1 \in 1..Len(F) /\ n - Len(f) \in 1..Len(F) /\ n - Threshold + 1 <= n - Len(f)
            <4>1. Len(f) >= 1
                BY <1>1, <1>3, <1>6, BreakerAssumptions
            <4> QED BY <1>1, <1>7, <2>2, <3>1, <4>1, BreakerAssumptions
        <3>4. G[n - Threshold + 1] <= G[n - Len(f)]
            BY <1>2, <3>3 DEF Ordered
        <3>5. G[n - Threshold + 1] \in Nat /\ G[n - Len(f)] \in Nat
            BY <1>1, <1>2, <3>3
        <3> QED BY <3>1, <3>2, <3>4, <3>5, BreakerAssumptions
    <2> QED BY <1>7, <2>1, <2>2, BreakerAssumptions
<1>10. \A i \in Trips(G) : i = n \/ i \in Trips(F)
    <2> SUFFICES ASSUME NEW i \in Trips(G), i # n PROVE i \in Trips(F)
        OBVIOUS
    <2>1. i \in Threshold..Len(F) /\ i \in 1..Len(F) /\ i - Threshold + 1 \in 1..Len(F)
        BY <1>1, <1>2, BreakerAssumptions DEF Trips
    <2>2. G[i] <= G[i - Threshold + 1] + Window
        BY DEF Trips
    <2> QED BY <1>2, <2>1, <2>2 DEF Trips
<1>11. Failed(s, o, t).failures = f /\ Failed(s, o, t).openedAt = IF Len(f) >= Threshold THEN t ELSE s.openedAt
    BY DEF Failed, f, h, g
<1>12. \A i \in Trips(F) : F[i] + OpenTime <= t /\ i \in 1..Len(F)
    BY <1>1, BreakerAssumptions DEF Tracks, Trips
<1>13. CASE Len(f) >= Threshold
    BY <1>2, <1>8, <1>9, <1>11, <1>13 DEF Tracks, IsOpen, G
<1>14. CASE ~(Len(f) >= Threshold)
    <2>1. \A i \in Trips(G) : G[i] + OpenTime <= t
        BY <1>2, <1>9, <1>10, <1>12, <1>14
    <2> QED BY <1>8, <1>11, <1>14, <2>1 DEF Tracks, IsOpen, G
<1> QED BY <1>13, <1>14

LEMMA LaterTracks ==
    ASSUME NEW s \in State, NEW F \in Times, NEW t \in Nat, Ordered(F, t)
    PROVE  Ordered(F, t + 1) /\ (Tracks(s, F, t) => Tracks(s, F, t + 1))
<1>1. Len(F) \in Nat /\ \A i \in 1..Len(F) : F[i] \in Nat
    BY DEF Times
<1>2. Ordered(F, t + 1)
    BY <1>1 DEF Ordered
<1>3. \A i \in Trips(F) : i \in 1..Len(F)
    BY <1>1, BreakerAssumptions DEF Trips
<1>4. ASSUME Keeps(s.failures, F, t) PROVE Keeps(s.failures, F, t + 1)
    <2>1. Len(s.failures) \in Nat
        BY DEF State
    <2>2. Len(s.failures) < Len(F) => Len(F) - Len(s.failures) \in 1..Len(F)
        BY <1>1, <2>1
    <2>3. Len(s.failures) < Len(F) /\ Len(s.failures) < Threshold => F[Len(F) - Len(s.failures)] + Window < t + 1
        <3> DEFINE x == F[Len(F) - Len(s.failures)]
        <3> SUFFICES ASSUME Len(s.failures) < Len(F), Len(s.failures) < Threshold PROVE x + Window < t + 1
            OBVIOUS
        <3>1. x + Window < t
            BY <1>4 DEF Keeps
        <3>2. x \in Nat
            BY <1>1, <2>2
        <3> HIDE DEF x
        <3> QED BY <3>1, <3>2, BreakerAssumptions
    <2> QED BY <1>4, <2>3 DEF Keeps
<1>5. Tracks(s, F, t) => Tracks(s, F, t + 1)
    BY <1>1, <1>3, <1>4, BreakerAssumptions DEF Tracks
<1> QED BY <1>2, <1>5

LEMMA FreshTracks == ASSUME NEW t \in Nat PROVE Tracks(Fresh, <<>>, t) /\ Ordered(<<>>, t)
BY BreakerAssumptions DEF Tracks, Fresh, IsOpen, Keeps, Trips, Ordered

\* Without a fault.
Agree == case.faults = {} => AgreeInv

LEMMA AgreeInit == Init => Agree
<1> SUFFICES ASSUME Init PROVE AgreeInv
    BY DEF Agree
<1>1. now = 1 /\ now \in Nat /\ lost = {} /\ attempt = Idle
    BY DEF Init
<1>2. \A k \in Keys : states[k] = Fresh /\ disk[k] = Fresh /\ seen[k] = Clear /\ manifests[k] = <<>>
    BY DEF Init
<1>3. Tracks(Fresh, <<>>, now) /\ Ordered(<<>>, now)
    BY <1>1, FreshTracks
<1> QED BY <1>1, <1>2, <1>3 DEF AgreeInv, Fresh, Clear, Idle

LEMMA AgreeTick ==
    ASSUME TypeOK, AgreeInv, Tick PROVE AgreeInv'
<1>1. now' = now + 1 /\ now \in Nat
    BY DEF Tick, TypeOK
<1>2. UNCHANGED <<states, disk, attempt, manifests, seen, lost>>
    BY DEF Tick
<1>3. ASSUME NEW k \in Keys
      PROVE  /\ Ordered(seen[k].failures, now')
             /\ states[k].latched \/ Tracks(states[k], seen[k].failures, now')
             /\ disk[k].latched \/ Tracks(disk[k], seen[k].failures, now')
    <2>1. states[k] \in State /\ disk[k] \in State /\ seen[k].failures \in Times
        BY DEF TypeOK, Reported, Times
    <2>2. Ordered(seen[k].failures, now)
        BY DEF AgreeInv
    <2> QED BY <1>1, <2>1, <2>2, LaterTracks DEF AgreeInv
<1> QED BY <1>2, <1>3 DEF AgreeInv

LEMMA AgreeRestart ==
    ASSUME TypeOK, AgreeInv, Restart, case.faults = {} PROVE AgreeInv'
<1>1. attempt' = Idle /\ states' = disk /\ UNCHANGED <<now, disk, manifests, seen, lost>>
    BY DEF Restart
<1> QED BY <1>1 DEF AgreeInv, Idle

LEMMA TrippedTrips ==
    ASSUME NEW r \in Reported, NEW t \in Nat
    PROVE  Tripped(r, t) <=> \E i \in Trips(r.failures) : t < r.failures[i] + OpenTime
BY DEF Tripped, Trips

LEMMA AgreeAllow ==
    ASSUME TypeOK, AgreeInv, case.faults = {}, NEW k \in Keys, NEW source \in Sources,
           Allow(k, source)
    PROVE  AgreeInv'
<1> DEFINE s == states[k]
           F == seen[k].failures
<1>1. s \in State /\ F \in Times /\ seen[k] \in Reported /\ now \in Nat /\ s.latched \in BOOLEAN
    BY DEF TypeOK, Reported, Times, State
<1>2. Ordered(F, now) /\ (s.latched \/ Tracks(s, F, now))
    BY DEF AgreeInv
<1>3. /\ states' = [states EXCEPT ![k] = AfterAllow(s, now)]
      /\ UNCHANGED <<now, disk, manifests, seen, lost>>
    BY DEF Allow
<1>4. AfterAllow(s, now).latched = s.latched
    BY <1>1, AfterAllowType
<1>5. /\ states'[k] = AfterAllow(s, now) /\ \A j \in Keys \ {k} : states'[j] = states[j]
    BY <1>3 DEF TypeOK
<1>6. attempt' = Idle \/ (attempt' = [key |-> k, source |-> source, resumed |-> FALSE]
                          /\ Permits(s, source, now) /\ (source = "user" => Requestable(k)))
    BY DEF Allow
<1>7. s.latched \/ Tracks(states'[k], F, now)
    BY <1>1, <1>2, <1>5, AllowTracks
<1>8. attempt' = Idle \/ s.latched \/ ~IsOpen(states'[k])
    <2> SUFFICES ASSUME attempt' # Idle, ~s.latched, IsOpen(states'[k]) PROVE FALSE
        OBVIOUS
    <2>1. IsOpen(s) /\ ~Expired(s, now) /\ Tracks(s, F, now)
        BY <1>1, <1>2, <1>5, AllowTracks
    <2>2. Tripped(seen[k], now)
        BY <1>1, <1>2, <2>1, TrippedIs, TrippedTrips
    <2>3. ~seen[k].latched
        BY DEF AgreeInv
    <2>4. source # "user"
        BY <1>6, <2>2, <2>3 DEF Requestable
    <2> QED BY <1>6, <2>1, <2>4 DEF Permits
<1>9. ~attempt'.resumed
    BY <1>6 DEF Idle
<1>10. \A j \in Keys \ {k} : attempt' = Idle \/ attempt'.key # j
    BY <1>6
<1> HIDE DEF s, F
<1>11. /\ Ordered(seen'[k].failures, now')
       /\ states'[k].latched \/ Tracks(states'[k], seen'[k].failures, now')
       /\ disk'[k].latched \/ Tracks(disk'[k], seen'[k].failures, now')
       /\ attempt' = Idle \/ attempt'.key # k \/ states'[k].latched \/ ~IsOpen(states'[k])
       /\ manifests'[k] = <<>> => ~states'[k].latched /\ ~disk'[k].latched /\ ~seen'[k].latched
       /\ seen'[k].latched => states'[k].latched /\ disk'[k].latched
    <2>1. states'[k].latched = s.latched
        BY <1>4, <1>5
    <2>2. s = states[k] /\ F = seen[k].failures
        BY DEF s, F
    <2> QED BY <1>2, <1>3, <1>7, <1>8, <2>1, <2>2 DEF AgreeInv
<1>12. ASSUME NEW j \in Keys, j # k
       PROVE  /\ Ordered(seen'[j].failures, now')
              /\ states'[j].latched \/ Tracks(states'[j], seen'[j].failures, now')
              /\ disk'[j].latched \/ Tracks(disk'[j], seen'[j].failures, now')
              /\ attempt' = Idle \/ attempt'.key # j \/ states'[j].latched \/ ~IsOpen(states'[j])
              /\ manifests'[j] = <<>> => ~states'[j].latched /\ ~disk'[j].latched /\ ~seen'[j].latched
              /\ seen'[j].latched => states'[j].latched /\ disk'[j].latched
    BY <1>3, <1>5, <1>10, <1>12 DEF AgreeInv
<1>13. lost' = {}
    BY <1>3 DEF AgreeInv
<1> QED BY <1>9, <1>11, <1>12, <1>13 DEF AgreeInv

\* What an outcome does to the key of the attempt.
LEMMA AgreeRecordKey ==
    ASSUME TypeOK, AgreeInv, NEW o \in Outcomes, Record(o), NEW k, k = attempt.key
    PROVE  /\ k \in Keys
           /\ Ordered(seen'[k].failures, now)
           /\ states'[k].latched \/ Tracks(states'[k], seen'[k].failures, now)
           /\ manifests'[k] = <<>> => ~states'[k].latched /\ ~seen'[k].latched
           /\ seen'[k].latched => states'[k].latched
<1> DEFINE s == states[k]
           F == seen[k].failures
           manual == attempt.source = "user" /\ ~attempt.resumed
<1>1. /\ Report(o) /\ k \in Keys /\ o \in AllOutcomes /\ attempt # Idle
      /\ states' = [states EXCEPT ![k] = Recorded(s, o, now, manual)]
    <2>1. Report(o) /\ states' = [states EXCEPT ![k] = Recorded(s, o, now, manual)]
        BY DEF Record
    <2> QED BY <2>1, ReportType, ModelAssumptions DEF Report
<1>2. /\ s \in State /\ F \in Times /\ now \in Nat \ {0} /\ now \in Nat
      /\ s.latched \in BOOLEAN /\ seen[k].latched \in BOOLEAN
    BY <1>1 DEF TypeOK, Reported, Times, State
<1>3. /\ Ordered(F, now) /\ (s.latched \/ Tracks(s, F, now)) /\ (s.latched \/ ~IsOpen(s))
      /\ (manifests[k] = <<>> => ~s.latched /\ ~seen[k].latched)
      /\ (seen[k].latched => s.latched) /\ ~attempt.resumed
    BY <1>1 DEF AgreeInv
<1>4. states'[k] = Recorded(s, o, now, manual)
    BY <1>1 DEF TypeOK
<1>5. seen'[k] = IF o = "succeeded"
                 THEN [failures |-> <<>>, latched |-> seen[k].latched /\ attempt.source # "user"]
                 ELSE [failures |-> Append(F, now),
                       latched  |-> seen[k].latched \/ o = "rollback_failed"]
    BY <1>1 DEF Report, TypeOK
<1>6. manifests'[k] = <<>> => o # "rollback_failed" /\ manifests[k] = <<>>
    <2>1. CASE o = "rollback_failed"
        <3>1. manifests'[k] = Append(manifests[k], now) /\ manifests[k] \in Seq(Nat \ {0})
            BY <1>1, <2>1 DEF Report, TypeOK
        <3>2. Len(Append(manifests[k], now)) = Len(manifests[k]) + 1 /\ Len(manifests[k]) \in Nat
            BY <1>2, <3>1, AppendProperties
        <3>3. Len(<<>>) = 0
            OBVIOUS
        <3>4. manifests'[k] # <<>>
            BY <3>1, <3>2, <3>3
        <3> QED BY <2>1, <3>4
    <2>2. CASE o # "rollback_failed"
        BY <1>1, <2>2 DEF Report
    <2> QED BY <2>1, <2>2
<1> HIDE DEF s, F
<1>7. CASE o = "succeeded"
    <2>1. seen'[k].failures = <<>> /\ seen'[k].latched = (seen[k].latched /\ attempt.source # "user")
        BY <1>5, <1>7
    <2>2. manual = (attempt.source = "user")
        BY <1>3
    <2>3. Tracks(Fresh, <<>>, now) /\ Ordered(<<>>, now) /\ ~Fresh.latched
        BY <1>2, FreshTracks DEF Fresh
    <2> HIDE DEF manual
    <2>4. CASE s.latched /\ ~manual
        <3>1. states'[k] = s
            BY <1>4, <1>7, <2>4 DEF Recorded
        <3> QED BY <1>1, <1>3, <1>6, <2>1, <2>3, <2>4, <3>1
    <2>5. CASE ~(s.latched /\ ~manual)
        <3>1. states'[k] = Fresh
            BY <1>4, <1>7, <2>5 DEF Recorded
        <3>2. ~seen'[k].latched
            BY <1>3, <2>1, <2>2, <2>5
        <3> QED BY <1>1, <2>1, <2>3, <3>1, <3>2
    <2> QED BY <2>4, <2>5
<1>8. CASE o # "succeeded"
    <2>1. seen'[k].failures = Append(F, now) /\ seen'[k].latched = (seen[k].latched \/ o = "rollback_failed")
        BY <1>5, <1>8
    <2>2. states'[k] = Failed(s, o, now)
        BY <1>4, <1>8 DEF Recorded
    <2>3. states'[k].latched = (s.latched \/ o = "rollback_failed")
        BY <1>1, <1>2, <2>2, FailedType
    <2>4. Ordered(seen'[k].failures, now)
        BY <1>2, <1>3, <2>1, RecordOrdered
    <2>5. s.latched \/ Tracks(states'[k], seen'[k].failures, now)
        BY <1>2, <1>3, <2>1, <2>2, FailedTracks
    <2> QED BY <1>1, <1>3, <1>6, <2>1, <2>3, <2>4, <2>5
<1> QED BY <1>7, <1>8

LEMMA AgreeRecord ==
    ASSUME TypeOK, AgreeInv, NEW o \in Outcomes, Record(o)
    PROVE  AgreeInv'
<1> DEFINE k == attempt.key
<1>1. /\ k \in Keys
      /\ Ordered(seen'[k].failures, now)
      /\ states'[k].latched \/ Tracks(states'[k], seen'[k].failures, now)
      /\ manifests'[k] = <<>> => ~states'[k].latched /\ ~seen'[k].latched
      /\ seen'[k].latched => states'[k].latched
    BY AgreeRecordKey
<1>2. Report(o) /\ disk' = states'
      /\ states' = [states EXCEPT ![k] = Recorded(states[k], o, now, attempt.source = "user" /\ ~attempt.resumed)]
    BY DEF Record
<1>3. attempt' = Idle /\ now' = now
    BY <1>2 DEF Report
<1>4. lost' = {}
    BY DEF Record, AgreeInv
<1>5. ASSUME NEW j \in Keys, j # k
      PROVE  states'[j] = states[j] /\ seen'[j] = seen[j] /\ manifests'[j] = manifests[j]
    <2>1. states'[j] = states[j]
        BY <1>2, <1>5 DEF TypeOK
    <2>2. seen'[j] = seen[j] /\ manifests'[j] = manifests[j]
        BY <1>2, <1>5 DEF Report, TypeOK
    <2> QED BY <2>1, <2>2
<1> HIDE DEF k
<1>6. ASSUME NEW j \in Keys
      PROVE  /\ Ordered(seen'[j].failures, now)
             /\ states'[j].latched \/ Tracks(states'[j], seen'[j].failures, now)
             /\ manifests'[j] = <<>> => ~states'[j].latched /\ ~seen'[j].latched
             /\ seen'[j].latched => states'[j].latched
    <2>1. CASE j = k
        BY <1>1, <2>1
    <2>2. CASE j # k
        BY <1>5, <2>2 DEF AgreeInv
    <2> QED BY <2>1, <2>2
<1> QED BY <1>2, <1>3, <1>4, <1>6 DEF AgreeInv, Idle

LEMMA AgreeRerecord ==
    ASSUME TypeOK, AgreeInv, NEW p \in pending, Rerecord(p[1], p[2])
    PROVE  AgreeInv'
<1> DEFINE k == p[1]
           t == manifests[k][p[2]]
<1>1. k \in Keys /\ t \in Nat \ {0} /\ manifests[k] # <<>>
    <2>1. k \in Keys /\ p[2] \in DOMAIN manifests[k]
        BY DEF TypeOK
    <2>2. manifests[k] \in Seq(Nat \ {0})
        BY <2>1 DEF TypeOK
    <2> QED BY <2>1, <2>2
<1>2. Recorded(states[k], "rollback_failed", t, FALSE).latched
    BY <1>1, RecordedLatched DEF TypeOK, AllOutcomes
<1>3. /\ states' = [states EXCEPT ![k] = Recorded(@, "rollback_failed", t, FALSE)]
      /\ disk' = states' /\ UNCHANGED <<now, attempt, manifests, seen, lost>>
    BY DEF Rerecord
<1>4. states'[k].latched /\ \A j \in Keys \ {k} : states'[j] = states[j]
    BY <1>1, <1>2, <1>3 DEF TypeOK
<1> HIDE DEF k, t
<1>5. ASSUME NEW j \in Keys
      PROVE  /\ Ordered(seen[j].failures, now)
             /\ states'[j].latched \/ Tracks(states'[j], seen[j].failures, now)
             /\ attempt = Idle \/ attempt.key # j \/ states'[j].latched \/ ~IsOpen(states'[j])
             /\ manifests[j] = <<>> => ~states'[j].latched /\ ~seen[j].latched
             /\ seen[j].latched => states'[j].latched
    <2>1. CASE j = k
        BY <1>1, <1>4, <2>1 DEF AgreeInv
    <2>2. CASE j # k
        BY <1>4, <2>2 DEF AgreeInv
    <2> QED BY <2>1, <2>2
<1> QED BY <1>3, <1>5 DEF AgreeInv

LEMMA AgreeNext == TypeOK /\ Agree /\ [Next]_vars => Agree'
<1> SUFFICES ASSUME TypeOK, Agree, [Next]_vars, case'.faults = {} PROVE AgreeInv'
    BY DEF Agree
<1>1. case' = case
    BY DEF Next, vars, Tick, Restart, Allow, Record, RecordFails, Report, Rerecord
<1>2. case.faults = {} /\ AgreeInv
    BY <1>1 DEF Agree
<1>3. CASE Tick
    BY <1>2, <1>3, AgreeTick
<1>4. CASE Restart
    BY <1>2, <1>4, AgreeRestart
<1>5. ASSUME NEW k \in Keys, NEW source \in Sources, Allow(k, source) PROVE AgreeInv'
    BY <1>2, <1>5, AgreeAllow
<1>6. ASSUME NEW o \in Outcomes, Record(o) PROVE AgreeInv'
    BY <1>2, <1>6, AgreeRecord
<1>7. ASSUME NEW o \in Outcomes, RecordFails(o) PROVE AgreeInv'
    BY <1>2, <1>7 DEF RecordFails
<1>8. ASSUME NEW p \in pending, Rerecord(p[1], p[2]) PROVE AgreeInv'
    BY <1>2, <1>8, AgreeRerecord
<1>9. CASE UNCHANGED vars
    BY <1>2, <1>9 DEF vars, AgreeInv
<1> QED BY <1>3, <1>4, <1>5, <1>6, <1>7, <1>8, <1>9 DEF Next

LEMMA AgreeHolds == TypeOK /\ Agree => BreakersAgree
<1> SUFFICES ASSUME TypeOK, AgreeInv, NEW k \in Keys
             PROVE  /\ OrchestratorOpen(k) => ~Permits(states[k], "automatic", now)
                    /\ ~OrchestratorOpen(k) /\ manifests[k] = <<>> => Permits(states[k], "automatic", now)
    BY DEF Agree, BreakersAgree
<1>1. /\ states[k] \in State /\ seen[k] \in Reported /\ seen[k].failures \in Times /\ now \in Nat
    BY DEF TypeOK, Reported, Times
<1>2. /\ Ordered(seen[k].failures, now)
      /\ states[k].latched \/ Tracks(states[k], seen[k].failures, now)
      /\ manifests[k] = <<>> => ~states[k].latched
      /\ seen[k].latched => states[k].latched
    BY DEF AgreeInv
<1>3. ~states[k].latched => (Tripped(seen[k], now) <=> (IsOpen(states[k]) /\ ~Expired(states[k], now)))
    BY <1>1, <1>2, TrippedIs, TrippedTrips
<1> QED BY <1>2, <1>3 DEF OrchestratorOpen, Permits

\* Without a fault the agent's breaker and the history the orchestrator keeps give the
\* same answer to an automatic attempt, after any number of attempts, restarts and
\* clearings, for every threshold, window and open time: the times a breaker forgets are
\* never ones the history would still count.
THEOREM AgreeCorrect == Spec => []BreakersAgree
<1>1. Init => TypeOK /\ Agree
    BY InitType, AgreeInit
<1>2. TypeOK /\ Agree /\ [Next]_vars => (TypeOK /\ Agree)'
    BY NextType, AgreeNext
<1> QED
    BY <1>1, <1>2, AgreeHolds, PTL DEF Spec
-----------------------------------------------------------------------------
(* Repairs by offers, and diagnoses (Diagnosis).                             *)

(* What an offer is: a marked temp, or a marked vhost, with the link that leads to it or without. *)
OfTemp(c)   == c.does = "temp" /\ DOMAIN c.was = {"temp"} /\ c.was["temp"].text = "ours"
OfOrphan(c) ==
    /\ c.does = "prune" /\ DOMAIN c.was \in {{"vhost"}, {"vhost", "link"}} /\ c.was["vhost"].text = "ours"
    /\ "link" \in DOMAIN c.was => c.was["link"].text = "vhost"
OfferForms == \A id \in DOMAIN offers : OfTemp(offers[id]) \/ OfOrphan(offers[id])

(* Once the files were inspected, or could not be, an orphan on offer is one, or aged. *)
OffersOwed ==
    turn.at # "inspect" => \A id \in DOMAIN offers : OfOrphan(offers[id]) => want = "none" \/ offers[id] \in aged

(* The inductive invariant of the repairs. *)
OfferInv == want \in Wants /\ OfferForms /\ OffersOwed /\ RepairsOnlyItsOwn

(* What an inspection offers is such an offer, and an orphan only of a host not wanted. *)
LEMMA OfferedAre ==
    ASSUME NEW c \in OfferedRepairs
    PROVE  /\ OfTemp(c) \/ OfOrphan(c)
           /\ OfOrphan(c) /\ want \in Wants => want = "none"
<1>1. CASE IsMarkedFile("temp") /\ c = [does |-> "temp", was |-> CapturedAt({"temp"})]
  <2>1. OfTemp(c)
      BY <1>1 DEF OfTemp, CapturedAt, IsMarkedFile
  <2> QED BY <2>1 DEF OfTemp, OfOrphan
<1>2. CASE IsMarkedFile("vhost") /\ "vhost" \notin KeepTargets /\ c = [does |-> "prune", was |-> CapturedAt(OrphanPlaces)]
  <2>1. c.does = "prune" /\ c.was = CapturedAt(OrphanPlaces)
      BY <1>2
  <2>2. DOMAIN c.was = OrphanPlaces /\ \A p \in OrphanPlaces : c.was[p] = Entry(p)
      BY <2>1 DEF CapturedAt
  <2>3. /\ OrphanPlaces \in {{"vhost"}, {"vhost", "link"}}
        /\ "link" \in OrphanPlaces => Entry("link").text = "vhost"
      BY DEF OrphanPlaces
  <2>4. OfOrphan(c)
      BY <1>2, <2>1, <2>2, <2>3 DEF OfOrphan, IsMarkedFile
  <2>5. want \in Wants => want = "none"
      BY <1>2 DEF KeepTargets, Wants
  <2> QED BY <2>4, <2>5
<1> QED BY <1>1, <1>2 DEF OfferedRepairs

(* What a repair removes by such an offer is as it was when it was inspected. *)
LEMMA RemovalOwed ==
    ASSUME OfferInv, turn.at # "inspect", NEW id \in DOMAIN offers, StillInspected(offers[id]), NEW r \in Removal(offers[id])
    PROVE  /\ r.entry.text = (IF r.at = "link" THEN "vhost" ELSE "ours")
           /\ r.at # "temp" => r.wish = "none" \/ r.aged
<1> DEFINE c == offers[id]
<1>1. PICK p \in DOMAIN c.was : r = [at |-> p, entry |-> Entry(p), wish |-> want, aged |-> c \in aged]
    BY DEF Removal
<1>2. r.at = p /\ r.entry = Entry(p) /\ r.wish = want /\ r.aged = (c \in aged)
    BY <1>1
<1>3. Entry(p) = c.was[p]
    BY <1>1 DEF StillInspected
<1>4. /\ OfTemp(c) \/ OfOrphan(c)
      /\ OfOrphan(c) => want = "none" \/ c \in aged
    BY DEF OfferInv, OfferForms, OffersOwed
<1> HIDE DEF c
<1>5. CASE OfTemp(c)
    BY <1>1, <1>2, <1>3, <1>5 DEF OfTemp
<1>6. CASE OfOrphan(c)
    BY <1>1, <1>2, <1>3, <1>4, <1>6 DEF OfOrphan
<1> QED BY <1>4, <1>5, <1>6

(* The offers that remain were there before. *)
Fewer == \A id \in DOMAIN offers' : \E old \in DOMAIN offers : offers'[id] = offers[old]

(* With no new offers the invariant stays, if what was cleared stays within it. *)
LEMMA FewerKeeps ==
    ASSUME OfferInv, Fewer, aged' = aged, want' = want, turn.at # "inspect", RepairsOnlyItsOwn'
    PROVE  OfferInv'
BY DEF OfferInv, OfferForms, OffersOwed, Fewer, OfTemp, OfOrphan

(* A repair, carried out, undone or refused, keeps the invariant. *)
LEMMA RepairKeeps ==
    ASSUME OfferInv, turn.at # "inspect", NEW id, NEW source, Repair(id, source), aged' = aged, want' = want
    PROVE  OfferInv'
<1>1. CASE ~Repairable(id, source)
  <2>1. UNCHANGED <<offers, cleared>>
      BY <1>1 DEF Repair
  <2>2. Fewer /\ RepairsOnlyItsOwn'
      BY <2>1 DEF Fewer, OfferInv, RepairsOnlyItsOwn
  <2> QED BY <2>2, FewerKeeps
<1>2. CASE Repairable(id, source)
  <2>1. id \in DOMAIN offers /\ ((StillInspected(offers[id]) /\ Repaired(id)) \/ RepairUndone(id))
      BY <1>2 DEF Repair, Repairable
  <2>2. Fewer
    <3>1. CASE Repaired(id)
        BY <3>1 DEF Repaired, Only, Fewer
    <3>2. CASE RepairUndone(id)
        BY <3>2 DEF RepairUndone, Fewer
    <3> QED BY <2>1, <3>1, <3>2
  <2>3. cleared' = cleared \/ (StillInspected(offers[id]) /\ cleared' = Removal(offers[id]))
      BY <2>1 DEF Repaired, RepairUndone
  <2>4. RepairsOnlyItsOwn'
    <3>1. CASE cleared' = cleared
        BY <3>1 DEF OfferInv, RepairsOnlyItsOwn
    <3>2. CASE StillInspected(offers[id]) /\ cleared' = Removal(offers[id])
        BY <2>1, <3>2, RemovalOwed DEF RepairsOnlyItsOwn
    <3> QED BY <2>3, <3>1, <3>2
  <2> QED BY <2>2, <2>4, FewerKeeps
<1> QED BY <1>1, <1>2

(* An inspection keeps the invariant: it makes new offers, and what stands besides is aged. *)
LEMMA InspectedKeeps ==
    ASSUME OfferInv, InspectPush
    PROVE  OfferInv'
<1> DEFINE CandidateOf(id) == CHOOSE c \in OfferedRepairs : CandidateId(c) = id
           standing == InspectedIds \cup incidents
           ids == InspectedIds \cup (DOMAIN offers \cap standing)
<1>1. /\ offers' = [id \in ids |-> IF id \in InspectedIds THEN CandidateOf(id) ELSE offers[id]]
      /\ aged' = {offers[id] : id \in (DOMAIN offers \cap incidents) \ InspectedIds} \ OfferedRepairs
      /\ want' = want /\ cleared' = cleared
    BY DEF InspectPush, Inspected
<1>2. \A id \in InspectedIds : CandidateOf(id) \in OfferedRepairs
    BY DEF InspectedIds
<1> HIDE DEF CandidateOf
<1>3. ASSUME NEW id \in DOMAIN offers'
      PROVE  /\ OfTemp(offers'[id]) \/ OfOrphan(offers'[id])
             /\ OfOrphan(offers'[id]) => want = "none" \/ offers'[id] \in aged'
  <2>1. CASE offers'[id] \in OfferedRepairs
      BY <2>1, OfferedAre DEF OfferInv
  <2>2. CASE offers'[id] \notin OfferedRepairs
    <3>1. id \notin InspectedIds /\ id \in DOMAIN offers \cap standing /\ offers'[id] = offers[id]
        BY <1>1, <1>2, <2>2
    <3> QED BY <1>1, <2>2, <3>1 DEF OfferInv, OfferForms
  <2> QED BY <2>1, <2>2
<1>4. OfferForms' /\ OffersOwed'
    BY <1>1, <1>3 DEF OfferForms, OffersOwed, OfTemp, OfOrphan
<1> QED BY <1>1, <1>4 DEF OfferInv, RepairsOnlyItsOwn

(* An observation keeps the invariant: what it files is an offer that stands. *)
LEMMA ObservedKeeps ==
    ASSUME OfferInv, ObserveFailure
    PROVE  OfferInv'
<1> DEFINE d == Diagnose(turn.report)
           ob == ObservedId(d)
<1>1. /\ turn.at = "report" /\ UNCHANGED <<aged, want, cleared>>
      /\ \/ offers' = offers
         \/ \E c \in Matching(d) : offers' = Noted(offers, ob, c)
    BY DEF ObserveFailure, Observed
<1> HIDE DEF d, ob
<1>2. Fewer
    BY <1>1 DEF Fewer, Noted, Matching
<1> QED BY <1>1, <1>2, FewerKeeps DEF OfferInv, RepairsOnlyItsOwn

(* A repair removes only a marked file or the link that leads to it, of a host that is not *)
(* wanted; unless its offer is aged.                                                        *)
THEOREM OwnCorrect == DiagnosisSpec => []RepairsOnlyItsOwn
<1>1. DiagnosisInit => OfferInv
    BY DEF DiagnosisInit, OfferInv, OfferForms, OffersOwed, RepairsOnlyItsOwn, Wants
<1>2. OfferInv /\ [DiagnosisNext]_diagnosisVars => OfferInv'
  <2> SUFFICES ASSUME OfferInv, [DiagnosisNext]_diagnosisVars PROVE OfferInv'
      OBVIOUS
  <2>1. ASSUME UNCHANGED <<offers, want, aged, cleared>>, turn.at # "inspect" PROVE OfferInv'
      BY <2>1, FewerKeeps DEF Fewer, OfferInv, RepairsOnlyItsOwn
  <2>2. ASSUME UNCHANGED <<offers, want, aged, cleared, turn>> PROVE OfferInv'
      BY <2>2 DEF OfferInv, OfferForms, OffersOwed, RepairsOnlyItsOwn, OfTemp, OfOrphan
  <2>3. ASSUME NEW w \in Wants, BeginPush(w) PROVE OfferInv'
      BY <2>3 DEF BeginPush, TurnTo, Coordinator, OfferInv, OfferForms, OffersOwed, RepairsOnlyItsOwn, OfTemp, OfOrphan
  <2>4. ASSUME InspectionFails PROVE OfferInv'
    <3>1. UNCHANGED <<offers, want, cleared>> /\ aged' = {offers[id] : id \in DOMAIN offers}
        BY <2>4 DEF InspectionFails, Coordinator
    <3> QED BY <3>1 DEF OfferInv, OfferForms, OffersOwed, RepairsOnlyItsOwn, OfTemp, OfOrphan
  <2>5. ASSUME NEW id \in turn.left, RepairFound(id) PROVE OfferInv'
    <3>1. Repair(id, "automatic") /\ turn.at # "inspect" /\ aged' = aged /\ want' = want
        BY <2>5 DEF RepairFound
    <3> QED BY <3>1, RepairKeeps
  <2>6. ASSUME NEW id \in DOMAIN notes, UserRequest(id) PROVE OfferInv'
    <3>1. Repair(id, "user") /\ turn.at # "inspect" /\ aged' = aged /\ want' = want
        BY <2>6 DEF UserRequest
    <3> QED BY <3>1, RepairKeeps
  <2>7. ASSUME AgentDies PROVE OfferInv'
    <3>1. UNCHANGED <<want, aged, cleared>> /\ offers' = <<>> /\ turn.at # "inspect"
        BY <2>7 DEF AgentDies, Past
    <3>2. Fewer
        BY <3>1 DEF Fewer
    <3> QED BY <3>1, <3>2, FewerKeeps DEF OfferInv, RepairsOnlyItsOwn
  <2>8. ASSUME RepairsDone PROVE OfferInv'
    <3>1. UNCHANGED <<offers, want, aged, cleared>> /\ turn.at # "inspect"
        BY <2>8 DEF RepairsDone, Coordinator
    <3> QED BY <2>1, <3>1
  <2>9. ASSUME Applied PROVE OfferInv'
    <3>1. UNCHANGED <<offers, want, aged, cleared>> /\ turn.at # "inspect"
        BY <2>9 DEF Applied, Coordinator, Past
    <3> QED BY <2>1, <3>1
  <2>10. ASSUME NEW r \in supply.reports, ApplyFails(r) PROVE OfferInv'
    <3>1. UNCHANGED <<offers, want, aged, cleared>> /\ turn.at # "inspect"
        BY <2>10 DEF ApplyFails, Coordinator, Past
    <3> QED BY <2>1, <3>1
  <2>11. ASSUME NEW p \in {"vhost", "link", "temp"}, OperatorTouches(p) PROVE OfferInv'
    <3>1. UNCHANGED <<offers, want, aged, cleared, turn>>
        BY <2>11 DEF OperatorTouches, Coordinator, Past
    <3> QED BY <2>2, <3>1
  <2>12. CASE UNCHANGED diagnosisVars
      BY <2>2, <2>12 DEF diagnosisVars
  <2> QED BY <2>3, <2>4, <2>5, <2>6, <2>7, <2>8, <2>9, <2>10, <2>11, <2>12, InspectedKeeps, ObservedKeeps DEF DiagnosisNext
<1>3. OfferInv => RepairsOnlyItsOwn
    BY DEF OfferInv
<1> QED BY <1>1, <1>2, <1>3, PTL DEF DiagnosisSpec

(* Nothing is decided about an unknown failure. *)
LEMMA UnknownIsJust ==
    ASSUME NEW r
    PROVE  JustVerdict(r, UnknownFailure)
BY DEF JustVerdict, ValidDiagnostic, HasHardAction, HardActions, UnknownFailure, Verdict

(* A change of the host is offered just when the helper has an action for it. *)
LEMMA HardIsJust ==
    ASSUME NEW r, NEW code, NEW scope, NEW refusal, <<code, scope>> \in HardActions <=> refusal = "none"
    PROVE  JustVerdict(r, HardSystem(code, scope, refusal))
BY DEF JustVerdict, ValidDiagnostic, HasHardAction, HardSystem, Verdict

(* A verdict on a file is just: what may be repaired is a file of NurProxy's, what is an
   operator's is not. *)
LEMMA FileIsJust ==
    ASSUME NEW r, ~HostRefused(r), NEW code, NEW owner, NEW action, NEW refusal, NEW p,
           code # "unknown_proxy_error",
           refusal = "none" => owner = "nurproxy" /\ action # "none" /\ OfNurProxy(p) /\ (p # "temp" => want # "route"),
           owner = "operator" => ~OfNurProxy(p)
    PROVE  JustVerdict(r, OfFile(code, owner, action, refusal, p))
BY DEF JustVerdict, ValidDiagnostic, HasHardAction, HardActions, OfFile, Verdict

(* No failure is attributed by the certificate files it names. *)
LEMMA NoReference ==
    ASSUME NEW f
    PROVE  ReferencedVerdict(f) = UnknownFailure
<1>1. ASSUME NEW res \in DesiredResources PROVE ~RefersTo(f, res)
  <2>1. res.crt = "none" /\ res.plain = "none"
      BY DEF DesiredResources
  <2> HIDE DEF RefersTo
  <2>2. {res.crt, res.plain} = {"none"}
      BY <2>1
  <2>3. \A what \in f.certs : (IF what = "no cert" THEN "crt" ELSE "plain") # "none"
      OBVIOUS
  <2> QED BY <2>2, <2>3 DEF RefersTo
<1>2. {res \in DesiredResources : RefersTo(f, res)} = {}
    BY <1>1
<1>3. Cardinality({}) = 0
    BY FS_EmptySet
<1> QED BY <1>2, <1>3 DEF ReferencedVerdict

(* A file of NurProxy's has the name of a vhost, of its link or of a temp; and if its host
   is routed, it is desired. *)
LEMMA OursAreNamed ==
    ASSUME NEW p, OfNurProxy(p)
    PROVE  /\ InExactLayout(p) /\ CarriesMarker(p) /\ (NamedTemp(p) \/ NamedManaged(p))
           /\ NamedManaged(p) /\ want = "route" => Cardinality(DesiredAt(p)) = 1
<1>1. InExactLayout(p) /\ CarriesMarker(p) /\ (NamedTemp(p) \/ NamedManaged(p))
    BY DEF OfNurProxy, InExactLayout, NamedTemp, NamedManaged
<1>2. ASSUME NamedManaged(p), want = "route" PROVE Cardinality(DesiredAt(p)) = 1
  <2> DEFINE res == [target |-> "vhost", source |-> "generated", state |-> "live", drifted |-> FALSE,
                     crt |-> "none", plain |-> "none"]
  <2>1. DesiredResources = {res} /\ res.target = "vhost"
      BY <1>2 DEF DesiredResources
  <2> HIDE DEF res
  <2>2. Entry("vhost").kind = "file"
      BY <1>1, <1>2 DEF NamedManaged, InExactLayout, CarriesMarker, LeadsTo
  <2>3. p = "vhost" \/ (InExactLayout(p) /\ Entry(p).kind = "link" /\ LeadsTo(p) = "vhost")
      BY <1>1, <1>2 DEF NamedManaged, InExactLayout, LeadsTo
  <2>4. DesiredAt(p) = {res}
      BY <2>1, <2>2, <2>3 DEF DesiredAt
  <2> QED BY <2>4, FS_Singleton
<1> QED BY <1>1, <1>2

(* A failure with a place is diagnosed justly. *)
LEMMA LocatedIsJust ==
    ASSUME NEW r, ~HostRefused(r), NEW p
    PROVE  JustVerdict(r, LocatedVerdict(p))
<1>1. CASE p = "none" \/ ~WithinRoots(p)
    BY <1>1, UnknownIsJust DEF LocatedVerdict
<1>2. CASE ~(p = "none" \/ ~WithinRoots(p)) /\ Cardinality(DesiredAt(p)) = 1
  <2> DEFINE res == CHOOSE x \in DesiredAt(p) : TRUE
  <2>1. DesiredAt(p) # {}
      BY <1>2, FS_EmptySet
  <2>2. res \in DesiredResources
      BY <2>1 DEF DesiredAt
  <2> HIDE DEF res
  <2>3. OwnerOf(res) = "nurproxy"
      BY <2>2 DEF DesiredResources, OwnerOf
  <2>4. LocatedVerdict(p) = OfFile("generated_config_invalid", "nurproxy", "none", "restore_needs_known_hash", p)
      BY <1>2, <2>3 DEF LocatedVerdict, res
  <2> QED BY <2>4, FileIsJust
<1>3. CASE ~(p = "none" \/ ~WithinRoots(p)) /\ Cardinality(DesiredAt(p)) # 1
  <2> DEFINE marked == InExactLayout(p) /\ CarriesMarker(p)
  <2>1. CASE marked /\ NamedTemp(p)
    <3>1. LocatedVerdict(p) = OfFile("managed_stale_temp", "nurproxy", "temp", "none", p)
        BY <1>3, <2>1 DEF LocatedVerdict, NamedTemp, NamedManaged
    <3>2. OfNurProxy(p) /\ p = "temp"
        BY <2>1 DEF NamedTemp, OfNurProxy
    <3> QED BY <3>1, <3>2, FileIsJust
  <2>2. CASE marked /\ NamedManaged(p)
    <3>1. LocatedVerdict(p) = OfFile("managed_orphan_config", "nurproxy", "prune", "none", p)
        BY <1>3, <2>2 DEF LocatedVerdict, NamedTemp, NamedManaged
    <3>2. OfNurProxy(p)
        BY <2>2 DEF NamedManaged, OfNurProxy
    <3>3. want # "route"
        BY <1>3, <2>2, <3>2, OursAreNamed
    <3> QED BY <3>1, <3>2, <3>3, FileIsJust
  <2>3. CASE ~(marked /\ NamedTemp(p)) /\ ~(marked /\ NamedManaged(p))
    <3>1. LocatedVerdict(p) = OfFile("operator_config_invalid", "operator", "none", "operator_owned_config", p)
        BY <1>3, <2>3 DEF LocatedVerdict
    <3>2. ~OfNurProxy(p)
        BY <2>3, OursAreNamed
    <3> QED BY <3>1, <3>2, FileIsJust
  <2> QED BY <2>1, <2>2, <2>3
<1> QED BY <1>1, <1>2, <1>3

(* A permission that is missing is diagnosed justly. *)
LEMMA PermissionIsJust ==
    ASSUME NEW r, NEW f
    PROVE  JustVerdict(r, PermissionVerdict(f))
<1> DEFINE staged == Told(f, {"staging"}) /\ Len(f.lines) = 1
           env == RefusedBy(f)
<1>1. PermissionVerdict(f) = CASE staged -> HardSystem("permission_denied", "exclusive_managed_directory", "none")
                               [] env # "none" -> HardSystem("permission_denied", "unsupported_environment", env)
                               [] OTHER -> HardSystem("permission_denied", "ambiguous", "permission_scope_ambiguous")
    BY DEF PermissionVerdict
<1> HIDE DEF staged, env
<1>2. JustVerdict(r, HardSystem("permission_denied", "exclusive_managed_directory", "none"))
    BY HardIsJust DEF HardActions
<1>3. env # "none" => JustVerdict(r, HardSystem("permission_denied", "unsupported_environment", env))
    BY HardIsJust DEF HardActions
<1>4. JustVerdict(r, HardSystem("permission_denied", "ambiguous", "permission_scope_ambiguous"))
    BY HardIsJust DEF HardActions
<1> QED BY <1>1, <1>2, <1>3, <1>4

(* Whatever is reported is diagnosed justly. *)
LEMMA DiagnosisIsJust ==
    ASSUME NEW r
    PROVE  JustVerdict(r, Diagnose(r))
<1> DEFINE f == FailureOf(supply.backend, r)
<1>1. CASE r.cause = "other error"
    BY <1>1, UnknownIsJust DEF Diagnose
<1>2. CASE r.cause # "other error"
  <2>1. Diagnose(r) = Classify(f) /\ f.refused = HostRefused(r)
      BY <1>2 DEF Diagnose, FailureOf
  <2> HIDE DEF f
  <2> SUFFICES JustVerdict(r, Classify(f))
      BY <2>1
  <2>2. /\ JustVerdict(r, HardSystem("proxy_binary_missing", "supported_package", "none"))
        /\ JustVerdict(r, HardSystem("systemd_sandbox_denied", "agent_sandbox", "none"))
        /\ JustVerdict(r, HardSystem("port_conflict", "unsupported_environment", "process_killing_unsupported"))
        /\ JustVerdict(r, HardSystem("proxy_not_running", "detected_proxy_service", "none"))
        /\ JustVerdict(r, HardSystem("proxy_reload_failed", "detected_proxy_service", "none"))
      BY HardIsJust DEF HardActions
  <2>3. JustVerdict(r, UnknownFailure) /\ JustVerdict(r, PermissionVerdict(f)) /\ JustVerdict(r, ReferencedVerdict(f))
      BY UnknownIsJust, PermissionIsJust, NoReference
  <2>4. ~f.refused => JustVerdict(r, LocatedVerdict(f.at))
      BY <2>1, LocatedIsJust
  <2> QED BY <2>2, <2>3, <2>4 DEF Classify
<1> QED BY <1>1, <1>2

(* Every diagnosis is just: what may be repaired without asking, what is the operator's and *)
(* what the host refuses are told apart, whatever is reported and whatever the files are.    *)
THEOREM DiagnosedCorrect == DiagnosisSpec => DiagnosedAsIs
<1>1. [DiagnosisNext]_diagnosisVars
      => [finding' \notin {finding, NoFinding} => JustVerdict(finding'.report, finding'.verdict)]_diagnosisVars
  <2> SUFFICES ASSUME DiagnosisNext, finding' \notin {finding, NoFinding}
               PROVE  JustVerdict(finding'.report, finding'.verdict)
      OBVIOUS
  <2>1. ASSUME ObserveFailure PROVE JustVerdict(finding'.report, finding'.verdict)
    <3>1. finding' = [report |-> turn.report, verdict |-> Diagnose(turn.report)]
        BY <2>1 DEF ObserveFailure, Observed
    <3>2. finding'.report = turn.report /\ finding'.verdict = Diagnose(turn.report)
        BY <3>1
    <3> QED BY <3>2, DiagnosisIsJust
  <2>2. (\E w \in Wants : BeginPush(w)) => finding' = finding
      BY DEF BeginPush
  <2>3. InspectPush \/ InspectionFails \/ Applied \/ AgentDies => finding' = finding
      BY DEF InspectPush, InspectionFails, Applied, AgentDies, Past
  <2>4. RepairsDone => finding' = NoFinding
      BY DEF RepairsDone
  <2>5. (\E id \in turn.left : RepairFound(id)) \/ (\E r \in supply.reports : ApplyFails(r))
        \/ (\E id \in DOMAIN notes : UserRequest(id)) \/ (\E p \in {"vhost", "link", "temp"} : OperatorTouches(p))
        => finding' = finding
      BY DEF RepairFound, ApplyFails, UserRequest, OperatorTouches, Past
  <2> QED BY <2>1, <2>2, <2>3, <2>4, <2>5 DEF DiagnosisNext
<1> QED BY <1>1, PTL DEF DiagnosisSpec, DiagnosedAsIs
================================================================================
