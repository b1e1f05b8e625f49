--------------------------- MODULE RecoveryProofs ---------------------------
(***************************************************************************)
(* For any resources, operations, faults and bounds: without retention an   *)
(* operation mutates files at most once, and an operation that says         *)
(* rolled_back has put back what it captured.  Where manifests are written,  *)
(* a rollback undoes only its operation's work, and one that failed keeps     *)
(* the automatic repairs off.  And of RecoveryReports: for any diagnostics,   *)
(* repairs and cases, what the reporter keeps and sends is in step with the   *)
(* orchestrator.                                                             *)
(***************************************************************************)
EXTENDS Recovery, RecoveryReports, RepairFiles, TLAPS, FiniteSetTheorems, SequenceTheorems

\* The types, and the operation under way is one.
TypeInv == TypeOK /\ (cur.at # "idle" => cur.op \in Ops)

\* What prunes a manifest leaves manifests, of which those that change become pruned.
LEMMA PrunedIs ==
    ASSUME NEW d \in [Ops -> [state : States, captured : Contents]],
           NEW e \in Pruned(d)
    PROVE  /\ e \in [Ops -> [state : States, captured : Contents]]
           /\ \A o \in Ops : /\ e[o].captured = d[o].captured
                             /\ e[o].state # d[o].state =>
                                  e[o].state = "pruned" /\ "retention" \in Faults
BY DEF Pruned, States, Active, Terminal

LEMMA InitTyped == Init => TypeInv
BY RecoveryAssumptions
   DEF Init, TypeInv, TypeOK, Contents, Kinds, States, Active, Terminal, Initial, None, NoManifest, Idle,
       Successors, Steps, Work

LEMMA WriteTyped == ASSUME TypeInv, NEW r \in Resources, Write(r) PROVE TypeInv'
BY DEF TypeInv, TypeOK, Write, Content, Contents, Kinds, agentVars

LEMMA InspectTyped == ASSUME TypeInv, Inspect PROVE TypeInv'
BY DEF TypeInv, TypeOK, Inspect, fileVars, None, Contents

LEMMA StartTyped == ASSUME TypeInv, NEW o \in Ops, Automatic(o) \/ Request(o) PROVE TypeInv'
BY DEF TypeInv, TypeOK, Automatic, Request, Start, fileVars, Idle, Work, Steps

\* What the coordinator does next leaves it at the same operation.
LEMMA CurTyped ==
    ASSUME TypeInv
    PROVE  /\ Idle \in Work /\ Idle.at = "idle"
           /\ \A s \in Steps : Goto(s) => cur' \in Work /\ cur'.op = cur.op /\ cur'.at = s
           /\ \A f \in DOMAIN Successors :
                 RollBack(f) => cur' \in Work /\ cur'.op = cur.op /\ cur'.at = "rolling_back"
           /\ \A t \in Terminal :
                 EndAs(t) => /\ cur' \in Work /\ cur'.op = cur.op
                             /\ cur'.at = "conclude" /\ cur'.ended = t
BY DEF TypeInv, TypeOK, Work, Idle, Goto, RollBack, EndAs, Steps

LEMMA Places == DOMAIN Successors = {"snapshotted", "applying", "validating", "rolling_back"}
BY DEF Successors

LEMMA HereTyped == ASSUME TypeInv, cur.at # "idle" PROVE cur.op \in Ops /\ Here \in Resources
BY RecoveryAssumptions DEF TypeInv, Here

LEMMA TakeSnapshotTyped == ASSUME TypeInv, TakeSnapshot PROVE TypeInv'
<1> cur.op \in Ops /\ Here \in Resources
    BY HereTyped DEF TakeSnapshot, At
<1>1. cur' \in Work /\ (cur'.at # "idle" => cur'.op \in Ops)
    BY CurTyped DEF TakeSnapshot, Steps
<1>2. disk' \in [Ops -> [state : States, captured : Contents]]
    BY DEF TypeInv, TypeOK, TakeSnapshot, States, Active
<1>3. memory' \in [Ops -> Terminal \cup {"none", "suppressed", "diagnosis_only"}]
    BY DEF TypeInv, TypeOK, TakeSnapshot
<1>4. left' \in [may : FaultSets, faults : Nat, writes : Nat]
    BY DEF TypeInv, TypeOK, TakeSnapshot, Fault
<1> QED BY <1>1, <1>2, <1>3, <1>4 DEF TypeInv, TypeOK, TakeSnapshot, fileVars

LEMMA PutTyped ==
    ASSUME TypeInv, NEW o \in Ops, NEW s \in States, Put(o, s)
    PROVE  disk' \in [Ops -> [state : States, captured : Contents]]
BY DEF TypeInv, TypeOK, Put

LEMMA PersistTyped ==
    ASSUME TypeInv, NEW o \in Ops, NEW from, NEW to \in States,
           Persisted(o, from, to) \/ NotPersisted(o, from, to)
    PROVE  /\ disk' \in [Ops -> [state : States, captured : Contents]]
           /\ left' \in [may : FaultSets, faults : Nat, writes : Nat]
<1>1. disk' \in [Ops -> [state : States, captured : Contents]]
    BY PutTyped DEF Persisted, NotPersisted, TypeInv, TypeOK
<1>2. left' \in [may : FaultSets, faults : Nat, writes : Nat]
    BY DEF Persisted, NotPersisted, Fault, TypeInv, TypeOK
<1> QED BY <1>1, <1>2

LEMMA EnterTyped == ASSUME TypeInv, Apply \/ Revalidate PROVE TypeInv'
<1> cur.op \in Ops
    BY DEF TypeInv, Apply, Revalidate, Enter, At
<1>1. /\ disk' \in [Ops -> [state : States, captured : Contents]]
      /\ left' \in [may : FaultSets, faults : Nat, writes : Nat]
    BY PersistTyped DEF Apply, Revalidate, Enter, States, Active
<1>2. cur' \in Work /\ cur'.op = cur.op
    BY CurTyped, Places DEF Apply, Revalidate, Enter, Steps
<1> QED BY <1>1, <1>2 DEF TypeInv, TypeOK, Apply, Revalidate, Enter, fileVars

LEMMA ContentTyped ==
    ASSUME TypeInv, NEW o \in Ops, NEW k \in Kinds PROVE Content(k, o) \in Contents
BY DEF TypeInv, TypeOK, Content, Contents

LEMMA MutatedTyped ==
    ASSUME TypeInv, cur.at # "idle", NEW k \in Kinds, Mutated(k)
    PROVE  /\ files' \in [Resources -> Contents] /\ writes' \in Nat
           /\ executed' \in [Ops -> Nat]
BY HereTyped, ContentTyped DEF Mutated, TypeInv, TypeOK

LEMMA ExecuteTyped == ASSUME TypeInv, Execute PROVE TypeInv'
<1>1. cur' \in Work /\ cur'.op = cur.op /\ cur.op \in Ops
    BY CurTyped, Places, HereTyped DEF Execute, At, Steps
<1>2. /\ files' \in [Resources -> Contents] /\ writes' \in Nat
      /\ executed' \in [Ops -> Nat]
    BY MutatedTyped DEF Execute, At, Kinds, TypeInv, TypeOK, fileVars
<1> QED BY <1>1, <1>2 DEF TypeInv, TypeOK, Execute

LEMMA ValidateTyped == ASSUME TypeInv, Validate PROVE TypeInv'
<1>1. cur' \in Work /\ cur'.op = cur.op /\ cur.op \in Ops
    BY CurTyped, Places, HereTyped DEF Validate, At, Steps
<1> QED BY <1>1 DEF TypeInv, TypeOK, Validate, fileVars

LEMMA SucceedTyped == ASSUME TypeInv, Succeed PROVE TypeInv'
<1> cur.op \in Ops /\ Here \in Resources
    BY HereTyped DEF Succeed, At
<1>1. /\ disk' \in [Ops -> [state : States, captured : Contents]]
      /\ left' \in [may : FaultSets, faults : Nat, writes : Nat]
    <2>1. CASE NotPersisted(cur.op, "validating", "succeeded")
        BY <2>1, PersistTyped DEF States, Terminal
    <2>2. CASE disk' \in Pruned([disk EXCEPT ![cur.op].state = "succeeded"]) /\ UNCHANGED left
        <3>1. [disk EXCEPT ![cur.op].state = "succeeded"] \in [Ops -> [state : States, captured : Contents]]
            BY DEF TypeInv, TypeOK, States, Terminal
        <3> QED BY <2>2, <3>1, PrunedIs DEF TypeInv, TypeOK
    <2> QED BY <2>1, <2>2 DEF Succeed
<1>2. cur' = Idle /\ Idle \in Work /\ Idle.at = "idle"
    BY CurTyped DEF Succeed
<1>3. found' \in [Resources -> Contents]
    BY DEF TypeInv, TypeOK, Succeed, None, Contents
<1>4. memory' \in [Ops -> Terminal \cup {"none", "suppressed", "diagnosis_only"}]
    BY DEF TypeInv, TypeOK, Succeed, Terminal
<1> QED BY <1>1, <1>2, <1>3, <1>4 DEF TypeInv, TypeOK, Succeed, fileVars

LEMMA FailedTyped ==
    ASSUME TypeInv, cur.at # "idle", Failed
    PROVE  /\ cur' \in Work /\ cur'.op = cur.op /\ cur'.at = "conclude" /\ cur'.ended = "rollback_failed"
           /\ damaged' \subseteq Resources
BY CurTyped, HereTyped DEF Failed, Terminal, TypeInv, TypeOK

LEMMA EnterRollbackTyped == ASSUME TypeInv, EnterRollback PROVE TypeInv'
<1> cur.at # "idle" /\ cur.op \in Ops
    BY HereTyped DEF EnterRollback, At
<1>1. /\ disk' \in [Ops -> [state : States, captured : Contents]]
      /\ left' \in [may : FaultSets, faults : Nat, writes : Nat]
    BY PersistTyped DEF EnterRollback, States, Active
<1>2. /\ cur' \in Work /\ (cur'.at # "idle" => cur'.op \in Ops)
      /\ damaged' \subseteq Resources
    BY CurTyped, FailedTyped DEF EnterRollback, Steps, TypeInv, TypeOK
<1> QED BY <1>1, <1>2 DEF TypeInv, TypeOK, EnterRollback, fileVars

LEMMA RestoredTyped ==
    ASSUME TypeInv, cur.at # "idle", NEW c \in Contents, Restored(c) PROVE files' \in [Resources -> Contents]
BY HereTyped DEF TypeInv, TypeOK, Restored

LEMMA RestoreTyped == ASSUME TypeInv, Restore PROVE TypeInv'
<1> cur.at # "idle" /\ cur.op \in Ops
    BY HereTyped DEF Restore, At
<1>1. /\ cur' \in Work /\ (cur'.at # "idle" => cur'.op \in Ops)
      /\ damaged' \subseteq Resources
    BY CurTyped, FailedTyped DEF Restore, Steps, TypeInv, TypeOK
<1>2. files' \in [Resources -> Contents] /\ writes' \in Nat
    <2>1. disk[cur.op].captured \in Contents /\ Content("part", cur.op) \in Contents
        BY ContentTyped DEF TypeInv, TypeOK, Kinds
    <2> QED BY <2>1, RestoredTyped DEF Restore, TypeInv, TypeOK, fileVars
<1> QED BY <1>1, <1>2 DEF TypeInv, TypeOK, Restore

LEMMA CheckTyped == ASSUME TypeInv, Check PROVE TypeInv'
<1> cur.at # "idle" /\ cur.op \in Ops
    BY HereTyped DEF Check, At
<1>1. /\ cur' \in Work /\ (cur'.at # "idle" => cur'.op \in Ops)
      /\ damaged' \subseteq Resources
    BY CurTyped, FailedTyped DEF Check, Terminal, TypeInv, TypeOK
<1> QED BY <1>1 DEF TypeInv, TypeOK, Check, fileVars

LEMMA ConcludeTyped == ASSUME TypeInv, Conclude PROVE TypeInv'
<1> cur.op \in Ops /\ Here \in Resources
    BY HereTyped DEF Conclude, At
<1> cur.ended \in States /\ cur.ended \in Terminal \cup {"none"}
    BY DEF TypeInv, TypeOK, States, Work
<1>1. /\ disk' \in [Ops -> [state : States, captured : Contents]]
      /\ left' \in [may : FaultSets, faults : Nat, writes : Nat]
    <2>1. CASE NotPersisted(cur.op, "rolling_back", cur.ended)
        BY <2>1, PersistTyped
    <2>2. CASE disk' \in Pruned([disk EXCEPT ![cur.op].state = cur.ended]) /\ UNCHANGED left
        <3>1. [disk EXCEPT ![cur.op].state = cur.ended] \in [Ops -> [state : States, captured : Contents]]
            BY DEF TypeInv, TypeOK
        <3> QED BY <2>2, <3>1, PrunedIs DEF TypeInv, TypeOK
    <2> QED BY <2>1, <2>2 DEF Conclude
<1>2. cur' = Idle /\ Idle \in Work /\ Idle.at = "idle"
    BY CurTyped DEF Conclude
<1>3. memory' \in [Ops -> Terminal \cup {"none", "suppressed", "diagnosis_only"}]
    BY DEF TypeInv, TypeOK, Conclude
<1> QED BY <1>1, <1>2, <1>3 DEF TypeInv, TypeOK, Conclude, fileVars

LEMMA CrashTyped == ASSUME TypeInv, Crash PROVE TypeInv'
<1>1. left' \in [may : FaultSets, faults : Nat, writes : Nat]
    BY DEF Crash, Fault, TypeInv, TypeOK
<1>2. /\ disk' \in [Ops -> [state : States, captured : Contents]]
      /\ files' \in [Resources -> Contents] /\ writes' \in Nat
      /\ executed' \in [Ops -> Nat]
    <2>1. CASE UNCHANGED <<fileVars, executed, disk>>
        BY <2>1 DEF TypeInv, TypeOK, fileVars
    <2>2. CASE UNCHANGED <<fileVars, executed>> /\ cur.at # "idle" /\ \E s \in States : Put(cur.op, s)
        BY <2>2, PutTyped, HereTyped DEF TypeInv, TypeOK, fileVars
    <2>3. CASE cur.at = "execute" /\ (\E kind \in {"part", "good"} : Mutated(kind)) /\ UNCHANGED disk
        BY <2>3, MutatedTyped DEF TypeInv, TypeOK, Kinds
    <2>4. CASE /\ cur.at = "restore" /\ UNCHANGED <<disk, executed>>
               /\ \/ Restored(Content("part", cur.op)) /\ writes' = writes + 1
                  \/ Restored(disk[cur.op].captured) /\ UNCHANGED writes
        <3>1. disk[cur.op].captured \in Contents /\ Content("part", cur.op) \in Contents
            BY <2>4, HereTyped, ContentTyped DEF TypeInv, TypeOK, Kinds
        <3> QED BY <2>4, <3>1, RestoredTyped DEF TypeInv, TypeOK
    <2>5. cur.ended \in States /\ "incomplete" \in States /\ "succeeded" \in States
        BY DEF TypeInv, TypeOK, Work, States, Terminal
    <2> QED
        BY <2>1, <2>2, <2>3, <2>4, <2>5 DEF Crash, Interrupted
<1>3. cur' = Idle /\ Idle \in Work /\ Idle.at = "idle"
    BY CurTyped DEF Crash
<1> QED BY <1>1, <1>2, <1>3 DEF Crash, TypeInv, TypeOK, None, Contents

LEMMA RestartTyped == ASSUME TypeInv, Restart PROVE TypeInv'
<1>1. disk' \in [Ops -> [state : States, captured : Contents]]
    BY PrunedIs DEF Restart, TypeInv, TypeOK
<1> QED BY <1>1 DEF Restart, TypeInv, TypeOK, fileVars

LEMMA ResumeTyped == ASSUME TypeInv, NEW o \in Ops, Resume(o) PROVE TypeInv'
<1>1. cur' \in Work /\ (cur'.at # "idle" => cur'.op \in Ops)
    <2>1. CASE UNCHANGED cur
        BY <2>1 DEF Resume, TypeInv, TypeOK
    <2>2. ASSUME disk[o].state \in DOMAIN Disposition,
                 cur' = [Idle EXCEPT !.op = o, !.at = Disposition[disk[o].state],
                                     !.from = disk[o].state, !.resumed = TRUE]
          PROVE  cur' \in Work /\ cur'.op \in Ops
        <3>1. disk[o].state \in DOMAIN Successors /\ Disposition[disk[o].state] \in Steps
            BY <2>2, Places DEF Disposition, Steps
        <3> QED BY <2>2, <3>1 DEF Idle, Work
    <2> QED BY <2>1, <2>2 DEF Resume
<1>2. latched' \subseteq Resources
    BY RecoveryAssumptions DEF Resume, TypeInv, TypeOK
<1>3. memory' \in [Ops -> Terminal \cup {"none", "suppressed", "diagnosis_only"}]
    BY DEF Resume, TypeInv, TypeOK, Terminal
<1> QED BY <1>1, <1>2, <1>3 DEF Resume, TypeInv, TypeOK, fileVars

LEMMA StepTyped == ASSUME TypeInv, [Next]_vars PROVE TypeInv'
<1>1. CASE UNCHANGED vars
    BY <1>1 DEF vars, agentVars, fileVars, TypeInv, TypeOK
<1>2. CASE Coordinator
    BY <1>2, TakeSnapshotTyped, EnterTyped, ExecuteTyped, ValidateTyped, SucceedTyped, EnterRollbackTyped,
       RestoreTyped, CheckTyped, ConcludeTyped, ResumeTyped DEF Coordinator
<1>3. CASE \E r \in Resources : Write(r)
    BY <1>3, WriteTyped
<1>4. CASE Inspect
    BY <1>4, InspectTyped
<1>5. CASE \E o \in Ops : Automatic(o) \/ Request(o)
    BY <1>5, StartTyped
<1>6. CASE Crash \/ Restart
    BY <1>6, CrashTyped, RestartTyped
<1> QED BY <1>1, <1>2, <1>3, <1>4, <1>5, <1>6 DEF Next

\* The variables keep their types.
THEOREM TypeCorrect == Spec => []TypeOK
<1>1. Init => TypeInv
    BY InitTyped
<1>2. TypeInv /\ [Next]_vars => TypeInv'
    BY StepTyped
<1>3. TypeInv => TypeOK
    BY DEF TypeInv
<1> QED BY <1>1, <1>2, <1>3, PTL DEF Spec
-----------------------------------------------------------------------------
(* What a step does to the operation under way, to its manifest and to the files. *)

LEMMA CurMoves ==
    ASSUME TypeInv, [Next]_vars
    PROVE  \/ UNCHANGED cur
           \/ cur'.at \notin {"applying", "execute", "check", "conclude"}
           \/ /\ cur'.op = cur.op
              /\ \/ cur.at = "snapshot" /\ Fresh(cur.op) /\ cur'.at = "applying"
                    /\ disk' = [disk EXCEPT ![cur.op] =
                                  [state |-> "snapshotted", captured |-> files[Here]]]
                 \/ cur.at = "applying" /\ cur'.at = "execute"
                 \/ cur.at = "restore" /\ cur'.at = "check"
                    /\ UNCHANGED disk /\ Restored(disk[cur.op].captured)
                 \/ cur.at = "check" /\ cur'.at = "conclude" /\ cur'.ended = "rolled_back"
                    /\ UNCHANGED <<disk, files>>
                 \/ cur'.at = "conclude" /\ cur'.ended = "rollback_failed"
<1>1. CASE UNCHANGED vars
    BY <1>1 DEF vars, agentVars
<1>2. CASE TakeSnapshot
    BY <1>2, CurTyped DEF TakeSnapshot, At, Steps
<1>3. CASE Apply \/ Revalidate
    BY <1>3, CurTyped, Places DEF Apply, Revalidate, Enter, At, Steps
<1>4. CASE Execute \/ Validate
    BY <1>4, CurTyped, Places DEF Execute, Validate, At, Steps
<1>5. CASE Succeed \/ Conclude \/ Crash
    BY <1>5, CurTyped DEF Succeed, Conclude, Crash
<1>6. CASE EnterRollback
    BY <1>6, CurTyped, FailedTyped DEF EnterRollback, At, Steps
<1>7. CASE Restore
    BY <1>7, CurTyped, FailedTyped DEF Restore, At, Steps
<1>8. CASE Check
    BY <1>8, CurTyped, FailedTyped DEF Check, At, Terminal, fileVars
<1>9. CASE \E o \in Ops : Resume(o)
    <2> PICK o \in Ops : Resume(o)
        BY <1>9
    <2>1. CASE UNCHANGED cur
        BY <2>1
    <2>2. CASE /\ disk[o].state \in DOMAIN Disposition
               /\ cur' = [Idle EXCEPT !.op = o, !.at = Disposition[disk[o].state],
                                      !.from = disk[o].state, !.resumed = TRUE]
        BY <2>2 DEF Disposition, Idle
    <2> QED BY <2>1, <2>2 DEF Resume
<1>10. CASE \E o \in Ops : Automatic(o) \/ Request(o)
    BY <1>10 DEF Automatic, Request, Idle
<1>11. CASE Inspect \/ Restart \/ \E r \in Resources : Write(r)
    BY <1>11 DEF Inspect, Restart, Write, agentVars
<1> QED
    BY <1>1, <1>2, <1>3, <1>4, <1>5, <1>6, <1>7, <1>8, <1>9, <1>10, <1>11 DEF Next, Coordinator

\* An operation about to conclude has an outcome.
EndsInv == cur.at = "conclude" => cur.ended \in {"rolled_back", "rollback_failed"}

LEMMA StepEnds == ASSUME TypeInv, EndsInv, [Next]_vars PROVE EndsInv'
BY CurMoves DEF EndsInv

LEMMA DiskMoves ==
    ASSUME TypeInv, EndsInv, [Next]_vars, NEW o \in Ops
    PROVE  /\ disk'[o].captured = disk[o].captured \/ (cur.at = "snapshot" /\ o = cur.op)
           /\ \/ disk'[o].state = disk[o].state
              \/ disk'[o].state = "pruned" /\ "retention" \in Faults
              \/ disk'[o].state \notin {"none", "pruned", "rolled_back"}
              \/ /\ disk'[o].state = "rolled_back" /\ o = cur.op /\ UNCHANGED files
                 /\ cur.at = "conclude" /\ cur.ended = "rolled_back"
<1> DEFINE D == [Ops -> [state : States, captured : Contents]]
<1> disk \in D
    BY DEF TypeInv, TypeOK
<1> DEFINE Same == disk'[o] = disk[o]
           Made(s) == disk'[o].captured = disk[o].captured /\ disk'[o].state = s /\ o = cur.op
<1>1. ASSUME NEW s, cur.op \in Ops, Put(cur.op, s)
      PROVE  Same \/ Made(s)
    BY <1>1 DEF Put
<1>2. ASSUME NEW from, NEW to, cur.op \in Ops,
             Persisted(cur.op, from, to) \/ NotPersisted(cur.op, from, to)
      PROVE  Same \/ Made(to)
    BY <1>1, <1>2 DEF Persisted, NotPersisted
<1>3. ASSUME NEW s \in States, cur.op \in Ops, disk' \in Pruned([disk EXCEPT ![cur.op].state = s])
      PROVE  /\ disk'[o].captured = disk[o].captured
             /\ \/ disk'[o].state = disk[o].state
                \/ disk'[o].state = s /\ o = cur.op
                \/ disk'[o].state = "pruned" /\ "retention" \in Faults
    <2> DEFINE d == [disk EXCEPT ![cur.op].state = s]
    <2>1. d \in D
        BY <1>3
    <2>2. d[o].captured = disk[o].captured /\ (d[o].state = disk[o].state \/ (d[o].state = s /\ o = cur.op))
        BY <1>3
    <2>3. disk' \in Pruned(d)
        BY <1>3
    <2> HIDE DEF d
    <2> QED BY <2>1, <2>2, <2>3, PrunedIs
<1>4. CASE UNCHANGED disk
    BY <1>4
<1>5. CASE TakeSnapshot
    <2> cur.op \in Ops
        BY <1>5, HereTyped DEF TakeSnapshot, At
    <2> QED BY <1>5 DEF TakeSnapshot, At
<1>6. CASE Apply \/ Revalidate \/ EnterRollback
    <2> cur.op \in Ops
        BY <1>6, HereTyped DEF Apply, Revalidate, Enter, EnterRollback, At
    <2> QED BY <1>2, <1>6 DEF Apply, Revalidate, Enter, EnterRollback
<1>7. CASE Succeed
    <2> cur.op \in Ops
        BY <1>7, HereTyped DEF Succeed, At
    <2>1. CASE NotPersisted(cur.op, "validating", "succeeded")
        BY <2>1, <1>2
    <2>2. CASE disk' \in Pruned([disk EXCEPT ![cur.op].state = "succeeded"])
        BY <2>2, <1>3 DEF States, Terminal
    <2> QED BY <1>7, <2>1, <2>2 DEF Succeed
<1>8. CASE Conclude
    <2> cur.op \in Ops /\ cur.at = "conclude" /\ cur.ended \in {"rolled_back", "rollback_failed"}
        BY <1>8, HereTyped DEF Conclude, At, EndsInv
    <2> UNCHANGED files
        BY <1>8 DEF Conclude, fileVars
    <2>1. CASE NotPersisted(cur.op, "rolling_back", cur.ended)
        BY <2>1, <1>2
    <2>2. CASE disk' \in Pruned([disk EXCEPT ![cur.op].state = cur.ended])
        BY <2>2, <1>3 DEF States, Terminal
    <2> QED BY <1>8, <2>1, <2>2 DEF Conclude
<1>9. CASE Crash
    <2>1. CASE cur.at \in {"snapshot", "succeeded"} /\ \E s \in {"incomplete", "succeeded"} : Put(cur.op, s)
        BY <2>1, <1>1, HereTyped
    <2>2. CASE cur.at = "conclude" /\ Put(cur.op, cur.ended) /\ UNCHANGED files
        BY <2>2, <1>1, HereTyped DEF EndsInv
    <2> QED BY <1>4, <1>9, <2>1, <2>2 DEF Crash, Interrupted, fileVars
<1>10. CASE Restart
    BY <1>10, PrunedIs DEF Restart
<1>11. CASE \/ Execute \/ Validate \/ Restore \/ Check \/ Inspect \/ UNCHANGED vars
            \/ (\E c \in Ops : Resume(c) \/ Automatic(c) \/ Request(c))
            \/ \E r \in Resources : Write(r)
    BY <1>4, <1>11
       DEF Execute, Validate, Restore, Check, Inspect, Resume, Automatic, Request, Start, Write, vars
<1> QED BY <1>5, <1>6, <1>7, <1>8, <1>9, <1>10, <1>11 DEF Next, Coordinator
-----------------------------------------------------------------------------
(* An operation mutates files at most once. *)

\* An operation that mutated files has a manifest; one about to has one and did not.
OnceInv ==
    \A o \in Ops :
        /\ executed[o] \in {0, 1}
        /\ executed[o] = 1 => ~Fresh(o)
        /\ cur.op = o /\ cur.at \in {"applying", "execute"} => executed[o] = 0 /\ ~Fresh(o)

LEMMA ExecutedMoves ==
    ASSUME TypeInv, [Next]_vars
    PROVE  \/ UNCHANGED executed
           \/ /\ cur.at = "execute" /\ executed' = [executed EXCEPT ![cur.op] = @ + 1]
              /\ cur'.at \notin {"applying", "execute"}
<1>1. CASE Execute
    BY <1>1, CurTyped, Places DEF Execute, At, Mutated, Steps
<1>2. CASE Crash
    BY <1>2, CurTyped DEF Crash, Interrupted, Mutated
<1>3. CASE ~(Execute \/ Crash)
    BY <1>3
       DEF Next, Coordinator, vars, TakeSnapshot, Apply, Revalidate, Enter, Validate, Succeed, EnterRollback,
           Restore, Check, Conclude, Resume, Write, Inspect, Automatic, Request, Start, Restart
<1> QED BY <1>1, <1>2, <1>3

\* What may go wrong in a behaviour is decided at its start.
LEMMA FaultsKept == ASSUME TypeInv, [Next]_vars PROVE Faults' = Faults
<1>1. \A f : Fault(f) => left'.may = left.may
    BY DEF Fault, TypeInv, TypeOK
<1>2. \A o, from, to : Persisted(o, from, to) \/ NotPersisted(o, from, to) => left'.may = left.may
    BY <1>1 DEF Persisted, NotPersisted
<1>3. CASE TakeSnapshot \/ Apply \/ Revalidate \/ EnterRollback \/ Succeed \/ Conclude \/ Crash
    BY <1>1, <1>2, <1>3
       DEF TakeSnapshot, Apply, Revalidate, Enter, EnterRollback, Succeed, Conclude, Crash, Faults
<1>4. CASE \E r \in Resources : Write(r)
    BY <1>4 DEF Write, Faults, TypeInv, TypeOK
<1>5. CASE \/ Execute \/ Validate \/ Restore \/ Check \/ Inspect \/ Restart \/ UNCHANGED vars
           \/ \E o \in Ops : Resume(o) \/ Automatic(o) \/ Request(o)
    BY <1>5 DEF Execute, Validate, Restore, Check, Inspect, Restart, Resume, Automatic, Request, Start, vars, Faults
<1> QED BY <1>3, <1>4, <1>5 DEF Next, Coordinator

LEMMA StepOnce ==
    ASSUME TypeInv, EndsInv, OnceInv, "retention" \notin Faults, [Next]_vars
    PROVE  OnceInv'
<1> SUFFICES ASSUME NEW o \in Ops
             PROVE  /\ executed'[o] \in {0, 1}
                    /\ executed'[o] = 1 => ~Fresh(o)'
                    /\ cur'.op = o /\ cur'.at \in {"applying", "execute"} => executed'[o] = 0 /\ ~Fresh(o)'
    BY DEF OnceInv
<1>1. ~Fresh(o) => ~Fresh(o)'
    BY DiskMoves DEF Fresh
<1>2. executed[o] \in {0, 1} /\ (executed[o] = 1 => ~Fresh(o))
    BY DEF OnceInv
<1>3. CASE UNCHANGED executed
    <2>1. CASE UNCHANGED cur
        BY <1>1, <1>2, <1>3, <2>1 DEF OnceInv
    <2>2. CASE cur'.op = cur.op /\ cur.at = "snapshot" /\ Fresh(cur.op)
               /\ disk' = [disk EXCEPT ![cur.op] = [state |-> "snapshotted", captured |-> files[Here]]]
        <3>1. cur.op \in Ops /\ disk'[cur.op].state = "snapshotted"
            BY <2>2, HereTyped DEF TypeInv, TypeOK
        <3>2. CASE o = cur.op
            BY <1>2, <1>3, <2>2, <3>1, <3>2 DEF Fresh
        <3>3. CASE o # cur.op
            BY <1>1, <1>2, <1>3, <2>2, <3>3
        <3> QED BY <3>2, <3>3
    <2>3. CASE cur'.op = cur.op /\ cur.at = "applying"
        BY <1>1, <1>2, <1>3, <2>3 DEF OnceInv
    <2> QED BY <1>1, <1>2, <1>3, <2>1, <2>2, <2>3, CurMoves
<1>4. CASE /\ cur.at = "execute" /\ executed' = [executed EXCEPT ![cur.op] = @ + 1]
           /\ cur'.at \notin {"applying", "execute"}
    <2>1. executed \in [Ops -> Nat]
        BY DEF TypeInv, TypeOK
    <2>2. CASE o = cur.op
        BY <1>1, <1>4, <2>1, <2>2 DEF OnceInv
    <2>3. CASE o # cur.op
        BY <1>1, <1>2, <1>4, <2>1, <2>3
    <2> QED BY <2>2, <2>3
<1> QED BY <1>3, <1>4, ExecutedMoves

\* Unless manifests are pruned, an operation mutates files at most once, however often
\* it is requested and wherever the agent crashes (CreateOperationForDiagnostic, Recover).
THEOREM OnceCorrect == Spec => []MutatesOnce
<1> DEFINE I == TypeInv /\ EndsInv /\ ("retention" \notin Faults => OnceInv)
<1>1. Init => I
    BY InitTyped DEF Init, Idle, EndsInv, OnceInv
<1>2. I /\ [Next]_vars => I'
    BY StepTyped, StepEnds, StepOnce, FaultsKept
<1>3. I => MutatesOnce
    BY DEF OnceInv, MutatesOnce
<1> QED BY <1>1, <1>2, <1>3, PTL DEF Spec
-----------------------------------------------------------------------------
(* A rollback restores what was captured. *)

\* A rollback about to be called done has put back what was captured.
RestoredInv ==
    cur.at = "check" \/ (cur.at = "conclude" /\ cur.ended = "rolled_back")
        => files[Here] = disk[cur.op].captured

LEMMA StepRestored == ASSUME TypeInv, EndsInv, RestoredInv, [Next]_vars PROVE RestoredInv'
<1>1. CASE cur'.op = cur.op /\ cur.at = "restore" /\ UNCHANGED disk /\ Restored(disk[cur.op].captured)
    <2>1. Here \in Resources /\ cur.op \in Ops
        BY <1>1, HereTyped
    <2>2. files'[Here] = disk[cur.op].captured
        BY <1>1, <2>1 DEF Restored, TypeInv, TypeOK
    <2> QED BY <1>1, <2>2 DEF RestoredInv, Here
<1>2. CASE cur'.op = cur.op /\ cur.at = "check" /\ UNCHANGED <<disk, files>>
    BY <1>2 DEF RestoredInv, Here
<1>3. CASE UNCHANGED cur /\ cur.at \in {"check", "conclude"}
    <2>1. cur.op \in Ops
        BY <1>3, HereTyped
    <2>2. disk'[cur.op].captured = disk[cur.op].captured
        BY <1>3, <2>1, DiskMoves
    <2>3. UNCHANGED files
        <3>1. ~Execute /\ ~Restore /\ ~Crash /\ ~\E r \in Resources : Write(r)
            BY <1>3, CurTyped DEF Execute, Restore, Crash, Write, Free, At
        <3>2. CASE Coordinator /\ ~Execute /\ ~Restore
            BY <3>2
               DEF Coordinator, fileVars, TakeSnapshot, Apply, Revalidate, Enter, Validate, Succeed, EnterRollback,
                   Check, Conclude, Resume
        <3>3. CASE Inspect \/ Restart \/ UNCHANGED vars \/ \E o \in Ops : Automatic(o) \/ Request(o)
            BY <3>3 DEF Inspect, Restart, vars, Automatic, Request, Start, fileVars
        <3> QED BY <3>1, <3>2, <3>3 DEF Next
    <2> QED BY <1>3, <2>2, <2>3 DEF RestoredInv, Here
<1>4. CASE \/ cur'.at \notin {"check", "conclude"}
           \/ cur'.at = "conclude" /\ cur'.ended = "rollback_failed"
    BY <1>4 DEF RestoredInv
<1> QED BY <1>1, <1>2, <1>3, <1>4, CurMoves

\* An operation that says rolled_back has put back exactly what it captured, whatever
\* fails (rollbackLocked, Recover, SnapshotStore.Rollback).
THEOREM RestoreCorrect == Spec => RestoresExactly
<1> DEFINE I == TypeInv /\ EndsInv /\ RestoredInv
           A == \A o \in Ops : disk[o].state # "rolled_back" /\ disk'[o].state = "rolled_back"
                    => files'[ResourceOf[o]] = disk[o].captured
<1>1. Init => I
    BY InitTyped DEF Init, Idle, EndsInv, RestoredInv
<1>2. I /\ [Next]_vars => I'
    BY StepTyped, StepEnds, StepRestored
<1>3. I /\ [Next]_vars => [A]_vars
    <2> SUFFICES ASSUME I, [Next]_vars, NEW o \in Ops,
                        disk[o].state # "rolled_back", disk'[o].state = "rolled_back"
                 PROVE  files'[ResourceOf[o]] = disk[o].captured
        OBVIOUS
    <2> QED BY DiskMoves DEF RestoredInv, Here
<1> HIDE DEF I
<1> QED BY <1>1, <1>2, <1>3, PTL DEF Spec, RestoresExactly
-----------------------------------------------------------------------------
(* What a rollback undoes, and what a failed one keeps off, where every manifest   *)
(* is written.                                                                      *)

\* The operations whose manifest says that they may have mutated files and have not ended.
Underway == {o \in Ops : disk[o].state \in {"applying", "validating", "rolling_back"}}

\* The manifest of the operation under way says where it is.
OnRecord ==
    /\ cur.at = "applying" => disk[cur.op].state = "snapshotted"
    /\ cur.at \in {"execute", "validating"} => disk[cur.op].state = "applying"
    /\ cur.at \in {"validate", "succeeded"} => disk[cur.op].state = "validating"
    /\ cur.at = "rolling_back" => cur.from \in {"applying", "validating"} /\ disk[cur.op].state = cur.from
    /\ cur.at \in {"restore", "check", "conclude"} => disk[cur.op].state = "rolling_back"

\* A running agent is at what is under way or is still to resume it, and begins nothing before.
Attended ==
    /\ \A o \in Underway : running => o \in resuming \/ (o = cur.op /\ cur.at \notin {"idle", "snapshot", "applying"})
    /\ \A o, p \in Underway : o = p
    /\ cur.at # "idle" => running
    /\ cur.at \in {"snapshot", "applying", "execute"} => resuming = {}

\* What is under way found the files as it captured them, or has written them.
Untouched ==
    /\ \A o \in Underway : files[ResourceOf[o]] = disk[o].captured \/ files[ResourceOf[o]].by = o
    /\ cur.at = "applying" => files[Here] = disk[cur.op].captured

\* A rollback that failed has set the latch, or what sets it is to come: its restore is
\* under way, or its manifest is to be resumed.
Remembered ==
    \A r \in damaged \ latched : \E o \in Ops :
        /\ ResourceOf[o] = r
        /\ \/ disk[o].state = "rolling_back"
           \/ disk[o].state = "rollback_failed" /\ (running => o \in resuming)

\* An automatic repair begins on what no rollback failed on, and a restore that succeeded
\* is on none.
KeptOff ==
    /\ cur.at \in {"snapshot", "applying", "execute"} /\ cur.op \notin UserOps => Here \notin damaged
    /\ cur.at = "conclude" /\ cur.ended = "rolled_back" => Here \notin damaged

UndoInv == OnRecord /\ Attended /\ Untouched /\ Remembered /\ KeptOff
Calm == TypeInv /\ EndsInv /\ UndoInv /\ "disk" \notin Faults

\* Where every manifest is written, the next one is, and the pruned ones had ended.
LEMMA Written ==
    ASSUME Calm, NEW o \in Ops, NEW from, NEW to, NEW d \in [Ops -> [state : States, captured : Contents]]
    PROVE  /\ ~Fault("disk")
           /\ disk[o].state = from => ~NotPersisted(o, from, to)
           /\ \A e \in Pruned(d), p \in Ops :
                 /\ e[p].captured = d[p].captured
                 /\ \/ e[p].state = d[p].state
                    \/ d[p].state \in {"succeeded", "rolled_back", "incomplete"} /\ e[p].state = "pruned"
<1>1. ~Fault("disk")
    BY DEF Calm, Fault
<1>2. disk[o].state = from => ~NotPersisted(o, from, to)
    BY <1>1 DEF NotPersisted
<1>3. ASSUME NEW e \in Pruned(d), NEW p \in Ops
      PROVE  /\ e[p].captured = d[p].captured
             /\ \/ e[p].state = d[p].state
                \/ d[p].state \in {"succeeded", "rolled_back", "incomplete"} /\ e[p].state = "pruned"
    <2>1. CASE e = d
        BY <2>1
    <2>2. ASSUME NEW gone \in SUBSET Prunable(d),
                 e = [q \in Ops |-> IF q \in gone THEN [d[q] EXCEPT !.state = "pruned"] ELSE d[q]]
          PROVE  /\ e[p].captured = d[p].captured
                 /\ \/ e[p].state = d[p].state
                    \/ d[p].state \in {"succeeded", "rolled_back", "incomplete"} /\ e[p].state = "pruned"
        BY <2>2 DEF Prunable
    <2> QED BY <2>1, <2>2 DEF Pruned
<1> QED BY <1>1, <1>2, <1>3

LEMMA PutIs ==
    ASSUME Calm, NEW o \in Ops, NEW to, Put(o, to)
    PROVE  \A p \in Ops : /\ disk'[p].state = IF p = o THEN to ELSE disk[p].state
                          /\ disk'[p].captured = disk[p].captured
BY DEF Put, Calm, TypeInv, TypeOK

\* An outcome is written, and manifests pruned.
LEMMA Ended ==
    ASSUME Calm, NEW o \in Ops, NEW state \in Terminal, disk' \in Pruned([disk EXCEPT ![o].state = state])
    PROVE  \A p \in Ops :
              /\ disk'[p].captured = disk[p].captured
              /\ p # o => \/ disk'[p].state = disk[p].state
                          \/ disk[p].state \in {"succeeded", "rolled_back", "incomplete"} /\ disk'[p].state = "pruned"
              /\ p = o => disk'[p].state = state \/ (disk'[p].state = "pruned" /\ state # "rollback_failed")
<1> DEFINE d == [disk EXCEPT ![o].state = state]
<1>1. /\ d \in [Ops -> [state : States, captured : Contents]]
      /\ \A p \in Ops : /\ d[p].state = IF p = o THEN state ELSE disk[p].state
                        /\ d[p].captured = disk[p].captured
    BY DEF Calm, TypeInv, TypeOK, States
<1> HIDE DEF d
<1>2. disk' \in Pruned(d)
    BY DEF d
<1> QED BY <1>1, <1>2, Written DEF Terminal

\* A step that leaves the manifests, the files, the latch and the damage alone.
LEMMA Quiet ==
    ASSUME Calm, TypeInv', UNCHANGED <<disk, files, latched, damaged, running, resuming>>,
           \/ UNCHANGED cur
           \/ /\ cur.at # "idle" /\ cur'.op = cur.op
              /\ cur.at \notin {"snapshot", "applying"} /\ cur'.at \notin {"idle", "snapshot", "applying", "execute"}
    PROVE  OnRecord' /\ KeptOff' => UndoInv'
<1>1. Underway' = Underway
    BY DEF Underway
<1>2. Attended'
    BY <1>1 DEF Calm, UndoInv, Attended
<1>3. Untouched'
    BY <1>1 DEF Calm, UndoInv, Untouched, Here
<1>4. Remembered'
    BY DEF Calm, UndoInv, Remembered
<1> QED BY <1>2, <1>3, <1>4 DEF UndoInv

LEMMA WriteUndo == ASSUME Calm, NEW r \in Resources, Write(r) PROVE UndoInv'
<1>1. Underway = {} /\ cur.at = "idle" /\ cur' = cur
    BY CurTyped DEF Write, Free, agentVars, Calm, UndoInv, Attended
<1>2. Underway' = {}
    BY <1>1 DEF Write, Underway
<1> QED BY <1>1, <1>2
    DEF Write, agentVars, Calm, UndoInv, OnRecord, Attended, Untouched, Remembered, KeptOff

LEMMA StillUndo ==
    ASSUME Calm, Inspect \/ UNCHANGED vars
    PROVE  UndoInv'
<1>1. UNCHANGED <<disk, files, latched, damaged, running, resuming, cur>>
    BY DEF Inspect, fileVars, agentVars, vars
<1>2. Underway' = Underway /\ Here' = Here
    BY <1>1 DEF Underway, Here
<1> QED BY <1>1, <1>2 DEF Calm, UndoInv, OnRecord, Attended, Untouched, Remembered, KeptOff

LEMMA StartUndo == ASSUME Calm, NEW o \in Ops, Automatic(o) \/ Request(o) PROVE UndoInv'
<1>1. UNCHANGED <<disk, files, latched, damaged, running, resuming>> /\ Free /\ cur.at = "idle"
    BY CurTyped DEF Automatic, Request, Start, fileVars, Free, Calm
<1>2. Underway = {} /\ Underway' = {}
    <2>1. Underway = {}
        BY <1>1 DEF Free, Calm, UndoInv, Attended
    <2> QED BY <1>1, <2>1 DEF Underway
<1>3. damaged \subseteq latched
    <2> SUFFICES ASSUME NEW r \in damaged \ latched PROVE FALSE
        OBVIOUS
    <2>1. PICK p \in Ops : \/ disk[p].state = "rolling_back"
                           \/ disk[p].state = "rollback_failed" /\ (running => p \in resuming)
        BY DEF Calm, UndoInv, Remembered
    <2> QED BY <1>1, <1>2, <2>1 DEF Free, Underway
<1>4. CASE UNCHANGED cur
    BY <1>1, <1>2, <1>4 DEF Calm, UndoInv, OnRecord, Attended, Untouched, Remembered, KeptOff
<1>5. CASE cur' = [Idle EXCEPT !.op = o, !.at = "snapshot"]
    <2>1. cur'.op = o /\ cur'.at = "snapshot"
        BY <1>5 DEF Idle
    <2>2. o \notin UserOps => ResourceOf[o] \notin damaged
        BY <1>1, <1>3, <2>1 DEF Automatic, Request
    <2> QED BY <1>1, <1>2, <2>1, <2>2
        DEF Calm, UndoInv, OnRecord, Attended, Untouched, Remembered, KeptOff, Here, Free
<1> QED BY <1>4, <1>5 DEF Automatic, Request

LEMMA TakeSnapshotUndo == ASSUME Calm, TakeSnapshot PROVE UndoInv'
<1>1. /\ cur.op \in Ops /\ Here \in Resources /\ cur.at = "snapshot"
      /\ UNCHANGED <<files, latched, damaged, running, resuming>>
    BY HereTyped DEF TakeSnapshot, At, fileVars, Calm
<1>2. Underway = {} /\ running /\ resuming = {}
    BY <1>1 DEF Calm, UndoInv, Attended
<1>3. CASE /\ Fresh(cur.op) /\ Goto("applying")
           /\ disk' = [disk EXCEPT ![cur.op] = [state |-> "snapshotted", captured |-> files[Here]]]
    <2>1. cur'.op = cur.op /\ cur'.at = "applying"
        BY <1>3, CurTyped DEF Calm, Steps
    <2>2. \A p \in Ops : /\ disk'[p] = IF p = cur.op THEN [state |-> "snapshotted", captured |-> files[Here]] ELSE disk[p]
        BY <1>1, <1>3 DEF Calm, TypeInv, TypeOK
    <2>3. Underway' = {}
        BY <1>2, <2>2 DEF Underway
    <2>4. Remembered'
        BY <1>1, <1>3, <2>2 DEF Calm, UndoInv, Remembered, Fresh
    <2> QED BY <1>1, <1>2, <2>1, <2>2, <2>3, <2>4
        DEF Calm, UndoInv, OnRecord, Attended, Untouched, KeptOff, Here
<1>4. CASE cur' = Idle /\ UNCHANGED disk
    <2>1. cur'.at = "idle" /\ Underway' = {}
        BY <1>2, <1>4, CurTyped DEF Calm, Underway
    <2> QED BY <1>1, <1>2, <1>4, <2>1
        DEF Calm, UndoInv, OnRecord, Attended, Untouched, Remembered, KeptOff
<1> QED BY <1>3, <1>4 DEF TakeSnapshot

LEMMA EnterUndo == ASSUME Calm, Apply \/ Revalidate PROVE UndoInv'
<1> DEFINE o == cur.op
<1>1. /\ o \in Ops /\ Here \in Resources /\ cur.at \in {"applying", "validating"}
      /\ UNCHANGED <<files, latched, damaged, running, resuming>>
    BY HereTyped DEF Apply, Revalidate, Enter, At, fileVars, Calm
<1>2. CASE Apply
    <2>1. Persisted(o, "snapshotted", "applying") /\ Goto("execute") /\ cur.at = "applying"
        BY <1>1, <1>2, Written DEF Apply, Enter, At, Calm, UndoInv, OnRecord, TypeInv, TypeOK
    <2>2. cur'.op = o /\ cur'.at = "execute"
        BY <2>1, CurTyped DEF Calm, Steps
    <2>3. \A p \in Ops : /\ disk'[p].state = IF p = o THEN "applying" ELSE disk[p].state
                         /\ disk'[p].captured = disk[p].captured
        BY <1>1, <2>1, PutIs DEF Persisted
    <2>4. Underway = {} /\ Underway' = {o} /\ running /\ resuming = {} /\ disk[o].state = "snapshotted"
        BY <1>1, <2>1, <2>3 DEF Underway, Calm, UndoInv, Attended, OnRecord
    <2>5. Remembered'
        BY <1>1, <2>3, <2>4 DEF Calm, UndoInv, Remembered
    <2> QED BY <1>1, <2>1, <2>2, <2>3, <2>4, <2>5
        DEF Calm, UndoInv, OnRecord, Attended, Untouched, KeptOff, Here
<1>3. CASE Revalidate
    <2>1. Persisted(o, "applying", "validating") /\ Goto("validate") /\ cur.at = "validating"
        BY <1>1, <1>3, Written DEF Revalidate, Enter, At, Calm, UndoInv, OnRecord, TypeInv, TypeOK
    <2>2. cur'.op = o /\ cur'.at = "validate"
        BY <2>1, CurTyped DEF Calm, Steps
    <2>3. \A p \in Ops : /\ disk'[p].state = IF p = o THEN "validating" ELSE disk[p].state
                         /\ disk'[p].captured = disk[p].captured
        BY <1>1, <2>1, PutIs DEF Persisted
    <2>4. Underway' = Underway /\ disk[o].state = "applying"
        BY <1>1, <2>1, <2>3 DEF Underway, Calm, UndoInv, OnRecord
    <2>5. Remembered'
        BY <1>1, <2>3, <2>4 DEF Calm, UndoInv, Remembered
    <2>6. Attended'
        BY <1>1, <2>1, <2>2, <2>4 DEF Calm, UndoInv, Attended
    <2>7. Untouched'
        BY <1>1, <2>2, <2>3, <2>4 DEF Calm, UndoInv, Untouched, Underway
    <2>8. OnRecord' /\ KeptOff'
        BY <1>1, <2>2, <2>3 DEF OnRecord, KeptOff
    <2> QED BY <2>5, <2>6, <2>7, <2>8 DEF UndoInv
<1> QED BY <1>2, <1>3

\* What the operation under way writes is its own.
LEMMA OwnContent ==
    ASSUME Calm, cur.at # "idle", NEW k, NEW r \in Resources,
           Restored(Content(k, cur.op)) \/ Mutated(k)
    PROVE  files'[r] = files[r] \/ (r = Here /\ files'[r].by = cur.op)
BY HereTyped DEF Restored, Mutated, Content, Calm, TypeInv, TypeOK

LEMMA ExecuteUndo == ASSUME Calm, Execute PROVE UndoInv'
<1> DEFINE o == cur.op
<1>1. /\ o \in Ops /\ Here \in Resources /\ cur.at = "execute" /\ disk[o].state = "applying"
      /\ UNCHANGED <<disk, latched, damaged, running, resuming>>
    BY HereTyped DEF Execute, At, fileVars, Calm, UndoInv, OnRecord
<1>2. Underway' = Underway /\ Underway = {o}
    BY <1>1 DEF Underway, Calm, UndoInv, Attended
<1>3. cur'.op = o /\ (cur'.at = "validating" \/ (cur'.at = "rolling_back" /\ cur'.from = "applying"))
    BY CurTyped, Places DEF Execute, Steps, Calm, RollBack, TypeInv, TypeOK, Work
<1>4. files'[Here] = files[Here] \/ files'[Here].by = o
    BY <1>1, OwnContent DEF Execute, fileVars
<1>5. Untouched'
    BY <1>1, <1>2, <1>3, <1>4 DEF Calm, UndoInv, Untouched, Here
<1> QED BY <1>1, <1>2, <1>3, <1>5 DEF Calm, UndoInv, OnRecord, Attended, Remembered, KeptOff, Here

LEMMA ValidateUndo == ASSUME Calm, TypeInv', Validate PROVE UndoInv'
<1>1. /\ UNCHANGED <<disk, files, latched, damaged, running, resuming>> /\ cur.at = "validate" /\ cur'.op = cur.op
      /\ (cur'.at = "succeeded" \/ (cur'.at = "rolling_back" /\ cur'.from = "validating"))
    BY CurTyped, Places DEF Validate, At, Steps, Calm, RollBack, TypeInv, TypeOK, Work, fileVars
<1>2. OnRecord' /\ KeptOff'
    BY <1>1 DEF Calm, UndoInv, OnRecord, KeptOff
<1> QED BY <1>1, <1>2, Quiet

LEMMA SucceedUndo == ASSUME Calm, Succeed PROVE UndoInv'
<1> DEFINE o == cur.op
<1>1. /\ o \in Ops /\ Here \in Resources /\ cur.at = "succeeded" /\ disk[o].state = "validating"
      /\ UNCHANGED <<files, running, resuming>> /\ cur'.at = "idle"
    BY HereTyped, CurTyped DEF Succeed, At, fileVars, Calm, UndoInv, OnRecord
<1>2. /\ disk' \in Pruned([disk EXCEPT ![o].state = "succeeded"])
      /\ latched' = latched \/ (latched' = latched \ {Here} /\ o \in UserOps)
      /\ damaged' = IF o \in UserOps THEN damaged \ {Here} ELSE damaged
    BY <1>1, Written DEF Succeed, Calm, TypeInv, TypeOK
<1>3. \A p \in Ops : /\ disk'[p].captured = disk[p].captured
                     /\ p # o => \/ disk'[p].state = disk[p].state
                                 \/ disk[p].state \in {"succeeded", "rolled_back", "incomplete"} /\ disk'[p].state = "pruned"
                     /\ p = o => disk'[p].state \in {"succeeded", "pruned"}
    BY <1>1, <1>2, Ended DEF Terminal
<1>4. Underway' = {}
    BY <1>1, <1>3 DEF Underway, Calm, UndoInv, Attended
<1>5. Remembered'
    <2> SUFFICES ASSUME NEW r \in damaged' \ latched'
                 PROVE  \E p \in Ops : /\ ResourceOf[p] = r
                                       /\ \/ disk'[p].state = "rolling_back"
                                          \/ disk'[p].state = "rollback_failed" /\ (running => p \in resuming)
        BY <1>1 DEF Remembered
    <2>1. r \in damaged \ latched
        BY <1>2
    <2>2. PICK p \in Ops : /\ ResourceOf[p] = r
                           /\ \/ disk[p].state = "rolling_back"
                              \/ disk[p].state = "rollback_failed" /\ (running => p \in resuming)
        BY <2>1 DEF Calm, UndoInv, Remembered
    <2>3. disk'[p].state = disk[p].state
        BY <1>1, <1>3, <2>2
    <2> QED BY <2>2, <2>3
<1> QED BY <1>1, <1>4, <1>5 DEF UndoInv, OnRecord, Attended, Untouched, KeptOff

LEMMA EnterRollbackUndo == ASSUME Calm, EnterRollback PROVE UndoInv'
<1> DEFINE o == cur.op
<1>1. /\ o \in Ops /\ Here \in Resources /\ cur.at = "rolling_back" /\ disk[o].state = cur.from
      /\ cur.from \in {"applying", "validating"}
      /\ UNCHANGED <<files, latched, running, resuming>>
    BY HereTyped DEF EnterRollback, At, fileVars, Calm, UndoInv, OnRecord
<1>2. Persisted(o, cur.from, "rolling_back") /\ Goto("restore") /\ UNCHANGED damaged
    BY <1>1, Written DEF EnterRollback, Calm, TypeInv, TypeOK
<1>3. cur'.op = o /\ cur'.at = "restore"
    BY <1>2, CurTyped DEF Calm, Steps
<1>4. \A p \in Ops : /\ disk'[p].state = IF p = o THEN "rolling_back" ELSE disk[p].state
                     /\ disk'[p].captured = disk[p].captured
    BY <1>1, <1>2, PutIs DEF Persisted
<1>5. Underway' = Underway
    BY <1>1, <1>4 DEF Underway
<1>6. Remembered'
    BY <1>1, <1>2, <1>4 DEF Calm, UndoInv, Remembered
<1>7. Attended'
    BY <1>1, <1>3, <1>5 DEF Calm, UndoInv, Attended
<1>8. Untouched'
    BY <1>1, <1>3, <1>4, <1>5 DEF Calm, UndoInv, Untouched, Underway
<1>9. OnRecord' /\ KeptOff'
    BY <1>1, <1>3, <1>4 DEF OnRecord, KeptOff
<1> QED BY <1>6, <1>7, <1>8, <1>9 DEF UndoInv

\* A rollback at its files: what it leaves there is what was captured or its own.
LEMMA RollingUndo ==
    ASSUME Calm, TypeInv', cur.at \in {"restore", "check"}, cur.op \in Ops, Here \in Resources,
           \A r \in Resources : \/ files'[r] = files[r]
                                \/ r = Here /\ (files'[r] = disk[cur.op].captured \/ files'[r].by = cur.op),
           UNCHANGED <<disk, latched, running, resuming>>, cur'.op = cur.op,
           \/ cur'.at = "check" /\ UNCHANGED damaged
           \/ cur'.at = "conclude" /\ cur'.ended = "rolled_back" /\ damaged' = damaged \ {Here}
           \/ cur'.at = "conclude" /\ cur'.ended = "rollback_failed" /\ damaged' = damaged \cup {Here}
    PROVE  UndoInv'
<1>1. disk[cur.op].state = "rolling_back" /\ Underway' = Underway /\ Underway = {cur.op}
    BY DEF Calm, UndoInv, OnRecord, Attended, Underway
<1>2. Remembered'
    BY <1>1 DEF Calm, UndoInv, Remembered, Here
<1>3. OnRecord' /\ Attended'
    BY <1>1 DEF Calm, UndoInv, OnRecord, Attended
<1>4. Untouched'
    BY <1>1 DEF Calm, UndoInv, Untouched, Here
<1>5. KeptOff'
    BY DEF KeptOff, Here
<1> QED BY <1>2, <1>3, <1>4, <1>5 DEF UndoInv

LEMMA RestoreUndo == ASSUME Calm, TypeInv', Restore PROVE UndoInv'
<1>1. /\ cur.op \in Ops /\ Here \in Resources /\ cur.at = "restore" /\ cur.at # "idle"
      /\ UNCHANGED <<disk, latched, running, resuming>>
    BY HereTyped DEF Restore, At, Calm
<1>2. CASE Restored(disk[cur.op].captured) /\ Goto("check") /\ UNCHANGED damaged
    <2>1. cur'.op = cur.op /\ cur'.at = "check"
        BY <1>2, CurTyped DEF Calm, Steps
    <2>2. \A r \in Resources : files'[r] = files[r] \/ (r = Here /\ files'[r] = disk[cur.op].captured)
        BY <1>1, <1>2 DEF Restored, Calm, TypeInv, TypeOK
    <2> QED BY <1>1, <1>2, <2>1, <2>2, RollingUndo
<1>3. CASE (UNCHANGED fileVars \/ Restored(Content("part", cur.op))) /\ Failed
    <2>1. cur'.op = cur.op /\ cur'.at = "conclude" /\ cur'.ended = "rollback_failed" /\ damaged' = damaged \cup {Here}
        BY <1>1, <1>3, CurTyped DEF Calm, Failed, Terminal
    <2>2. \A r \in Resources : files'[r] = files[r] \/ (r = Here /\ files'[r].by = cur.op)
        BY <1>1, <1>3, OwnContent DEF fileVars
    <2> QED BY <1>1, <2>1, <2>2, RollingUndo
<1> QED BY <1>2, <1>3 DEF Restore

LEMMA CheckUndo == ASSUME Calm, TypeInv', Check PROVE UndoInv'
<1>1. /\ cur.op \in Ops /\ Here \in Resources /\ cur.at = "check" /\ cur.at # "idle"
      /\ UNCHANGED <<files, disk, latched, running, resuming>>
    BY HereTyped DEF Check, At, Calm, fileVars
<1>2. /\ cur'.op = cur.op /\ cur'.at = "conclude"
      /\ \/ cur'.ended = "rolled_back" /\ damaged' = damaged \ {Here}
         \/ cur'.ended = "rollback_failed" /\ damaged' = damaged \cup {Here}
    BY CurTyped DEF Calm, Check, Failed, Terminal
<1> QED BY <1>1, <1>2, RollingUndo

LEMMA ConcludeUndo == ASSUME Calm, Conclude PROVE UndoInv'
<1> DEFINE o == cur.op
<1>1. /\ o \in Ops /\ Here \in Resources /\ cur.at = "conclude" /\ disk[o].state = "rolling_back"
      /\ cur.ended \in {"rolled_back", "rollback_failed"}
      /\ UNCHANGED <<files, running, resuming, damaged>> /\ cur'.at = "idle"
    BY HereTyped, CurTyped DEF Conclude, At, fileVars, Calm, UndoInv, OnRecord, EndsInv
<1>2. /\ disk' \in Pruned([disk EXCEPT ![o].state = cur.ended])
      /\ latched' = IF cur.ended = "rollback_failed" THEN latched \cup {Here} ELSE latched
    BY <1>1, Written DEF Conclude, Calm, TypeInv, TypeOK
<1>3. \A p \in Ops : /\ disk'[p].captured = disk[p].captured
                     /\ p # o => \/ disk'[p].state = disk[p].state
                                 \/ disk[p].state \in {"succeeded", "rolled_back", "incomplete"} /\ disk'[p].state = "pruned"
                     /\ p = o => disk'[p].state = cur.ended \/ disk'[p].state = "pruned"
    BY <1>1, <1>2, Ended DEF Terminal
<1>4. Underway' = {}
    BY <1>1, <1>3 DEF Underway, Calm, UndoInv, Attended
<1>5. Remembered'
    <2> SUFFICES ASSUME NEW r \in damaged \ latched'
                 PROVE  \E p \in Ops : /\ ResourceOf[p] = r
                                       /\ \/ disk'[p].state = "rolling_back"
                                          \/ disk'[p].state = "rollback_failed" /\ (running => p \in resuming)
        BY <1>1 DEF Remembered
    <2>1. r \in damaged \ latched
        BY <1>2
    <2>2. PICK p \in Ops : /\ ResourceOf[p] = r
                           /\ \/ disk[p].state = "rolling_back"
                              \/ disk[p].state = "rollback_failed" /\ (running => p \in resuming)
        BY <2>1 DEF Calm, UndoInv, Remembered
    <2>3. p # o
        BY <1>1, <1>2, <2>2 DEF Calm, UndoInv, KeptOff, Here
    <2>4. disk'[p].state = disk[p].state
        BY <1>3, <2>2, <2>3
    <2> QED BY <2>2, <2>4
<1> QED BY <1>1, <1>4, <1>5 DEF UndoInv, OnRecord, Attended, Untouched, KeptOff

LEMMA CrashUndo == ASSUME Calm, Crash PROVE UndoInv'
<1> DEFINE o == cur.op
<1>1. running' = FALSE /\ cur'.at = "idle" /\ UNCHANGED <<latched, damaged>>
    BY CurTyped DEF Crash, Calm
<1>2. CASE UNCHANGED <<files, disk>>
    <2>1. Underway' = Underway
        BY <1>2 DEF Underway
    <2> QED BY <1>1, <1>2, <2>1 DEF Calm, UndoInv, OnRecord, Attended, Untouched, Remembered, KeptOff
<1>3. ASSUME NEW s \in States, UNCHANGED files, Put(o, s), o \in Ops,
             \/ cur.at = "snapshot" /\ Fresh(o) /\ s = "incomplete"
             \/ cur.at = "succeeded" /\ disk[o].state = "validating" /\ s = "succeeded"
             \/ cur.at = "conclude" /\ disk[o].state = "rolling_back" /\ s = cur.ended
      PROVE  UndoInv'
    <2>1. \A p \in Ops : /\ disk'[p].state = IF p = o THEN s ELSE disk[p].state
                         /\ disk'[p].captured = disk[p].captured
        BY <1>3, PutIs
    <2>2. s \in {"incomplete", "succeeded", "rolled_back", "rollback_failed"}
        BY <1>3 DEF Calm, EndsInv
    <2>3. Underway' \subseteq Underway
        BY <2>1, <2>2 DEF Underway
    <2>4. Remembered'
        <3> SUFFICES ASSUME NEW r \in damaged \ latched
                     PROVE  \E p \in Ops : /\ ResourceOf[p] = r
                                           /\ \/ disk'[p].state = "rolling_back"
                                              \/ disk'[p].state = "rollback_failed"
            BY <1>1 DEF Remembered
        <3>1. PICK p \in Ops : /\ ResourceOf[p] = r
                               /\ \/ disk[p].state = "rolling_back"
                                  \/ disk[p].state = "rollback_failed"
            BY DEF Calm, UndoInv, Remembered
        <3>2. p = o => s = "rollback_failed"
            BY <1>3, <3>1 DEF Calm, UndoInv, EndsInv, KeptOff, Here, Fresh
        <3> QED BY <2>1, <3>1, <3>2
    <2>5. OnRecord' /\ Attended' /\ KeptOff'
        BY <1>1, <2>3 DEF Calm, UndoInv, OnRecord, Attended, KeptOff, Underway
    <2>6. Untouched'
        BY <1>1, <1>3, <2>1, <2>3 DEF Calm, UndoInv, Untouched, Underway
    <2> QED BY <2>4, <2>5, <2>6 DEF UndoInv
<1>4. ASSUME cur.at \in {"execute", "restore"}, UNCHANGED disk, o \in Ops, Here \in Resources,
             \A r \in Resources : \/ files'[r] = files[r]
                                  \/ r = Here /\ (files'[r] = disk[o].captured \/ files'[r].by = o)
      PROVE  UndoInv'
    <2>1. Underway' = Underway /\ Underway = {o}
        BY <1>4 DEF Underway, Calm, UndoInv, OnRecord, Attended
    <2>2. Untouched'
        BY <1>1, <1>4, <2>1 DEF Calm, UndoInv, Untouched, Here
    <2> QED BY <1>1, <1>4, <2>1, <2>2 DEF Calm, UndoInv, OnRecord, Attended, Remembered, KeptOff
<1>5. CASE /\ UNCHANGED <<fileVars, executed>>
           /\ \/ UNCHANGED disk
              \/ cur.at = "snapshot" /\ Fresh(cur.op) /\ Put(cur.op, "incomplete")
              \/ cur.at = "succeeded" /\ disk[cur.op].state = "validating" /\ Put(cur.op, "succeeded")
              \/ cur.at = "conclude" /\ disk[cur.op].state = "rolling_back" /\ Put(cur.op, cur.ended)
    <2>1. cur.at # "idle" => o \in Ops
        BY HereTyped DEF Calm
    <2>2. {"incomplete", "succeeded"} \subseteq States /\ cur.ended \in States
        BY DEF States, Terminal, Calm, TypeInv, TypeOK, Work
    <2> QED BY <1>2, <1>3, <1>5, <2>1, <2>2 DEF fileVars
<1>6. CASE /\ cur.at = "execute" /\ files[Here] = found[Here]
           /\ \E kind \in {"part", "good"} : Mutated(kind)
           /\ UNCHANGED disk
    BY <1>4, <1>6, HereTyped, OwnContent DEF Calm
<1>7. CASE /\ cur.at = "restore"
           /\ \/ Restored(Content("part", cur.op)) /\ writes' = writes + 1
              \/ Restored(disk[cur.op].captured) /\ UNCHANGED writes
           /\ UNCHANGED <<disk, executed>>
    <2>1. o \in Ops /\ Here \in Resources
        BY <1>7, HereTyped DEF Calm
    <2>2. \A r \in Resources : \/ files'[r] = files[r]
                               \/ r = Here /\ (files'[r] = disk[o].captured \/ files'[r].by = o)
        BY <1>7, <2>1, OwnContent DEF Restored, Calm, TypeInv, TypeOK
    <2> QED BY <1>4, <1>7, <2>1, <2>2
<1> QED BY <1>5, <1>6, <1>7 DEF Crash, Interrupted

LEMMA RestartUndo == ASSUME Calm, Restart PROVE UndoInv'
<1>1. /\ UNCHANGED <<files, cur, latched, damaged>> /\ cur.at = "idle" /\ ~running
      /\ running' = TRUE /\ resuming' = {p \in Ops : disk[p].state \in Active} /\ disk' \in Pruned(disk)
    BY DEF Restart, fileVars, Calm, UndoInv, Attended
<1>2. \A p \in Ops : /\ disk'[p].captured = disk[p].captured
                     /\ \/ disk'[p].state = disk[p].state
                        \/ disk[p].state \in {"succeeded", "rolled_back", "incomplete"} /\ disk'[p].state = "pruned"
    <2>1. disk \in [Ops -> [state : States, captured : Contents]]
        BY DEF Calm, TypeInv, TypeOK
    <2> QED BY <1>1, <2>1, Written
<1>3. Underway' = Underway /\ Underway \subseteq resuming'
    BY <1>1, <1>2 DEF Underway, Active
<1>4. Remembered'
    BY <1>1, <1>2 DEF Calm, UndoInv, Remembered, Active
<1> QED BY <1>1, <1>2, <1>3, <1>4 DEF Calm, UndoInv, OnRecord, Attended, Untouched, KeptOff

LEMMA ResumeUndo == ASSUME Calm, NEW o \in Ops, Resume(o) PROVE UndoInv'
<1>1. /\ UNCHANGED <<files, disk, running, damaged>> /\ cur.at = "idle" /\ running
      /\ o \in resuming /\ resuming' = resuming \ {o} /\ Underway' = Underway
    BY CurTyped DEF Resume, fileVars, Calm, Underway
<1>2. CASE disk[o].state = "snapshotted" /\ UNCHANGED <<latched, cur>>
    BY <1>1, <1>2 DEF Calm, UndoInv, OnRecord, Attended, Untouched, Remembered, KeptOff, Underway
<1>3. CASE disk[o].state = "rollback_failed" /\ latched' = latched \cup {ResourceOf[o]} /\ UNCHANGED cur
    BY <1>1, <1>3 DEF Calm, UndoInv, OnRecord, Attended, Untouched, Remembered, KeptOff, Underway
<1>4. CASE /\ disk[o].state \in DOMAIN Disposition
           /\ cur' = [Idle EXCEPT !.op = o, !.at = Disposition[disk[o].state],
                                 !.from = disk[o].state, !.resumed = TRUE]
           /\ UNCHANGED latched
    <2>1. /\ disk[o].state \in {"applying", "validating", "rolling_back"} /\ cur'.op = o
          /\ cur'.from = disk[o].state /\ cur'.at = Disposition[disk[o].state] /\ cur'.ended = "none"
        BY <1>4 DEF Disposition, Idle
    <2>2. /\ disk[o].state = "applying" => cur'.at = "rolling_back"
          /\ disk[o].state = "validating" => cur'.at = "validate"
          /\ disk[o].state = "rolling_back" => cur'.at = "restore"
        BY <2>1 DEF Disposition
    <2>3. OnRecord' /\ Untouched' /\ KeptOff'
        BY <1>1, <2>1, <2>2 DEF Calm, UndoInv, OnRecord, Untouched, KeptOff
    <2>4. Attended'
        BY <1>1, <2>1, <2>2 DEF Calm, UndoInv, Attended
    <2>5. Remembered'
        BY <1>1, <1>4, <2>1 DEF Calm, UndoInv, Remembered
    <2> QED BY <2>3, <2>4, <2>5 DEF UndoInv
<1> QED BY <1>2, <1>3, <1>4 DEF Resume

LEMMA StepUndo == ASSUME Calm, TypeInv', [Next]_vars PROVE UndoInv'
BY WriteUndo, StillUndo, StartUndo, TakeSnapshotUndo, EnterUndo, ExecuteUndo, ValidateUndo, SucceedUndo,
   EnterRollbackUndo, RestoreUndo, CheckUndo, ConcludeUndo, CrashUndo, RestartUndo, ResumeUndo
   DEF Next, Coordinator

LEMMA UndoInvariance == Spec => [](TypeInv /\ EndsInv /\ ("disk" \notin Faults => UndoInv))
<1> DEFINE I == TypeInv /\ EndsInv /\ ("disk" \notin Faults => UndoInv)
<1>1. Init => I
    BY InitTyped DEF Init, Idle, NoManifest, EndsInv, UndoInv, OnRecord, Attended, Untouched, Remembered, KeptOff, Underway
<1>2. I /\ [Next]_vars => I'
    <2> SUFFICES ASSUME I, [Next]_vars PROVE I'
        OBVIOUS
    <2>1. TypeInv' /\ EndsInv' /\ Faults' = Faults
        BY StepTyped, StepEnds, FaultsKept
    <2>2. "disk" \notin Faults => UndoInv'
        BY <2>1, StepUndo DEF Calm
    <2> QED BY <2>1, <2>2
<1> QED BY <1>1, <1>2, PTL DEF Spec

\* Where every manifest is written, a rollback undoes only its own operation's work, also
\* one that a restarted agent resumes (SnapshotStore.Rollback): nothing else is written
\* between the capture and the restore.
THEOREM UndoCorrect == Spec => UndoesOnlyItsOwn
<1>1. ASSUME Calm, TypeInv', [Next]_vars, NEW r \in Resources, cur.at = "restore", files'[r] # files[r]
      PROVE  files[r].by = cur.op \/ files[r] = disk[cur.op].captured
    <2>1. cur.op \in Underway /\ cur.op \in Ops /\ Here \in Resources
        BY <1>1, HereTyped DEF Calm, UndoInv, OnRecord, Underway
    <2>2. r = Here
        <3>1. Restore \/ Crash
            <4>1. ~\E s \in Resources : Write(s)
                BY <1>1, CurTyped DEF Write, Free, Calm
            <4>2. ~Execute
                BY <1>1 DEF Execute, At
            <4> QED BY <1>1, <4>1, <4>2
                   DEF Next, Coordinator, TakeSnapshot, Apply, Revalidate, Enter, Validate, Succeed, EnterRollback,
                       Check, Conclude, Resume, Inspect, Automatic, Request, Start, Restart, fileVars, vars
        <3>2. \E c : Restored(c)
            BY <1>1, <3>1 DEF Restore, Crash, Interrupted, fileVars
        <3>3. files \in [Resources -> Contents]
            BY <1>1 DEF Calm, TypeInv, TypeOK
        <3> QED BY <1>1, <2>1, <3>2, <3>3 DEF Restored
    <2> QED BY <1>1, <2>1, <2>2 DEF Calm, UndoInv, Untouched, Here
<1>2. TypeInv /\ EndsInv /\ ("disk" \notin Faults => UndoInv) /\ TypeInv' /\ [Next]_vars
        => [\A r \in Resources : "disk" \notin Faults /\ cur.at = "restore" /\ files'[r] # files[r]
              => files[r].by = cur.op \/ files[r] = disk[cur.op].captured]_vars
    BY <1>1 DEF Calm
<1> QED BY <1>2, UndoInvariance, PTL DEF Spec, UndoesOnlyItsOwn

\* Where every manifest is written, no automatic repair mutates what a rollback failed on
\* before a user's repair of it succeeded, in this process or a later one (AutoRepair,
\* Recover): the latch is set before the next repair begins.
THEOREM StopCorrect == Spec => StopsAfterFailedRollback
<1>1. ASSUME Calm, TypeInv', [Next]_vars, NEW o \in Ops \ UserOps, executed'[o] # executed[o]
      PROVE  ResourceOf[o] \notin damaged
    <2>1. cur.at = "execute" /\ executed' = [executed EXCEPT ![cur.op] = @ + 1]
        BY <1>1, ExecutedMoves DEF Calm
    <2>2. cur.op = o
        <3>1. executed \in [Ops -> Nat]
            BY <1>1 DEF Calm, TypeInv, TypeOK
        <3> QED BY <1>1, <2>1, <3>1
    <2> QED BY <1>1, <2>1, <2>2 DEF Calm, UndoInv, KeptOff, Here
<1>2. TypeInv /\ EndsInv /\ ("disk" \notin Faults => UndoInv) /\ TypeInv' /\ [Next]_vars
        => [\A o \in Ops \ UserOps : "disk" \notin Faults /\ executed'[o] # executed[o] => ResourceOf[o] \notin damaged]_vars
    BY <1>1 DEF Calm
<1> QED BY <1>2, UndoInvariance, PTL DEF Spec, StopsAfterFailedRollback

-----------------------------------------------------------------------------
(* RecoveryReports: what the agent reports and the orchestrator takes.  First the types   *)
(* and what the reporter counts; then, while nothing is seen again and no send fails,     *)
(* the order of what is queued.                                                          *)

\* What the queue holds: reports of operations and snapshots.
OpReports == [kind : {"op"}, op : Repairs, at : 1..Last]
Snapshots == [kind : {"snapshot"}, diags : [Diags -> Nat], times : [Diags -> Nat], seq : Nat]
Items == OpReports \cup Snapshots
Lane == [pending : Int, terminal : BOOLEAN, quarantined : BOOLEAN, admitted : BOOLEAN]

CaseSet == [of : [Repairs -> Diags], limit : Nat \ {0}, fails : BOOLEAN,
            observe : Nat, inspect : Nat, fail : Nat, lose : Nat]

FlushSet == [left : Int, blocked : SUBSET Repairs, item : Items \cup {Nothing}]

ReportsTypes ==
    /\ occurrences \in [Diags -> Nat] /\ seen \in [Diags -> Nat] /\ stuck \subseteq Diags
    /\ repairing \in Repairs \cup {NoRepair} /\ progress \in [Repairs -> 0..Last]
    /\ queue \in Seq(Items) /\ lane \in [Repairs -> Lane]
    /\ pending \in [Diags -> Int] /\ nextSeq \in Nat
    /\ flush \in FlushSet
    /\ stored \in [Repairs -> 0..Last] /\ entry \in [Diags -> [seen : Nat, resolved : Nat]]
    /\ totals \in [Repairs -> Nat] /\ clock \in Nat /\ seenAgain \in BOOLEAN
    /\ case \in CaseSet

-----------------------------------------------------------------------------
(* Positions in a sequence. *)

\* A set of integers and the same set moved by n have as many elements.
LEMMA Moved ==
    ASSUME NEW A \in SUBSET Int, IsFiniteSet(A), NEW n \in Int, NEW B \in SUBSET Int,
           \A j \in Int : j \in B <=> j - n \in A
    PROVE  Cardinality(B) = Cardinality(A)
<1> DEFINE f == [i \in A |-> i + n]
<1>1. f \in [A -> B]
    OBVIOUS
<1>2. \A i, j \in A : f[i] = f[j] => i = j
    OBVIOUS
<1>3. \A j \in B : \E i \in A : f[i] = j
  <2>1. \A j \in B : j - n \in A /\ f[j - n] = j
      OBVIOUS
  <2> QED BY <2>1
<1> HIDE DEF f
<1>4. f \in Bijection(A, B)
    BY <1>1, <1>2, <1>3 DEF Bijection, Injection, Surjection, IsInjective
<1> QED
    BY <1>4, FS_Bijection DEF ExistsBijection

\* The positions at which q has an element of X.
Hits(q, X) == {i \in DOMAIN q : q[i] \in X}

\* How many there are, and how that changes when q grows or shrinks at an end or is cut.
LEMMA HitsCounted ==
    ASSUME NEW S, NEW q \in Seq(S), NEW X
    PROVE  IsFiniteSet(Hits(q, X)) /\ Cardinality(Hits(q, X)) \in Nat
<1>1. DOMAIN q = 1..Len(q) /\ Len(q) \in Nat
    OBVIOUS
<1>2. IsFiniteSet(1..Len(q))
    BY <1>1, FS_Interval
<1>3. Hits(q, X) \in SUBSET (1..Len(q))
    BY <1>1 DEF Hits
<1>4. IsFiniteSet(Hits(q, X))
    BY <1>2, <1>3, FS_Subset
<1> QED
    BY <1>4, FS_CardinalityType

LEMMA AppendIs ==
    ASSUME NEW S, NEW q \in Seq(S), NEW x \in S
    PROVE  /\ Append(q, x) \in Seq(S) /\ Len(Append(q, x)) = Len(q) + 1
           /\ \A i \in 1..Len(q) : Append(q, x)[i] = q[i]
           /\ Append(q, x)[Len(q) + 1] = x
    OBVIOUS

LEMMA TailIs ==
    ASSUME NEW S, NEW q \in Seq(S), q # <<>>
    PROVE  /\ Tail(q) \in Seq(S) /\ Len(Tail(q)) = Len(q) - 1
           /\ \A i \in 1..(Len(q) - 1) : Tail(q)[i] = q[i + 1]
           /\ Head(q) = q[1] /\ q[1] \in S /\ Len(q) \in Nat \ {0}
    OBVIOUS

LEMMA HitsAppend ==
    ASSUME NEW S, NEW q \in Seq(S), NEW x \in S, NEW X
    PROVE  Cardinality(Hits(Append(q, x), X)) =
           Cardinality(Hits(q, X)) + IF x \in X THEN 1 ELSE 0
<1> DEFINE n == Len(q) + 1
<1>1. /\ DOMAIN q = 1..Len(q) /\ Len(q) \in Nat /\ DOMAIN Append(q, x) = 1..n
      /\ \A i \in 1..Len(q) : Append(q, x)[i] = q[i]
      /\ Append(q, x)[n] = x
    BY AppendIs
<1>2. Hits(Append(q, x), X) = IF x \in X THEN Hits(q, X) \cup {n} ELSE Hits(q, X)
    BY <1>1 DEF Hits
<1>3. n \notin Hits(q, X)
    BY <1>1 DEF Hits
<1>4. IsFiniteSet(Hits(q, X)) /\ Cardinality(Hits(q, X)) \in Nat
    BY HitsCounted
<1>5. Cardinality(Hits(q, X) \cup {n}) = Cardinality(Hits(q, X)) + 1
    BY <1>3, <1>4, FS_AddElement
<1> QED
    BY <1>2, <1>4, <1>5

LEMMA HitsTail ==
    ASSUME NEW S, NEW q \in Seq(S), q # <<>>, NEW X
    PROVE  Cardinality(Hits(q, X)) =
           Cardinality(Hits(Tail(q), X)) + IF q[1] \in X THEN 1 ELSE 0
<1>1. /\ DOMAIN q = 1..Len(q) /\ Len(q) \in Nat \ {0} /\ DOMAIN Tail(q) = 1..(Len(q) - 1)
      /\ \A i \in 1..(Len(q) - 1) : Tail(q)[i] = q[i + 1]
    BY TailIs
<1>2. Tail(q) \in Seq(S)
    BY TailIs
<1> DEFINE A == Hits(Tail(q), X)
           B == Hits(q, X) \ {1}
<1>3. A \in SUBSET Int /\ B \in SUBSET Int /\ IsFiniteSet(A) /\ Cardinality(A) \in Nat
  <2>1. A \in SUBSET Int /\ B \in SUBSET Int
      BY <1>1 DEF Hits
  <2>2. IsFiniteSet(A) /\ Cardinality(A) \in Nat
      BY <1>2, HitsCounted
  <2> QED BY <2>1, <2>2
<1>4. \A j \in Int : j \in B <=> j - 1 \in A
    BY <1>1 DEF Hits
<1>5. Cardinality(B) = Cardinality(A)
  <2> HIDE DEF A, B
  <2>1. 1 \in Int
      OBVIOUS
  <2> QED BY <1>3, <1>4, <2>1, Moved
<1>6. IsFiniteSet(Hits(q, X)) /\ Cardinality(Hits(q, X)) \in Nat
    BY HitsCounted
<1>7. Cardinality(B) = IF 1 \in Hits(q, X) THEN Cardinality(Hits(q, X)) - 1 ELSE Cardinality(Hits(q, X))
    BY <1>6, FS_RemoveElement
<1>8. 1 \in Hits(q, X) <=> q[1] \in X
    BY <1>1 DEF Hits
<1> QED
    BY <1>3, <1>5, <1>6, <1>7, <1>8

LEMMA HitsSplit ==
    ASSUME NEW S, NEW q \in Seq(S), NEW n \in 0..Len(q), NEW X
    PROVE  Cardinality(Hits(q, X)) =
           Cardinality(Hits(SubSeq(q, 1, n), X)) + Cardinality(Hits(SubSeq(q, n + 1, Len(q)), X))
<1> DEFINE r == SubSeq(q, 1, n)
           t == SubSeq(q, n + 1, Len(q))
           A == Hits(q, X) \cap (1..n)
           B == Hits(q, X) \cap ((n + 1)..Len(q))
<1>1. DOMAIN q = 1..Len(q) /\ Len(q) \in Nat /\ \A i \in 1..Len(q) : q[i] \in S
    OBVIOUS
<1>2. r \in Seq(S) /\ DOMAIN r = 1..n /\ \A i \in 1..n : r[i] = q[i]
    BY <1>1, SubSeqProperties
<1>3. t \in Seq(S) /\ DOMAIN t = 1..(Len(q) - n) /\ \A i \in 1..(Len(q) - n) : t[i] = q[n + i]
  <2>1. \A i \in (n + 1)..Len(q) : q[i] \in S
      BY <1>1
  <2>2. /\ t \in Seq(S) /\ Len(t) = (IF n + 1 <= Len(q) THEN Len(q) - (n + 1) + 1 ELSE 0)
        /\ \A i \in 1..(Len(q) - (n + 1) + 1) : t[i] = q[n + 1 + i - 1]
    <3>1. n + 1 \in Int /\ Len(q) \in Int
        BY <1>1
    <3> QED BY <2>1, <3>1, SubSeqProperties
  <2> HIDE DEF t
  <2>3. Len(t) = Len(q) - n
    <3>1. CASE n = Len(q)
        BY <1>1, <2>2, <3>1
    <3>2. CASE n + 1 <= Len(q)
        BY <1>1, <2>2, <3>2
    <3>3. n = Len(q) \/ n + 1 <= Len(q)
      <4>1. Len(q) \in Int /\ n \in 0..Len(q)
          BY <1>1
      <4> QED BY <4>1
    <3> QED BY <3>1, <3>2, <3>3
  <2>4. DOMAIN t = 1..(Len(q) - n)
      BY <2>2, <2>3
  <2>5. \A i \in 1..(Len(q) - n) : t[i] = q[n + i]
    <3> TAKE i \in 1..(Len(q) - n)
    <3>1. i \in 1..(Len(q) - (n + 1) + 1) /\ n + 1 + i - 1 = n + i
        BY <1>1
    <3> QED BY <2>2, <3>1
  <2> QED BY <2>2, <2>4, <2>5
<1>4. Hits(r, X) = A
    BY <1>1, <1>2 DEF Hits
<1>5. Cardinality(B) = Cardinality(Hits(t, X))
  <2>1. Hits(t, X) \in SUBSET Int /\ B \in SUBSET Int /\ n \in Int
      BY <1>1, <1>3 DEF Hits
  <2>3. IsFiniteSet(Hits(t, X))
      BY <1>3, HitsCounted
  <2>2. \A j \in Int : j \in B <=> j - n \in Hits(t, X)
      BY <1>1, <1>3 DEF Hits
  <2> HIDE DEF B, t
  <2> QED BY <2>1, <2>2, <2>3, Moved
<1>6. IsFiniteSet(Hits(q, X))
    BY HitsCounted
<1>7. IsFiniteSet(A) /\ IsFiniteSet(B)
    BY <1>6, FS_Intersection
<1>8. A \cup B = Hits(q, X) /\ A \cap B = {}
    BY <1>1 DEF Hits
<1>9. Cardinality(A \cup B) = Cardinality(A) + Cardinality(B) - Cardinality(A \cap B)
    BY <1>7, FS_Union
<1>10. Cardinality(A \cap B) = 0 /\ Cardinality(A) \in Nat /\ Cardinality(B) \in Nat
    BY <1>7, <1>8, FS_EmptySet, FS_CardinalityType
<1> HIDE DEF A, B
<1> QED
  <2>1. Cardinality(Hits(q, X)) = Cardinality(A) + Cardinality(B)
    <3>1. Cardinality(A \cup B) = Cardinality(Hits(q, X))
        BY <1>8
    <3>2. Cardinality(A \cup B) = Cardinality(A) + Cardinality(B)
        BY <1>9, <1>10
    <3> QED BY <3>1, <3>2
  <2> QED BY <1>4, <1>5, <2>1

-----------------------------------------------------------------------------
(* The types. *)

\* What the items of the queue are made of.
LEMMA ItemIs ==
    ASSUME NEW x \in Items
    PROVE  /\ IsOp(x) => x \in OpReports
           /\ ~IsOp(x) => x \in Snapshots
           /\ x # Nothing
    BY DEF Items, OpReports, Snapshots, IsOp, Nothing

LEMMA OpIs ==
    ASSUME NEW o \in Repairs, NEW i \in 1..Last
    PROVE  Op(o, i) \in Items /\ IsOp(Op(o, i)) /\ Op(o, i).op = o /\ Op(o, i).at = i
    BY DEF Items, OpReports, Op, IsOp

LEMMA SnapshotIs ==
    ASSUME NEW diags \in [Diags -> Nat], NEW times \in [Diags -> Nat], NEW seq \in Nat
    PROVE  LET x == Snapshot(diags, times, seq) IN
           x \in Items /\ ~IsOp(x) /\ x.diags = diags /\ x.times = times /\ x.seq = seq
    BY DEF Items, Snapshots, Snapshot, IsOp

\* What is spent leaves the rest of the case alone.
LEMMA SpentIs ==
    ASSUME case \in CaseSet, NEW what \in {"observe", "inspect", "fail", "lose"}, Spend(what)
    PROVE  case' \in CaseSet /\ case'.of = case.of /\ case'.fails = case.fails
<1>1. case[what] > 0 /\ case' = [case EXCEPT ![what] = case[what] - 1]
    BY DEF Spend
<1>2. CASE what = "observe"
    BY <1>1, <1>2 DEF CaseSet
<1>3. CASE what = "inspect"
    BY <1>1, <1>3 DEF CaseSet
<1>4. CASE what = "fail"
    BY <1>1, <1>4 DEF CaseSet
<1>5. CASE what = "lose"
    BY <1>1, <1>5 DEF CaseSet
<1> QED
    BY <1>2, <1>3, <1>4, <1>5

\* The snapshots behind the last report of an operation are a suffix of the queue.
LEMMA RemainingIs ==
    ASSUME queue \in Seq(Items)
    PROVE  \E n \in 0..Len(queue) :
               /\ Remaining = SubSeq(queue, 1, n) /\ Remaining \in Seq(Items) /\ Len(Remaining) = n
               /\ \A i \in 1..n : Remaining[i] = queue[i]
               /\ \A i \in (n + 1)..Len(queue) : ~IsOp(queue[i])
               /\ n > 0 => IsOp(queue[n])
<1> DEFINE L == Len(queue)
           U == Superseded
           c == Cardinality(U)
<1>1. L \in Nat /\ DOMAIN queue = 1..L /\ \A i \in 1..L : queue[i] \in Items
    OBVIOUS
<1>2. U \in SUBSET (1..L) /\ \A i \in 1..L : i \in U => \A j \in i..L : j \in U
    BY <1>1 DEF Superseded
<1>3. IsFiniteSet(1..L) /\ Cardinality(1..L) = L
  <2>1. 1 \in Int /\ L \in Int
      BY <1>1
  <2>2. IsFiniteSet(1..L) /\ Cardinality(1..L) = IF 1 > L THEN 0 ELSE L - 1 + 1
      BY <2>1, FS_Interval
  <2> QED BY <1>1, <2>2
<1>4. IsFiniteSet(U) /\ c \in Nat /\ c <= L
    BY <1>2, <1>3, FS_Subset, FS_CardinalityType
<1> HIDE DEF U
<1>5. \A i \in 1..L : i \in U => i > L - c
  <2> SUFFICES ASSUME NEW i \in 1..L, i \in U PROVE i > L - c
      OBVIOUS
  <2>1. i..L \in SUBSET U
      BY <1>1, <1>2
  <2>2. Cardinality(i..L) = L - i + 1
      BY <1>1, FS_Interval
  <2>3. Cardinality(i..L) <= c
      BY <2>1, <1>4, FS_Subset
  <2> QED BY <1>1, <1>4, <2>2, <2>3
<1>6. \A i \in 1..L : i \notin U => i <= L - c
  <2> SUFFICES ASSUME NEW i \in 1..L, i \notin U PROVE i <= L - c
      OBVIOUS
  <2>1. U \in SUBSET ((i + 1)..L)
    <3> SUFFICES ASSUME NEW j \in U PROVE j \in (i + 1)..L
        OBVIOUS
    <3>1. j \in 1..L /\ ~(j <= i)
        BY <1>1, <1>2
    <3> QED BY <1>1, <3>1
  <2>2. IsFiniteSet((i + 1)..L) /\ Cardinality((i + 1)..L) = L - i
    <3>1. i + 1 \in Int /\ L \in Int
        BY <1>1
    <3>2. /\ IsFiniteSet((i + 1)..L)
          /\ Cardinality((i + 1)..L) = IF i + 1 > L THEN 0 ELSE L - (i + 1) + 1
        BY <3>1, FS_Interval
    <3> QED BY <1>1, <3>2
  <2>3. c <= Cardinality((i + 1)..L)
      BY <2>1, <2>2, FS_Subset
  <2> QED BY <1>1, <1>4, <2>2, <2>3
<1> DEFINE n == L - c
<1>7. n \in 0..L /\ n \in Int
    BY <1>1, <1>4
<1>8. Remaining = SubSeq(queue, 1, n)
    BY DEF Remaining, U
<1>9. /\ SubSeq(queue, 1, n) \in Seq(Items) /\ Len(SubSeq(queue, 1, n)) = n
      /\ \A i \in 1..n : SubSeq(queue, 1, n)[i] = queue[i]
  <2>1. \A i \in 1..n : queue[i] \in Items
      BY <1>1, <1>4
  <2>2. /\ SubSeq(queue, 1, n) \in Seq(Items)
        /\ Len(SubSeq(queue, 1, n)) = IF 1 <= n THEN n - 1 + 1 ELSE 0
        /\ \A i \in 1..(n - 1 + 1) : SubSeq(queue, 1, n)[i] = queue[1 + i - 1]
    <3>1. 1 \in Int
        OBVIOUS
    <3> HIDE DEF n
    <3> QED BY <1>7, <2>1, <3>1, SubSeqProperties
  <2> HIDE DEF n
  <2>3. Len(SubSeq(queue, 1, n)) = n
      BY <1>7, <2>2
  <2> QED BY <1>7, <2>2, <2>3
<1>10. \A i \in (n + 1)..L : ~IsOp(queue[i])
  <2> SUFFICES ASSUME NEW i \in (n + 1)..L PROVE ~IsOp(queue[i])
      OBVIOUS
  <2>1. i \in 1..L /\ ~(i <= L - c)
      BY <1>1, <1>4
  <2>2. i \in U
      BY <2>1, <1>6
  <2> QED BY <2>1, <2>2, <1>1 DEF U, Superseded
<1>11. n > 0 => IsOp(queue[n])
  <2> SUFFICES ASSUME n > 0 PROVE IsOp(queue[n])
      OBVIOUS
  <2>1. n \in 1..L /\ n \notin U
      BY <1>1, <1>4, <1>5
  <2>2. n < L => n + 1 \in U
      BY <1>1, <1>4, <1>6
  <2>3. \A j \in (n + 1)..L : j \in U
    <3>1. CASE n < L
      <4>1. n + 1 \in 1..L
          BY <1>7, <3>1, <1>1, <1>4
      <4> QED BY <4>1, <2>2, <3>1, <1>2
    <3>2. CASE n = L
        BY <3>2, <1>1
    <3> QED BY <1>7, <1>1, <3>1, <3>2
  <2>4. \A j \in (n + 1)..L : ~IsOp(queue[j])
      BY <1>10
  <2>5. ~(\A j \in n..L : ~IsOp(queue[j]))
      BY <2>1, <1>1 DEF U, Superseded
  <2> HIDE DEF n
  <2>6. \A j \in n..L : j = n \/ j \in (n + 1)..L
      BY <1>1, <1>7
  <2> QED BY <2>4, <2>5, <2>6
<1> HIDE DEF n
<1> QED
    BY <1>7, <1>8, <1>9, <1>10, <1>11

\* What a snapshot enqueued leaves of the queue.
LEMMA SnapshotQueued ==
    ASSUME ReportsTypes, NEW diags \in [Diags -> Nat], NEW times \in [Diags -> Nat],
           EnqueueSnapshot(diags, times)
    PROVE  /\ queue' \in Seq(Items) /\ pending' \in [Diags -> Int] /\ nextSeq' = nextSeq + 1
           /\ queue' \in {Remaining, Append(Remaining, Snapshot(diags, times, nextSeq))}
           /\ lane' = lane /\ flush' = flush
<1>1. Remaining \in Seq(Items)
    BY RemainingIs DEF ReportsTypes
<1>2. Snapshot(diags, times, nextSeq) \in Items
    BY SnapshotIs DEF ReportsTypes
<1>3. queue' \in {Remaining, Append(Remaining, Snapshot(diags, times, nextSeq))}
    BY DEF EnqueueSnapshot
<1>4. queue' \in Seq(Items)
    BY <1>1, <1>2, <1>3, AppendIs
<1>5. pending' \in [Diags -> Int]
  <2> DEFINE gone == SubSeq(queue, Len(Remaining) + 1, Len(queue))
             released == [d \in Diags |-> pending[d] - Count(gone, d)]
  <2>1. gone \in Seq(Items)
    <3>1. PICK n \in 0..Len(queue) : Len(Remaining) = n
        BY RemainingIs DEF ReportsTypes
    <3>2. queue \in Seq(Items) /\ Len(queue) \in Nat /\ \A i \in 1..Len(queue) : queue[i] \in Items
        BY DEF ReportsTypes
    <3>3. n + 1 \in Int /\ Len(queue) \in Int /\ \A i \in (n + 1)..Len(queue) : queue[i] \in Items
        BY <3>2
    <3> QED BY <3>1, <3>3, SubSeqProperties
  <2>2. \A d \in Diags : Count(gone, d) \in Nat
    <3> TAKE d \in Diags
    <3> DEFINE X == {x \in Items : ~IsOp(x) /\ d \in Named(x)}
    <3>1. {i \in DOMAIN gone : ~IsOp(gone[i]) /\ d \in Named(gone[i])} = Hits(gone, X)
      <4>1. \A i \in DOMAIN gone : gone[i] \in Items
          BY <2>1
      <4> HIDE DEF gone
      <4> QED BY <4>1 DEF Hits
    <3> QED BY <2>1, <3>1, HitsCounted DEF Count
  <2>3. released \in [Diags -> Int]
      BY <2>2 DEF ReportsTypes
  <2>4. \/ pending' = released
        \/ pending' = [d \in Diags |-> released[d] +
                        IF d \in Named(Snapshot(diags, times, nextSeq)) THEN 1 ELSE 0]
      BY DEF EnqueueSnapshot
  <2> HIDE DEF released
  <2> QED BY <2>3, <2>4
<1> QED
    BY <1>3, <1>4, <1>5 DEF EnqueueSnapshot

LEMMA ObservedTypes ==
    ASSUME ReportsTypes, NEW now \in SUBSET Diags, NEW occ \in [Diags -> Nat],
           Observed(now, occ), case' \in CaseSet
    PROVE  ReportsTypes'
<1>1. clock' = clock + 1 /\ occurrences' = occ
    BY DEF Observed
<1>2. seen' \in [Diags -> Nat]
    BY DEF Observed, ReportsTypes
<1>3. EnqueueSnapshot(occ, seen')
    BY DEF Observed
<1>4. /\ queue' \in Seq(Items) /\ pending' \in [Diags -> Int] /\ nextSeq' = nextSeq + 1
      /\ lane' = lane /\ flush' = flush
    BY <1>2, <1>3, SnapshotQueued
<1>5. seenAgain' \in BOOLEAN
    BY DEF Observed
<1> QED
    BY <1>1, <1>2, <1>4, <1>5 DEF Observed, ReportsTypes

\* A lane with one report more, and with one less.
LEMMA OneMore ==
    ASSUME NEW l \in Lane, NEW t \in BOOLEAN
    PROVE  LET m == WithOneMore(l, t) IN
           m \in Lane /\ m.pending = l.pending + 1 /\ m.admitted = TRUE
           /\ m.quarantined = l.quarantined /\ m.terminal = (l.terminal \/ t)
<1> DEFINE t1 == (l.terminal \/ t)
<1>1. t1 \in BOOLEAN
    OBVIOUS
<1>2. WithOneMore(l, t) = [pending |-> l.pending + 1, terminal |-> t1,
                           quarantined |-> l.quarantined, admitted |-> TRUE]
    BY DEF WithOneMore
<1>3. l.pending + 1 \in Int /\ l.quarantined \in BOOLEAN
    BY DEF Lane
<1> HIDE DEF t1
<1>4. [pending |-> l.pending + 1, terminal |-> t1, quarantined |-> l.quarantined, admitted |-> TRUE] \in Lane
    BY <1>1, <1>3 DEF Lane
<1>5. WithOneMore(l, t).terminal = t1
    BY <1>2
<1> QED
    BY <1>2, <1>4, <1>5 DEF t1

LEMMA OneLess ==
    ASSUME NEW l \in Lane
    PROVE  LET m == WithOneLess(l) IN
           /\ m \in Lane
           /\ IF l.pending = 1 /\ l.terminal THEN m = NotAdmitted
              ELSE m.pending = l.pending - 1 /\ m.admitted = l.admitted
                   /\ m.quarantined = l.quarantined /\ m.terminal = l.terminal
<1>1. CASE l.pending = 1 /\ l.terminal
    BY <1>1 DEF WithOneLess, NotAdmitted, Lane
<1>2. CASE ~(l.pending = 1 /\ l.terminal)
  <2> DEFINE m == [l EXCEPT !.pending = l.pending - 1]
  <2>1. WithOneLess(l) = m
      BY <1>2 DEF WithOneLess
  <2>2. m \in Lane /\ m.pending = l.pending - 1 /\ m.admitted = l.admitted
        /\ m.quarantined = l.quarantined /\ m.terminal = l.terminal
      BY DEF Lane
  <2> HIDE DEF m
  <2> QED BY <1>2, <2>1, <2>2
<1> QED
    BY <1>1, <1>2

LEMMA OpQueued ==
    ASSUME ReportsTypes, NEW o \in Repairs, NEW i \in 1..Last, EnqueueOp(o, i)
    PROVE  /\ queue' = Append(queue, Op(o, i)) /\ queue' \in Seq(Items)
           /\ lane' \in [Repairs -> Lane]
           /\ lane'[o].pending = lane[o].pending + 1 /\ lane'[o].admitted
           /\ lane'[o].quarantined <=> lane[o].quarantined
           /\ lane'[o].terminal <=> lane[o].terminal \/ i = Last
           /\ \A p \in Repairs \ {o} : lane'[p] = lane[p]
           /\ pending' = pending /\ nextSeq' = nextSeq /\ flush' = flush
<1>1. Op(o, i) \in Items
    BY OpIs
<1>2. queue' \in Seq(Items)
    BY <1>1, AppendIs DEF EnqueueOp, ReportsTypes
<1>3. lane' = [lane EXCEPT ![o] = WithOneMore(lane[o], i = Last)]
    BY DEF EnqueueOp
<1>4. lane[o] \in Lane
    BY DEF ReportsTypes
<1>5. WithOneMore(lane[o], i = Last) \in Lane
    BY <1>4, OneMore
<1>6. lane'[o] = WithOneMore(lane[o], i = Last)
      /\ lane' \in [Repairs -> Lane] /\ \A p \in Repairs \ {o} : lane'[p] = lane[p]
    BY <1>3, <1>5 DEF ReportsTypes
<1> QED
    BY <1>2, <1>4, <1>6, OneMore DEF EnqueueOp

\* What a report does at the orchestrator keeps the types.
LEMMA ReceivedTypes ==
    ASSUME ReportsTypes, NEW item \in Items, Receive(item)
    PROVE  /\ stored' \in [Repairs -> 0..Last] /\ entry' \in [Diags -> [seen : Nat, resolved : Nat]]
           /\ totals' \in [Repairs -> Nat] /\ clock' \in Nat /\ seenAgain' \in BOOLEAN
<1>1. CASE IsOp(item)
  <2>1. item \in OpReports
      BY <1>1, ItemIs
  <2>2. item.op \in Repairs /\ item.at \in 0..Last
      BY <2>1 DEF OpReports
  <2>3. /\ stored' = [stored EXCEPT ![item.op] = IF item.at > @ THEN item.at ELSE @]
        /\ totals' = [totals EXCEPT ![item.op] =
               IF item.at = Last /\ stored[item.op] # Last THEN @ + 1 ELSE @]
        /\ UNCHANGED <<entry, clock, seenAgain>>
      BY <1>1 DEF Receive
  <2> QED BY <2>2, <2>3 DEF ReportsTypes
<1>2. CASE ~IsOp(item)
  <2>1. item \in Snapshots
      BY <1>2, ItemIs
  <2>2. \A d \in Diags : item.times[d] \in Nat /\ item.diags[d] \in Nat
      BY <2>1 DEF Snapshots
  <2>3. \A d \in Diags : Upserted(item, d) \in [seen : Nat, resolved : Nat]
      BY <2>2 DEF Upserted, ReportsTypes
  <2>4. \A d \in Diags : [entry[d] EXCEPT !.resolved = clock] \in [seen : Nat, resolved : Nat]
      BY DEF ReportsTypes
  <2>5. /\ entry' = [d \in Diags |-> IF d \in Named(item) THEN Upserted(item, d)
                         ELSE IF d \in Missing(item) THEN [entry[d] EXCEPT !.resolved = clock] ELSE entry[d]]
        /\ clock' = IF Missing(item) = {} THEN clock ELSE clock + 1
        /\ seenAgain' = (seenAgain \/ \E d \in Missing(item) : occurrences[d] > 0 \/ pending[d] > 0)
        /\ UNCHANGED <<stored, totals>>
      BY <1>2 DEF Receive
  <2>6. \A d \in Diags : entry[d] \in [seen : Nat, resolved : Nat]
      BY DEF ReportsTypes
  <2>7. entry' \in [Diags -> [seen : Nat, resolved : Nat]]
      BY <2>3, <2>4, <2>5, <2>6
  <2> QED BY <2>5, <2>7 DEF ReportsTypes
<1> QED
    BY <1>1, <1>2

\* The head of the queue put at its end.
LEMMA RotatedIs ==
    ASSUME queue \in Seq(Items), queue # <<>>
    PROVE  /\ Rotated \in Seq(Items) /\ Len(Rotated) = Len(queue)
           /\ \A i \in 1..(Len(queue) - 1) : Rotated[i] = queue[i + 1]
           /\ Rotated[Len(queue)] = queue[1]
<1>1. /\ Tail(queue) \in Seq(Items) /\ Len(Tail(queue)) = Len(queue) - 1
      /\ \A i \in 1..(Len(queue) - 1) : Tail(queue)[i] = queue[i + 1]
      /\ Head(queue) = queue[1] /\ queue[1] \in Items /\ Len(queue) \in Nat \ {0}
    BY TailIs
<1> QED
    BY <1>1, AppendIs DEF Rotated

LEMMA ReportsTypesInit == ReportsInit => ReportsTypes
<1> SUFFICES ASSUME ReportsInit PROVE ReportsTypes
    OBVIOUS
<1> USE ReportsAssumptions
<1>1. lane \in [Repairs -> Lane]
    BY DEF ReportsInit, NotAdmitted, Lane
<1>2. flush \in FlushSet
    BY DEF ReportsInit, NoFlush, FlushSet
<1>3. entry \in [Diags -> [seen : Nat, resolved : Nat]]
    BY DEF ReportsInit, NoEntry
<1>4. case \in CaseSet
    BY DEF ReportsInit, CaseSet
<1>5. queue \in Seq(Items)
    BY DEF ReportsInit
<1>6. /\ occurrences \in [Diags -> Nat] /\ seen \in [Diags -> Nat] /\ pending \in [Diags -> Int]
      /\ totals \in [Repairs -> Nat]
    BY DEF ReportsInit
<1>7. 0 \in 0..Last
    OBVIOUS
<1>8. progress \in [Repairs -> 0..Last] /\ stored \in [Repairs -> 0..Last]
    BY <1>7 DEF ReportsInit
<1> QED
    BY <1>1, <1>2, <1>3, <1>4, <1>5, <1>6, <1>8 DEF ReportsInit, ReportsTypes

\* What changes in the flush.
LEMMA FlushIs ==
    ASSUME ReportsTypes
    PROVE  /\ Pass \in FlushSet /\ Pass.item = Nothing /\ Pass.blocked = flush.blocked
           /\ \A x \in Items : LET f == [flush EXCEPT !.item = x] IN
                 f \in FlushSet /\ f.item = x /\ f.blocked = flush.blocked
           /\ \A B \in SUBSET Repairs : LET f == [Pass EXCEPT !.blocked = B] IN
                 f \in FlushSet /\ f.item = Nothing /\ f.blocked = B
           /\ \A n \in Nat : LET f == [NoFlush EXCEPT !.left = n] IN
                 f \in FlushSet /\ f.item = Nothing /\ f.blocked = {}
           /\ NoFlush \in FlushSet /\ NoFlush.item = Nothing /\ NoFlush.blocked = {}
<1>1. flush \in FlushSet
    BY DEF ReportsTypes, FlushSet
<1>2. Pass \in FlushSet /\ Pass.item = Nothing /\ Pass.blocked = flush.blocked
  <2> DEFINE f == [flush EXCEPT !.left = flush.left - 1]
  <2>1. f \in FlushSet /\ f.blocked = flush.blocked
      BY <1>1 DEF FlushSet
  <2>2. Pass = [f EXCEPT !.item = Nothing]
      BY DEF Pass
  <2> HIDE DEF f
  <2> QED BY <2>1, <2>2 DEF FlushSet
<1>3. \A x \in Items : LET f == [flush EXCEPT !.item = x] IN
          f \in FlushSet /\ f.item = x /\ f.blocked = flush.blocked
    BY <1>1 DEF FlushSet
<1>4. \A B \in SUBSET Repairs : LET f == [Pass EXCEPT !.blocked = B] IN
          f \in FlushSet /\ f.item = Nothing /\ f.blocked = B
    BY <1>2 DEF FlushSet
<1>5. NoFlush \in FlushSet /\ NoFlush.item = Nothing /\ NoFlush.blocked = {}
    BY DEF NoFlush, FlushSet
<1>6. \A n \in Nat : LET f == [NoFlush EXCEPT !.left = n] IN
          f \in FlushSet /\ f.item = Nothing /\ f.blocked = {}
    BY <1>5 DEF FlushSet
<1> QED
    BY <1>2, <1>3, <1>4, <1>5, <1>6

\* Every step keeps the types.
LEMMA ReportsTypesStep == ReportsTypes /\ [ReportsNext]_reportsVars => ReportsTypes'
<1> SUFFICES ASSUME ReportsTypes, [ReportsNext]_reportsVars PROVE ReportsTypes'
    OBVIOUS
<1> USE ReportsAssumptions
<1>1. ASSUME NEW o \in Repairs, Begin(o) PROVE ReportsTypes'
  <2>1. EnqueueOp(o, 1) /\ 1 \in 1..Last
      BY <1>1 DEF Begin
  <2>2. /\ queue' \in Seq(Items) /\ lane' \in [Repairs -> Lane]
        /\ pending' = pending /\ nextSeq' = nextSeq /\ flush' = flush
      BY <2>1, OpQueued
  <2>3. progress' \in [Repairs -> 0..Last]
    <3>1. 1 \in 0..Last /\ progress' = [progress EXCEPT ![o] = 1]
        BY <1>1 DEF Begin
    <3> QED BY <3>1 DEF ReportsTypes
  <2>4. repairing' = o /\ UNCHANGED <<occurrences, seen, stuck, orchestratorVars, clock, case>>
      BY <1>1 DEF Begin
  <2> QED BY <2>2, <2>3, <2>4 DEF ReportsTypes, orchestratorVars
<1>2. ASSUME NEW o \in Repairs, Proceed(o), progress[o] + 1 <= Last
      PROVE  /\ queue' \in Seq(Items) /\ lane' \in [Repairs -> Lane]
             /\ pending' = pending /\ nextSeq' = nextSeq /\ flush' = flush
             /\ progress' \in [Repairs -> 0..Last]
  <2>1. EnqueueOp(o, progress[o] + 1) /\ progress[o] + 1 \in 1..Last
      BY <1>2 DEF Proceed, ReportsTypes
  <2> QED BY <2>1, <1>2, OpQueued DEF Proceed, ReportsTypes
<1>3. ASSUME NEW o \in Repairs, Advance(o) PROVE ReportsTypes'
  <2>1. Proceed(o) /\ progress[o] + 1 <= Last
      BY <1>3 DEF Advance, ReportsTypes
  <2> QED BY <1>2, <1>3, <2>1 DEF Advance, ReportsTypes, orchestratorVars
<1>4. ASSUME NEW o \in Repairs, Finish(o) PROVE ReportsTypes'
  <2>1. Proceed(o) /\ progress[o] + 1 <= Last
      BY <1>4 DEF Finish, ReportsTypes
  <2>2. DiagOf[o] \in Diags
      BY DEF ReportsTypes, CaseSet, DiagOf
  <2>3. occurrences' \in [Diags -> Nat] /\ seen' \in [Diags -> Nat] /\ stuck' \subseteq Diags
    <3>1. CASE /\ occurrences' = [occurrences EXCEPT ![DiagOf[o]] = 0]
               /\ seen' = [seen EXCEPT ![DiagOf[o]] = 0] /\ stuck' = stuck
        BY <2>2, <3>1 DEF ReportsTypes
    <3>2. CASE UNCHANGED <<occurrences, seen, stuck>>
        BY <3>2 DEF ReportsTypes
    <3>3. CASE stuck' = stuck \cup {DiagOf[o]} /\ UNCHANGED <<occurrences, seen>>
        BY <2>2, <3>3 DEF ReportsTypes
    <3> QED BY <1>4, <3>1, <3>2, <3>3 DEF Finish
  <2> QED BY <1>2, <1>4, <2>1, <2>3 DEF Finish, ReportsTypes, orchestratorVars
<1>5. ASSUME NEW d \in Diags, Observe(d) PROVE ReportsTypes'
  <2>1. Spend("observe") /\ Observed({d}, [occurrences EXCEPT ![d] = @ + 1])
      BY <1>5 DEF Observe
  <2>2. [occurrences EXCEPT ![d] = @ + 1] \in [Diags -> Nat]
      BY DEF ReportsTypes
  <2>3. case' \in CaseSet
      BY <2>1, SpentIs DEF ReportsTypes
  <2> QED BY <2>1, <2>2, <2>3, ObservedTypes
<1>6. ASSUME NEW these \in SUBSET Diags, InspectAnew(these) PROVE ReportsTypes'
  <2> DEFINE occ == [d \in Diags |-> IF d \in these THEN occurrences[d] + 1
                                     ELSE IF d \in stuck THEN occurrences[d] ELSE 0]
  <2>1. Spend("inspect") /\ Observed(these, occ)
      BY <1>6 DEF InspectAnew
  <2>2. occ \in [Diags -> Nat]
      BY DEF ReportsTypes
  <2>3. case' \in CaseSet
      BY <2>1, SpentIs DEF ReportsTypes
  <2> HIDE DEF occ
  <2> QED BY <2>1, <2>2, <2>3, ObservedTypes
<1>7. CASE StartFlush
  <2>1. Len(queue) \in Nat
      BY DEF ReportsTypes
  <2> QED BY <1>7, <2>1, FlushIs DEF StartFlush, ReportsTypes, senderVars, orchestratorVars
<1>8. CASE EndFlush
    BY <1>8, FlushIs DEF EndFlush, ReportsTypes, senderVars, orchestratorVars
<1>9. CASE Rotate
  <2>1. queue # <<>>
      BY <1>9 DEF Rotate, Taking
  <2>2. Rotated \in Seq(Items)
      BY <2>1, RotatedIs DEF ReportsTypes
  <2> QED BY <1>9, <2>2, FlushIs DEF Rotate, ReportsTypes, senderVars, orchestratorVars
<1>10. CASE Take
  <2>1. Head(queue) \in Items
      BY <1>10, TailIs DEF Take, Taking, ReportsTypes
  <2> QED BY <1>10, <2>1, FlushIs DEF Take, ReportsTypes, senderVars, orchestratorVars
<1>11. CASE Sent
  <2> DEFINE item == flush.item
  <2>1. item \in Items /\ Receive(item)
      BY <1>11 DEF Sent, ReportsTypes, FlushSet
  <2>2. queue' \in Seq(Items)
    <3>1. CASE AtHead
      <4>1. queue' = Tail(queue)
          BY <1>11, <3>1 DEF Sent
      <4>2. queue \in Seq(Items) /\ queue # <<>>
          BY <3>1 DEF AtHead, ReportsTypes
      <4> QED BY <4>1, <4>2, TailIs
    <3>2. CASE ~AtHead
        BY <1>11, <3>2 DEF Sent, ReportsTypes
    <3> QED BY <3>1, <3>2
  <2>3. lane' \in [Repairs -> Lane] /\ pending' \in [Diags -> Int]
    <3>1. CASE ~AtHead
        BY <1>11, <3>1 DEF Sent, ReportsTypes
    <3>2. CASE AtHead /\ IsOp(item)
      <4>1. item.op \in Repairs
          BY <2>1, <3>2, ItemIs DEF OpReports
      <4>2. lane[item.op] \in Lane
          BY <4>1 DEF ReportsTypes
      <4>3. WithOneLess(lane[item.op]) \in Lane
          BY <4>2, OneLess
      <4>4. lane' = [lane EXCEPT ![item.op] = WithOneLess(lane[item.op])] /\ pending' = pending
          BY <1>11, <3>2 DEF Sent
      <4> QED BY <4>3, <4>4 DEF ReportsTypes
    <3>3. CASE AtHead /\ ~IsOp(item)
      <4>1. /\ pending' = [d \in Diags |-> pending[d] - IF d \in Named(item) THEN 1 ELSE 0]
            /\ lane' = lane
          BY <1>11, <3>3 DEF Sent
      <4>2. \A d \in Diags : (pending[d] - IF d \in Named(item) THEN 1 ELSE 0) \in Int
          BY DEF ReportsTypes
      <4> QED BY <4>1, <4>2 DEF ReportsTypes
    <3> QED BY <3>1, <3>2, <3>3
  <2>4. flush' = Pass /\ UNCHANGED <<senderVars, nextSeq, case>>
      BY <1>11 DEF Sent
  <2> QED BY <2>1, <2>2, <2>3, <2>4, FlushIs, ReceivedTypes DEF ReportsTypes, senderVars
<1>12. ASSUME NEW refused \in BOOLEAN, NotSent(refused), case' \in CaseSet PROVE ReportsTypes'
  <2>1. flush.item \in Items /\ (IsOp(flush.item) => flush.item.op \in Repairs)
      BY <1>12, ItemIs DEF NotSent, ReportsTypes, OpReports, FlushSet
  <2>2. CASE ~AtHead
      BY <1>12, <2>2, FlushIs DEF NotSent, ReportsTypes, senderVars, orchestratorVars
  <2>3. CASE AtHead
    <3>1. Rotated \in Seq(Items)
        BY <2>3, RotatedIs DEF AtHead, ReportsTypes
    <3>2. lane' \in [Repairs -> Lane]
      <4>1. CASE IsOp(flush.item) /\ refused
        <5>1. lane' = [lane EXCEPT ![flush.item.op].quarantined = TRUE]
            BY <1>12, <2>3, <4>1 DEF NotSent
        <5>2. lane[flush.item.op] \in Lane
            BY <2>1, <4>1 DEF ReportsTypes
        <5>3. [lane[flush.item.op] EXCEPT !.quarantined = TRUE] \in Lane
            BY <5>2 DEF Lane
        <5> QED BY <5>1, <5>3 DEF ReportsTypes
      <4>2. CASE ~(IsOp(flush.item) /\ refused)
          BY <1>12, <2>3, <4>2 DEF NotSent, ReportsTypes
      <4> QED BY <4>1, <4>2
    <3>3. flush' \in FlushSet
      <4>1. Pass.blocked = flush.blocked
          BY FlushIs
      <4>2. flush' = [Pass EXCEPT !.blocked = IF IsOp(flush.item) THEN flush.blocked \cup {flush.item.op}
                                              ELSE flush.blocked]
          BY <1>12, <2>3, <4>1 DEF NotSent
      <4>3. (IF IsOp(flush.item) THEN flush.blocked \cup {flush.item.op} ELSE flush.blocked) \in SUBSET Repairs
          BY <2>1 DEF ReportsTypes, FlushSet
      <4> QED BY <4>2, <4>3, FlushIs
    <3> QED BY <1>12, <2>3, <3>1, <3>2, <3>3 DEF NotSent, ReportsTypes, senderVars, orchestratorVars
  <2> QED BY <2>2, <2>3
<1>13. CASE Refused
  <2>1. NotSent(TRUE) /\ case' = case
      BY <1>13 DEF Refused
  <2> QED BY <1>12, <2>1 DEF ReportsTypes
<1>14. CASE SendFails
  <2>1. NotSent(FALSE) /\ Spend("fail")
      BY <1>14 DEF SendFails
  <2>2. case' \in CaseSet
      BY <2>1, SpentIs DEF ReportsTypes
  <2> QED BY <1>12, <2>1, <2>2
<1>15. CASE Lost
  <2>1. flush.item \in Items /\ Receive(flush.item) /\ Spend("lose") /\ UNCHANGED <<senderVars, reporterVars>>
      BY <1>15 DEF Lost, ReportsTypes, FlushSet
  <2>2. case' \in CaseSet
      BY <2>1, SpentIs DEF ReportsTypes
  <2> QED BY <2>1, <2>2, ReceivedTypes DEF ReportsTypes, senderVars, reporterVars
<1>16. ASSUME NEW o \in Requested, RequestRepair(o) PROVE ReportsTypes'
    BY <1>16 DEF RequestRepair, ReportsTypes, senderVars, reporterVars
<1>17. CASE UNCHANGED reportsVars
    BY <1>17 DEF reportsVars, senderVars, reporterVars, orchestratorVars, ReportsTypes
<1> QED
    BY <1>1, <1>3, <1>4, <1>5, <1>6, <1>7, <1>8, <1>9, <1>10, <1>11, <1>13, <1>14, <1>15, <1>16, <1>17
    DEF ReportsNext, CoordinatorSteps, Inspection, Reporter

-----------------------------------------------------------------------------
(* What the reporter counts. *)

OpCount(q, o) == Cardinality({i \in DOMAIN q : IsOp(q[i]) /\ q[i].op = o})

Naming(d) == {x \in Items : ~IsOp(x) /\ d \in Named(x)}
OfOp(o) == {x \in Items : IsOp(x) /\ x.op = o}

\* What is counted of a queue, when it grows, shrinks or is turned.
LEMMA CountIs ==
    ASSUME NEW q \in Seq(Items), NEW d, NEW o
    PROVE  /\ Count(q, d) = Cardinality(Hits(q, Naming(d))) /\ Count(q, d) \in Nat
           /\ OpCount(q, o) = Cardinality(Hits(q, OfOp(o))) /\ OpCount(q, o) \in Nat
<1>1. \A i \in DOMAIN q : q[i] \in Items
    OBVIOUS
<1>2. {i \in DOMAIN q : ~IsOp(q[i]) /\ d \in Named(q[i])} = Hits(q, Naming(d))
    BY <1>1 DEF Hits, Naming
<1>3. {i \in DOMAIN q : IsOp(q[i]) /\ q[i].op = o} = Hits(q, OfOp(o))
    BY <1>1 DEF Hits, OfOp
<1> QED
    BY <1>2, <1>3, HitsCounted DEF Count, OpCount

LEMMA CountAppend ==
    ASSUME NEW q \in Seq(Items), NEW x \in Items, NEW d, NEW o
    PROVE  /\ Count(Append(q, x), d) = Count(q, d) + IF ~IsOp(x) /\ d \in Named(x) THEN 1 ELSE 0
           /\ OpCount(Append(q, x), o) = OpCount(q, o) + IF IsOp(x) /\ x.op = o THEN 1 ELSE 0
<1>1. Append(q, x) \in Seq(Items)
    BY AppendIs
<1>2. x \in Naming(d) <=> ~IsOp(x) /\ d \in Named(x)
    BY DEF Naming
<1>3. x \in OfOp(o) <=> IsOp(x) /\ x.op = o
    BY DEF OfOp
<1>4. Cardinality(Hits(Append(q, x), Naming(d))) =
      Cardinality(Hits(q, Naming(d))) + IF x \in Naming(d) THEN 1 ELSE 0
    BY HitsAppend
<1>5. Cardinality(Hits(Append(q, x), OfOp(o))) =
      Cardinality(Hits(q, OfOp(o))) + IF x \in OfOp(o) THEN 1 ELSE 0
    BY HitsAppend
<1>6. Count(Append(q, x), d) = Cardinality(Hits(Append(q, x), Naming(d))) /\ Count(q, d) = Cardinality(Hits(q, Naming(d)))
    BY <1>1, CountIs
<1>7. OpCount(Append(q, x), o) = Cardinality(Hits(Append(q, x), OfOp(o))) /\ OpCount(q, o) = Cardinality(Hits(q, OfOp(o)))
    BY <1>1, CountIs
<1> QED
    BY <1>2, <1>3, <1>4, <1>5, <1>6, <1>7

LEMMA CountTail ==
    ASSUME NEW q \in Seq(Items), q # <<>>, NEW d, NEW o
    PROVE  /\ Count(q, d) = Count(Tail(q), d) + IF ~IsOp(q[1]) /\ d \in Named(q[1]) THEN 1 ELSE 0
           /\ OpCount(q, o) = OpCount(Tail(q), o) + IF IsOp(q[1]) /\ q[1].op = o THEN 1 ELSE 0
<1>1. Tail(q) \in Seq(Items) /\ q[1] \in Items
    BY TailIs
<1>2. q[1] \in Naming(d) <=> ~IsOp(q[1]) /\ d \in Named(q[1])
    BY <1>1 DEF Naming
<1>3. q[1] \in OfOp(o) <=> IsOp(q[1]) /\ q[1].op = o
    BY <1>1 DEF OfOp
<1>4. Cardinality(Hits(q, Naming(d))) =
      Cardinality(Hits(Tail(q), Naming(d))) + IF q[1] \in Naming(d) THEN 1 ELSE 0
    BY HitsTail
<1>5. Cardinality(Hits(q, OfOp(o))) =
      Cardinality(Hits(Tail(q), OfOp(o))) + IF q[1] \in OfOp(o) THEN 1 ELSE 0
    BY HitsTail
<1>6. Count(Tail(q), d) = Cardinality(Hits(Tail(q), Naming(d))) /\ Count(q, d) = Cardinality(Hits(q, Naming(d)))
    BY <1>1, CountIs
<1>7. OpCount(Tail(q), o) = Cardinality(Hits(Tail(q), OfOp(o))) /\ OpCount(q, o) = Cardinality(Hits(q, OfOp(o)))
    BY <1>1, CountIs
<1> QED
    BY <1>2, <1>3, <1>4, <1>5, <1>6, <1>7

LEMMA CountRotated ==
    ASSUME queue \in Seq(Items), queue # <<>>, NEW d, NEW o
    PROVE  Count(Rotated, d) = Count(queue, d) /\ OpCount(Rotated, o) = OpCount(queue, o)
<1>1. Tail(queue) \in Seq(Items) /\ queue[1] \in Items /\ Head(queue) = queue[1]
    BY TailIs
<1>2. Rotated = Append(Tail(queue), queue[1])
    BY <1>1 DEF Rotated
<1> DEFINE c == IF ~IsOp(queue[1]) /\ d \in Named(queue[1]) THEN 1 ELSE 0
           e == IF IsOp(queue[1]) /\ queue[1].op = o THEN 1 ELSE 0
<1>3. Count(queue, d) = Count(Tail(queue), d) + c /\ OpCount(queue, o) = OpCount(Tail(queue), o) + e
    BY CountTail
<1>4. Count(Rotated, d) = Count(Tail(queue), d) + c /\ OpCount(Rotated, o) = OpCount(Tail(queue), o) + e
    BY <1>1, <1>2, CountAppend
<1> HIDE DEF c, e
<1> QED
    BY <1>3, <1>4

LEMMA CountRemaining ==
    ASSUME queue \in Seq(Items), NEW d, NEW o
    PROVE  /\ Count(Remaining, d) = Count(queue, d) - Count(SubSeq(queue, Len(Remaining) + 1, Len(queue)), d)
           /\ OpCount(Remaining, o) = OpCount(queue, o)
<1>1. PICK n \in 0..Len(queue) :
               /\ Remaining = SubSeq(queue, 1, n) /\ Remaining \in Seq(Items) /\ Len(Remaining) = n
               /\ \A i \in (n + 1)..Len(queue) : ~IsOp(queue[i])
    BY RemainingIs
<1> DEFINE gone == SubSeq(queue, n + 1, Len(queue))
<1>2. queue \in Seq(Items) /\ Len(queue) \in Nat /\ \A i \in 1..Len(queue) : queue[i] \in Items
    OBVIOUS
<1>3. n + 1 \in Int /\ Len(queue) \in Int /\ \A i \in (n + 1)..Len(queue) : queue[i] \in Items
    BY <1>2
<1>4. /\ gone \in Seq(Items) /\ Len(gone) = (IF n + 1 <= Len(queue) THEN Len(queue) - (n + 1) + 1 ELSE 0)
      /\ \A i \in 1..(Len(queue) - (n + 1) + 1) : gone[i] = queue[n + 1 + i - 1]
    BY <1>3, SubSeqProperties
<1> HIDE DEF gone
<1>5. Hits(gone, OfOp(o)) = {}
  <2> SUFFICES ASSUME NEW i \in DOMAIN gone, gone[i] \in OfOp(o) PROVE FALSE
      BY DEF Hits
  <2>1. DOMAIN gone = 1..Len(gone)
      BY <1>4
  <2>2. n + 1 <= Len(queue)
      BY <1>4, <2>1, <1>3
  <2>3. i \in 1..(Len(queue) - (n + 1) + 1)
      BY <1>4, <2>1, <2>2
  <2>4. n + 1 + i - 1 \in (n + 1)..Len(queue)
      BY <2>3, <1>3
  <2> QED BY <1>1, <1>4, <2>3, <2>4 DEF OfOp
<1>6. Cardinality(Hits(gone, OfOp(o))) = 0
    BY <1>5, FS_EmptySet
<1>7. /\ Cardinality(Hits(queue, OfOp(o))) = Cardinality(Hits(Remaining, OfOp(o))) + Cardinality(Hits(gone, OfOp(o)))
      /\ Cardinality(Hits(queue, Naming(d))) = Cardinality(Hits(Remaining, Naming(d))) + Cardinality(Hits(gone, Naming(d)))
    BY <1>1, HitsSplit DEF gone
<1>8. /\ Count(queue, d) = Cardinality(Hits(queue, Naming(d))) /\ OpCount(queue, o) = Cardinality(Hits(queue, OfOp(o)))
      /\ Count(Remaining, d) = Cardinality(Hits(Remaining, Naming(d))) /\ Count(Remaining, d) \in Nat
      /\ OpCount(Remaining, o) = Cardinality(Hits(Remaining, OfOp(o))) /\ OpCount(Remaining, o) \in Nat
      /\ Count(gone, d) = Cardinality(Hits(gone, Naming(d))) /\ Count(gone, d) \in Nat
    BY <1>1, <1>4, CountIs
<1>9. Count(Remaining, d) = Count(queue, d) - Count(gone, d)
    BY <1>7, <1>8
<1>10. OpCount(Remaining, o) = OpCount(queue, o)
    BY <1>6, <1>7, <1>8
<1>11. gone = SubSeq(queue, Len(Remaining) + 1, Len(queue))
    BY <1>1 DEF gone
<1> QED
    BY <1>9, <1>10, <1>11

\* A snapshot enqueued is the last, or it is dropped for one that is kept; of what was
\* there, only snapshots at the end are gone.
LEMMA SnapshotShape ==
    ASSUME ReportsTypes, NEW diags \in [Diags -> Nat], NEW times \in [Diags -> Nat],
           EnqueueSnapshot(diags, times)
    PROVE  \E n \in 0..Len(queue) :
               /\ Len(Remaining) = n /\ \A i \in 1..n : Remaining[i] = queue[i]
               /\ \A i \in 1..n : queue'[i] = queue[i]
               /\ \A i \in (n + 1)..Len(queue) : ~IsOp(queue[i])
               /\ n > 0 => IsOp(queue[n])
               /\ \/ /\ Len(queue') = n
                     /\ \E i \in 1..n : ~IsOp(queue[i]) /\ queue[i].diags = diags
                  \/ Len(queue') = n + 1 /\ queue'[n + 1] = Snapshot(diags, times, nextSeq)
<1>1. PICK n \in 0..Len(queue) :
               /\ Remaining \in Seq(Items) /\ Len(Remaining) = n
               /\ \A i \in 1..n : Remaining[i] = queue[i]
               /\ \A i \in (n + 1)..Len(queue) : ~IsOp(queue[i])
               /\ n > 0 => IsOp(queue[n])
    BY RemainingIs DEF ReportsTypes
<1> DEFINE item == Snapshot(diags, times, nextSeq)
<1>2. item \in Items /\ ~IsOp(item) /\ item.diags = diags
  <2>1. nextSeq \in Nat
      BY DEF ReportsTypes
  <2>2. item \in Items /\ ~IsOp(item)
      BY <2>1, SnapshotIs
  <2>3. item.diags = diags
      BY DEF Snapshot
  <2> QED BY <2>2, <2>3
<1>3. CASE \E i \in DOMAIN Remaining : SameKey(Remaining[i], item)
  <2>1. queue' = Remaining
      BY <1>3 DEF EnqueueSnapshot
  <2>2. PICK i \in DOMAIN Remaining : SameKey(Remaining[i], item)
      BY <1>3
  <2>3. i \in 1..n /\ Remaining[i] = queue[i]
      BY <1>1
  <2>4. ~IsOp(queue[i]) /\ queue[i].diags = diags
      BY <1>2, <2>2, <2>3 DEF SameKey
  <2>5. Len(queue') = n /\ \A j \in 1..n : queue'[j] = queue[j]
      BY <1>1, <2>1
  <2> HIDE DEF item
  <2> QED BY <1>1, <2>3, <2>4, <2>5
<1>4. CASE ~ \E i \in DOMAIN Remaining : SameKey(Remaining[i], item)
  <2>1. queue' = Append(Remaining, item)
      BY <1>4 DEF EnqueueSnapshot
  <2> HIDE DEF item
  <2>2. /\ Len(queue') = n + 1 /\ queue'[n + 1] = item
        /\ \A i \in 1..n : queue'[i] = queue[i]
      BY <1>1, <1>2, <2>1, AppendIs
  <2> QED BY <1>1, <2>2 DEF item
<1> QED
    BY <1>3, <1>4

-----------------------------------------------------------------------------
(* The lanes: CountsExact, and what keeps it. *)

UnderWay(o) == progress[o] \in 1..(Last - 1)

LaneStates ==
    \A o \in Repairs :
        /\ UnderWay(o) <=> repairing = o
        /\ lane[o].admitted => (lane[o].terminal <=> progress[o] = Last)
        /\ ~lane[o].admitted => ~lane[o].terminal
\* No report is ahead of its operation.
Reached == \A i \in DOMAIN queue : IsOp(queue[i]) => queue[i].at <= progress[queue[i].op]
\* What is being sent is the head of the queue, or a snapshot that was superseded there.
HeadSent ==
    flush.item # Nothing =>
        /\ queue # <<>>
        /\ IsOp(flush.item) => queue[1] = flush.item
        /\ ~IsOp(flush.item) => ~IsOp(queue[1])

LanesInv == ReportsTypes /\ CountsExact /\ LaneStates /\ Reached /\ HeadSent

\* While the lanes and the operations do not change, and the queue keeps its reports.
LEMMA LanesUnchanged ==
    ASSUME LanesInv, UNCHANGED <<lane, progress, repairing, stored, totals>>,
           \A d \in Diags : pending'[d] = Count(queue', d),
           \A o \in Repairs : OpCount(queue', o) = OpCount(queue, o)
    PROVE  CountsExact' /\ LaneStates'
    BY DEF LanesInv, CountsExact, LaneStates, UnderWay, OpCount

LEMMA LanesObserved ==
    ASSUME LanesInv, NEW now \in SUBSET Diags, NEW occ \in [Diags -> Nat], Observed(now, occ)
    PROVE  CountsExact' /\ LaneStates' /\ Reached' /\ HeadSent'
<1>1. ReportsTypes /\ UNCHANGED <<progress, repairing, stored, totals>>
    BY DEF LanesInv, Observed
<1>2. seen' \in [Diags -> Nat] /\ EnqueueSnapshot(occ, seen')
    BY <1>1 DEF Observed, ReportsTypes
<1> DEFINE item == Snapshot(occ, seen', nextSeq)
<1>3. item \in Items /\ ~IsOp(item)
    BY <1>1, <1>2, SnapshotIs DEF ReportsTypes
<1>4. /\ queue' \in Seq(Items) /\ queue' \in {Remaining, Append(Remaining, item)}
      /\ lane' = lane /\ flush' = flush
    BY <1>1, <1>2, SnapshotQueued
<1>5. Remaining \in Seq(Items) /\ queue \in Seq(Items)
    BY <1>1, RemainingIs DEF ReportsTypes
<1>6. \A d \in Diags : pending'[d] = Count(queue', d)
  <2> TAKE d \in Diags
  <2> DEFINE gone == SubSeq(queue, Len(Remaining) + 1, Len(queue))
             c == IF d \in Named(item) THEN 1 ELSE 0
  <2>1. Count(Remaining, d) = Count(queue, d) - Count(gone, d)
      BY <1>5, CountRemaining
  <2>2. pending[d] = Count(queue, d)
      BY DEF LanesInv, CountsExact
  <2>3. Count(Append(Remaining, item), d) = Count(Remaining, d) + c
    <3> HIDE DEF item
    <3> QED BY <1>3, <1>5, CountAppend
  <2>4. \/ queue' = Remaining /\ pending'[d] = pending[d] - Count(gone, d)
        \/ queue' = Append(Remaining, item) /\ pending'[d] = (pending[d] - Count(gone, d)) + c
    <3>1. CASE \E i \in DOMAIN Remaining : SameKey(Remaining[i], item)
        BY <1>2, <3>1 DEF EnqueueSnapshot
    <3>2. CASE ~ \E i \in DOMAIN Remaining : SameKey(Remaining[i], item)
        BY <1>2, <3>2 DEF EnqueueSnapshot
    <3> QED BY <3>1, <3>2
  <2> HIDE DEF gone, c, item
  <2> QED BY <2>1, <2>2, <2>3, <2>4
<1>7. \A o \in Repairs : OpCount(queue', o) = OpCount(queue, o)
  <2> TAKE o \in Repairs
  <2>1. OpCount(Remaining, o) = OpCount(queue, o) /\ OpCount(queue, o) \in Nat
      BY <1>5, CountRemaining, CountIs
  <2>2. OpCount(Append(Remaining, item), o) = OpCount(Remaining, o) + 0
    <3> HIDE DEF item
    <3> QED BY <1>3, <1>5, CountAppend
  <2> HIDE DEF item
  <2>3. CASE queue' = Remaining
      BY <2>1, <2>3
  <2>4. CASE queue' = Append(Remaining, item)
    <3>1. OpCount(queue', o) = OpCount(Append(Remaining, item), o)
        BY <2>4
    <3> QED BY <2>1, <2>2, <3>1
  <2> QED BY <1>4, <2>3, <2>4
<1>8. CountsExact' /\ LaneStates'
    BY <1>1, <1>4, <1>6, <1>7, LanesUnchanged
<1>9. PICK n \in 0..Len(queue) :
               /\ \A i \in 1..n : queue'[i] = queue[i]
               /\ \A i \in (n + 1)..Len(queue) : ~IsOp(queue[i])
               /\ \/ /\ Len(queue') = n
                     /\ \E i \in 1..n : ~IsOp(queue[i]) /\ queue[i].diags = occ
                  \/ Len(queue') = n + 1 /\ queue'[n + 1] = item
    BY <1>1, <1>2, SnapshotShape
<1>10. DOMAIN queue' = 1..Len(queue') /\ DOMAIN queue = 1..Len(queue) /\ Len(queue) \in Nat
    BY <1>4, <1>5
<1> HIDE DEF item
<1>11. Reached'
  <2> SUFFICES ASSUME NEW i \in DOMAIN queue', IsOp(queue'[i])
               PROVE  queue'[i].at <= progress'[queue'[i].op]
      BY DEF Reached, IsOp
  <2>1. i \in 1..n /\ queue'[i] = queue[i]
    <3>1. CASE Len(queue') = n
        BY <3>1, <1>9, <1>10
    <3>2. CASE Len(queue') = n + 1 /\ queue'[n + 1] = item
      <4>1. i \in 1..(n + 1)
          BY <3>2, <1>10
      <4>2. i # n + 1
          BY <3>2, <1>3
      <4>3. i \in 1..n
          BY <4>1, <4>2
      <4> QED BY <4>3, <1>9
    <3> QED BY <3>1, <3>2, <1>9
  <2>2. i \in DOMAIN queue
      BY <2>1, <1>10
  <2> QED BY <1>1, <2>1, <2>2 DEF LanesInv, Reached
<1>12. HeadSent'
  <2> SUFFICES ASSUME flush.item # Nothing
               PROVE  /\ queue' # <<>>
                      /\ IsOp(flush.item) => queue'[1] = flush.item
                      /\ ~IsOp(flush.item) => ~IsOp(queue'[1])
      BY <1>4 DEF HeadSent, IsOp
  <2>1. /\ queue # <<>> /\ (IsOp(flush.item) => queue[1] = flush.item)
        /\ ~IsOp(flush.item) => ~IsOp(queue[1])
      BY DEF LanesInv, HeadSent
  <2>2. Len(queue') > 0 => queue' # <<>>
      BY <1>4
  <2>3. 1 \in 1..Len(queue)
      BY <2>1, <1>5
  <2>4. CASE n > 0
    <3>1. 1 \in 1..n /\ Len(queue') > 0
        BY <2>4, <1>9
    <3> QED BY <2>1, <2>2, <3>1, <1>9
  <2>5. CASE n = 0
    <3>1. Len(queue') = 1 /\ queue'[1] = item
        BY <2>5, <1>9
    <3>2. 1 \in (n + 1)..Len(queue)
        BY <2>5, <2>3
    <3>3. ~IsOp(queue[1])
        BY <1>9, <3>2
    <3> QED BY <2>1, <2>2, <3>1, <3>3, <1>3
  <2> QED BY <1>10, <2>4, <2>5
<1> QED
    BY <1>8, <1>11, <1>12

\* An operation enqueues its next report.
LEMMA LanesEnqueued ==
    ASSUME LanesInv, NEW o \in Repairs, NEW i \in 1..Last, i = progress[o] + 1, EnqueueOp(o, i),
           progress' = [progress EXCEPT ![o] = i],
           progress[o] = 0 \/ UnderWay(o),
           \A p \in Repairs : UnderWay(p)' <=> repairing' = p,
           UNCHANGED <<stored, totals>>
    PROVE  CountsExact' /\ LaneStates' /\ Reached' /\ HeadSent'
<1>1. ReportsTypes /\ CountsExact /\ LaneStates /\ Reached /\ HeadSent
    BY DEF LanesInv
<1>2. /\ queue' = Append(queue, Op(o, i)) /\ queue' \in Seq(Items) /\ lane' \in [Repairs -> Lane]
      /\ lane'[o].pending = lane[o].pending + 1 /\ lane'[o].admitted
      /\ lane'[o].terminal <=> lane[o].terminal \/ i = Last
      /\ \A p \in Repairs \ {o} : lane'[p] = lane[p]
      /\ pending' = pending /\ flush' = flush
    BY <1>1, OpQueued
<1>3. queue \in Seq(Items) /\ Op(o, i) \in Items /\ IsOp(Op(o, i)) /\ Op(o, i).op = o /\ Op(o, i).at = i
    BY <1>1, OpIs DEF ReportsTypes
<1>4. \A d \in Diags : pending'[d] = Count(queue', d)
  <2> TAKE d \in Diags
  <2>1. Count(queue', d) = Count(queue, d) + 0 /\ Count(queue, d) \in Nat
    <3> DEFINE x == Op(o, i)
    <3>1. x \in Items /\ IsOp(x) /\ queue' = Append(queue, x)
        BY <1>2, <1>3
    <3> HIDE DEF x
    <3>2. Count(Append(queue, x), d) = Count(queue, d) + IF ~IsOp(x) /\ d \in Named(x) THEN 1 ELSE 0
        BY <1>3, <3>1, CountAppend
    <3> QED BY <1>3, <3>1, <3>2, CountIs
  <2> QED BY <1>1, <1>2, <2>1 DEF CountsExact
<1>5. \A p \in Repairs : lane[p].pending = OpCount(queue, p) /\ OpCount(queue, p) \in Nat
    BY <1>1, <1>3, CountIs DEF CountsExact, OpCount
<1>6. \A p \in Repairs : lane'[p].pending = OpCount(queue', p)
  <2> TAKE p \in Repairs
  <2>1. OpCount(queue', p) = OpCount(queue, p) + IF p = o THEN 1 ELSE 0
    <3> DEFINE x == Op(o, i)
    <3>1. x \in Items /\ IsOp(x) /\ x.op = o /\ queue' = Append(queue, x)
        BY <1>2, <1>3
    <3> HIDE DEF x
    <3>2. OpCount(Append(queue, x), p) = OpCount(queue, p) + IF IsOp(x) /\ x.op = p THEN 1 ELSE 0
        BY <1>3, <3>1, CountAppend
    <3> QED BY <3>1, <3>2
  <2> QED BY <1>2, <1>5, <2>1
<1>7. progress \in [Repairs -> 0..Last] /\ progress'[o] = i /\ \A p \in Repairs \ {o} : progress'[p] = progress[p]
    BY <1>1 DEF ReportsTypes
<1>8. \A p \in Repairs : lane'[p].admitted <=> lane'[p].pending > 0 \/ progress'[p] \in 1..(Last - 1)
  <2> TAKE p \in Repairs
  <2>1. CASE p = o
    <3>1. lane'[o].pending > 0
        BY <1>2, <1>5
    <3> QED BY <1>2, <2>1, <3>1
  <2>2. CASE p # o
    <3>1. lane[p].admitted <=> lane[p].pending > 0 \/ progress[p] \in 1..(Last - 1)
        BY <1>1 DEF CountsExact
    <3> QED BY <1>2, <1>7, <2>2, <3>1
  <2> QED BY <2>1, <2>2
<1>9. CountsExact'
  <2>1. \A p \in Repairs : totals'[p] = IF stored'[p] = Last THEN 1 ELSE 0
      BY <1>1 DEF CountsExact
  <2> QED BY <2>1, <1>4, <1>6, <1>8 DEF CountsExact, OpCount
<1>10. LaneStates'
  <2>1. ASSUME NEW p \in Repairs
        PROVE  /\ lane'[p].admitted => (lane'[p].terminal <=> progress'[p] = Last)
               /\ ~lane'[p].admitted => ~lane'[p].terminal
    <3>1. CASE p = o
      <4>1. ~lane[o].terminal
        <5>1. progress[o] # Last
            BY <1>7, ReportsAssumptions DEF UnderWay
        <5> QED BY <1>1, <5>1 DEF LaneStates
      <4> QED BY <1>2, <1>7, <3>1, <4>1
    <3>2. CASE p # o
        BY <1>1, <1>2, <1>7, <3>2 DEF LaneStates
    <3> QED BY <3>1, <3>2
  <2> QED BY <2>1 DEF LaneStates
<1>11. /\ Len(queue') = Len(queue) + 1 /\ Len(queue) \in Nat /\ queue'[Len(queue) + 1] = Op(o, i)
       /\ \A k \in 1..Len(queue) : queue'[k] = queue[k]
    BY <1>2, <1>3, AppendIs
<1>12. Reached'
  <2> SUFFICES ASSUME NEW k \in DOMAIN queue', IsOp(queue'[k])
               PROVE  queue'[k].at <= progress'[queue'[k].op]
      BY DEF Reached, IsOp
  <2>1. k \in 1..(Len(queue) + 1)
      BY <1>2, <1>11
  <2>2. CASE k = Len(queue) + 1
      BY <2>2, <1>3, <1>7, <1>11
  <2>3. CASE k \in 1..Len(queue)
    <3>1. queue'[k] = queue[k] /\ queue[k] \in Items /\ k \in DOMAIN queue
        BY <2>3, <1>3, <1>11
    <3>2. queue[k].op \in Repairs /\ queue[k].at \in Nat
        BY <2>3, <3>1, ItemIs DEF OpReports
    <3>3. queue[k].at <= progress[queue[k].op]
        BY <1>1, <3>1 DEF Reached
    <3>4. CASE queue[k].op = o
        BY <1>7, <3>1, <3>2, <3>3, <3>4
    <3>5. CASE queue[k].op # o
        BY <1>7, <3>1, <3>2, <3>3, <3>5
    <3> QED BY <3>4, <3>5
  <2> QED BY <1>11, <2>1, <2>2, <2>3
<1>13. HeadSent'
  <2>1. queue # <<>> => queue' # <<>> /\ queue'[1] = queue[1]
    <3>1. queue # <<>> => 1 \in 1..Len(queue)
        BY <1>3
    <3>2. queue' # <<>>
        BY <1>2, <1>11
    <3> QED BY <3>1, <3>2, <1>11
  <2> QED BY <1>1, <1>2, <2>1 DEF HeadSent, IsOp
<1> QED
    BY <1>9, <1>10, <1>12, <1>13

LEMMA LanesCoordinator ==
    ASSUME LanesInv, NEW o \in Repairs, Begin(o) \/ Advance(o) \/ Finish(o)
    PROVE  CountsExact' /\ LaneStates' /\ Reached' /\ HeadSent'
<1> USE ReportsAssumptions
<1>1. ReportsTypes /\ \A p \in Repairs : UnderWay(p) <=> repairing = p
    BY DEF LanesInv, LaneStates
<1>2. progress \in [Repairs -> 0..Last] /\ progress[o] \in 0..Last
    BY <1>1 DEF ReportsTypes
<1>3. CASE Begin(o)
  <2>1. /\ EnqueueOp(o, 1) /\ progress[o] = 0 /\ progress' = [progress EXCEPT ![o] = 1] /\ repairing' = o
        /\ repairing = NoRepair /\ UNCHANGED <<stored, totals>>
      BY <1>3 DEF Begin, orchestratorVars
  <2>2. \A p \in Repairs : ~UnderWay(p)
      BY <1>1, <2>1
  <2>3. \A p \in Repairs : UnderWay(p)' <=> repairing' = p
      BY <1>2, <2>1, <2>2 DEF UnderWay
  <2>4. 1 \in 1..Last
      OBVIOUS
  <2> DEFINE i == 1
  <2>5. i \in 1..Last /\ i = progress[o] + 1 /\ EnqueueOp(o, i) /\ progress' = [progress EXCEPT ![o] = i]
      BY <2>1, <2>4
  <2> HIDE DEF i
  <2> QED BY <2>1, <2>3, <2>5, LanesEnqueued
<1>4. CASE Advance(o) \/ Finish(o)
  <2> DEFINE i == progress[o] + 1
  <2>1. repairing = o /\ EnqueueOp(o, i) /\ progress' = [progress EXCEPT ![o] = i]
        /\ UNCHANGED <<stored, totals>>
      BY <1>2, <1>4 DEF Advance, Finish, Proceed, orchestratorVars
  <2>2. UnderWay(o)
      BY <1>1, <2>1
  <2>3. i \in 1..Last
      BY <1>2, <2>2 DEF UnderWay
  <2>4. \A p \in Repairs \ {o} : ~UnderWay(p) /\ progress'[p] = progress[p]
      BY <1>1, <1>2, <2>1
  <2>5. progress'[o] = i
      BY <1>2, <2>1
  <2>6. \A p \in Repairs : UnderWay(p)' <=> repairing' = p
    <3>1. CASE Advance(o)
      <4>1. repairing' = repairing /\ i < Last
          BY <3>1 DEF Advance
      <4> QED BY <2>1, <2>3, <2>4, <2>5, <4>1 DEF UnderWay
    <3>2. CASE Finish(o)
      <4>1. repairing' = NoRepair /\ i = Last
          BY <3>2 DEF Finish
      <4> QED BY <2>3, <2>4, <2>5, <4>1 DEF UnderWay
    <3> QED BY <1>4, <3>1, <3>2
  <2> HIDE DEF i
  <2> QED BY <2>1, <2>2, <2>3, <2>6, LanesEnqueued DEF i
<1> QED
    BY <1>3, <1>4

\* The head goes to the end of the queue, and its operation may be quarantined.
LEMMA LanesRotated ==
    ASSUME LanesInv, queue # <<>>, queue' = Rotated, flush'.item = Nothing,
           \A o \in Repairs : /\ lane'[o].pending = lane[o].pending
                              /\ lane'[o].admitted = lane[o].admitted
                              /\ lane'[o].terminal = lane[o].terminal,
           UNCHANGED <<pending, progress, repairing, stored, totals>>
    PROVE  CountsExact' /\ LaneStates' /\ Reached' /\ HeadSent'
<1>1. ReportsTypes /\ CountsExact /\ LaneStates /\ Reached
    BY DEF LanesInv
<1>2. queue \in Seq(Items)
    BY <1>1 DEF ReportsTypes
<1>3. \A d \in Diags : Count(queue', d) = Count(queue, d)
    BY <1>2, CountRotated
<1>4. \A o \in Repairs : OpCount(queue', o) = OpCount(queue, o)
    BY <1>2, CountRotated
<1>5. CountsExact'
    BY <1>1, <1>3, <1>4 DEF CountsExact, OpCount
<1>6. LaneStates'
    BY <1>1 DEF LaneStates, UnderWay
<1>7. Reached'
  <2>1. /\ queue' \in Seq(Items) /\ Len(queue') = Len(queue)
        /\ \A i \in 1..(Len(queue) - 1) : queue'[i] = queue[i + 1]
        /\ queue'[Len(queue)] = queue[1]
      BY <1>2, RotatedIs
  <2>2. Len(queue) \in Nat \ {0}
      BY <1>2
  <2> SUFFICES ASSUME NEW i \in DOMAIN queue' PROVE \E j \in DOMAIN queue : queue'[i] = queue[j]
    <3> HIDE DEF Reached
    <3> QED BY <1>1 DEF Reached, IsOp
  <2>3. i \in 1..Len(queue)
      BY <2>1
  <2>4. CASE i = Len(queue)
      BY <1>2, <2>1, <2>2, <2>4
  <2>5. CASE i # Len(queue)
    <3>1. i \in 1..(Len(queue) - 1) /\ i + 1 \in 1..Len(queue)
        BY <2>2, <2>3, <2>5
    <3> QED BY <1>2, <2>1, <3>1
  <2> QED BY <2>4, <2>5
<1>8. HeadSent'
    BY DEF HeadSent
<1> QED
    BY <1>5, <1>6, <1>7, <1>8

\* An outcome is counted when it is stored, and then only.
LEMMA TotalsReceived ==
    ASSUME LanesInv, NEW item \in Items, Receive(item)
    PROVE  \A o \in Repairs : totals'[o] = IF stored'[o] = Last THEN 1 ELSE 0
<1>1. ReportsTypes /\ \A o \in Repairs : totals[o] = IF stored[o] = Last THEN 1 ELSE 0
    BY DEF LanesInv, CountsExact
<1>2. CASE ~IsOp(item)
    BY <1>1, <1>2 DEF Receive
<1>3. CASE IsOp(item)
  <2>1. item.op \in Repairs /\ item.at \in 1..Last
      BY <1>3, ItemIs DEF OpReports
  <2>2. /\ stored' = [stored EXCEPT ![item.op] = IF item.at > stored[item.op] THEN item.at ELSE stored[item.op]]
        /\ totals' = [totals EXCEPT ![item.op] =
               IF item.at = Last /\ stored[item.op] # Last THEN totals[item.op] + 1 ELSE totals[item.op]]
      BY <1>3 DEF Receive
  <2> TAKE o \in Repairs
  <2>3. stored[o] \in 0..Last /\ totals[o] = IF stored[o] = Last THEN 1 ELSE 0
      BY <1>1 DEF ReportsTypes
  <2>4. CASE o # item.op
    <3>1. stored'[o] = stored[o] /\ totals'[o] = totals[o]
        BY <1>1, <2>2, <2>4 DEF ReportsTypes
    <3> QED BY <2>3, <3>1
  <2>5. CASE o = item.op
    <3>1. /\ stored'[o] = (IF item.at > stored[o] THEN item.at ELSE stored[o])
          /\ totals'[o] = (IF item.at = Last /\ stored[o] # Last THEN totals[o] + 1 ELSE totals[o])
        BY <1>1, <2>1, <2>2, <2>5 DEF ReportsTypes
    <3> QED BY <2>1, <2>3, <3>1, ReportsAssumptions
  <2> QED BY <2>4, <2>5
<1> QED
    BY <1>2, <1>3

LEMMA LanesSent ==
    ASSUME LanesInv, Sent
    PROVE  CountsExact' /\ LaneStates' /\ Reached' /\ HeadSent'
<1> DEFINE item == flush.item
<1>1. ReportsTypes /\ CountsExact /\ LaneStates /\ Reached /\ HeadSent
    BY DEF LanesInv
<1>2. item # Nothing /\ item \in Items /\ Receive(item) /\ flush' = Pass /\ UNCHANGED <<progress, repairing>>
    BY <1>1 DEF Sent, ReportsTypes, FlushSet, senderVars
<1>3. queue \in Seq(Items) /\ queue # <<>> /\ \A d \in Diags : pending[d] \in Int
    BY <1>1, <1>2 DEF HeadSent, ReportsTypes
<1>4. \A o \in Repairs : totals'[o] = IF stored'[o] = Last THEN 1 ELSE 0
    BY <1>2, TotalsReceived
<1>5. HeadSent'
    BY <1>1, <1>2, FlushIs DEF HeadSent
<1>6. \A o \in Repairs : UnderWay(o)' <=> repairing' = o
    BY <1>1, <1>2 DEF LaneStates, UnderWay
<1>7. \A o \in Repairs : lane[o] \in Lane /\ progress[o] \in 0..Last
    BY <1>1 DEF ReportsTypes
<1>8. CASE ~AtHead
  <2>1. UNCHANGED <<queue, lane, pending>>
      BY <1>8 DEF Sent
  <2> QED BY <1>1, <1>2, <1>4, <1>5, <2>1 DEF CountsExact, LaneStates, Reached, UnderWay
<1>9. CASE AtHead
  <2>1. queue' = Tail(queue)
      BY <1>9 DEF Sent
  <2>2. /\ queue' \in Seq(Items) /\ Len(queue') = Len(queue) - 1 /\ Len(queue) \in Nat \ {0}
        /\ \A i \in 1..(Len(queue) - 1) : queue'[i] = queue[i + 1]
        /\ Head(queue) = queue[1] /\ queue[1] \in Items
      BY <1>3, <2>1, TailIs
  <2>3. Reached'
    <3> SUFFICES ASSUME NEW i \in DOMAIN queue' PROVE \E j \in DOMAIN queue : queue'[i] = queue[j]
        BY <1>1, <1>2 DEF Reached, IsOp
    <3>1. i \in 1..(Len(queue) - 1) /\ i + 1 \in DOMAIN queue
        BY <1>3, <2>2
    <3> QED BY <2>2, <3>1
  <2>4. \A d \in Diags : Count(queue, d) = Count(queue', d) + IF ~IsOp(queue[1]) /\ d \in Named(queue[1]) THEN 1 ELSE 0
      BY <1>3, <2>1, CountTail
  <2>5. \A o \in Repairs : OpCount(queue, o) = OpCount(queue', o) + IF IsOp(queue[1]) /\ queue[1].op = o THEN 1 ELSE 0
      BY <1>3, <2>1, CountTail
  <2>6. \A d \in Diags : pending[d] = Count(queue, d) /\ Count(queue', d) \in Nat
      BY <1>1, <2>2, CountIs DEF CountsExact
  <2>7. \A o \in Repairs : lane[o].pending = OpCount(queue, o) /\ OpCount(queue', o) \in Nat
    <3>1. \A o \in Repairs : OpCount(queue', o) \in Nat
        BY <2>2, CountIs
    <3>2. \A o \in Repairs : lane[o].pending = OpCount(queue, o)
        BY <1>1 DEF CountsExact, OpCount
    <3> QED BY <3>1, <3>2
  <2>8. CASE IsOp(item)
    <3> DEFINE o == item.op
    <3>1. queue[1] = item /\ o \in Repairs /\ item.at \in 1..Last
        BY <1>1, <1>2, <2>8, ItemIs DEF HeadSent, OpReports
    <3>2. lane' = [lane EXCEPT ![o] = WithOneLess(lane[o])] /\ pending' = pending
        BY <1>9, <2>8 DEF Sent
    <3>3. lane'[o] = WithOneLess(lane[o]) /\ \A p \in Repairs \ {o} : lane'[p] = lane[p]
        BY <1>1, <3>1, <3>2 DEF ReportsTypes
    <3>4. \A d \in Diags : pending'[d] = Count(queue', d)
        BY <2>4, <2>6, <2>8, <3>1, <3>2
    <3>5. lane[o].pending = OpCount(queue', o) + 1
        BY <2>5, <2>7, <2>8, <3>1
    <3>6. lane[o].admitted /\ (lane[o].terminal <=> progress[o] = Last)
      <4>1. lane[o].pending > 0
        <5>1. OpCount(queue', o) \in Nat
            BY <2>7, <3>1
        <5> QED BY <3>5, <5>1
      <4>2. lane[o].admitted
          BY <1>1, <3>1, <4>1 DEF CountsExact
      <4> QED BY <1>1, <3>1, <4>2 DEF LaneStates
    <3>7. progress[o] \in 1..Last
      <4>1. 1 \in DOMAIN queue
          BY <1>3
      <4>2. item.at <= progress[o]
          BY <1>1, <2>8, <3>1, <4>1 DEF Reached
      <4> QED BY <1>7, <3>1, <4>2
    <3> HIDE DEF o
    <3>8. /\ lane'[o].pending = OpCount(queue', o)
          /\ lane'[o].admitted <=> lane'[o].pending > 0 \/ progress[o] \in 1..(Last - 1)
          /\ lane'[o].admitted => (lane'[o].terminal <=> progress[o] = Last)
          /\ ~lane'[o].admitted => ~lane'[o].terminal
      <4>1. lane[o] \in Lane
          BY <1>7, <3>1
      <4>2. CASE lane[o].pending = 1 /\ lane[o].terminal
        <5>1. lane'[o] = NotAdmitted
            BY <3>3, <4>1, <4>2, OneLess
        <5>2. OpCount(queue', o) = 0
            BY <2>7, <3>1, <3>5, <4>2
        <5>3. progress[o] = Last
            BY <3>6, <4>2
        <5> QED BY <5>1, <5>2, <5>3, ReportsAssumptions DEF NotAdmitted
      <4>3. CASE ~(lane[o].pending = 1 /\ lane[o].terminal)
        <5>1. /\ lane'[o].pending = lane[o].pending - 1 /\ lane'[o].admitted = lane[o].admitted
              /\ lane'[o].terminal = lane[o].terminal
            BY <3>3, <4>1, <4>3, OneLess
        <5>2. lane'[o].pending = OpCount(queue', o) /\ OpCount(queue', o) \in Nat
            BY <2>7, <3>1, <3>5, <5>1
        <5>3. lane'[o].pending > 0 \/ progress[o] \in 1..(Last - 1)
          <6>1. CASE OpCount(queue', o) = 0
            <7>1. lane[o].pending = 1
                BY <3>5, <6>1
            <7>2. progress[o] # Last
                BY <3>6, <4>3, <7>1
            <7> QED BY <3>7, <7>2, ReportsAssumptions
          <6>2. CASE OpCount(queue', o) # 0
              BY <5>2, <6>2
          <6> QED BY <6>1, <6>2
        <5> QED BY <3>6, <5>1, <5>2, <5>3
      <4> QED BY <4>2, <4>3
    <3>9. ASSUME NEW p \in Repairs, p # o
          PROVE  /\ lane'[p].pending = OpCount(queue', p)
                 /\ lane'[p].admitted <=> lane'[p].pending > 0 \/ progress[p] \in 1..(Last - 1)
                 /\ lane'[p].admitted => (lane'[p].terminal <=> progress[p] = Last)
                 /\ ~lane'[p].admitted => ~lane'[p].terminal
      <4>1. lane'[p] = lane[p] /\ lane[p].pending = OpCount(queue', p)
        <5>1. queue[1].op # p
            BY <3>1, <3>9 DEF o
        <5> QED BY <2>5, <2>7, <3>3, <3>9, <5>1
      <4> QED BY <1>1, <4>1 DEF CountsExact, LaneStates
    <3>10. CountsExact' /\ LaneStates'
        BY <1>2, <1>4, <1>6, <3>4, <3>8, <3>9 DEF CountsExact, LaneStates, OpCount
    <3> QED BY <1>5, <2>3, <3>10
  <2>9. CASE ~IsOp(item)
    <3>1. /\ lane' = lane
          /\ pending' = [d \in Diags |-> pending[d] - IF d \in Named(item) THEN 1 ELSE 0]
        BY <1>9, <2>9 DEF Sent
    <3>2. ~IsOp(queue[1]) /\ queue[1].diags = item.diags
      <4>1. SameKey(queue[1], item)
          BY <1>9, <2>2 DEF AtHead
      <4> QED BY <2>9, <4>1 DEF SameKey
    <3>3. Named(queue[1]) = Named(item)
        BY <3>2 DEF Named
    <3>4. \A d \in Diags : pending'[d] = Count(queue', d)
      <4> TAKE d \in Diags
      <4> DEFINE c == IF d \in Named(item) THEN 1 ELSE 0
      <4>1. Count(queue, d) = Count(queue', d) + c
          BY <2>4, <3>2, <3>3
      <4>2. pending'[d] = pending[d] - c /\ c \in Int
          BY <3>1
      <4> HIDE DEF c
      <4> QED BY <2>6, <4>1, <4>2
    <3>5. \A o \in Repairs : OpCount(queue', o) = OpCount(queue, o)
        BY <2>5, <2>7, <3>2
    <3>6. CountsExact' /\ LaneStates'
        BY <1>1, <1>2, <1>4, <3>1, <3>4, <3>5 DEF CountsExact, LaneStates, OpCount, UnderWay
    <3> QED BY <1>5, <2>3, <3>6
  <2> QED BY <2>8, <2>9
<1> QED
    BY <1>8, <1>9

LEMMA LanesNotSent ==
    ASSUME LanesInv, NEW refused \in BOOLEAN, NotSent(refused)
    PROVE  CountsExact' /\ LaneStates' /\ Reached' /\ HeadSent'
<1>1. ReportsTypes /\ CountsExact /\ LaneStates /\ Reached
    BY DEF LanesInv
<1>2. UNCHANGED <<pending, progress, repairing, stored, totals>>
    BY DEF NotSent, senderVars, orchestratorVars
<1>3. flush.item \in Items /\ Pass.item = Nothing
    BY <1>1, FlushIs DEF NotSent, ReportsTypes, FlushSet
<1>4. CASE ~AtHead
  <2>1. flush' = Pass /\ UNCHANGED <<queue, lane>>
      BY <1>4 DEF NotSent
  <2> QED BY <1>1, <1>2, <1>3, <2>1 DEF CountsExact, LaneStates, Reached, HeadSent, UnderWay
<1>5. CASE AtHead
  <2>1. queue # <<>> /\ queue' = Rotated
      BY <1>5 DEF NotSent, AtHead
  <2>2. flush'.item = Nothing
    <3>1. (IF IsOp(flush.item) THEN flush.blocked \cup {flush.item.op} ELSE flush.blocked) \in SUBSET Repairs
        BY <1>1, <1>3, ItemIs DEF ReportsTypes, FlushSet, OpReports
    <3>2. flush' = [Pass EXCEPT !.blocked = IF IsOp(flush.item) THEN flush.blocked \cup {flush.item.op}
                                            ELSE flush.blocked]
        BY <1>1, <1>5, FlushIs DEF NotSent
    <3> QED BY <1>1, <3>1, <3>2, FlushIs
  <2>3. \A o \in Repairs : /\ lane'[o].pending = lane[o].pending
                           /\ lane'[o].admitted = lane[o].admitted
                           /\ lane'[o].terminal = lane[o].terminal
    <3>1. lane' = lane \/ \E p \in Repairs : lane' = [lane EXCEPT ![p].quarantined = TRUE]
        BY <1>3, <1>5, ItemIs DEF NotSent, OpReports
    <3>2. \A o \in Repairs : lane[o] \in Lane
        BY <1>1 DEF ReportsTypes
    <3>3. ASSUME NEW p \in Repairs, lane' = [lane EXCEPT ![p].quarantined = TRUE], NEW o \in Repairs
          PROVE  /\ lane'[o].pending = lane[o].pending
                 /\ lane'[o].admitted = lane[o].admitted
                 /\ lane'[o].terminal = lane[o].terminal
        BY <1>1, <3>2, <3>3 DEF ReportsTypes, Lane
    <3> QED BY <3>1, <3>3
  <2> QED BY <1>2, <2>1, <2>2, <2>3, LanesRotated
<1> QED
    BY <1>4, <1>5

LEMMA LanesInit == ReportsInit => LanesInv
<1> SUFFICES ASSUME ReportsInit PROVE LanesInv
    OBVIOUS
<1> USE ReportsAssumptions
<1>1. ReportsTypes
    BY ReportsTypesInit
<1>2. /\ queue = <<>> /\ flush = NoFlush /\ repairing = NoRepair
      /\ lane = [o \in Repairs |-> NotAdmitted] /\ progress = [o \in Repairs |-> 0]
      /\ pending = [d \in Diags |-> 0] /\ stored = [o \in Repairs |-> 0] /\ totals = [o \in Repairs |-> 0]
    BY DEF ReportsInit
<1>3. \A d, o : Count(queue, d) = 0 /\ OpCount(queue, o) = 0
  <2>1. \A X : Hits(queue, X) = {}
      BY <1>2 DEF Hits
  <2>2. \A X : Cardinality(Hits(queue, X)) = 0
      BY <2>1, FS_EmptySet
  <2>3. queue \in Seq(Items)
      BY <1>2
  <2> QED BY <2>2, <2>3, CountIs
<1>4. CountsExact
    BY <1>2, <1>3 DEF CountsExact, OpCount, NotAdmitted
<1>5. LaneStates
    BY <1>2 DEF LaneStates, UnderWay, NotAdmitted
<1> QED
    BY <1>1, <1>2, <1>4, <1>5 DEF LanesInv, Reached, HeadSent, NoFlush

\* Every step keeps what the reporter and the orchestrator count.
LEMMA LanesStep == LanesInv /\ [ReportsNext]_reportsVars => LanesInv'
<1> SUFFICES ASSUME LanesInv, [ReportsNext]_reportsVars PROVE LanesInv'
    OBVIOUS
<1>1. ReportsTypes
    BY DEF LanesInv
<1>17. ReportsTypes'
    BY <1>1, ReportsTypesStep
<1> DEFINE Goal == CountsExact' /\ LaneStates' /\ Reached' /\ HeadSent'
<1> SUFFICES Goal
    BY <1>17 DEF LanesInv
<1>2. ASSUME NEW o \in Repairs, Begin(o) \/ Advance(o) \/ Finish(o) PROVE Goal
    BY <1>2, LanesCoordinator
<1>3. ASSUME NEW d \in Diags, Observe(d) PROVE Goal
  <2>1. Observed({d}, [occurrences EXCEPT ![d] = @ + 1])
      BY <1>3 DEF Observe
  <2>2. [occurrences EXCEPT ![d] = @ + 1] \in [Diags -> Nat]
      BY <1>1 DEF ReportsTypes
  <2> QED BY <2>1, <2>2, LanesObserved
<1>4. ASSUME NEW these \in SUBSET Diags, InspectAnew(these) PROVE Goal
  <2> DEFINE occ == [d \in Diags |-> IF d \in these THEN occurrences[d] + 1
                                     ELSE IF d \in stuck THEN occurrences[d] ELSE 0]
  <2>1. Observed(these, occ)
      BY <1>4 DEF InspectAnew
  <2>2. occ \in [Diags -> Nat]
      BY <1>1 DEF ReportsTypes
  <2> HIDE DEF occ
  <2> QED BY <2>1, <2>2, LanesObserved
<1>5. ASSUME UNCHANGED <<queue, lane, pending, progress, repairing, stored, totals>>, flush'.item = Nothing
      PROVE  Goal
    BY <1>5 DEF LanesInv, CountsExact, LaneStates, Reached, HeadSent, UnderWay
<1>6. CASE StartFlush
  <2>1. Len(queue) \in Nat /\ flush' = [NoFlush EXCEPT !.left = Len(queue)]
      BY <1>1, <1>6 DEF StartFlush, ReportsTypes
  <2>2. flush'.item = Nothing
      BY <1>1, <2>1, FlushIs
  <2> QED BY <1>5, <1>6, <2>2 DEF StartFlush, senderVars, orchestratorVars
<1>7. CASE EndFlush
  <2>1. flush'.item = Nothing
      BY <1>1, <1>7, FlushIs DEF EndFlush
  <2> QED BY <1>5, <1>7, <2>1 DEF EndFlush, senderVars, orchestratorVars
<1>8. CASE Rotate
  <2>1. queue # <<>> /\ queue' = Rotated /\ flush' = Pass
        /\ UNCHANGED <<lane, pending, progress, repairing, stored, totals>>
      BY <1>8 DEF Rotate, Taking, senderVars, orchestratorVars
  <2>2. flush'.item = Nothing
      BY <1>1, <2>1, FlushIs
  <2> QED BY <2>1, <2>2, LanesRotated
<1>9. CASE Take
  <2>1. /\ queue # <<>> /\ flush' = [flush EXCEPT !.item = Head(queue)]
        /\ UNCHANGED <<queue, lane, pending, progress, repairing, stored, totals>>
      BY <1>9 DEF Take, Taking, senderVars, orchestratorVars
  <2>2. Head(queue) = queue[1] /\ queue[1] \in Items
      BY <1>1, <2>1, TailIs DEF ReportsTypes
  <2>3. flush'.item = queue[1]
      BY <1>1, <2>1, <2>2, FlushIs
  <2>4. HeadSent'
      BY <2>1, <2>3 DEF HeadSent, IsOp
  <2> QED BY <2>1, <2>4 DEF LanesInv, CountsExact, LaneStates, Reached, UnderWay
<1>10. CASE Sent
    BY <1>10, LanesSent
<1>11. CASE Refused
    BY <1>11, LanesNotSent DEF Refused
<1>12. CASE SendFails
    BY <1>12, LanesNotSent DEF SendFails
<1>13. CASE Lost
  <2>1. flush.item \in Items /\ Receive(flush.item) /\ UNCHANGED <<senderVars, reporterVars>>
      BY <1>1, <1>13 DEF Lost, ReportsTypes, FlushSet
  <2>2. \A o \in Repairs : totals'[o] = IF stored'[o] = Last THEN 1 ELSE 0
      BY <2>1, TotalsReceived
  <2> QED BY <2>1, <2>2
          DEF LanesInv, CountsExact, LaneStates, Reached, HeadSent, UnderWay, senderVars, reporterVars
<1>14. ASSUME NEW o \in Requested, RequestRepair(o) PROVE Goal
  <2>1. /\ o \in Repairs /\ stored[o] = 0 /\ stored' = [stored EXCEPT ![o] = 1]
        /\ UNCHANGED <<queue, lane, pending, progress, repairing, flush, totals>>
      BY <1>14, ReportsAssumptions DEF RequestRepair, senderVars, reporterVars
  <2>2. \A p \in Repairs : stored'[p] = Last <=> stored[p] = Last
      BY <1>1, <2>1, ReportsAssumptions DEF ReportsTypes
  <2>3. \A p \in Repairs : totals'[p] = IF stored'[p] = Last THEN 1 ELSE 0
      BY <2>1, <2>2 DEF LanesInv, CountsExact
  <2>4. CountsExact'
      BY <2>1, <2>3 DEF LanesInv, CountsExact
  <2> QED BY <2>1, <2>4 DEF LanesInv, LaneStates, Reached, HeadSent, UnderWay
<1>15. CASE UNCHANGED reportsVars
    BY <1>15 DEF LanesInv, CountsExact, LaneStates, Reached, HeadSent, UnderWay,
                 reportsVars, senderVars, reporterVars, orchestratorVars
<1> QED
    BY <1>2, <1>3, <1>4, <1>6, <1>7, <1>8, <1>9, <1>10, <1>11, <1>12, <1>13, <1>14, <1>15
    DEF ReportsNext, CoordinatorSteps, Inspection, Reporter

-----------------------------------------------------------------------------
(* The order of the reports, while nothing is seen again and no send fails. *)

SnapshotsInOrder ==
    /\ \A i \in DOMAIN queue : ~IsOp(queue[i]) => queue[i].seq < nextSeq
    /\ \A i, j \in DOMAIN queue :
          i < j /\ ~IsOp(queue[i]) /\ ~IsOp(queue[j]) => queue[i].seq < queue[j].seq

\* No snapshot names a diagnostic behind a report of an operation of it.
NamedBefore ==
    \A i, j \in DOMAIN queue :
        i < j /\ IsOp(queue[i]) /\ ~IsOp(queue[j]) => queue[j].diags[DiagOf[queue[i].op]] = 0

\* Only what is given up for good waits.
BlockedOnly ==
    /\ \A o \in flush.blocked : lane[o].quarantined
    /\ flush.item # Nothing /\ IsOp(flush.item) => ~lane[flush.item.op].quarantined

\* The reports of an operation that is not given up are in order, and those the
\* orchestrator does not have are all there.
StatesInOrder ==
    \A o \in Repairs : ~lane[o].quarantined =>
       /\ \A i, j \in DOMAIN queue :
             i < j /\ IsOp(queue[i]) /\ IsOp(queue[j]) /\ queue[i].op = o /\ queue[j].op = o
             => queue[i].at < queue[j].at
       /\ \A k \in (stored[o] + 1)..progress[o] : \E i \in DOMAIN queue : queue[i] = Op(o, k)

\* Ahead of position k of q the last snapshot names d; if there is none, the orchestrator
\* has d active.
Backed(q, active, d, k) ==
    \/ (\A l \in 1..(k - 1) : IsOp(q[l])) /\ d \in active
    \/ \E j \in 1..(k - 1) :
          ~IsOp(q[j]) /\ q[j].diags[d] > 0 /\ \A l \in (j + 1)..(k - 1) : IsOp(q[l])

FirstBacked ==
    /\ \A o \in Repairs, k \in DOMAIN queue :
          ~lane[o].quarantined /\ stored[o] = 0 /\ queue[k] = Op(o, 1)
          => Backed(queue, ActiveDiags, DiagOf[o], k)
    /\ \A d \in Diags : occurrences[d] > 0 => Backed(queue, ActiveDiags, d, Len(queue) + 1)

\* What a snapshot names was seen after it was last resolved.
FreshAt(x, now, rows) ==
    ~IsOp(x) => \A d \in Diags :
        /\ x.times[d] <= now
        /\ x.diags[d] > 0 => x.times[d] > 0 /\ x.times[d] > rows[d].resolved
TimesKept ==
    /\ \A i \in DOMAIN queue : FreshAt(queue[i], clock, entry)
    /\ flush.item # Nothing => FreshAt(flush.item, clock, entry)
    /\ clock > 0
    /\ \A d \in Diags :
          /\ seen[d] <= clock /\ entry[d].seen <= clock /\ entry[d].resolved < clock
          /\ entry[d].resolved > 0 => entry[d].seen <= entry[d].resolved
          /\ occurrences[d] > 0 => seen[d] > 0 /\ seen[d] > entry[d].resolved

InOrder ==
    /\ SnapshotsInOrder /\ NamedBefore /\ BlockedOnly
    /\ StatesInOrder /\ FirstBacked /\ TimesKept

OrderInv == LanesInv /\ (Undisturbed => InOrder)

LEMMA QueueIs ==
    ASSUME NEW q \in Seq(Items)
    PROVE  /\ DOMAIN q = 1..Len(q) /\ Len(q) \in Nat
           /\ \A i \in 1..Len(q) :
                 /\ q[i] \in Items
                 /\ IsOp(q[i]) => q[i].op \in Repairs /\ q[i].at \in 1..Last
                 /\ ~IsOp(q[i]) => /\ q[i].diags \in [Diags -> Nat] /\ q[i].times \in [Diags -> Nat]
                                   /\ q[i].seq \in Nat
<1>1. DOMAIN q = 1..Len(q) /\ Len(q) \in Nat /\ \A i \in 1..Len(q) : q[i] \in Items
    OBVIOUS
<1> QED
    BY <1>1, ItemIs DEF OpReports, Snapshots

\* The invariant gives the property.
LEMMA OrderImplies == OrderInv => ReportsKept
<1> SUFFICES ASSUME OrderInv PROVE ReportsKept
    OBVIOUS
<1>1. LanesInv /\ ReportsTypes /\ CountsExact /\ Reached /\ HeadSent
    BY DEF OrderInv, LanesInv
<1>2. ASSUME Undisturbed, NEW o \in Repairs, NEW i \in 1..Last, Sending(o, i)
      PROVE  i <= stored[o] + 1 /\ (stored[o] = 0 => DiagOf[o] \in ActiveDiags)
  <2>1. flush.item = Op(o, i) /\ IsOp(flush.item) /\ flush.item # Nothing
        /\ flush.item.op = o /\ flush.item.at = i
      BY <1>2, OpIs, ItemIs DEF Sending
  <2>2. queue[1] = Op(o, i) /\ queue # <<>>
      BY <1>1, <2>1 DEF HeadSent
  <2>3. DOMAIN queue = 1..Len(queue) /\ Len(queue) \in Nat /\ queue \in Seq(Items)
      BY <1>1, QueueIs DEF ReportsTypes
  <2>4. 1 \in DOMAIN queue
      BY <2>2, <2>3
  <2>5. i <= progress[o] /\ stored[o] \in 0..Last /\ progress[o] \in 0..Last
      BY <1>1, <2>1, <2>2, <2>4 DEF Reached, ReportsTypes
  <2>6. BlockedOnly /\ StatesInOrder /\ FirstBacked
      BY <1>2 DEF OrderInv, InOrder
  <2>7. ~lane[o].quarantined
      BY <2>1, <2>6 DEF BlockedOnly
  <2>8. i <= stored[o] + 1
    <3> SUFFICES ASSUME i > stored[o] + 1 PROVE FALSE
        BY <2>5, ReportsAssumptions
    <3> DEFINE k == stored[o] + 1
    <3>1. k \in (stored[o] + 1)..progress[o] /\ k \in 1..Last /\ k < i
        BY <2>5, ReportsAssumptions
    <3>2. PICK p \in DOMAIN queue : queue[p] = Op(o, k)
        BY <2>6, <2>7, <3>1 DEF StatesInOrder
    <3> HIDE DEF k
    <3>3. IsOp(queue[p]) /\ queue[p].op = o /\ queue[p].at = k
        BY <3>1, <3>2, OpIs
    <3>4. IsOp(queue[1]) /\ queue[1].op = o /\ queue[1].at = i
        BY <2>1, <2>2
    <3>5. p # 1
        BY <3>1, <3>3, <3>4
    <3>6. 1 < p
        BY <2>3, <3>5
    <3>7. queue[1].at < queue[p].at
        BY <2>4, <2>6, <2>7, <3>3, <3>4, <3>6 DEF StatesInOrder
    <3> QED BY <3>1, <3>3, <3>4, <3>7
  <2>9. ASSUME stored[o] = 0 PROVE DiagOf[o] \in ActiveDiags
    <3>1. i = 1
        BY <2>8, <2>9
    <3>2. Backed(queue, ActiveDiags, DiagOf[o], 1)
        BY <2>2, <2>4, <2>6, <2>7, <2>9, <3>1 DEF FirstBacked
    <3> QED BY <3>2 DEF Backed
  <2> QED BY <2>8, <2>9
<1> QED
    BY <1>1, <1>2 DEF ReportsKept, InSequence

\* A diagnostic is recorded, or a failed rollback's kept.
LEMMA OrderObserved ==
    ASSUME LanesInv, Undisturbed, InOrder, NEW now \in SUBSET Diags, NEW occ \in [Diags -> Nat],
           Observed(now, occ), ~seenAgain', DiagOf' = DiagOf,
           \A d \in Diags : occ[d] > 0 => d \in now \/ occurrences[d] > 0
    PROVE  InOrder'
<1>1. ReportsTypes /\ /\ SnapshotsInOrder /\ NamedBefore /\ BlockedOnly
                      /\ StatesInOrder /\ FirstBacked /\ TimesKept
    BY DEF LanesInv, InOrder
<1>2. /\ clock' = clock + 1 /\ occurrences' = occ
      /\ UNCHANGED <<progress, stored, entry>>
      /\ seen' = [d \in Diags |-> IF d \in now THEN clock ELSE IF occ[d] > 0 THEN seen[d] ELSE 0]
    BY DEF Observed
<1>3. seen' \in [Diags -> Nat] /\ EnqueueSnapshot(occ, seen')
    BY <1>1, <1>2 DEF Observed, ReportsTypes
<1>4. /\ \A d \in Diags : occ[d] > 0 => ~Unreported(d)
      /\ ~DroppedForAnOlder(occ)
    BY DEF Observed
<1> DEFINE item == Snapshot(occ, seen', nextSeq)
<1>5. item \in Items /\ ~IsOp(item)
    BY <1>1, <1>3, SnapshotIs DEF ReportsTypes
<1>6. item.diags = occ /\ item.times = seen' /\ item.seq = nextSeq
    BY DEF Snapshot
<1>7. queue' \in Seq(Items) /\ lane' = lane /\ flush' = flush /\ nextSeq' = nextSeq + 1
    BY <1>1, <1>3, SnapshotQueued
<1>8. PICK n \in 0..Len(queue) :
               /\ Len(Remaining) = n /\ \A i \in 1..n : Remaining[i] = queue[i]
               /\ \A i \in 1..n : queue'[i] = queue[i]
               /\ \A i \in (n + 1)..Len(queue) : ~IsOp(queue[i])
               /\ \/ /\ Len(queue') = n
                     /\ \E i \in 1..n : ~IsOp(queue[i]) /\ queue[i].diags = occ
                  \/ Len(queue') = n + 1 /\ queue'[n + 1] = item
    BY <1>1, <1>3, SnapshotShape
<1> HIDE DEF item
<1>9. /\ DOMAIN queue = 1..Len(queue) /\ Len(queue) \in Nat
      /\ \A i \in 1..Len(queue) :
                 /\ queue[i] \in Items
                 /\ IsOp(queue[i]) => queue[i].op \in Repairs /\ queue[i].at \in 1..Last
                 /\ ~IsOp(queue[i]) => /\ queue[i].diags \in [Diags -> Nat] /\ queue[i].times \in [Diags -> Nat]
                                       /\ queue[i].seq \in Nat
    BY <1>1, QueueIs DEF ReportsTypes
<1>10. DOMAIN queue' = 1..Len(queue') /\ Remaining \in Seq(Items) /\ DOMAIN Remaining = 1..n
    BY <1>1, <1>7, <1>8, RemainingIs DEF ReportsTypes
<1>11. /\ clock \in Nat /\ nextSeq \in Nat /\ seen \in [Diags -> Nat]
       /\ entry \in [Diags -> [seen : Nat, resolved : Nat]] /\ DiagOf \in [Repairs -> Diags]
    BY <1>1 DEF ReportsTypes, CaseSet, DiagOf
\* Each position is one from before, or the new snapshot's.
<1>12. \A i \in DOMAIN queue' :
           \/ i \in 1..n /\ i \in DOMAIN queue /\ queue'[i] = queue[i]
           \/ i = n + 1 /\ Len(queue') = n + 1 /\ queue'[i] = item
  <2> TAKE i \in DOMAIN queue'
  <2>1. CASE Len(queue') = n
      BY <2>1, <1>8, <1>9, <1>10
  <2>2. CASE Len(queue') = n + 1 /\ queue'[n + 1] = item
    <3>1. i \in 1..(n + 1)
        BY <2>2, <1>10
    <3>2. i = n + 1 \/ i \in 1..n
        BY <3>1
    <3> QED BY <3>2, <2>2, <1>8, <1>9
  <2> QED BY <2>1, <2>2, <1>8
<1>13. \A i \in DOMAIN queue' : IsOp(queue'[i]) => i \in 1..n /\ i \in DOMAIN queue /\ queue'[i] = queue[i]
    BY <1>5, <1>12
<1>14. \A i \in DOMAIN queue : IsOp(queue[i]) => i \in DOMAIN queue' /\ i \in 1..n /\ queue'[i] = queue[i]
  <2> SUFFICES ASSUME NEW i \in DOMAIN queue, IsOp(queue[i])
               PROVE  i \in DOMAIN queue' /\ i \in 1..n /\ queue'[i] = queue[i]
      OBVIOUS
  <2>1. i \in 1..n
      BY <1>8, <1>9
  <2>2. CASE Len(queue') = n
      BY <2>1, <2>2, <1>8, <1>10
  <2>3. CASE Len(queue') = n + 1
    <3>1. i \in 1..(n + 1)
        BY <2>1
    <3> QED BY <2>1, <2>3, <3>1, <1>8, <1>10
  <2> QED BY <2>2, <2>3, <1>8
<1>15. SnapshotsInOrder'
  <2>1. \A i \in DOMAIN queue' : ~IsOp(queue'[i]) => queue'[i].seq < nextSeq'
    <3> SUFFICES ASSUME NEW i \in DOMAIN queue', ~IsOp(queue'[i]) PROVE queue'[i].seq < nextSeq'
        OBVIOUS
    <3>1. CASE i \in DOMAIN queue /\ queue'[i] = queue[i]
      <4>1. queue[i].seq < nextSeq /\ queue[i].seq \in Nat
          BY <1>1, <1>9, <3>1 DEF SnapshotsInOrder
      <4> QED BY <1>7, <1>11, <3>1, <4>1
    <3>2. CASE queue'[i] = item
        BY <1>6, <1>7, <1>11, <3>2
    <3> QED BY <1>12, <3>1, <3>2
  <2>2. ASSUME NEW i \in DOMAIN queue', NEW j \in DOMAIN queue', i < j, ~IsOp(queue'[i]), ~IsOp(queue'[j])
        PROVE  queue'[i].seq < queue'[j].seq
    <3>1. i \in 1..n /\ i \in DOMAIN queue /\ queue'[i] = queue[i]
      <4> SUFFICES ASSUME i = n + 1, Len(queue') = n + 1 PROVE FALSE
          BY <1>12
      <4>1. j \in 1..(n + 1)
          BY <1>10
      <4> QED BY <2>2, <4>1
    <3>2. CASE j \in DOMAIN queue /\ queue'[j] = queue[j]
        BY <1>1, <2>2, <3>1, <3>2 DEF SnapshotsInOrder
    <3>3. CASE queue'[j] = item
        BY <1>1, <1>6, <2>2, <3>1, <3>3 DEF SnapshotsInOrder
    <3> QED BY <1>12, <3>2, <3>3
  <2> QED BY <2>1, <2>2 DEF SnapshotsInOrder, IsOp
<1>16. NamedBefore'
  <2> SUFFICES ASSUME NEW i \in DOMAIN queue', NEW j \in DOMAIN queue', i < j,
                      IsOp(queue'[i]), ~IsOp(queue'[j])
               PROVE  queue'[j].diags[DiagOf[queue'[i].op]] = 0
      BY <1>1 DEF NamedBefore, IsOp
  <2>1. i \in DOMAIN queue /\ queue'[i] = queue[i]
      BY <1>13
  <2>2. CASE j \in DOMAIN queue /\ queue'[j] = queue[j]
      BY <1>1, <2>1, <2>2 DEF NamedBefore
  <2>3. CASE queue'[j] = item
    <3> DEFINE d == DiagOf[queue[i].op]
    <3>1. d \in Diags /\ Unreported(d)
        BY <1>9, <1>11, <2>1 DEF Unreported
    <3>2. occ[d] \in Nat /\ ~(occ[d] > 0)
        BY <1>4, <3>1
    <3> QED BY <1>6, <2>1, <2>3, <3>2
  <2> QED BY <1>12, <2>2, <2>3
<1>17. BlockedOnly'
    BY <1>1, <1>7 DEF BlockedOnly, IsOp
<1>18. StatesInOrder'
  <2> SUFFICES ASSUME NEW o \in Repairs, ~lane[o].quarantined
               PROVE  /\ \A i, j \in DOMAIN queue' :
                           i < j /\ IsOp(queue'[i]) /\ IsOp(queue'[j]) /\ queue'[i].op = o /\ queue'[j].op = o
                           => queue'[i].at < queue'[j].at
                      /\ \A k \in (stored[o] + 1)..progress[o] : \E i \in DOMAIN queue' : queue'[i] = Op(o, k)
      BY <1>2, <1>7 DEF StatesInOrder, Op, IsOp
  <2>1. \A i, j \in DOMAIN queue' :
            i < j /\ IsOp(queue'[i]) /\ IsOp(queue'[j]) /\ queue'[i].op = o /\ queue'[j].op = o
            => queue'[i].at < queue'[j].at
      BY <1>1, <1>13 DEF StatesInOrder
  <2>2. ASSUME NEW k \in (stored[o] + 1)..progress[o] PROVE \E i \in DOMAIN queue' : queue'[i] = Op(o, k)
    <3>1. PICK i \in DOMAIN queue : queue[i] = Op(o, k)
        BY <1>1 DEF StatesInOrder
    <3>2. IsOp(queue[i])
        BY <3>1 DEF Op, IsOp
    <3> QED BY <1>14, <3>1, <3>2
  <2> QED BY <2>1, <2>2
<1>19. FirstBacked'
  <2>1. ActiveDiags' = ActiveDiags
      BY <1>2 DEF ActiveDiags, Stored
  <2>2. ASSUME NEW o \in Repairs, NEW k \in DOMAIN queue', ~lane[o].quarantined, stored[o] = 0, queue'[k] = Op(o, 1)
        PROVE  Backed(queue', ActiveDiags, DiagOf[o], k)
    <3>1. IsOp(queue'[k])
        BY <2>2 DEF Op, IsOp
    <3>2. k \in 1..n /\ k \in DOMAIN queue /\ queue[k] = Op(o, 1)
        BY <1>13, <2>2, <3>1
    <3>3. Backed(queue, ActiveDiags, DiagOf[o], k)
        BY <1>1, <2>2, <3>2 DEF FirstBacked
    <3>4. \A l \in 1..(k - 1) : queue'[l] = queue[l]
        BY <1>8, <3>2
    <3>5. \A j \in 1..(k - 1) : \A l \in (j + 1)..(k - 1) : l \in 1..(k - 1)
        BY <3>2
    <3> QED BY <3>3, <3>4, <3>5 DEF Backed
  <2>3. ASSUME NEW d \in Diags, occ[d] > 0 PROVE Backed(queue', ActiveDiags, d, Len(queue') + 1)
    <3>1. CASE Len(queue') = n + 1 /\ queue'[n + 1] = item
      <4>1. n + 1 \in 1..((n + 2) - 1) /\ \A l \in ((n + 1) + 1)..((n + 2) - 1) : FALSE
          OBVIOUS
      <4>2. ~IsOp(queue'[n + 1]) /\ queue'[n + 1].diags[d] > 0
          BY <1>5, <1>6, <2>3, <3>1
      <4>3. Len(queue') + 1 = n + 2
          BY <3>1
      <4> QED BY <4>1, <4>2, <4>3 DEF Backed
    <3>2. CASE Len(queue') = n /\ \E i \in 1..n : ~IsOp(queue[i]) /\ queue[i].diags = occ
      <4>1. PICK i \in 1..n : ~IsOp(queue[i]) /\ queue[i].diags = occ
          BY <3>2
      <4>2. \A l \in (i + 1)..n : IsOp(queue[l])
        <5> SUFFICES ASSUME NEW l \in (i + 1)..n, ~IsOp(queue[l]) PROVE FALSE
            OBVIOUS
        <5>1. i < l /\ l \in 1..n /\ i \in DOMAIN queue /\ l \in DOMAIN queue
            BY <1>9
        <5>2. queue[i].seq < queue[l].seq /\ queue[i].seq \in Nat /\ queue[l].seq \in Nat
            BY <1>1, <1>9, <4>1, <5>1 DEF SnapshotsInOrder
        <5>3. queue[l].seq > queue[i].seq
            BY <5>2
        <5>4. Remaining[i] = queue[i] /\ Remaining[l] = queue[l]
            BY <1>8, <5>1
        <5> QED BY <1>4, <1>10, <4>1, <5>1, <5>3, <5>4 DEF DroppedForAnOlder
      <4>3. i \in 1..((n + 1) - 1) /\ (n + 1) - 1 = n
          OBVIOUS
      <4>4. ~IsOp(queue'[i]) /\ queue'[i].diags[d] > 0 /\ \A l \in (i + 1)..n : IsOp(queue'[l])
        <5>1. \A l \in (i + 1)..n : l \in 1..n
            OBVIOUS
        <5> QED BY <1>8, <2>3, <4>1, <4>2, <5>1
      <4> QED BY <3>2, <4>3, <4>4 DEF Backed
    <3> QED BY <1>8, <3>1, <3>2
  <2> QED BY <1>2, <1>7, <2>1, <2>2, <2>3 DEF FirstBacked, Op
<1>20. TimesKept'
  <2>1. \A d \in Diags : /\ seen'[d] \in Nat /\ seen'[d] <= clock
                         /\ occ[d] > 0 => seen'[d] > 0 /\ seen'[d] > entry[d].resolved
    <3> TAKE d \in Diags
    <3>1. /\ seen[d] <= clock /\ clock > 0 /\ entry[d].resolved < clock /\ entry[d].resolved \in Nat
          /\ occurrences[d] > 0 => seen[d] > 0 /\ seen[d] > entry[d].resolved
        BY <1>1, <1>11 DEF TimesKept
    <3>2. CASE d \in now
        BY <1>2, <1>11, <3>1, <3>2
    <3>3. CASE d \notin now /\ occ[d] > 0
        BY <1>2, <1>11, <3>1, <3>3
    <3>4. CASE d \notin now /\ ~(occ[d] > 0)
        BY <1>2, <1>11, <3>1, <3>4
    <3> QED BY <3>2, <3>3, <3>4
  <2>2. \A x \in Items : FreshAt(x, clock, entry) => FreshAt(x, clock', entry')
    <3> SUFFICES ASSUME NEW x \in Items, FreshAt(x, clock, entry), ~IsOp(x), NEW d \in Diags
                 PROVE  /\ x.times[d] <= clock'
                        /\ x.diags[d] > 0 => x.times[d] > 0 /\ x.times[d] > entry'[d].resolved
        BY DEF FreshAt
    <3>1. x.times[d] \in Nat
        BY ItemIs DEF Snapshots
    <3>2. x.times[d] <= clock /\ (x.diags[d] > 0 => x.times[d] > 0 /\ x.times[d] > entry[d].resolved)
        BY DEF FreshAt
    <3> QED BY <1>2, <1>11, <3>1, <3>2
  <2>3. FreshAt(item, clock', entry')
    <3> SUFFICES ASSUME NEW d \in Diags
                 PROVE  /\ item.times[d] <= clock'
                        /\ item.diags[d] > 0 => item.times[d] > 0 /\ item.times[d] > entry'[d].resolved
        BY DEF FreshAt
    <3> QED BY <1>2, <1>6, <1>11, <2>1
  <2>4. \A i \in DOMAIN queue' : FreshAt(queue'[i], clock', entry')
    <3> TAKE i \in DOMAIN queue'
    <3>1. CASE i \in DOMAIN queue /\ queue'[i] = queue[i]
        BY <1>1, <1>9, <2>2, <3>1 DEF TimesKept
    <3>2. CASE queue'[i] = item
        BY <2>3, <3>2
    <3> QED BY <1>12, <3>1, <3>2
  <2>5. flush'.item # Nothing => FreshAt(flush'.item, clock', entry')
    <3>1. flush.item # Nothing => flush.item \in Items /\ FreshAt(flush.item, clock, entry)
        BY <1>1 DEF TimesKept, ReportsTypes, FlushSet
    <3> QED BY <1>7, <2>2, <3>1
  <2>6. clock' > 0
      BY <1>2, <1>11
  <2>7. \A d \in Diags :
            /\ seen'[d] <= clock' /\ entry'[d].seen <= clock' /\ entry'[d].resolved < clock'
            /\ entry'[d].resolved > 0 => entry'[d].seen <= entry'[d].resolved
            /\ occurrences'[d] > 0 => seen'[d] > 0 /\ seen'[d] > entry'[d].resolved
    <3> TAKE d \in Diags
    <3>1. /\ entry[d].seen <= clock /\ entry[d].resolved < clock
          /\ entry[d].resolved > 0 => entry[d].seen <= entry[d].resolved
          /\ entry[d].seen \in Nat /\ entry[d].resolved \in Nat
        BY <1>1, <1>11 DEF TimesKept
    <3> QED BY <1>2, <1>11, <2>1, <3>1
  <2> QED BY <2>4, <2>5, <2>6, <2>7 DEF TimesKept, FreshAt, IsOp
<1> QED
    BY <1>15, <1>16, <1>17, <1>18, <1>19, <1>20 DEF InOrder

\* What is ahead of position k decides.
LEMMA BackedAhead ==
    ASSUME NEW q, NEW r, NEW active, NEW d, NEW k \in Nat, Backed(q, active, d, k),
           \A l \in 1..(k - 1) : r[l] = q[l]
    PROVE  Backed(r, active, d, k)
<1>1. \A j \in 1..(k - 1) : \A l \in (j + 1)..(k - 1) : l \in 1..(k - 1)
    OBVIOUS
<1> QED
    BY <1>1 DEF Backed

\* A report of an operation changes nothing for what is behind it.
LEMMA BackedOver ==
    ASSUME NEW q, NEW active, NEW d, NEW k \in Nat, Backed(q, active, d, k), IsOp(q[k])
    PROVE  Backed(q, active, d, k + 1)
<1>1. (k + 1) - 1 = k /\ \A l \in 1..k : l \in 1..(k - 1) \/ l = k
    OBVIOUS
<1>2. CASE (\A l \in 1..(k - 1) : IsOp(q[l])) /\ d \in active
    BY <1>1, <1>2 DEF Backed
<1>3. ASSUME NEW j \in 1..(k - 1), ~IsOp(q[j]), q[j].diags[d] > 0, \A l \in (j + 1)..(k - 1) : IsOp(q[l])
      PROVE  Backed(q, active, d, k + 1)
  <2>1. j \in 1..k /\ \A l \in (j + 1)..k : l \in (j + 1)..(k - 1) \/ l = k
      OBVIOUS
  <2> QED BY <1>1, <1>3, <2>1 DEF Backed
<1> QED
    BY <1>2, <1>3 DEF Backed

\* What is backed in q is backed in its tail.
LEMMA BackedTail ==
    ASSUME NEW q, NEW r, NEW a, NEW b, NEW d, NEW k \in Nat \ {0}, Backed(q, a, d, k + 1),
           \A l \in 1..(k - 1) : r[l] = q[l + 1],
           \/ IsOp(q[1]) /\ (d \in a => d \in b)
           \/ ~IsOp(q[1]) /\ (q[1].diags[d] > 0 => d \in b)
    PROVE  Backed(r, b, d, k)
<1>1. (k + 1) - 1 = k /\ 1 \in 1..k
    OBVIOUS
<1>2. CASE (\A l \in 1..k : IsOp(q[l])) /\ d \in a
  <2>1. \A l \in 1..(k - 1) : l + 1 \in 1..k
      OBVIOUS
  <2> QED BY <1>1, <1>2, <2>1 DEF Backed
<1>3. ASSUME NEW j \in 1..k, ~IsOp(q[j]), q[j].diags[d] > 0, \A l \in (j + 1)..k : IsOp(q[l])
      PROVE  Backed(r, b, d, k)
  <2>1. CASE j = 1
    <3>1. \A l \in 1..(k - 1) : l + 1 \in (j + 1)..k
        BY <2>1
    <3>2. (\A l \in 1..(k - 1) : IsOp(r[l])) /\ d \in b
        BY <1>3, <2>1, <3>1
    <3> QED BY <3>2 DEF Backed
  <2>2. CASE j # 1
    <3> DEFINE m == j - 1
    <3>1. m \in 1..(k - 1) /\ m + 1 = j /\ \A l \in (m + 1)..(k - 1) : l \in 1..(k - 1) /\ l + 1 \in (j + 1)..k
        BY <2>2
    <3> HIDE DEF m
    <3>2. ~IsOp(r[m]) /\ r[m].diags[d] > 0 /\ \A l \in (m + 1)..(k - 1) : IsOp(r[l])
        BY <1>3, <3>1
    <3> QED BY <3>1, <3>2 DEF Backed
  <2> QED BY <2>1, <2>2
<1> QED
    BY <1>1, <1>2, <1>3 DEF Backed

\* The coordinator enqueues the next state of an operation.
LEMMA OrderEnqueued ==
    ASSUME LanesInv, InOrder, NEW o \in Repairs, NEW i \in 1..Last, i = progress[o] + 1, EnqueueOp(o, i),
           progress' = [progress EXCEPT ![o] = i],
           UNCHANGED <<stored, entry, clock>>, DiagOf' = DiagOf,
           i = 1 => occurrences[DiagOf[o]] > 0,
           \A d \in Diags : /\ occurrences'[d] > 0 => occurrences[d] > 0 /\ seen'[d] = seen[d]
                            /\ seen'[d] = seen[d] \/ seen'[d] = 0
    PROVE  InOrder'
<1>1. ReportsTypes /\ Reached /\ /\ SnapshotsInOrder /\ NamedBefore /\ BlockedOnly
                                 /\ StatesInOrder /\ FirstBacked /\ TimesKept
    BY DEF LanesInv, InOrder
<1> DEFINE x == Op(o, i)
           n == Len(queue)
<1>2. /\ queue' = Append(queue, x)
      /\ \A p \in Repairs : lane'[p].quarantined <=> lane[p].quarantined
      /\ nextSeq' = nextSeq /\ flush' = flush
    BY <1>1, OpQueued
<1>3. x \in Items /\ IsOp(x) /\ x.op = o /\ x.at = i
    BY OpIs
<1>4. queue \in Seq(Items) /\ DiagOf[o] \in Diags /\ DiagOf \in [Repairs -> Diags] /\ progress[o] \in 0..Last
      /\ progress \in [Repairs -> 0..Last] /\ stored[o] \in 0..Last
    BY <1>1 DEF ReportsTypes, CaseSet, DiagOf
<1> HIDE DEF x
<1>5. /\ queue' \in Seq(Items) /\ Len(queue') = n + 1
      /\ \A l \in 1..n : queue'[l] = queue[l]
      /\ queue'[n + 1] = x
    BY <1>2, <1>3, <1>4, AppendIs
<1>6. DOMAIN queue = 1..n /\ n \in Nat
      /\ \A l \in 1..n : /\ queue[l] \in Items
                         /\ IsOp(queue[l]) => queue[l].op \in Repairs /\ queue[l].at \in 1..Last
    BY <1>4, QueueIs
<1> HIDE DEF n
<1>7. DOMAIN queue' = 1..(n + 1)
    BY <1>5
<1>8. \A l \in DOMAIN queue' : \/ l \in 1..n /\ l \in DOMAIN queue /\ queue'[l] = queue[l]
                               \/ l = n + 1 /\ queue'[l] = x
    BY <1>5, <1>6, <1>7
<1>9. \A l \in DOMAIN queue' : ~IsOp(queue'[l]) => l \in 1..n /\ l \in DOMAIN queue /\ queue'[l] = queue[l]
    BY <1>3, <1>8
<1>10. \A l, m \in DOMAIN queue' : l < m /\ m \in 1..n => l \in 1..n /\ l \in DOMAIN queue /\ queue'[l] = queue[l]
    BY <1>5, <1>6, <1>7
<1>11. SnapshotsInOrder'
    BY <1>1, <1>2, <1>9 DEF SnapshotsInOrder, IsOp
<1>12. NamedBefore'
  <2> SUFFICES ASSUME NEW l \in DOMAIN queue', NEW m \in DOMAIN queue', l < m,
                      IsOp(queue'[l]), ~IsOp(queue'[m])
               PROVE  queue'[m].diags[DiagOf[queue'[l].op]] = 0
      BY <1>1 DEF NamedBefore, IsOp
  <2>1. m \in 1..n /\ m \in DOMAIN queue /\ queue'[m] = queue[m]
      BY <1>9
  <2>2. l \in DOMAIN queue /\ queue'[l] = queue[l]
      BY <1>10, <2>1
  <2> QED BY <1>1, <2>1, <2>2 DEF NamedBefore
<1>13. BlockedOnly'
  <2>1. flush.blocked \subseteq Repairs /\ (flush.item # Nothing => flush.item \in Items)
      BY <1>1 DEF ReportsTypes, FlushSet
  <2>2. flush.item # Nothing /\ IsOp(flush.item) => flush.item.op \in Repairs
      BY <2>1, ItemIs DEF OpReports
  <2> QED BY <1>1, <1>2, <2>1, <2>2 DEF BlockedOnly, IsOp
<1>14. StatesInOrder'
  <2> SUFFICES ASSUME NEW p \in Repairs, ~lane[p].quarantined
               PROVE  /\ \A l, m \in DOMAIN queue' :
                           l < m /\ IsOp(queue'[l]) /\ IsOp(queue'[m]) /\ queue'[l].op = p /\ queue'[m].op = p
                           => queue'[l].at < queue'[m].at
                      /\ \A k \in (stored[p] + 1)..progress'[p] : \E l \in DOMAIN queue' : queue'[l] = Op(p, k)
      BY <1>2 DEF StatesInOrder, Op, IsOp
  <2>1. ASSUME NEW l \in DOMAIN queue', NEW m \in DOMAIN queue', l < m,
               IsOp(queue'[l]), IsOp(queue'[m]), queue'[l].op = p, queue'[m].op = p
        PROVE  queue'[l].at < queue'[m].at
    <3>1. CASE m \in 1..n /\ m \in DOMAIN queue /\ queue'[m] = queue[m]
      <4>1. l \in DOMAIN queue /\ queue'[l] = queue[l]
          BY <1>10, <2>1, <3>1
      <4> QED BY <1>1, <2>1, <3>1, <4>1 DEF StatesInOrder
    <3>2. CASE m = n + 1 /\ queue'[m] = x
      <4>1. l \in 1..n /\ p = o
          BY <1>3, <1>6, <1>7, <2>1, <3>2
      <4>2. queue'[l] = queue[l] /\ IsOp(queue[l]) /\ queue[l].op = o /\ queue[l].at \in 1..Last
          BY <1>5, <1>6, <2>1, <4>1
      <4>3. queue[l].at <= progress[o]
          BY <1>1, <1>6, <4>1, <4>2 DEF Reached
      <4> QED BY <1>3, <1>4, <3>2, <4>2, <4>3
    <3> QED BY <1>8, <3>1, <3>2
  <2>2. ASSUME NEW k \in (stored[p] + 1)..progress'[p] PROVE \E l \in DOMAIN queue' : queue'[l] = Op(p, k)
    <3>1. CASE p = o /\ k = i
        BY <1>5, <1>6, <1>7, <3>1 DEF x
    <3>2. CASE ~(p = o /\ k = i)
      <4>1. k \in (stored[p] + 1)..progress[p]
        <5>1. CASE p = o
          <6>1. progress'[p] = i /\ progress[p] = progress[o]
              BY <1>4, <5>1
          <6> QED BY <1>4, <2>2, <3>2, <5>1, <6>1
        <5>2. CASE p # o
          <6>1. progress'[p] = progress[p]
              BY <1>4, <5>2
          <6> QED BY <2>2, <6>1
        <5> QED BY <5>1, <5>2
      <4>2. PICK l \in DOMAIN queue : queue[l] = Op(p, k)
          BY <1>1, <4>1 DEF StatesInOrder
      <4> QED BY <1>5, <1>6, <1>7, <4>2
    <3> QED BY <3>1, <3>2
  <2> QED BY <2>1, <2>2
<1>15. FirstBacked'
  <2>1. ActiveDiags' = ActiveDiags
      BY DEF ActiveDiags, Stored
  <2>2. ASSUME NEW p \in Repairs, NEW k \in DOMAIN queue', ~lane[p].quarantined, stored[p] = 0, queue'[k] = Op(p, 1)
        PROVE  Backed(queue', ActiveDiags, DiagOf[p], k)
    <3>1. CASE k \in 1..n /\ k \in DOMAIN queue /\ queue'[k] = queue[k]
      <4>1. Backed(queue, ActiveDiags, DiagOf[p], k)
          BY <1>1, <2>2, <3>1 DEF FirstBacked
      <4>2. \A l \in 1..(k - 1) : queue'[l] = queue[l]
          BY <1>5, <1>6, <3>1
      <4>3. k \in Nat
          BY <3>1
      <4> QED BY <4>1, <4>2, <4>3, BackedAhead
    <3>2. CASE k = n + 1 /\ queue'[k] = x
      <4>1. p = o /\ i = 1
          BY <2>2, <3>2 DEF x, Op
      <4>2. Backed(queue, ActiveDiags, DiagOf[p], n + 1)
          BY <1>1, <1>4, <4>1 DEF FirstBacked, n
      <4>3. \A l \in 1..((n + 1) - 1) : queue'[l] = queue[l]
          BY <1>5, <1>6
      <4>4. n + 1 \in Nat
          BY <1>6
      <4>5. Backed(queue', ActiveDiags, DiagOf[p], n + 1)
          BY <4>2, <4>3, <4>4, BackedAhead
      <4> QED BY <3>2, <4>5
    <3> QED BY <1>8, <3>1, <3>2
  <2>3. ASSUME NEW d \in Diags, occurrences'[d] > 0 PROVE Backed(queue', ActiveDiags, d, Len(queue') + 1)
    <3>1. Backed(queue, ActiveDiags, d, n + 1)
        BY <1>1, <2>3 DEF FirstBacked, n
    <3>2. n + 1 \in Nat /\ \A l \in 1..((n + 1) - 1) : queue'[l] = queue[l]
        BY <1>5, <1>6
    <3>3. Backed(queue', ActiveDiags, d, n + 1)
        BY <3>1, <3>2, BackedAhead
    <3>4. IsOp(queue'[n + 1]) /\ Len(queue') + 1 = (n + 1) + 1
        BY <1>3, <1>5
    <3> QED BY <3>2, <3>3, <3>4, BackedOver
  <2> QED BY <1>2, <2>1, <2>2, <2>3 DEF FirstBacked, Op
<1>16. TimesKept'
  <2>1. FreshAt(x, clock, entry)
      BY <1>3 DEF FreshAt
  <2>2. \A l \in DOMAIN queue' : FreshAt(queue'[l], clock, entry)
      BY <1>1, <1>8, <2>1 DEF TimesKept
  <2>3. clock \in Nat /\ \A d \in Diags : seen[d] \in Nat
      BY <1>1 DEF ReportsTypes
  <2>4. \A d \in Diags : seen'[d] <= clock /\ (occurrences'[d] > 0 => seen'[d] > 0 /\ seen'[d] > entry[d].resolved)
      BY <1>1, <2>3 DEF TimesKept
  <2> QED BY <1>1, <1>2, <2>2, <2>4 DEF TimesKept, FreshAt, IsOp
<1> QED
    BY <1>11, <1>12, <1>13, <1>14, <1>15, <1>16 DEF InOrder

\* The head goes to the end of the queue: a report of an operation that is given up.
LEMMA OrderRotated ==
    ASSUME LanesInv, InOrder, queue # <<>>, queue' = Rotated, flush'.item = Nothing,
           IsOp(queue[1]), lane'[queue[1].op].quarantined,
           \A o \in Repairs : lane[o].quarantined => lane'[o].quarantined,
           \A o \in flush'.blocked : lane'[o].quarantined,
           UNCHANGED <<occurrences, seen, progress, nextSeq, stored, entry, clock>>, DiagOf' = DiagOf
    PROVE  InOrder'
<1>1. ReportsTypes /\ /\ SnapshotsInOrder /\ NamedBefore /\ BlockedOnly
                      /\ StatesInOrder /\ FirstBacked /\ TimesKept
    BY DEF LanesInv, InOrder
<1> DEFINE n == Len(queue)
<1>2. /\ queue \in Seq(Items) /\ queue' \in Seq(Items) /\ Len(queue') = n
      /\ \A l \in 1..(n - 1) : queue'[l] = queue[l + 1]
      /\ queue'[n] = queue[1]
    BY <1>1, RotatedIs DEF ReportsTypes
<1>3. n \in Nat \ {0} /\ DOMAIN queue = 1..n /\ DOMAIN queue' = 1..n
    BY <1>2
<1> HIDE DEF n
<1>4. \A l \in DOMAIN queue' : \/ l \in 1..(n - 1) /\ l + 1 \in DOMAIN queue /\ queue'[l] = queue[l + 1]
                               \/ l = n /\ queue'[l] = queue[1]
    BY <1>2, <1>3
<1>5. \A l \in DOMAIN queue :
          l # 1 => l - 1 \in DOMAIN queue' /\ l - 1 \in 1..(n - 1) /\ queue'[l - 1] = queue[l]
  <2> SUFFICES ASSUME NEW l \in DOMAIN queue, l # 1
               PROVE  l - 1 \in DOMAIN queue' /\ l - 1 \in 1..(n - 1) /\ queue'[l - 1] = queue[l]
      OBVIOUS
  <2>1. l - 1 \in 1..(n - 1) /\ (l - 1) + 1 = l
      BY <1>3
  <2> QED BY <1>2, <1>3, <2>1
<1>6. \A l, m \in DOMAIN queue' : l < m => l \in 1..(n - 1) /\ l + 1 \in DOMAIN queue /\ queue'[l] = queue[l + 1]
    BY <1>2, <1>3
<1>7. \A l, m \in DOMAIN queue' : l < m => l + 1 < m + 1
    BY <1>3
<1>8. SnapshotsInOrder'
  <2>1. ASSUME NEW l \in DOMAIN queue', ~IsOp(queue'[l])
        PROVE  l + 1 \in DOMAIN queue /\ queue'[l] = queue[l + 1]
      BY <1>4, <2>1
  <2> QED BY <1>1, <1>7, <2>1 DEF SnapshotsInOrder, IsOp
<1>9. NamedBefore'
  <2> SUFFICES ASSUME NEW l \in DOMAIN queue', NEW m \in DOMAIN queue', l < m,
                      IsOp(queue'[l]), ~IsOp(queue'[m])
               PROVE  queue'[m].diags[DiagOf[queue'[l].op]] = 0
      BY DEF NamedBefore, IsOp
  <2>1. l + 1 \in DOMAIN queue /\ queue'[l] = queue[l + 1] /\ l + 1 < m + 1
      BY <1>6, <1>7
  <2>2. m + 1 \in DOMAIN queue /\ queue'[m] = queue[m + 1]
      BY <1>4
  <2> QED BY <1>1, <2>1, <2>2 DEF NamedBefore
<1>10. BlockedOnly'
    BY DEF BlockedOnly
<1>11. StatesInOrder'
  <2> SUFFICES ASSUME NEW p \in Repairs, ~lane'[p].quarantined
               PROVE  /\ \A l, m \in DOMAIN queue' :
                           l < m /\ IsOp(queue'[l]) /\ IsOp(queue'[m]) /\ queue'[l].op = p /\ queue'[m].op = p
                           => queue'[l].at < queue'[m].at
                      /\ \A k \in (stored[p] + 1)..progress[p] : \E l \in DOMAIN queue' : queue'[l] = Op(p, k)
      BY DEF StatesInOrder, Op, IsOp
  <2>1. ~lane[p].quarantined /\ p # queue[1].op
      OBVIOUS
  <2>2. ASSUME NEW l \in DOMAIN queue', NEW m \in DOMAIN queue', l < m,
               IsOp(queue'[l]), IsOp(queue'[m]), queue'[l].op = p, queue'[m].op = p
        PROVE  queue'[l].at < queue'[m].at
    <3>1. l + 1 \in DOMAIN queue /\ queue'[l] = queue[l + 1] /\ l + 1 < m + 1
        BY <1>6, <1>7, <2>2
    <3>2. m + 1 \in DOMAIN queue /\ queue'[m] = queue[m + 1]
        BY <1>4, <2>1, <2>2
    <3> QED BY <1>1, <2>1, <2>2, <3>1, <3>2 DEF StatesInOrder
  <2>3. ASSUME NEW k \in (stored[p] + 1)..progress[p] PROVE \E l \in DOMAIN queue' : queue'[l] = Op(p, k)
    <3>1. PICK l \in DOMAIN queue : queue[l] = Op(p, k)
        BY <1>1, <2>1 DEF StatesInOrder
    <3>2. l # 1
        BY <2>1, <3>1 DEF Op
    <3> QED BY <1>5, <3>1, <3>2
  <2> QED BY <2>2, <2>3
<1>12. FirstBacked'
  <2>1. ActiveDiags' = ActiveDiags
      BY DEF ActiveDiags, Stored
  <2>2. ASSUME NEW p \in Repairs, NEW k \in DOMAIN queue', ~lane'[p].quarantined, stored[p] = 0, queue'[k] = Op(p, 1)
        PROVE  Backed(queue', ActiveDiags, DiagOf[p], k)
    <3>1. ~lane[p].quarantined /\ queue[1] # Op(p, 1)
        BY <2>2 DEF Op
    <3>2. k \in 1..(n - 1) /\ k + 1 \in DOMAIN queue /\ queue[k + 1] = Op(p, 1)
        BY <1>4, <2>2, <3>1
    <3>3. Backed(queue, ActiveDiags, DiagOf[p], k + 1)
        BY <1>1, <2>2, <3>1, <3>2 DEF FirstBacked
    <3>4. k \in Nat \ {0} /\ \A l \in 1..(k - 1) : queue'[l] = queue[l + 1]
        BY <1>2, <1>3, <3>2
    <3> QED BY <3>3, <3>4, BackedTail
  <2>3. ASSUME NEW d \in Diags, occurrences[d] > 0 PROVE Backed(queue', ActiveDiags, d, Len(queue') + 1)
    <3>1. Backed(queue, ActiveDiags, d, n + 1)
        BY <1>1, <2>3 DEF FirstBacked, n
    <3>2. Backed(queue', ActiveDiags, d, n)
        BY <1>2, <1>3, <3>1, BackedTail
    <3>3. IsOp(queue'[n]) /\ n \in Nat
        BY <1>2, <1>3
    <3>4. Backed(queue', ActiveDiags, d, n + 1)
        BY <3>2, <3>3, BackedOver
    <3> QED BY <1>2, <3>4
  <2> QED BY <2>1, <2>2, <2>3 DEF FirstBacked, Op
<1>13. TimesKept'
  <2>1. \A l \in DOMAIN queue' : \E m \in DOMAIN queue : queue'[l] = queue[m]
      BY <1>3, <1>4
  <2>2. \A l \in DOMAIN queue' : FreshAt(queue'[l], clock, entry)
      BY <1>1, <2>1 DEF TimesKept
  <2> QED BY <1>1, <2>2 DEF TimesKept, FreshAt, IsOp
<1> QED
    BY <1>8, <1>9, <1>10, <1>11, <1>12, <1>13 DEF InOrder

\* A diagnostic is pending while a queued snapshot names it.
LEMMA PendingIs ==
    ASSUME LanesInv, NEW d \in Diags
    PROVE  pending[d] > 0 <=> \E i \in DOMAIN queue : ~IsOp(queue[i]) /\ queue[i].diags[d] > 0
<1> DEFINE A == {i \in DOMAIN queue : ~IsOp(queue[i]) /\ d \in Named(queue[i])}
<1>1. queue \in Seq(Items) /\ pending[d] = Cardinality(A)
    BY DEF LanesInv, ReportsTypes, CountsExact, Count
<1>2. DOMAIN queue = 1..Len(queue) /\ Len(queue) \in Nat
    BY <1>1
<1>3. IsFiniteSet(1..Len(queue))
  <2>1. 1 \in Int /\ Len(queue) \in Int
      BY <1>2
  <2> QED BY <2>1, FS_Interval
<1>4. IsFiniteSet(A)
    BY <1>2, <1>3, FS_Subset
<1>5. Cardinality(A) \in Nat /\ (Cardinality(A) = 0 <=> A = {})
    BY <1>4, FS_EmptySet, FS_CardinalityType
<1>6. pending[d] > 0 <=> A # {}
    BY <1>1, <1>5
<1> QED
    BY <1>6 DEF Named

\* What a report taken does at the orchestrator, while nothing is seen again.
LEMMA ReceivedInOrder ==
    ASSUME LanesInv, TimesKept, NEW item \in Items, flush.item = item, Receive(item), ~seenAgain',
           UNCHANGED <<occurrences, seen>>
    PROVE  /\ \A o \in Repairs : stored[o] <= stored'[o] /\ stored[o] \in 0..Last /\ stored'[o] \in 0..Last
           /\ IsOp(item) => item.op \in Repairs /\ stored'[item.op] >= item.at /\ entry' = entry /\ clock' = clock
           /\ ~IsOp(item) => stored' = stored /\ \A d \in Diags : item.diags[d] > 0 => d \in ActiveDiags'
           /\ \A i \in DOMAIN queue : FreshAt(queue[i], clock', entry')
           /\ FreshAt(item, clock', entry')
           /\ clock' > 0
           /\ \A d \in Diags :
                 /\ seen[d] <= clock' /\ entry'[d].seen <= clock' /\ entry'[d].resolved < clock'
                 /\ entry'[d].resolved > 0 => entry'[d].seen <= entry'[d].resolved
                 /\ occurrences[d] > 0 => seen[d] > 0 /\ seen[d] > entry'[d].resolved
<1> DEFINE Goal ==
           /\ \A o \in Repairs : stored[o] <= stored'[o] /\ stored[o] \in 0..Last /\ stored'[o] \in 0..Last
           /\ IsOp(item) => item.op \in Repairs /\ stored'[item.op] >= item.at /\ entry' = entry /\ clock' = clock
           /\ ~IsOp(item) => stored' = stored /\ \A d \in Diags : item.diags[d] > 0 => d \in ActiveDiags'
           /\ \A i \in DOMAIN queue : FreshAt(queue[i], clock', entry')
           /\ FreshAt(item, clock', entry')
           /\ clock' > 0
           /\ \A d \in Diags :
                 /\ seen[d] <= clock' /\ entry'[d].seen <= clock' /\ entry'[d].resolved < clock'
                 /\ entry'[d].resolved > 0 => entry'[d].seen <= entry'[d].resolved
                 /\ occurrences[d] > 0 => seen[d] > 0 /\ seen[d] > entry'[d].resolved
<1> SUFFICES Goal
    OBVIOUS
<1>1. ReportsTypes
    BY DEF LanesInv
<1>2. /\ queue \in Seq(Items) /\ stored \in [Repairs -> 0..Last] /\ clock \in Nat /\ seen \in [Diags -> Nat]
      /\ entry \in [Diags -> [seen : Nat, resolved : Nat]] /\ occurrences \in [Diags -> Nat]
    BY <1>1 DEF ReportsTypes
<1>3. item # Nothing /\ FreshAt(item, clock, entry) /\ \A i \in DOMAIN queue : FreshAt(queue[i], clock, entry)
    BY ItemIs DEF TimesKept
<1>4. \A d \in Diags :
          /\ seen[d] <= clock /\ entry[d].seen <= clock /\ entry[d].resolved < clock
          /\ entry[d].resolved > 0 => entry[d].seen <= entry[d].resolved
          /\ occurrences[d] > 0 => seen[d] > 0 /\ seen[d] > entry[d].resolved
    BY DEF TimesKept
<1>5. clock > 0
    BY DEF TimesKept
<1>6. CASE IsOp(item)
  <2>1. item.op \in Repairs /\ item.at \in 1..Last
      BY <1>6, ItemIs DEF OpReports
  <2>2. /\ stored' = [stored EXCEPT ![item.op] = IF item.at > stored[item.op] THEN item.at ELSE stored[item.op]]
        /\ UNCHANGED <<entry, clock>>
      BY <1>6 DEF Receive
  <2>3. \A o \in Repairs : stored[o] <= stored'[o] /\ stored[o] \in 0..Last /\ stored'[o] \in 0..Last
      BY <1>2, <2>1, <2>2, ReportsAssumptions
  <2>4. stored'[item.op] >= item.at
      BY <1>2, <2>1, <2>2, ReportsAssumptions
  <2> QED BY <1>3, <1>4, <1>5, <1>6, <2>1, <2>2, <2>3, <2>4
<1>7. CASE ~IsOp(item)
  <2>1. item.diags \in [Diags -> Nat] /\ item.times \in [Diags -> Nat]
      BY <1>7, ItemIs DEF Snapshots
  <2>2. /\ entry' = [d \in Diags |-> IF d \in Named(item) THEN Upserted(item, d)
                         ELSE IF d \in Missing(item) THEN [entry[d] EXCEPT !.resolved = clock] ELSE entry[d]]
        /\ clock' = IF Missing(item) = {} THEN clock ELSE clock + 1
        /\ \A d \in Missing(item) : ~(occurrences[d] > 0) /\ ~(pending[d] > 0)
        /\ stored' = stored
      BY <1>7 DEF Receive
  <2>3. clock' \in Nat /\ clock' >= clock /\ \A d \in Missing(item) : clock' = clock + 1
      BY <1>2, <2>2
  \* What it names is active.
  <2>4. ASSUME NEW d \in Diags, item.diags[d] > 0
        PROVE  /\ entry'[d].seen > 0 /\ entry'[d].resolved = 0 /\ entry'[d].seen <= clock
    <3>1. entry'[d] = Upserted(item, d)
        BY <2>2, <2>4 DEF Named
    <3>2. /\ entry[d].seen \in Nat /\ entry[d].resolved \in Nat /\ item.times[d] \in Nat
          /\ item.times[d] <= clock /\ item.times[d] > 0 /\ item.times[d] > entry[d].resolved
        BY <1>2, <1>3, <1>7, <2>1, <2>4 DEF FreshAt
    <3>3. CASE item.times[d] >= entry[d].seen
      <4>1. entry'[d] = [seen |-> item.times[d], resolved |-> 0]
          BY <3>1, <3>2, <3>3 DEF Upserted
      <4> QED BY <3>2, <4>1
    <3>4. CASE ~(item.times[d] >= entry[d].seen)
      <4>1. entry'[d] = entry[d]
          BY <3>1, <3>4 DEF Upserted
      <4>2. entry[d].seen > 0 /\ entry[d].resolved = 0
          BY <1>4, <3>2, <3>4
      <4> QED BY <1>4, <4>1, <4>2
    <3> QED BY <3>3, <3>4
  <2>5. \A d \in Diags : item.diags[d] > 0 => d \in ActiveDiags'
      BY <2>4 DEF ActiveDiags, Stored
  \* What it does not name is left alone or resolved now, and then not pending.
  <2>6. ASSUME NEW d \in Diags, ~(item.diags[d] > 0)
        PROVE  \/ entry'[d] = entry[d]
               \/ /\ entry'[d].resolved = clock /\ entry'[d].seen = entry[d].seen /\ clock' = clock + 1
                  /\ ~(occurrences[d] > 0) /\ ~(pending[d] > 0)
    <3>1. d \notin Named(item)
        BY <2>6 DEF Named
    <3>2. CASE d \in Missing(item)
      <4>1. entry'[d] = [entry[d] EXCEPT !.resolved = clock]
          BY <2>2, <3>1, <3>2
      <4>2. entry[d] \in [seen : Nat, resolved : Nat]
          BY <1>2
      <4>3. entry'[d].resolved = clock /\ entry'[d].seen = entry[d].seen
          BY <4>1, <4>2
      <4> QED BY <2>2, <2>3, <3>2, <4>3
    <3>3. CASE d \notin Missing(item)
        BY <2>2, <3>1, <3>3
    <3> QED BY <3>2, <3>3
  <2>7. \A d \in Diags : entry[d].seen \in Nat /\ entry[d].resolved \in Nat /\ seen[d] \in Nat
      BY <1>2
  <2>8. ASSUME NEW d \in Diags
        PROVE  /\ seen[d] <= clock' /\ entry'[d].seen <= clock' /\ entry'[d].resolved < clock'
               /\ entry'[d].resolved > 0 => entry'[d].seen <= entry'[d].resolved
               /\ occurrences[d] > 0 => seen[d] > 0 /\ seen[d] > entry'[d].resolved
    <3>1. CASE item.diags[d] > 0
      <4>1. entry'[d].resolved = 0 /\ entry'[d].seen <= clock /\ entry'[d].seen > 0
          BY <2>4, <3>1
      <4>2. entry'[d].seen \in Nat
        <5>1. entry' \in [Diags -> [seen : Nat, resolved : Nat]]
            BY <1>1, ReceivedTypes
        <5> QED BY <5>1
      <4> QED BY <1>2, <1>4, <1>5, <2>3, <2>7, <4>1, <4>2
    <3>2. CASE ~(item.diags[d] > 0) /\ entry'[d] = entry[d]
        BY <1>2, <1>4, <2>3, <2>7, <3>2
    <3>3. CASE /\ entry'[d].resolved = clock /\ entry'[d].seen = entry[d].seen /\ clock' = clock + 1
               /\ ~(occurrences[d] > 0)
        BY <1>2, <1>4, <2>3, <2>7, <3>3
    <3> QED BY <2>6, <3>1, <3>2, <3>3
  <2>9. ASSUME NEW x \in Items, FreshAt(x, clock, entry),
               \A d \in Diags : ~IsOp(x) /\ x.diags[d] > 0 /\ ~(item.diags[d] > 0) => pending[d] > 0
        PROVE  FreshAt(x, clock', entry')
    <3> SUFFICES ASSUME ~IsOp(x), NEW d \in Diags
                 PROVE  /\ x.times[d] <= clock'
                        /\ x.diags[d] > 0 => x.times[d] > 0 /\ x.times[d] > entry'[d].resolved
        BY DEF FreshAt
    <3>1. x.times[d] \in Nat /\ x.times[d] <= clock
          /\ (x.diags[d] > 0 => x.times[d] > 0 /\ x.times[d] > entry[d].resolved)
        BY <2>9, ItemIs DEF FreshAt, Snapshots
    <3>2. x.times[d] <= clock'
        BY <1>2, <2>3, <3>1
    <3>3. ASSUME x.diags[d] > 0 PROVE x.times[d] > entry'[d].resolved
      <4>1. CASE item.diags[d] > 0
          BY <2>4, <3>1, <3>3, <4>1
      <4>2. CASE ~(item.diags[d] > 0)
        <5>1. entry'[d] = entry[d]
            BY <2>6, <2>9, <3>3, <4>2
        <5> QED BY <3>1, <3>3, <5>1
      <4> QED BY <4>1, <4>2
    <3> QED BY <3>1, <3>2, <3>3
  <2>10. FreshAt(item, clock', entry')
      BY <1>3, <2>9
  <2>11. ASSUME NEW i \in DOMAIN queue PROVE FreshAt(queue[i], clock', entry')
    <3>1. queue[i] \in Items
        BY <1>2
    <3>2. \A d \in Diags : ~IsOp(queue[i]) /\ queue[i].diags[d] > 0 => pending[d] > 0
        BY PendingIs
    <3> QED BY <1>3, <2>9, <3>1, <3>2
  <2>12. \A o \in Repairs : stored[o] <= stored'[o] /\ stored[o] \in 0..Last /\ stored'[o] \in 0..Last
      BY <1>2, <2>2, ReportsAssumptions
  <2>13. clock' > 0
      BY <1>2, <1>5, <2>3
  <2> QED BY <1>7, <2>2, <2>5, <2>8, <2>10, <2>11, <2>12, <2>13
<1> QED
    BY <1>6, <1>7

\* A report is taken and the queue stays: the answer is lost, or the snapshot was
\* superseded meanwhile.
LEMMA OrderTaken ==
    ASSUME LanesInv, InOrder, NEW item \in Items, flush.item = item, Receive(item), ~seenAgain',
           UNCHANGED <<occurrences, seen, progress, queue, lane, nextSeq>>, DiagOf' = DiagOf,
           flush'.blocked = flush.blocked, flush'.item \in {item, Nothing}
    PROVE  InOrder'
<1>1. ReportsTypes /\ HeadSent /\ /\ SnapshotsInOrder /\ NamedBefore /\ BlockedOnly
                                  /\ StatesInOrder /\ FirstBacked /\ TimesKept
    BY DEF LanesInv, InOrder
<1>2. /\ \A o \in Repairs : stored[o] <= stored'[o] /\ stored[o] \in 0..Last /\ stored'[o] \in 0..Last
      /\ IsOp(item) => item.op \in Repairs /\ stored'[item.op] >= item.at /\ entry' = entry /\ clock' = clock
      /\ ~IsOp(item) => stored' = stored /\ \A d \in Diags : item.diags[d] > 0 => d \in ActiveDiags'
      /\ \A i \in DOMAIN queue : FreshAt(queue[i], clock', entry')
      /\ FreshAt(item, clock', entry')
      /\ clock' > 0
      /\ \A d \in Diags :
                 /\ seen[d] <= clock' /\ entry'[d].seen <= clock' /\ entry'[d].resolved < clock'
                 /\ entry'[d].resolved > 0 => entry'[d].seen <= entry'[d].resolved
                 /\ occurrences[d] > 0 => seen[d] > 0 /\ seen[d] > entry'[d].resolved
    BY <1>1, ReceivedInOrder
<1>3. queue \in Seq(Items) /\ queue # <<>> /\ item # Nothing /\ (~IsOp(item) => ~IsOp(queue[1]))
    BY <1>1, ItemIs DEF ReportsTypes, HeadSent
<1>4. DOMAIN queue = 1..Len(queue) /\ Len(queue) \in Nat \ {0}
    BY <1>3
<1>5. SnapshotsInOrder' /\ NamedBefore'
    BY <1>1 DEF SnapshotsInOrder, NamedBefore, IsOp
<1>6. BlockedOnly'
    BY <1>1 DEF BlockedOnly, IsOp
<1>7. StatesInOrder'
  <2>1. \A o \in Repairs : \A k \in (stored'[o] + 1)..progress[o] : k \in (stored[o] + 1)..progress[o]
      BY <1>2
  <2> QED BY <1>1, <2>1 DEF StatesInOrder, Op, IsOp
<1>8. FirstBacked'
  <2>1. \A o \in Repairs : stored'[o] = 0 => stored[o] = 0
      BY <1>2
  <2>2. CASE IsOp(item)
    <3>1. ActiveDiags' = ActiveDiags
        BY <1>2, <2>2 DEF ActiveDiags, Stored
    <3> QED BY <1>1, <2>1, <3>1 DEF FirstBacked, Op
  <2>3. CASE ~IsOp(item)
    <3>1. ~IsOp(queue[1])
        BY <1>3, <2>3
    <3>2. ASSUME NEW d \in Diags, NEW k \in Nat, k > 1, Backed(queue, ActiveDiags, d, k)
          PROVE  Backed(queue, ActiveDiags', d, k)
      <4>1. 1 \in 1..(k - 1)
          BY <3>2
      <4> QED BY <3>1, <3>2, <4>1 DEF Backed
    <3>3. ASSUME NEW o \in Repairs, NEW k \in DOMAIN queue, ~lane[o].quarantined, stored[o] = 0, queue[k] = Op(o, 1)
          PROVE  Backed(queue, ActiveDiags', DiagOf[o], k)
      <4>1. Backed(queue, ActiveDiags, DiagOf[o], k) /\ DiagOf[o] \in Diags
          BY <1>1, <3>3 DEF FirstBacked, ReportsTypes, CaseSet, DiagOf
      <4>2. IsOp(queue[k])
          BY <3>3 DEF Op, IsOp
      <4>3. k # 1
          BY <3>1, <4>2
      <4>4. k \in Nat /\ k > 1
          BY <1>4, <4>3
      <4> QED BY <3>2, <4>1, <4>4
    <3>4. ASSUME NEW d \in Diags, occurrences[d] > 0 PROVE Backed(queue, ActiveDiags', d, Len(queue) + 1)
      <4>1. Backed(queue, ActiveDiags, d, Len(queue) + 1)
          BY <1>1, <3>4 DEF FirstBacked
      <4>2. Len(queue) + 1 \in Nat /\ Len(queue) + 1 > 1
          BY <1>4
      <4> QED BY <3>2, <4>1, <4>2
    <3> QED BY <2>1, <3>3, <3>4 DEF FirstBacked, Op
  <2> QED BY <2>2, <2>3
<1>9. TimesKept'
    BY <1>2 DEF TimesKept, FreshAt, IsOp
<1> QED
    BY <1>5, <1>6, <1>7, <1>8, <1>9 DEF InOrder

\* A report is taken, and leaves the queue.
LEMMA OrderTail ==
    ASSUME LanesInv, InOrder, NEW item \in Items, flush.item = item, Receive(item), ~seenAgain',
           queue # <<>>, queue' = Tail(queue),
           IF IsOp(item) THEN queue[1] = item ELSE ~IsOp(queue[1]) /\ queue[1].diags = item.diags,
           \A o \in Repairs : lane'[o].quarantined <=> lane[o].quarantined,
           UNCHANGED <<occurrences, seen, progress, nextSeq>>, DiagOf' = DiagOf,
           flush'.blocked = flush.blocked, flush'.item = Nothing
    PROVE  InOrder'
<1>1. ReportsTypes /\ /\ SnapshotsInOrder /\ NamedBefore /\ BlockedOnly
                      /\ StatesInOrder /\ FirstBacked /\ TimesKept
    BY DEF LanesInv, InOrder
<1>2. /\ \A o \in Repairs : stored[o] <= stored'[o] /\ stored[o] \in 0..Last /\ stored'[o] \in 0..Last
      /\ IsOp(item) => item.op \in Repairs /\ stored'[item.op] >= item.at /\ entry' = entry /\ clock' = clock
      /\ ~IsOp(item) => stored' = stored /\ \A d \in Diags : item.diags[d] > 0 => d \in ActiveDiags'
      /\ \A i \in DOMAIN queue : FreshAt(queue[i], clock', entry')
      /\ clock' > 0
      /\ \A d \in Diags :
                 /\ seen[d] <= clock' /\ entry'[d].seen <= clock' /\ entry'[d].resolved < clock'
                 /\ entry'[d].resolved > 0 => entry'[d].seen <= entry'[d].resolved
                 /\ occurrences[d] > 0 => seen[d] > 0 /\ seen[d] > entry'[d].resolved
    BY <1>1, ReceivedInOrder
<1> DEFINE n == Len(queue)
<1>3. /\ queue' \in Seq(Items) /\ Len(queue') = n - 1 /\ n \in Nat \ {0} /\ DOMAIN queue = 1..n
      /\ \A l \in 1..(n - 1) : queue'[l] = queue[l + 1]
  <2>1. queue \in Seq(Items)
      BY <1>1 DEF ReportsTypes
  <2> QED BY <2>1, TailIs
<1> HIDE DEF n
<1>4. DOMAIN queue' = 1..(n - 1)
    BY <1>3
<1>5. \A l \in DOMAIN queue' : l + 1 \in DOMAIN queue /\ queue'[l] = queue[l + 1]
    BY <1>3, <1>4
<1>6. \A l, m \in DOMAIN queue' : l < m => l + 1 < m + 1
    BY <1>3, <1>4
<1>7. \A l \in DOMAIN queue : l # 1 => l - 1 \in DOMAIN queue' /\ queue'[l - 1] = queue[l]
  <2> SUFFICES ASSUME NEW l \in DOMAIN queue, l # 1
               PROVE  l - 1 \in DOMAIN queue' /\ queue'[l - 1] = queue[l]
      OBVIOUS
  <2>1. l - 1 \in 1..(n - 1) /\ (l - 1) + 1 = l
      BY <1>3
  <2> QED BY <1>3, <1>4, <2>1
<1>8. SnapshotsInOrder'
    BY <1>1, <1>5, <1>6 DEF SnapshotsInOrder, IsOp
<1>9. NamedBefore'
  <2> SUFFICES ASSUME NEW l \in DOMAIN queue', NEW m \in DOMAIN queue', l < m,
                      IsOp(queue'[l]), ~IsOp(queue'[m])
               PROVE  queue'[m].diags[DiagOf[queue'[l].op]] = 0
      BY DEF NamedBefore, IsOp
  <2>1. /\ l + 1 \in DOMAIN queue /\ queue'[l] = queue[l + 1] /\ l + 1 < m + 1
        /\ m + 1 \in DOMAIN queue /\ queue'[m] = queue[m + 1]
      BY <1>5, <1>6
  <2> QED BY <1>1, <2>1 DEF NamedBefore
<1>10. BlockedOnly'
  <2>1. flush.blocked \subseteq Repairs
      BY <1>1 DEF ReportsTypes, FlushSet
  <2> QED BY <1>1, <2>1 DEF BlockedOnly, IsOp
<1>11. StatesInOrder'
  <2> SUFFICES ASSUME NEW p \in Repairs, ~lane[p].quarantined
               PROVE  /\ \A l, m \in DOMAIN queue' :
                           l < m /\ IsOp(queue'[l]) /\ IsOp(queue'[m]) /\ queue'[l].op = p /\ queue'[m].op = p
                           => queue'[l].at < queue'[m].at
                      /\ \A k \in (stored'[p] + 1)..progress[p] : \E l \in DOMAIN queue' : queue'[l] = Op(p, k)
      BY DEF StatesInOrder, Op, IsOp
  <2>1. ASSUME NEW l \in DOMAIN queue', NEW m \in DOMAIN queue', l < m,
               IsOp(queue'[l]), IsOp(queue'[m]), queue'[l].op = p, queue'[m].op = p
        PROVE  queue'[l].at < queue'[m].at
    <3>1. /\ l + 1 \in DOMAIN queue /\ queue'[l] = queue[l + 1] /\ l + 1 < m + 1
          /\ m + 1 \in DOMAIN queue /\ queue'[m] = queue[m + 1]
        BY <1>5, <1>6, <2>1
    <3> QED BY <1>1, <2>1, <3>1 DEF StatesInOrder
  <2>2. ASSUME NEW k \in (stored'[p] + 1)..progress[p] PROVE \E l \in DOMAIN queue' : queue'[l] = Op(p, k)
    <3>1. k \in (stored[p] + 1)..progress[p] /\ k > stored'[p]
        BY <1>2, <2>2
    <3>2. PICK l \in DOMAIN queue : queue[l] = Op(p, k)
        BY <1>1, <3>1 DEF StatesInOrder
    <3>3. l # 1
      <4> SUFFICES ASSUME l = 1 PROVE FALSE
          OBVIOUS
      <4>1. IsOp(queue[1]) /\ queue[1].op = p /\ queue[1].at = k
          BY <3>2 DEF Op, IsOp
      <4>2. item.op = p /\ item.at = k /\ IsOp(item)
          BY <4>1
      <4>3. stored'[p] >= k
          BY <1>2, <4>2
      <4> QED BY <1>2, <3>1, <4>3
    <3> QED BY <1>7, <3>2, <3>3
  <2> QED BY <2>1, <2>2
<1>12. FirstBacked'
  <2>1. \A o \in Repairs : stored'[o] = 0 => stored[o] = 0
      BY <1>2
  <2>2. ASSUME NEW d \in Diags, NEW k \in 1..n, Backed(queue, ActiveDiags, d, k + 1)
        PROVE  Backed(queue', ActiveDiags', d, k)
    <3>1. k \in Nat \ {0} /\ \A l \in 1..(k - 1) : queue'[l] = queue[l + 1]
        BY <1>3, <2>2
    <3>2. \/ IsOp(queue[1]) /\ (d \in ActiveDiags => d \in ActiveDiags')
          \/ ~IsOp(queue[1]) /\ (queue[1].diags[d] > 0 => d \in ActiveDiags')
      <4>1. CASE IsOp(item)
        <5>1. ActiveDiags' = ActiveDiags
            BY <1>2, <4>1 DEF ActiveDiags, Stored
        <5> QED BY <4>1, <5>1
      <4>2. CASE ~IsOp(item)
          BY <1>2, <4>2
      <4> QED BY <4>1, <4>2
    <3> DEFINE b == ActiveDiags'
    <3>3. \/ IsOp(queue[1]) /\ (d \in ActiveDiags => d \in b)
          \/ ~IsOp(queue[1]) /\ (queue[1].diags[d] > 0 => d \in b)
        BY <3>2
    <3> DEFINE r == queue'
    <3>4. \A l \in 1..(k - 1) : r[l] = queue[l + 1]
        BY <3>1
    <3> HIDE DEF b, r
    <3>5. Backed(r, b, d, k)
        BY <2>2, <3>1, <3>3, <3>4, BackedTail
    <3> QED BY <3>5 DEF b, r
  <2>3. ASSUME NEW o \in Repairs, NEW k \in DOMAIN queue', ~lane[o].quarantined, stored[o] = 0, queue'[k] = Op(o, 1)
        PROVE  Backed(queue', ActiveDiags', DiagOf[o], k)
    <3>1. k + 1 \in DOMAIN queue /\ queue[k + 1] = Op(o, 1) /\ k \in 1..n
        BY <1>3, <1>4, <1>5, <2>3
    <3>2. Backed(queue, ActiveDiags, DiagOf[o], k + 1) /\ DiagOf[o] \in Diags
        BY <1>1, <2>3, <3>1 DEF FirstBacked, ReportsTypes, CaseSet, DiagOf
    <3> QED BY <2>2, <3>1, <3>2
  <2>4. ASSUME NEW d \in Diags, occurrences[d] > 0 PROVE Backed(queue', ActiveDiags', d, Len(queue') + 1)
    <3>1. Backed(queue, ActiveDiags, d, n + 1)
        BY <1>1, <2>4 DEF FirstBacked, n
    <3>2. n \in 1..n /\ Len(queue') + 1 = n
        BY <1>3
    <3> QED BY <2>2, <3>1, <3>2
  <2> QED BY <2>1, <2>3, <2>4 DEF FirstBacked, Op
<1>13. TimesKept'
  <2>1. \A l \in DOMAIN queue' : FreshAt(queue'[l], clock', entry')
      BY <1>2, <1>5
  <2> QED BY <1>2, <2>1 DEF TimesKept, FreshAt, IsOp
<1> QED
    BY <1>8, <1>9, <1>10, <1>11, <1>12, <1>13 DEF InOrder

\* The flush moves on, or a user asks for a repair: the queue and the rows stay.
LEMMA OrderQuiet ==
    ASSUME LanesInv, InOrder,
           UNCHANGED <<occurrences, seen, progress, queue, lane, nextSeq, entry, clock>>, DiagOf' = DiagOf,
           \A o \in Repairs : stored[o] <= stored'[o] /\ stored'[o] \in 0..Last,
           flush'.blocked \subseteq flush.blocked,
           flush'.item # Nothing => /\ FreshAt(flush'.item, clock, entry)
                                    /\ IsOp(flush'.item) => ~lane[flush'.item.op].quarantined
    PROVE  InOrder'
<1>1. ReportsTypes /\ /\ SnapshotsInOrder /\ NamedBefore /\ BlockedOnly
                      /\ StatesInOrder /\ FirstBacked /\ TimesKept
    BY DEF LanesInv, InOrder
<1>2. SnapshotsInOrder' /\ NamedBefore'
    BY <1>1 DEF SnapshotsInOrder, NamedBefore, IsOp
<1>3. BlockedOnly'
    BY <1>1 DEF BlockedOnly, IsOp
<1>4. \A o \in Repairs : stored[o] \in 0..Last
    BY <1>1 DEF ReportsTypes
<1>5. StatesInOrder'
  <2>1. \A o \in Repairs : \A k \in (stored'[o] + 1)..progress[o] : k \in (stored[o] + 1)..progress[o]
      BY <1>4
  <2> QED BY <1>1, <2>1 DEF StatesInOrder, Op, IsOp
<1>6. FirstBacked'
  <2>1. ActiveDiags' = ActiveDiags /\ \A o \in Repairs : stored'[o] = 0 => stored[o] = 0
      BY <1>4 DEF ActiveDiags, Stored
  <2> QED BY <1>1, <2>1 DEF FirstBacked, Op
<1>7. TimesKept'
    BY <1>1 DEF TimesKept, FreshAt, IsOp
<1> QED
    BY <1>2, <1>3, <1>5, <1>6, <1>7 DEF InOrder

\* Once disturbed, it stays so; what an operation repairs is settled.
LEMMA DisturbedStays ==
    ASSUME LanesInv, [ReportsNext]_reportsVars
    PROVE  (Undisturbed' => Undisturbed) /\ DiagOf' = DiagOf
<1> DEFINE Goal == (Undisturbed' => Undisturbed) /\ DiagOf' = DiagOf
<1> SUFFICES Goal
    OBVIOUS
<1>1. ReportsTypes /\ case \in CaseSet
    BY DEF LanesInv, ReportsTypes
<1>2. CASE /\ case' = case \/ \E what \in {"observe", "inspect", "fail", "lose"} : Spend(what)
           /\ seenAgain => seenAgain'
  <2>1. case'.fails = case.fails /\ case'.of = case.of
      BY <1>1, <1>2, SpentIs
  <2> QED BY <1>2, <2>1 DEF Undisturbed, DiagOf
<1>3. CASE CoordinatorSteps
    BY <1>2, <1>3 DEF CoordinatorSteps, Begin, Advance, Finish, orchestratorVars
<1>4. CASE Inspection
    BY <1>2, <1>4 DEF Inspection, Observe, InspectAnew, Observed
<1>5. CASE StartFlush \/ EndFlush \/ Rotate \/ Take
    BY <1>2, <1>5 DEF StartFlush, EndFlush, Rotate, Take, orchestratorVars
<1>6. CASE Sent
    BY <1>2, <1>6 DEF Sent, Receive
<1>7. CASE Refused
    BY <1>2, <1>7 DEF Refused, NotSent, orchestratorVars
<1>8. CASE SendFails
    BY <1>2, <1>8 DEF SendFails, NotSent, orchestratorVars
<1>9. CASE Lost
    BY <1>2, <1>9 DEF Lost, Receive
<1>10. CASE \E o \in Requested : RequestRepair(o)
    BY <1>2, <1>10 DEF RequestRepair
<1>11. CASE UNCHANGED reportsVars
    BY <1>2, <1>11 DEF reportsVars, orchestratorVars
<1> QED
    BY <1>3, <1>4, <1>5, <1>6, <1>7, <1>8, <1>9, <1>10, <1>11 DEF ReportsNext, Reporter

\* What the coordinator enqueues of a repair is its next state.
LEMMA OrderCoordinator ==
    ASSUME LanesInv, InOrder, NEW o \in Repairs, Begin(o) \/ Advance(o) \/ Finish(o), DiagOf' = DiagOf
    PROVE  InOrder'
<1> USE ReportsAssumptions
<1>1. ReportsTypes /\ \A p \in Repairs : UnderWay(p) <=> repairing = p
    BY DEF LanesInv, LaneStates
<1>2. /\ progress \in [Repairs -> 0..Last] /\ progress[o] \in 0..Last /\ DiagOf[o] \in Diags
      /\ occurrences \in [Diags -> Nat] /\ seen \in [Diags -> Nat]
    BY <1>1 DEF ReportsTypes, CaseSet, DiagOf
<1> DEFINE i == progress[o] + 1
<1>3. /\ i \in 1..Last /\ EnqueueOp(o, i) /\ progress' = [progress EXCEPT ![o] = i]
      /\ i = 1 => occurrences[DiagOf[o]] > 0
  <2>1. CASE Begin(o)
    <3>1. i = 1 /\ 1 \in 1..Last
        BY <2>1 DEF Begin
    <3> HIDE DEF i
    <3> QED BY <2>1, <3>1 DEF Begin
  <2>2. CASE Advance(o) \/ Finish(o)
    <3>1. repairing = o /\ EnqueueOp(o, i) /\ progress' = [progress EXCEPT ![o] = i]
        BY <1>2, <2>2 DEF Advance, Finish, Proceed
    <3>2. UnderWay(o)
        BY <1>1, <3>1
    <3>3. i \in 1..Last /\ i # 1
        BY <1>2, <3>2 DEF UnderWay
    <3> QED BY <3>1, <3>3
  <2> QED BY <2>1, <2>2
<1>4. UNCHANGED <<stored, entry, clock>>
    BY DEF Begin, Advance, Finish, orchestratorVars
<1>5. \A d \in Diags : /\ occurrences'[d] > 0 => occurrences[d] > 0 /\ seen'[d] = seen[d]
                       /\ seen'[d] = seen[d] \/ seen'[d] = 0
  <2>1. CASE UNCHANGED <<occurrences, seen>>
      BY <2>1
  <2>2. CASE /\ occurrences' = [occurrences EXCEPT ![DiagOf[o]] = 0]
             /\ seen' = [seen EXCEPT ![DiagOf[o]] = 0]
      BY <1>2, <2>2
  <2> QED BY <2>1, <2>2 DEF Begin, Advance, Finish
<1> HIDE DEF i
<1> QED
    BY <1>3, <1>4, <1>5, OrderEnqueued DEF i

\* What waits at the head of the queue is a report of an operation that is given up.
LEMMA OrderRotates ==
    ASSUME LanesInv, InOrder, Rotate, DiagOf' = DiagOf
    PROVE  InOrder'
<1>1. ReportsTypes /\ SnapshotsInOrder /\ NamedBefore /\ BlockedOnly
    BY DEF LanesInv, InOrder
<1>2. /\ queue # <<>> /\ MustWait(Head(queue)) /\ queue' = Rotated /\ flush' = Pass
      /\ UNCHANGED <<occurrences, seen, progress, lane, nextSeq, stored, entry, clock>>
    BY DEF Rotate, Taking, senderVars, orchestratorVars
<1>3. flush'.item = Nothing /\ flush'.blocked = flush.blocked
    BY <1>1, <1>2, FlushIs
<1>4. queue \in Seq(Items) /\ Head(queue) = queue[1] /\ queue[1] \in Items /\ Len(queue) \in Nat \ {0}
    BY <1>1, <1>2, TailIs DEF ReportsTypes
<1>5. 1 \in DOMAIN queue /\ DOMAIN queue = 1..Len(queue)
    BY <1>4
<1>6. IsOp(queue[1])
  <2> SUFFICES ASSUME ~IsOp(queue[1]) PROVE FALSE
      OBVIOUS
  <2>1. PICK i \in DOMAIN queue : ~IsOp(queue[i]) /\ ~(queue[1].seq <= queue[i].seq)
      BY <1>2, <1>4 DEF MustWait, Earliest
  <2>2. queue[1].seq \in Nat /\ queue[i].seq \in Nat
      BY <1>4, <1>5, <2>1, QueueIs
  <2>3. i # 1
      BY <2>1, <2>2
  <2>4. 1 < i
      BY <1>5, <2>3
  <2>5. queue[1].seq < queue[i].seq
      BY <1>1, <1>5, <2>1, <2>4 DEF SnapshotsInOrder
  <2> QED BY <2>1, <2>2, <2>5
<1>7. lane[queue[1].op].quarantined
  <2> DEFINE d == DiagOf[queue[1].op]
  <2>1. queue[1].op \in Repairs /\ d \in Diags
      BY <1>1, <1>4, <1>6, ItemIs DEF OpReports, ReportsTypes, CaseSet, DiagOf
  <2>2. ~(pending[d] > 0)
    <3> SUFFICES ASSUME pending[d] > 0 PROVE FALSE
        OBVIOUS
    <3>1. PICK i \in DOMAIN queue : ~IsOp(queue[i]) /\ queue[i].diags[d] > 0
        BY <2>1, PendingIs
    <3>2. i # 1
        BY <1>6, <3>1
    <3>3. 1 < i
        BY <1>5, <3>2
    <3>4. queue[i].diags[d] = 0
        BY <1>1, <1>5, <1>6, <3>1, <3>3 DEF NamedBefore
    <3> QED BY <3>1, <3>4
  <2>3. queue[1].op \in flush.blocked \/ lane[queue[1].op].quarantined
      BY <1>2, <1>4, <1>6, <2>2 DEF MustWait
  <2> QED BY <1>1, <2>3 DEF BlockedOnly
<1>8. \A o \in flush'.blocked : lane'[o].quarantined
    BY <1>1, <1>2, <1>3 DEF BlockedOnly
<1>9. \A o \in Repairs : lane[o].quarantined => lane'[o].quarantined
    BY <1>2
<1>10. lane'[queue[1].op].quarantined
    BY <1>2, <1>7
<1> QED
    BY <1>2, <1>3, <1>6, <1>8, <1>9, <1>10, OrderRotated

\* What is taken from the queue is no report of an operation that is given up.
LEMMA OrderTakes ==
    ASSUME LanesInv, InOrder, Take, DiagOf' = DiagOf
    PROVE  InOrder'
<1>1. ReportsTypes /\ TimesKept
    BY DEF LanesInv, InOrder
<1>2. /\ queue # <<>> /\ ~MustWait(Head(queue)) /\ flush' = [flush EXCEPT !.item = Head(queue)]
      /\ UNCHANGED <<occurrences, seen, progress, queue, lane, nextSeq, entry, clock, stored>>
    BY DEF Take, Taking, senderVars, orchestratorVars
<1>3. queue \in Seq(Items) /\ Head(queue) = queue[1] /\ queue[1] \in Items /\ Len(queue) \in Nat \ {0}
    BY <1>1, <1>2, TailIs DEF ReportsTypes
<1>4. 1 \in DOMAIN queue
    BY <1>3
<1>5. flush'.item = queue[1] /\ flush'.blocked = flush.blocked
    BY <1>1, <1>2, <1>3, FlushIs
<1>6. FreshAt(queue[1], clock, entry)
    BY <1>1, <1>4 DEF TimesKept
<1>7. IsOp(queue[1]) => ~lane[queue[1].op].quarantined
    BY <1>2, <1>3 DEF MustWait
<1>8. \A o \in Repairs : stored[o] <= stored'[o] /\ stored'[o] \in 0..Last
    BY <1>1, <1>2, ReportsAssumptions DEF ReportsTypes
<1> QED
    BY <1>2, <1>5, <1>6, <1>7, <1>8, OrderQuiet

\* What is delivered leaves the queue, unless it was superseded there.
LEMMA OrderSent ==
    ASSUME LanesInv, InOrder, Sent, ~seenAgain', DiagOf' = DiagOf
    PROVE  InOrder'
<1> DEFINE item == flush.item
<1>1. ReportsTypes /\ BlockedOnly /\ HeadSent
    BY DEF LanesInv, InOrder
<1>2. /\ item # Nothing /\ item \in Items /\ Receive(item) /\ flush' = Pass
      /\ UNCHANGED <<occurrences, seen, progress, nextSeq>>
    BY <1>1 DEF Sent, ReportsTypes, FlushSet, senderVars
<1>3. flush'.item = Nothing /\ flush'.blocked = flush.blocked
    BY <1>1, <1>2, FlushIs
<1>4. CASE ~AtHead
  <2>1. UNCHANGED <<queue, lane>>
      BY <1>4 DEF Sent
  <2>2. flush.item = item
      OBVIOUS
  <2> HIDE DEF item
  <2> QED BY <1>2, <1>3, <2>1, <2>2, OrderTaken
<1>5. CASE AtHead
  <2>1. queue # <<>> /\ queue' = Tail(queue) /\ SameKey(Head(queue), item)
      BY <1>5 DEF Sent, AtHead
  <2>2. Head(queue) = queue[1]
      BY <1>1, <2>1, TailIs DEF ReportsTypes
  <2>3. IF IsOp(item) THEN queue[1] = item ELSE ~IsOp(queue[1]) /\ queue[1].diags = item.diags
      BY <2>1, <2>2 DEF SameKey
  <2>4. \A o \in Repairs : lane'[o].quarantined <=> lane[o].quarantined
    <3>1. CASE ~IsOp(item)
      <4>1. lane' = lane
          BY <1>5, <3>1 DEF Sent
      <4> QED BY <4>1
    <3>2. CASE IsOp(item)
      <4>1. lane' = [lane EXCEPT ![item.op] = WithOneLess(lane[item.op])]
          BY <1>5, <3>2 DEF Sent
      <4>2. item.op \in Repairs /\ ~lane[item.op].quarantined /\ lane[item.op] \in Lane
          BY <1>1, <1>2, <3>2, ItemIs DEF OpReports, BlockedOnly, ReportsTypes
      <4>3. ~WithOneLess(lane[item.op]).quarantined
        <5>1. CASE lane[item.op].pending = 1 /\ lane[item.op].terminal
          <6>1. WithOneLess(lane[item.op]) = NotAdmitted
              BY <5>1 DEF WithOneLess
          <6> QED BY <6>1 DEF NotAdmitted
        <5>2. CASE ~(lane[item.op].pending = 1 /\ lane[item.op].terminal)
          <6>1. WithOneLess(lane[item.op]).quarantined = lane[item.op].quarantined
              BY <4>2, <5>2, OneLess
          <6> QED BY <4>2, <6>1
        <5> QED BY <5>1, <5>2
      <4>4. lane'[item.op] = WithOneLess(lane[item.op]) /\ \A p \in Repairs \ {item.op} : lane'[p] = lane[p]
          BY <1>1, <4>1, <4>2 DEF ReportsTypes
      <4>5. ~lane'[item.op].quarantined
          BY <4>3, <4>4
      <4> HIDE DEF item
      <4> TAKE o \in Repairs
      <4>6. CASE o = item.op
          BY <4>2, <4>5, <4>6
      <4>7. CASE o # item.op
        <5>1. lane'[o] = lane[o]
            BY <4>4, <4>7
        <5> QED BY <5>1
      <4> QED BY <4>6, <4>7
    <3> QED BY <3>1, <3>2
  <2>5. flush.item = item
      OBVIOUS
  <2> HIDE DEF item
  <2> QED BY <1>2, <1>3, <2>1, <2>3, <2>4, <2>5, OrderTail
<1> QED
    BY <1>4, <1>5

\* What is refused is a report of an operation, which is given up.
LEMMA OrderRefused ==
    ASSUME LanesInv, InOrder, Refused, DiagOf' = DiagOf
    PROVE  InOrder'
<1> DEFINE item == flush.item
           o == item.op
<1>1. ReportsTypes /\ BlockedOnly /\ HeadSent
    BY DEF LanesInv, InOrder
<1>2. /\ item # Nothing /\ item \in Items /\ IsOp(item) /\ NotSent(TRUE)
      /\ UNCHANGED <<occurrences, seen, progress, nextSeq, stored, entry, clock>>
    BY <1>1 DEF Refused, Accepts, NotSent, ReportsTypes, FlushSet, senderVars, orchestratorVars
<1>3. o \in Repairs /\ queue[1] = item /\ queue # <<>>
    BY <1>1, <1>2, ItemIs DEF OpReports, HeadSent
<1>4. Head(queue) = queue[1]
    BY <1>1, <1>3, TailIs DEF ReportsTypes
<1>5. AtHead
    BY <1>2, <1>3, <1>4 DEF AtHead, SameKey
<1>6. /\ queue' = Rotated
      /\ flush' = [Pass EXCEPT !.blocked = Pass.blocked \cup {o}]
      /\ lane' = [lane EXCEPT ![o].quarantined = TRUE]
    BY <1>2, <1>5 DEF NotSent
<1>7. flush'.item = Nothing /\ flush'.blocked = flush.blocked \cup {o}
  <2>1. Pass.blocked = flush.blocked /\ flush.blocked \cup {o} \in SUBSET Repairs
      BY <1>1, <1>3, FlushIs DEF ReportsTypes, FlushSet
  <2> HIDE DEF o
  <2> QED BY <1>1, <1>6, <2>1, FlushIs
<1>8. lane'[o].quarantined /\ \A p \in Repairs \ {o} : lane'[p] = lane[p]
  <2>1. lane[o] \in Lane
      BY <1>1, <1>3 DEF ReportsTypes
  <2> HIDE DEF o
  <2> QED BY <1>1, <1>3, <1>6, <2>1 DEF ReportsTypes, Lane
<1>9. \A p \in Repairs : lane[p].quarantined => lane'[p].quarantined
  <2> HIDE DEF o
  <2> TAKE p \in Repairs
  <2>1. CASE p = o
      BY <1>8, <2>1
  <2>2. CASE p # o
    <3>1. lane'[p] = lane[p]
        BY <1>8, <2>2
    <3> QED BY <3>1
  <2> QED BY <2>1, <2>2
<1>10. \A p \in flush'.blocked : lane'[p].quarantined
  <2>1. flush.blocked \subseteq Repairs /\ \A p \in flush.blocked : lane[p].quarantined
      BY <1>1 DEF BlockedOnly, ReportsTypes, FlushSet
  <2> HIDE DEF o
  <2> QED BY <1>7, <1>8, <1>9, <2>1
<1>11. IsOp(queue[1]) /\ lane'[queue[1].op].quarantined
    BY <1>2, <1>3, <1>8
<1> HIDE DEF o, item
<1> QED
    BY <1>2, <1>3, <1>6, <1>7, <1>9, <1>10, <1>11, OrderRotated

LEMMA OrderInit == ReportsInit => OrderInv
<1> SUFFICES ASSUME ReportsInit PROVE OrderInv
    OBVIOUS
<1>1. LanesInv /\ ReportsTypes
    BY LanesInit DEF LanesInv
<1>2. /\ queue = <<>> /\ flush = NoFlush /\ clock = 1
      /\ \A o \in Repairs : progress[o] = 0 /\ stored[o] = 0
      /\ \A d \in Diags : occurrences[d] = 0 /\ seen[d] = 0 /\ entry[d] = NoEntry
    BY DEF ReportsInit
<1>3. DOMAIN queue = {}
    BY <1>2
<1>4. flush.item = Nothing /\ flush.blocked = {}
    BY <1>1, <1>2, FlushIs
<1>5. SnapshotsInOrder /\ NamedBefore /\ BlockedOnly
    BY <1>3, <1>4 DEF SnapshotsInOrder, NamedBefore, BlockedOnly
<1>6. StatesInOrder
  <2>1. \A o \in Repairs : (stored[o] + 1)..progress[o] = {}
      BY <1>2
  <2> QED BY <1>3, <2>1 DEF StatesInOrder
<1>7. FirstBacked
    BY <1>2, <1>3 DEF FirstBacked
<1>8. TimesKept
    BY <1>2, <1>3, <1>4 DEF TimesKept, NoEntry
<1> QED
    BY <1>1, <1>5, <1>6, <1>7, <1>8 DEF OrderInv, InOrder

\* Every step keeps the order.
LEMMA OrderStep == OrderInv /\ [ReportsNext]_reportsVars => OrderInv'
<1> SUFFICES ASSUME OrderInv, [ReportsNext]_reportsVars PROVE OrderInv'
    OBVIOUS
<1>1. LanesInv /\ ReportsTypes
    BY DEF OrderInv, LanesInv
<1>2. LanesInv'
    BY <1>1, LanesStep
<1> SUFFICES ASSUME Undisturbed' PROVE InOrder'
    BY <1>2 DEF OrderInv
<1>3. Undisturbed /\ DiagOf' = DiagOf
    BY <1>1, DisturbedStays
<1>4. InOrder /\ ~seenAgain' /\ ~case.fails
    BY <1>3 DEF OrderInv, Undisturbed
<1>5. BlockedOnly /\ TimesKept
    BY <1>4 DEF InOrder
<1>6. \A o \in Repairs : stored[o] \in 0..Last /\ stored[o] <= stored[o]
    BY <1>1, ReportsAssumptions DEF ReportsTypes
\* While the flush stays where it is, or ends.
<1>7. ASSUME UNCHANGED <<occurrences, seen, progress, queue, lane, nextSeq, entry, clock, stored>>,
             flush'.blocked \subseteq flush.blocked, flush'.item \in {flush.item, Nothing}
      PROVE  InOrder'
  <2>1. flush'.item # Nothing => /\ FreshAt(flush'.item, clock, entry)
                                 /\ IsOp(flush'.item) => ~lane[flush'.item.op].quarantined
      BY <1>5, <1>7 DEF BlockedOnly, TimesKept
  <2>2. \A o \in Repairs : stored[o] <= stored'[o] /\ stored'[o] \in 0..Last
      BY <1>6, <1>7
  <2> QED BY <1>1, <1>3, <1>4, <1>7, <2>1, <2>2, OrderQuiet
<1>8. CASE CoordinatorSteps
    BY <1>1, <1>3, <1>4, <1>8, OrderCoordinator DEF CoordinatorSteps
<1>9. ASSUME NEW d \in Diags, Observe(d) PROVE InOrder'
  <2> DEFINE occ == [occurrences EXCEPT ![d] = @ + 1]
  <2>1. Observed({d}, occ)
      BY <1>9 DEF Observe
  <2>2. occ \in [Diags -> Nat] /\ \A e \in Diags : occ[e] > 0 => e \in {d} \/ occurrences[e] > 0
      BY <1>1 DEF ReportsTypes
  <2> HIDE DEF occ
  <2> QED BY <1>1, <1>3, <1>4, <2>1, <2>2, OrderObserved
<1>10. ASSUME NEW these \in SUBSET Diags, InspectAnew(these) PROVE InOrder'
  <2> DEFINE occ == [d \in Diags |-> IF d \in these THEN occurrences[d] + 1
                                     ELSE IF d \in stuck THEN occurrences[d] ELSE 0]
  <2>1. Observed(these, occ)
      BY <1>10 DEF InspectAnew
  <2>2. occ \in [Diags -> Nat] /\ \A e \in Diags : occ[e] > 0 => e \in these \/ occurrences[e] > 0
      BY <1>1 DEF ReportsTypes
  <2> HIDE DEF occ
  <2> QED BY <1>1, <1>3, <1>4, <2>1, <2>2, OrderObserved
<1>11. CASE StartFlush
  <2>1. Len(queue) \in Nat /\ flush' = [NoFlush EXCEPT !.left = Len(queue)]
      BY <1>1, <1>11 DEF StartFlush, ReportsTypes
  <2>2. flush'.item = Nothing /\ flush'.blocked = {}
      BY <1>1, <2>1, FlushIs
  <2> QED BY <1>7, <1>11, <2>2 DEF StartFlush, senderVars, orchestratorVars
<1>12. CASE EndFlush
  <2>1. flush'.item = Nothing /\ flush'.blocked = {}
      BY <1>1, <1>12, FlushIs DEF EndFlush
  <2> QED BY <1>7, <1>12, <2>1 DEF EndFlush, senderVars, orchestratorVars
<1>13. CASE Rotate
    BY <1>1, <1>3, <1>4, <1>13, OrderRotates
<1>14. CASE Take
    BY <1>1, <1>3, <1>4, <1>14, OrderTakes
<1>15. CASE Sent
    BY <1>1, <1>3, <1>4, <1>15, OrderSent
<1>16. CASE Refused
    BY <1>1, <1>3, <1>4, <1>16, OrderRefused
<1>17. CASE SendFails
    BY <1>4, <1>17 DEF SendFails
<1>18. CASE Lost
  <2>1. flush.item \in Items /\ Receive(flush.item) /\ UNCHANGED <<senderVars, reporterVars>>
      BY <1>1, <1>18 DEF Lost, ReportsTypes, FlushSet
  <2> DEFINE item == flush.item
  <2>2. item \in Items /\ flush.item = item /\ Receive(item)
      BY <2>1
  <2>3. /\ UNCHANGED <<occurrences, seen, progress, queue, lane, nextSeq>>
        /\ flush'.blocked = flush.blocked /\ flush'.item \in {item, Nothing}
      BY <2>1 DEF senderVars, reporterVars
  <2> HIDE DEF item
  <2> QED BY <1>1, <1>3, <1>4, <2>2, <2>3, OrderTaken
<1>19. ASSUME NEW o \in Requested, RequestRepair(o) PROVE InOrder'
  <2>1. /\ o \in Repairs /\ stored[o] = 0 /\ stored' = [stored EXCEPT ![o] = 1]
        /\ UNCHANGED <<occurrences, seen, progress, queue, lane, nextSeq, entry, clock, flush>>
      BY <1>19, ReportsAssumptions DEF RequestRepair, senderVars, reporterVars
  <2>2. \A p \in Repairs : stored[p] <= stored'[p] /\ stored'[p] \in 0..Last
      BY <1>1, <2>1, ReportsAssumptions DEF ReportsTypes
  <2>3. flush'.item # Nothing => /\ FreshAt(flush'.item, clock, entry)
                                 /\ IsOp(flush'.item) => ~lane[flush'.item.op].quarantined
      BY <1>5, <2>1 DEF BlockedOnly, TimesKept
  <2>4. flush'.blocked \subseteq flush.blocked
      BY <2>1
  <2> QED BY <1>1, <1>3, <1>4, <2>1, <2>2, <2>3, <2>4, OrderQuiet
<1>20. CASE UNCHANGED reportsVars
    BY <1>7, <1>20 DEF reportsVars, senderVars, reporterVars, orchestratorVars
<1> QED
    BY <1>8, <1>9, <1>10, <1>11, <1>12, <1>13, <1>14, <1>15, <1>16, <1>17, <1>18, <1>19, <1>20
    DEF ReportsNext, Inspection, Reporter

\* What the reporter counts is what it queues, an outcome is counted once; and while
\* nothing is seen again and no send fails, no report is sent before the one that leads
\* to it, nor the first before the orchestrator has the diagnostic (reporter.go:72,
\* Enqueue and Flush; api/recovery.go, persistReportedOperation).
THEOREM ReportsCorrect == ReportsSpec => []ReportsKept
<1>1. ReportsInit => OrderInv
    BY OrderInit
<1>2. OrderInv /\ [ReportsNext]_reportsVars => OrderInv'
    BY OrderStep
<1>3. OrderInv => ReportsKept
    BY OrderImplies
<1> QED
    BY <1>1, <1>2, <1>3, PTL DEF ReportsSpec
-----------------------------------------------------------------------------
(* RepairFiles.tla: what a repair says of itself at its end is so.  The invariant says, of  *)
(* every file inspected and nobody else wrote to, that it is as inspected or as the repair  *)
(* leaves it, by where the repair is, and how far the rollback has come.                    *)

\* The values of every variable.
ManifestStates == {"none", "snapshotted", "applying", "validating", "succeeded", "rolling_back", "rolled_back", "rollback_failed"}
Stations == {"idle", "look", "capture", "given_up", "snapshotted", "recheck", "act", "validate",
             "rolling_back", "preflight", "restore", "done"}
Repairs4 == {"none", "bundle", "runtime", "prune", "temp"}
Entries  == {e \in [kind : {"absent", "file", "link", "directory"}, ino : Nat, data : Nat] : e.kind = "absent" => e = Vacant}
Captured == [path : Roles, was : Entries]
JobSet == [at : Stations, i : Nat, does : Repairs4, wrong : BOOLEAN, left : SUBSET Nat]
ManifestSet == [state : ManifestStates, does : Repairs4, saved : Seq(Captured)]
GivenSet == [files : [Roles -> {0, 1, 2}], wanted : BOOLEAN, materialize : BOOLEAN,
             edits : SUBSET Disturbances, count : Nat, crashes : Nat]
RepairTypes ==
    /\ onDisk \in [Roles -> Entries] /\ inode \in Nat
    /\ job \in JobSet /\ manifest \in ManifestSet /\ candidate \in Seq(Captured)
    /\ theirs \in [Roles -> Entries \cup {NotEdited}] /\ disturbed \subseteq Roles
    /\ given \in GivenSet

\* Where the coordinator is, by what the manifest says.
PhaseInv ==
    /\ job.at \in {"idle", "look", "capture", "given_up"} => manifest.state = "none"
    /\ job.at = "snapshotted" => manifest.state = "snapshotted"
    /\ job.at \in {"recheck", "act"} => manifest.state = "applying"
    /\ job.at = "validate" => manifest.state = "validating"
    /\ job.at = "rolling_back" => manifest.state \in {"applying", "validating"}
    /\ job.at \in {"preflight", "restore"} => manifest.state = "rolling_back"
    /\ job.at = "done" => manifest.state \in {"none", "snapshotted", "succeeded", "rolled_back", "rollback_failed"}
    /\ job.at \in {"snapshotted", "recheck", "act", "validate"} => manifest.does = job.does
    /\ job.at \in {"look", "capture", "snapshotted", "recheck", "act"} => job.does # "none"
    /\ manifest.state # "none" => manifest.does # "none"

\* The files of the candidate.
Includes(p) == \E i \in DOMAIN candidate : candidate[i].path = p
IsCert(does) == does \in {"bundle", "runtime"}
PathsInv ==
    /\ \A i, j \in DOMAIN candidate : candidate[i].path = candidate[j].path => i = j
    /\ job.at = "look" =>
          /\ job.i \in 1..(Len(Looked) + 1)
          /\ \A i \in DOMAIN candidate : \E k \in 1..(job.i - 1) : candidate[i].path = Looked[k]
          /\ IsCert(job.does) => \A k \in 1..(job.i - 1) : Includes(Looked[k])
    /\ job.at = "capture" /\ IsCert(job.does) => \A p \in {"crt", "key", "plain"} : Includes(p)
    /\ manifest.state # "none" /\ IsCert(manifest.does) => \A p \in {"crt", "key", "plain"} : Includes(p)
    /\ job.at \in {"idle", "look"} => manifest.saved = <<>>
    /\ job.at = "capture" => job.i = Len(manifest.saved) + 1
    /\ Len(manifest.saved) <= Len(candidate)
    /\ \A i \in DOMAIN manifest.saved : manifest.saved[i].path = candidate[i].path

\* What is on the disk, where nobody else was.
Unspoiled(p) == theirs[p] = NotEdited
Touched(p) ==
    CASE job.does \in {"prune", "temp"} -> onDisk[p] = Vacant
      [] job.does = "bundle" -> onDisk[p].kind = "file" /\ onDisk[p].data = 2
      [] OTHER -> Unspoiled("crt") => InStep("crt", "plain")
ForthInv ==
    /\ manifest.state \notin {"rolling_back", "rolled_back", "rollback_failed"} =>
          \A p \in Roles : Unspoiled(p) \/ onDisk[p] = theirs[p] \/ p \in late
    /\ job.at \in {"look", "capture", "snapshotted", "recheck"} =>
          \A i \in DOMAIN candidate : Unspoiled(candidate[i].path) => AsInspected(i)
    /\ job.at = "act" =>
          /\ job.left \subseteq ToTouch
          /\ \A i \in DOMAIN candidate : Unspoiled(candidate[i].path) =>
                /\ i \notin ToTouch \ job.left => AsInspected(i)
                /\ i \in ToTouch \ job.left => Touched(candidate[i].path)
    /\ manifest.state \in {"validating", "succeeded"} /\ (\A p \in Roles : Unspoiled(p)) =>
          \A i \in DOMAIN manifest.saved : AsIntended(Saved(i).path)

\* What the rollback has put back.
IsBack(i) == onDisk[Saved(i).path].kind = Saved(i).was.kind /\ onDisk[Saved(i).path].data = Saved(i).was.data
BackInv ==
    /\ job.at = "restore" => job.i <= Len(manifest.saved)
    /\ job.at = "restore" =>
          \A i \in DOMAIN manifest.saved : i > job.i /\ ~job.wrong /\ Saved(i).path \notin disturbed => IsBack(i)
    /\ manifest.state = "rolled_back" =>
          \A i \in DOMAIN manifest.saved : Saved(i).path \notin disturbed => IsBack(i)

\* Only to a file that is inspected others leave what counts.
OthersInv == \A p \in Roles : Unspoiled(p) \/ Includes(p)

\* What a file is aimed at with: nobody else has written to it since, or late.
Loads(a) ==
    CASE job.does \in {"prune", "temp"} -> TRUE
      [] job.does = "bundle" -> a.data = 2
      [] OTHER -> Unspoiled("crt") => onDisk["crt"].kind = "file" /\ onDisk["crt"].data = a.data
AimInv ==
    /\ job.at # "act" => aimed = {}
    /\ \A a \in aimed : /\ a.i \in job.left /\ a.data \in Nat /\ Loads(a)
                        /\ Unspoiled(candidate[a.i].path) \/ candidate[a.i].path \in late

RepairInv == RepairTypes /\ PhaseInv /\ PathsInv /\ ForthInv /\ BackInv

\* The files looked at, each once.
LEMMA LookedIs ==
    /\ Looked \in Seq(Roles) /\ Len(Looked) \in Nat /\ DOMAIN Looked = 1..Len(Looked)
    /\ \A k, l \in 1..Len(Looked) : Looked[k] = Looked[l] => k = l
    /\ IsCert(job.does) => \A p \in {"crt", "key", "plain"} : \E k \in 1..Len(Looked) : Looked[k] = p
<1>1. CASE job.does = "prune"
  <2>1. Looked = <<"vhost", "link", "auth", "crt", "key", "plain">>
      BY <1>1 DEF Looked, OrphanFiles
  <2> QED BY <1>1, <2>1 DEF Roles, IsCert
<1>2. CASE job.does = "temp"
  <2>1. Looked = <<"temp">>
      BY <1>2 DEF Looked
  <2> QED BY <1>2, <2>1 DEF Roles, IsCert
<1>3. CASE job.does \notin {"prune", "temp"}
  <2>1. Looked = <<"crt", "key", "plain">>
      BY <1>3 DEF Looked, BundleFiles
  <2>2. Looked \in Seq(Roles) /\ Len(Looked) = 3 /\ Looked[1] = "crt" /\ Looked[2] = "key" /\ Looked[3] = "plain"
      BY <2>1 DEF Roles
  <2> QED BY <2>2
<1> QED
    BY <1>1, <1>2, <1>3

\* The fields of the job and of the manifest after a move.
LEMMA Moves ==
    ASSUME RepairTypes
    PROVE  /\ \A x \in Stations : GoTo(x) =>
                  /\ job' \in JobSet /\ job'.at = x /\ job'.i = 1
                  /\ job'.does = job.does /\ job'.wrong = job.wrong /\ job'.left = job.left
           /\ \A x \in Stations : GiveUpAs(x) =>
                  job' \in JobSet /\ job'.at = x /\ job'.i = job.i /\ job'.does = job.does
           /\ NextFile => /\ job' \in JobSet /\ job'.at = job.at /\ job'.i = job.i + 1
                          /\ job'.does = job.does /\ job'.left = job.left
           /\ \A x \in ManifestStates : Enters(x) =>
                  manifest' \in ManifestSet /\ manifest'.state = x /\ manifest'.does = manifest.does /\ manifest'.saved = manifest.saved
<1>1. job \in JobSet /\ manifest \in ManifestSet
    BY DEF RepairTypes
<1>2. ASSUME NEW x \in Stations, GoTo(x)
      PROVE  /\ job' \in JobSet /\ job'.at = x /\ job'.i = 1
             /\ job'.does = job.does /\ job'.wrong = job.wrong /\ job'.left = job.left
    BY <1>1, <1>2 DEF GoTo, JobSet
<1>3. ASSUME NEW x \in Stations, GiveUpAs(x)
      PROVE  job' \in JobSet /\ job'.at = x /\ job'.i = job.i /\ job'.does = job.does
    BY <1>1, <1>3 DEF GiveUpAs, JobSet
<1>4. ASSUME NextFile
      PROVE  /\ job' \in JobSet /\ job'.at = job.at /\ job'.i = job.i + 1
             /\ job'.does = job.does /\ job'.left = job.left
    BY <1>1, <1>4 DEF NextFile, JobSet
<1>5. ASSUME NEW x \in ManifestStates, Enters(x)
      PROVE  manifest' \in ManifestSet /\ manifest'.state = x /\ manifest'.does = manifest.does /\ manifest'.saved = manifest.saved
    BY <1>1, <1>5 DEF Enters, ManifestSet
<1> QED
    BY <1>2, <1>3, <1>4, <1>5

\* The first steps of a job: nothing, or what a manifest that is not there has.
LEMMA Beginnings ==
    /\ JobIdle \in JobSet /\ JobIdle.at = "idle" /\ JobIdle.i = 1 /\ JobIdle.does = "none"
    /\ NoManifestYet \in ManifestSet /\ NoManifestYet.state = "none" /\ NoManifestYet.saved = <<>> /\ NoManifestYet.does = "none"
    /\ Vacant \in Entries /\ NotEdited \notin Entries
    /\ Unedited \in [Roles -> Entries \cup {NotEdited}] /\ \A p \in Roles : Unedited[p] = NotEdited
<1>1. JobIdle \in JobSet /\ JobIdle.at = "idle" /\ JobIdle.i = 1 /\ JobIdle.does = "none"
    BY DEF JobIdle, JobSet, Stations, Repairs4
<1>2. NoManifestYet \in ManifestSet /\ NoManifestYet.state = "none" /\ NoManifestYet.saved = <<>> /\ NoManifestYet.does = "none"
    BY DEF NoManifestYet, ManifestSet, ManifestStates, Repairs4
<1>3. Vacant \in Entries /\ NotEdited \notin Entries
    BY DEF Vacant, NotEdited, Entries
<1>4. Unedited \in [Roles -> Entries \cup {NotEdited}] /\ \A p \in Roles : Unedited[p] = NotEdited
    BY DEF Unedited
<1> QED
    BY <1>1, <1>2, <1>3, <1>4

\* What is a file that was inspected, or captured.
LEMMA CapturedAre ==
    ASSUME RepairTypes
    PROVE  /\ DOMAIN candidate = 1..Len(candidate) /\ Len(candidate) \in Nat
           /\ DOMAIN manifest.saved = 1..Len(manifest.saved) /\ Len(manifest.saved) \in Nat
           /\ \A i \in DOMAIN candidate : candidate[i] \in Captured /\ candidate[i].path \in Roles /\ candidate[i].was \in Entries
           /\ \A i \in DOMAIN manifest.saved : Saved(i) \in Captured /\ Saved(i).path \in Roles /\ Saved(i).was \in Entries
<1>1. candidate \in Seq(Captured) /\ manifest.saved \in Seq(Captured)
    BY DEF RepairTypes, ManifestSet
<1>2. \A c \in Captured : c.path \in Roles /\ c.was \in Entries
    BY DEF Captured
<1>3. \A s \in Seq(Captured) : DOMAIN s = 1..Len(s) /\ Len(s) \in Nat /\ \A i \in DOMAIN s : s[i] \in Captured
    OBVIOUS
<1> QED
    BY <1>1, <1>2, <1>3 DEF Saved

\* While nobody writes, the files are what they were.
LEMMA SameFiles ==
    ASSUME UNCHANGED <<onDisk, theirs, candidate>>
    PROVE  /\ \A p \in Roles : Unspoiled(p)' <=> Unspoiled(p)
           /\ \A i : AsInspected(i)' <=> AsInspected(i)
           /\ \A p, q : InStep(p, q)' <=> InStep(p, q)
           /\ \A p : Includes(p)' <=> Includes(p)
           /\ (manifest.saved' = manifest.saved =>
                 \A i \in DOMAIN manifest.saved : IsBack(i)' <=> IsBack(i))
           /\ manifest'.does = manifest.does => \A p : AsIntended(p)' <=> AsIntended(p)
<1>1. \A p \in Roles : Unspoiled(p)' <=> Unspoiled(p)
    BY DEF Unspoiled
<1>2. \A i : AsInspected(i)' <=> AsInspected(i)
    BY DEF AsInspected
<1>3. \A p, q : InStep(p, q)' <=> InStep(p, q)
    BY DEF InStep
<1>4. \A p : Includes(p)' <=> Includes(p)
    BY DEF Includes
<1>5. manifest.saved' = manifest.saved => \A i \in DOMAIN manifest.saved : IsBack(i)' <=> IsBack(i)
    BY DEF IsBack, Saved
<1>6. ASSUME manifest'.does = manifest.does, NEW p PROVE AsIntended(p)' <=> AsIntended(p)
  <2>1. (Present("plain")' <=> Present("plain")) /\ onDisk'[p] = onDisk[p]
      BY DEF Present
  <2>2. CASE manifest.does \in {"prune", "temp"}
      BY <1>6, <2>1, <2>2 DEF AsIntended
  <2>3. CASE manifest.does = "bundle"
      BY <1>3, <1>6, <2>1, <2>3 DEF AsIntended
  <2>4. CASE manifest.does \notin {"prune", "temp", "bundle"}
      BY <1>3, <1>6, <2>1, <2>4 DEF AsIntended
  <2> QED BY <2>2, <2>3, <2>4
<1> QED
    BY <1>1, <1>2, <1>3, <1>4, <1>5, <1>6

\* Steps that only move on.
LEMMA InspectKeeps ==
    ASSUME RepairInv, InspectFiles
    PROVE  RepairInv'
<1>1. /\ RepairTypes /\ PhaseInv /\ PathsInv /\ ForthInv /\ BackInv
      /\ job.at = "idle" /\ manifest.state = "none" /\ candidate = <<>> /\ Proposed \in {"bundle", "runtime", "temp", "prune"}
    BY DEF RepairInv, InspectFiles, Proposed, CertRepair
<1>2. UNCHANGED <<onDisk, inode, candidate, manifest, theirs, late, disturbed, given>>
    BY DEF InspectFiles, WorkVars, Beside
<1>3. /\ job' \in JobSet /\ job'.at = "look" /\ job'.i = 1 /\ job'.does = Proposed
    BY <1>1, Beginnings DEF InspectFiles, JobSet, Stations, Repairs4
<1>4. RepairTypes'
    BY <1>1, <1>2, <1>3 DEF RepairTypes
<1>5. PhaseInv'
    BY <1>1, <1>2, <1>3 DEF PhaseInv
<1>6. PathsInv'
  <2>1. Len(Looked)' \in Nat
      BY LookedIs, <1>1, <1>2, <1>3 DEF Looked, OrphanFiles, BundleFiles
  <2>2. DOMAIN candidate' = {} /\ manifest'.saved = <<>> /\ manifest'.state = "none" /\ Len(candidate') = 0
      BY <1>1, <1>2 DEF PathsInv
  <2> QED BY <1>1, <1>2, <1>3, <2>1, <2>2 DEF PathsInv
<1>7. ForthInv'
    BY <1>1, <1>2, <1>3, SameFiles DEF ForthInv
<1>8. BackInv'
    BY <1>1, <1>2, <1>3 DEF BackInv
<1> QED
    BY <1>4, <1>5, <1>6, <1>7, <1>8 DEF RepairInv

\* A step of a job that has not begun to touch a file, or has come to its end.
LEMMA TurnKeeps ==
    ASSUME RepairInv, UNCHANGED <<onDisk, inode, candidate, theirs, late, disturbed>>, given' \in GivenSet,
           job' \in JobSet, manifest' \in ManifestSet, manifest'.saved = manifest.saved, PhaseInv',
           job'.at \notin {"idle", "look", "act", "restore"},
           job'.at = "capture" => job'.i = 1 /\ manifest.saved = <<>> /\ (IsCert(job'.does) => \A p \in {"crt", "key", "plain"} : Includes(p)),
           job'.at \in {"capture", "snapshotted", "recheck"} =>
               \A i \in DOMAIN candidate : Unspoiled(candidate[i].path) => AsInspected(i),
           manifest'.state # "none" /\ IsCert(manifest'.does) => \A p \in {"crt", "key", "plain"} : Includes(p),
           manifest'.state \notin {"rolling_back", "rolled_back", "rollback_failed"} =>
               manifest.state \notin {"rolling_back", "rolled_back", "rollback_failed"},
           manifest'.state \in {"validating", "succeeded"} /\ (\A p \in Roles : Unspoiled(p)) =>
               manifest'.does = manifest.does /\ \A i \in DOMAIN manifest.saved : AsIntended(Saved(i).path),
           manifest'.state = "rolled_back" =>
               \A i \in DOMAIN manifest.saved : Saved(i).path \notin disturbed => IsBack(i)
    PROVE  RepairInv'
<1>1. RepairTypes /\ PhaseInv /\ PathsInv /\ ForthInv /\ BackInv
    BY DEF RepairInv
<1>2. RepairTypes'
    BY <1>1 DEF RepairTypes
<1>3. PathsInv'
    BY <1>1, SameFiles DEF PathsInv
<1>4. ForthInv'
  <2>1. \A i \in DOMAIN candidate' : candidate'[i] = candidate[i] /\ candidate[i].path \in Roles
      BY <1>1, CapturedAre
  <2>2. \A i \in DOMAIN manifest'.saved : Saved(i)' = Saved(i)
      BY DEF Saved
  <2>3. manifest'.state \notin {"rolling_back", "rolled_back", "rollback_failed"} =>
          \A p \in Roles : Unspoiled(p)' \/ onDisk'[p] = theirs'[p] \/ p \in late'
      BY <1>1, SameFiles DEF ForthInv
  <2>4. job'.at \in {"look", "capture", "snapshotted", "recheck"} =>
          \A i \in DOMAIN candidate' : Unspoiled(candidate[i].path)' => AsInspected(i)'
      BY <2>1, SameFiles
  <2>5. ASSUME manifest'.state \in {"validating", "succeeded"}, \A p \in Roles : Unspoiled(p)'
        PROVE  \A i \in DOMAIN manifest'.saved : AsIntended(Saved(i).path)'
    <3>1. \A p \in Roles : Unspoiled(p)
        BY <2>5, SameFiles
    <3>2. manifest'.does = manifest.does /\ \A i \in DOMAIN manifest.saved : AsIntended(Saved(i).path)
        BY <2>5, <3>1
    <3>3. \A p : AsIntended(p)' <=> AsIntended(p)
        BY <3>2, SameFiles
    <3>4. ASSUME NEW i \in DOMAIN manifest'.saved PROVE AsIntended(Saved(i).path)'
      <4>1. AsIntended(Saved(i).path)
          BY <3>2
      <4> QED BY <4>1, <3>3 DEF Saved, AsIntended, InStep, Present
    <3> QED BY <3>4
  <2> QED BY <2>1, <2>3, <2>4, <2>5 DEF ForthInv
<1>5. BackInv'
  <2>1. \A i \in DOMAIN manifest.saved : IsBack(i)' <=> IsBack(i)
      BY SameFiles
  <2> QED BY <2>1 DEF BackInv, Saved
<1> QED
    BY <1>1, <1>2, <1>3, <1>4, <1>5 DEF RepairInv

\* One that gives up before there is a manifest.
LEMMA GivesUpKeeps ==
    ASSUME RepairInv, UNCHANGED <<onDisk, inode, candidate, theirs, late, disturbed>>, given' \in GivenSet,
           job' \in JobSet, manifest' = NoManifestYet, job'.at \in {"given_up", "done"},
           manifest.state = "none"
    PROVE  RepairInv'
<1>1. RepairTypes /\ PhaseInv /\ PathsInv /\ ForthInv /\ BackInv
    BY DEF RepairInv
<1>2. /\ manifest' \in ManifestSet /\ manifest'.state = "none" /\ manifest'.does = "none"
      /\ DOMAIN manifest'.saved = {} /\ Len(manifest'.saved) = 0 /\ Len(candidate) \in Nat
    BY <1>1, Beginnings, CapturedAre
<1>3. RepairTypes' /\ PhaseInv'
    BY <1>1, <1>2 DEF RepairTypes, PhaseInv
<1>4. PathsInv'
    BY <1>1, <1>2, SameFiles DEF PathsInv
<1>5. ForthInv' /\ BackInv'
    BY <1>1, <1>2, SameFiles DEF ForthInv, BackInv
<1> QED
    BY <1>3, <1>4, <1>5 DEF RepairInv

\* The snapshot is begun, and kept.
LEMMA SnapshotTurns ==
    ASSUME RepairInv, Resolve \/ Keep \/ Applying
    PROVE  RepairInv'
<1>1. /\ RepairTypes /\ PhaseInv /\ PathsInv /\ ForthInv /\ BackInv
      /\ UNCHANGED <<onDisk, inode, candidate, theirs, late, disturbed>> /\ given' = given
      /\ given' \in GivenSet /\ manifest \in ManifestSet /\ job \in JobSet
    BY DEF RepairInv, RepairTypes, Resolve, Keep, Applying, Beside
<1>2. CASE Resolve
  <2>1. /\ job.at = "look" /\ ~(job.i <= Len(Looked)) /\ manifest' = manifest /\ manifest.state = "none" /\ manifest.saved = <<>>
        /\ GoTo("capture") \/ GiveUpAs("given_up")
      BY <1>1, <1>2 DEF Resolve, PhaseInv, PathsInv, JobSet
  <2>2. IsCert(job.does) => \A p \in {"crt", "key", "plain"} : Includes(p)
    <3>1. job.i = Len(Looked) + 1
        BY <1>1, <2>1, LookedIs DEF PathsInv
    <3>2. IsCert(job.does) => \A k \in 1..Len(Looked) : Includes(Looked[k])
        BY <1>1, <2>1, <3>1, LookedIs DEF PathsInv
    <3> QED BY <3>2, LookedIs
  <2>3. \A i \in DOMAIN candidate : Unspoiled(candidate[i].path) => AsInspected(i)
      BY <1>1, <2>1 DEF ForthInv
  <2>4. CASE GoTo("capture")
    <3>1. job' \in JobSet /\ job'.at = "capture" /\ job'.i = 1 /\ job'.does = job.does
        BY <1>1, <2>4, Moves DEF Stations
    <3>2. PhaseInv'
        BY <1>1, <2>1, <3>1 DEF PhaseInv
    <3> QED BY <1>1, <2>1, <2>2, <2>3, <3>1, <3>2, TurnKeeps
  <2>5. CASE GiveUpAs("given_up")
    <3>1. job' \in JobSet /\ job'.at = "given_up"
        BY <1>1, <2>5, Moves DEF Stations
    <3>2. PhaseInv'
        BY <1>1, <2>1, <3>1 DEF PhaseInv
    <3> QED BY <1>1, <2>1, <3>1, <3>2, TurnKeeps
  <2> QED BY <2>1, <2>4, <2>5
<1>3. CASE Keep
  <2>1. /\ job.at = "capture" /\ GoTo("snapshotted") /\ manifest' = [manifest EXCEPT !.state = "snapshotted", !.does = job.does]
        /\ manifest.state = "none"
      BY <1>1, <1>3 DEF Keep, PhaseInv
  <2>2. /\ manifest' \in ManifestSet /\ manifest'.state = "snapshotted" /\ manifest'.does = job.does
        /\ manifest'.saved = manifest.saved
      BY <1>1, <2>1 DEF ManifestSet, JobSet, ManifestStates
  <2>3. job' \in JobSet /\ job'.at = "snapshotted" /\ job'.does = job.does
      BY <1>1, <2>1, Moves DEF Stations
  <2>4. PhaseInv'
      BY <1>1, <2>1, <2>2, <2>3 DEF PhaseInv
  <2>5. /\ \A i \in DOMAIN candidate : Unspoiled(candidate[i].path) => AsInspected(i)
        /\ IsCert(job.does) => \A p \in {"crt", "key", "plain"} : Includes(p)
      BY <1>1, <2>1 DEF ForthInv, PathsInv
  <2> QED BY <1>1, <2>1, <2>2, <2>3, <2>4, <2>5, TurnKeeps
<1>4. CASE Applying
  <2>1. job.at = "snapshotted" /\ GoTo("recheck") /\ Enters("applying") /\ manifest.state = "snapshotted" /\ manifest.does = job.does
      BY <1>1, <1>4 DEF Applying, PhaseInv
  <2>2. manifest' \in ManifestSet /\ manifest'.state = "applying" /\ manifest'.does = manifest.does /\ manifest'.saved = manifest.saved
      BY <1>1, <2>1, Moves DEF ManifestStates
  <2>3. job' \in JobSet /\ job'.at = "recheck" /\ job'.does = job.does
      BY <1>1, <2>1, Moves DEF Stations
  <2>4. PhaseInv'
      BY <1>1, <2>1, <2>2, <2>3 DEF PhaseInv
  <2>5. /\ \A i \in DOMAIN candidate : Unspoiled(candidate[i].path) => AsInspected(i)
        /\ IsCert(manifest.does) => \A p \in {"crt", "key", "plain"} : Includes(p)
      BY <1>1, <2>1 DEF ForthInv, PathsInv
  <2> QED BY <1>1, <2>1, <2>2, <2>3, <2>4, <2>5, TurnKeeps
<1> QED
    BY <1>2, <1>3, <1>4

\* What the repair was to leave, it has left, when nothing is left to touch.
LEMMA ActedIntends ==
    ASSUME RepairInv, Acted, \A p \in Roles : Unspoiled(p), NEW i \in DOMAIN manifest.saved
    PROVE  AsIntended(Saved(i).path)
<1>1. /\ RepairTypes /\ PathsInv /\ ForthInv /\ job.at = "act" /\ job.left = {} /\ manifest.does = job.does
      /\ manifest.state = "applying"
    BY DEF RepairInv, Acted, PhaseInv
<1>2. /\ Saved(i).path = candidate[i].path /\ i \in DOMAIN candidate
    BY <1>1, CapturedAre DEF PathsInv, Saved
<1>3. \A j \in DOMAIN candidate : /\ j \notin ToTouch => AsInspected(j)
                                  /\ j \in ToTouch => Touched(candidate[j].path)
    BY <1>1, CapturedAre DEF ForthInv
<1>4. CASE job.does \in {"prune", "temp"}
  <2>1. i \in ToTouch
      BY <1>2, <1>4 DEF ToTouch
  <2> QED BY <1>1, <1>2, <1>3, <1>4, <2>1 DEF Touched, AsIntended
<1>5. CASE IsCert(job.does)
  <2>1. PICK c, k, p \in DOMAIN candidate : candidate[c].path = "crt" /\ candidate[k].path = "key" /\ candidate[p].path = "plain"
      BY <1>1, <1>5 DEF PathsInv, Includes
  <2>2. CASE job.does = "bundle"
    <3>1. c \in ToTouch /\ k \in ToTouch
        BY <2>1, <2>2 DEF ToTouch
    <3>2. onDisk["crt"].kind = "file" /\ onDisk["crt"].data = 2 /\ onDisk["key"].kind = "file" /\ onDisk["key"].data = 2
        BY <1>3, <2>1, <2>2, <3>1 DEF Touched
    <3>3. Present("plain") => onDisk["plain"].kind = "file" /\ onDisk["plain"].data = 2
      <4>1. CASE p \in ToTouch
          BY <1>3, <2>1, <2>2, <4>1 DEF Touched
      <4>2. CASE p \notin ToTouch
        <5>1. candidate[p].was.kind = "absent" /\ AsInspected(p)
            BY <1>3, <2>1, <2>2, <4>2 DEF ToTouch
        <5> QED BY <2>1, <5>1 DEF AsInspected, Present
      <4> QED BY <4>1, <4>2
    <3> QED BY <1>1, <2>2, <3>2, <3>3 DEF AsIntended, InStep
  <2>3. CASE job.does = "runtime"
    <3>1. p \in ToTouch
        BY <2>1, <2>3 DEF ToTouch
    <3>2. Unspoiled("crt") => InStep("crt", "plain")
        BY <1>3, <2>1, <2>3, <3>1 DEF Touched
    <3> QED BY <1>1, <2>3, <3>2 DEF AsIntended, Roles
  <2> QED BY <1>5, <2>2, <2>3 DEF IsCert
<1>6. job.does \in {"prune", "temp"} \/ IsCert(job.does)
  <2>1. manifest.does \in Repairs4 /\ job.does # "none"
      BY <1>1 DEF RepairInv, PhaseInv, RepairTypes, ManifestSet
  <2> QED BY <1>1, <2>1 DEF Repairs4, IsCert
<1> QED
    BY <1>4, <1>5, <1>6

\* The repair goes on, ends, or is to be undone.
LEMMA RepairTurns ==
    ASSUME RepairInv, Acted \/ ValidateFiles \/ RollingBack \/ Rolled
    PROVE  RepairInv'
<1>1. /\ RepairTypes /\ PhaseInv /\ PathsInv /\ ForthInv /\ BackInv
      /\ UNCHANGED <<onDisk, inode, candidate, theirs, late, disturbed>> /\ given' = given
      /\ given' \in GivenSet /\ manifest \in ManifestSet /\ job \in JobSet
    BY DEF RepairInv, RepairTypes, Acted, ValidateFiles, RollingBack, Rolled, Beside
<1>2. ASSUME NEW x \in {"validate", "done", "rolling_back", "preflight"}, GoTo(x)
      PROVE  job' \in JobSet /\ job'.at = x /\ job'.does = job.does
    BY <1>1, <1>2, Moves DEF Stations
<1>3. ASSUME NEW x \in ManifestStates, Enters(x)
      PROVE  manifest' \in ManifestSet /\ manifest'.state = x /\ manifest'.does = manifest.does /\ manifest'.saved = manifest.saved
    BY <1>1, <1>3, Moves
<1>4. manifest.state # "none" /\ IsCert(manifest.does) => \A p \in {"crt", "key", "plain"} : Includes(p)
    BY <1>1 DEF PathsInv
<1>5. CASE Acted
  <2>1. job.at = "act" /\ manifest.state = "applying" /\ manifest.does = job.does /\ GoTo("validate") /\ Enters("validating")
      BY <1>1, <1>5 DEF Acted, PhaseInv
  <2>2. /\ job' \in JobSet /\ job'.at = "validate" /\ job'.does = job.does
        /\ manifest' \in ManifestSet /\ manifest'.state = "validating" /\ manifest'.does = manifest.does /\ manifest'.saved = manifest.saved
      BY <1>2, <1>3, <2>1 DEF ManifestStates
  <2>3. PhaseInv'
      BY <1>1, <2>1, <2>2 DEF PhaseInv
  <2>4. (\A p \in Roles : Unspoiled(p)) => \A i \in DOMAIN manifest.saved : AsIntended(Saved(i).path)
      BY <1>5, ActedIntends
  <2> QED BY <1>1, <1>4, <2>1, <2>2, <2>3, <2>4, TurnKeeps
<1>6. CASE ValidateFiles
  <2>1. job.at = "validate" /\ manifest.state = "validating" /\ manifest.does = job.does
      BY <1>1, <1>6 DEF ValidateFiles, PhaseInv
  <2>2. (\A p \in Roles : Unspoiled(p)) => \A i \in DOMAIN manifest.saved : AsIntended(Saved(i).path)
      BY <1>1, <2>1 DEF ForthInv
  <2>3. CASE Enters("succeeded") /\ GoTo("done")
    <3>1. /\ job' \in JobSet /\ job'.at = "done"
          /\ manifest' \in ManifestSet /\ manifest'.state = "succeeded" /\ manifest'.does = manifest.does /\ manifest'.saved = manifest.saved
        BY <1>2, <1>3, <2>3 DEF ManifestStates
    <3>2. PhaseInv'
        BY <1>1, <2>1, <3>1 DEF PhaseInv
    <3> QED BY <1>1, <1>4, <2>1, <2>2, <3>1, <3>2, TurnKeeps
  <2>4. CASE GoTo("rolling_back") /\ manifest' = manifest
    <3>1. job' \in JobSet /\ job'.at = "rolling_back" /\ job'.does = job.does
        BY <1>2, <2>4
    <3>2. PhaseInv'
        BY <1>1, <2>1, <2>4, <3>1 DEF PhaseInv
    <3> QED BY <1>1, <1>4, <2>1, <2>2, <2>4, <3>1, <3>2, TurnKeeps
  <2> QED BY <1>6, <2>3, <2>4 DEF ValidateFiles, RollBackFrom
<1>7. CASE RollingBack
  <2>1. job.at = "rolling_back" /\ manifest.state \in {"applying", "validating"} /\ GoTo("preflight") /\ Enters("rolling_back")
      BY <1>1, <1>7 DEF RollingBack, PhaseInv
  <2>2. /\ job' \in JobSet /\ job'.at = "preflight"
        /\ manifest' \in ManifestSet /\ manifest'.state = "rolling_back" /\ manifest'.does = manifest.does /\ manifest'.saved = manifest.saved
      BY <1>2, <1>3, <2>1 DEF ManifestStates
  <2>3. PhaseInv'
      BY <1>1, <2>1, <2>2 DEF PhaseInv
  <2> QED BY <1>1, <1>4, <2>1, <2>2, <2>3, TurnKeeps
<1>8. CASE Rolled
  <2>1. /\ job.at = "restore" /\ job.i = 0 /\ manifest.state = "rolling_back" /\ GoTo("done")
        /\ (~job.wrong /\ Enters("rolled_back")) \/ Enters("rollback_failed")
      BY <1>1, <1>8 DEF Rolled, PhaseInv
  <2>2. PICK x \in {"rolled_back", "rollback_failed"} : Enters(x) /\ (x = "rolled_back" => ~job.wrong)
      BY <2>1
  <2>3. /\ job' \in JobSet /\ job'.at = "done"
        /\ manifest' \in ManifestSet /\ manifest'.state = x /\ manifest'.does = manifest.does /\ manifest'.saved = manifest.saved
      BY <1>2, <1>3, <2>1, <2>2 DEF ManifestStates
  <2>4. PhaseInv'
      BY <1>1, <2>1, <2>3 DEF PhaseInv
  <2>5. ~job.wrong => \A i \in DOMAIN manifest.saved : Saved(i).path \notin disturbed => IsBack(i)
      BY <1>1, <2>1, CapturedAre DEF BackInv
  <2> QED BY <1>1, <1>4, <2>1, <2>2, <2>3, <2>4, <2>5, TurnKeeps
<1> QED
    BY <1>5, <1>6, <1>7, <1>8

\* A restart takes up what the manifest says.
LEMMA CrashKeeps ==
    ASSUME RepairInv, CrashAndResume
    PROVE  RepairInv'
<1>1. /\ RepairTypes /\ PhaseInv /\ PathsInv /\ ForthInv /\ BackInv
      /\ UNCHANGED <<onDisk, inode, candidate, theirs, late, disturbed>>
      /\ manifest \in ManifestSet /\ job \in JobSet /\ job.at \notin {"idle", "done", "given_up"}
    BY DEF RepairInv, RepairTypes, CrashAndResume
<1>2. given' \in GivenSet
  <2>1. given \in GivenSet /\ given.crashes > 0 /\ given' = [given EXCEPT !.crashes = @ - 1]
      BY <1>1 DEF RepairTypes, CrashAndResume
  <2>2. given.crashes - 1 \in Nat
      BY <2>1 DEF GivenSet
  <2> QED BY <2>1, <2>2 DEF GivenSet
<1> DEFINE Next1 == IF manifest.state \in DOMAIN Disposition1 THEN Disposition1[manifest.state] ELSE "done"
<1>3. /\ manifest.state = "applying" => Next1 = "rolling_back"
      /\ manifest.state = "validating" => Next1 = "validate"
      /\ manifest.state = "rolling_back" => Next1 = "preflight"
      /\ manifest.state \notin {"applying", "validating", "rolling_back"} => Next1 = "done"
    BY DEF Disposition1
<1>4. job' = [JobIdle EXCEPT !.at = Next1, !.does = manifest.does]
    BY DEF CrashAndResume
<1> HIDE DEF Next1
<1>5. job' \in JobSet /\ job'.at = Next1 /\ job'.does = manifest.does
  <2>1. Next1 \in Stations /\ manifest.does \in Repairs4
      BY <1>1, <1>3 DEF Stations, ManifestSet
  <2> QED BY <1>4, <2>1, Beginnings DEF JobSet
<1>6. CASE manifest.state = "none"
  <2>1. manifest' = NoManifestYet /\ job'.at = "done"
      BY <1>3, <1>5, <1>6 DEF CrashAndResume
  <2> QED BY <1>1, <1>2, <1>5, <1>6, <2>1, GivesUpKeeps
<1>7. CASE manifest.state # "none"
  <2>1. manifest' = manifest
      BY <1>7 DEF CrashAndResume
  <2>2. manifest.state \notin {"succeeded", "rolled_back", "rollback_failed"}
      BY <1>1 DEF PhaseInv, JobSet, Stations
  <2>3. job'.at \in {"rolling_back", "validate", "preflight", "done"}
      BY <1>3, <1>5
  <2>4. PhaseInv'
      BY <1>1, <1>3, <1>5, <1>7, <2>1, <2>2 DEF PhaseInv, ManifestSet, ManifestStates
  <2>5. /\ manifest.state # "none" /\ IsCert(manifest.does) => \A p \in {"crt", "key", "plain"} : Includes(p)
        /\ manifest.state \in {"validating", "succeeded"} /\ (\A p \in Roles : Unspoiled(p)) =>
               \A i \in DOMAIN manifest.saved : AsIntended(Saved(i).path)
      BY <1>1 DEF PathsInv, ForthInv
  <2> QED BY <1>1, <1>2, <1>5, <2>1, <2>2, <2>3, <2>4, <2>5, TurnKeeps
<1> QED
    BY <1>6, <1>7

\* While nothing is written, what the inspection and the snapshot have found stands.
LEMMA FoundStands ==
    ASSUME RepairTypes, ForthInv, UNCHANGED <<onDisk, candidate, theirs, late>>, manifest.state = "none", manifest'.state = "none",
           job.at \in {"look", "capture"}, job'.at \in {"look", "capture"}
    PROVE  ForthInv' /\ BackInv'
<1>1. \A i \in DOMAIN candidate : candidate[i].path \in Roles /\ candidate'[i] = candidate[i]
    BY CapturedAre
<1>2. \A i \in DOMAIN candidate : Unspoiled(candidate[i].path) => AsInspected(i)
    BY DEF ForthInv
<1>3. \A i \in DOMAIN candidate' : Unspoiled(candidate[i].path)' => AsInspected(i)'
    BY <1>1, <1>2 DEF Unspoiled, AsInspected
<1>4. \A q \in Roles : Unspoiled(q)' \/ onDisk'[q] = theirs'[q] \/ q \in late'
    BY DEF ForthInv, Unspoiled
<1>5. ForthInv'
    BY <1>3, <1>4 DEF ForthInv
<1>6. BackInv'
    BY DEF BackInv
<1> QED
    BY <1>5, <1>6

\* The inspection takes up one file more, or drops the candidate.
LEMMA LookKeeps ==
    ASSUME RepairInv, Look
    PROVE  RepairInv'
<1> DEFINE p == Looked[job.i]
           c == [path |-> p, was |-> onDisk[p]]
<1>1. /\ RepairTypes /\ PhaseInv /\ PathsInv /\ ForthInv /\ BackInv
      /\ job.at = "look" /\ job.i <= Len(Looked) /\ manifest.state = "none" /\ job.does # "none"
      /\ UNCHANGED <<onDisk, inode, manifest, late, disturbed, given>>
      /\ candidate \in Seq(Captured) /\ onDisk \in [Roles -> Entries] /\ manifest.saved = <<>> /\ job.i \in 1..Len(Looked)
    BY LookedIs DEF RepairInv, RepairTypes, Look, PhaseInv, PathsInv
<1>2. p \in Roles /\ c \in Captured /\ c.path = p /\ c.was = onDisk[p]
    BY <1>1, LookedIs DEF Captured
<1> HIDE DEF p, c
<1>3. \/ job' = JobIdle /\ candidate' = <<>> /\ theirs' = Unedited
      \/ NextFile /\ theirs' = theirs /\ candidate' = Append(candidate, c)
      \/ NextFile /\ theirs' = theirs /\ candidate' = candidate /\ ~IsCert(job.does)
  <2>1. ~Belongs(p) => ~IsCert(job.does)
      BY DEF Belongs, IsCert
  <2> QED BY <2>1 DEF Look, p, c
<1>4. CASE job' = JobIdle /\ candidate' = <<>> /\ theirs' = Unedited
  <2>1. /\ job' \in JobSet /\ job'.at = "idle" /\ DOMAIN candidate' = {} /\ candidate' \in Seq(Captured)
        /\ theirs' \in [Roles -> Entries \cup {NotEdited}] /\ \A q \in Roles : theirs'[q] = NotEdited
        /\ DOMAIN manifest.saved = {} /\ Len(manifest.saved) = 0 /\ Len(candidate') = 0
      BY <1>1, <1>4, Beginnings
  <2>2. RepairTypes' /\ PhaseInv'
      BY <1>1, <2>1 DEF RepairTypes, PhaseInv
  <2>3. PathsInv' /\ ForthInv' /\ BackInv'
      BY <1>1, <2>1 DEF PathsInv, ForthInv, BackInv, Unspoiled
  <2> QED BY <2>2, <2>3 DEF RepairInv
<1>5. ASSUME NextFile
      PROVE  /\ job' \in JobSet /\ job'.at = "look" /\ job'.i = job.i + 1 /\ job'.does = job.does /\ Looked' = Looked
             /\ job'.i \in 1..(Len(Looked) + 1)
  <2>1. job' \in JobSet /\ job'.at = "look" /\ job'.i = job.i + 1 /\ job'.does = job.does
      BY <1>1, <1>5, Moves
  <2>2. Looked' = Looked
      BY <2>1 DEF Looked, OrphanFiles, BundleFiles
  <2> QED BY <1>1, <2>1, <2>2, LookedIs
<1>6. \A i \in DOMAIN candidate : \E k \in 1..(job.i - 1) : candidate[i].path = Looked[k]
    BY <1>1 DEF PathsInv
<1>7. CASE NextFile /\ theirs' = theirs /\ candidate' = candidate /\ ~IsCert(job.does)
  <2>1. RepairTypes' /\ PhaseInv'
      BY <1>1, <1>5, <1>7 DEF RepairTypes, PhaseInv
  <2>2. PathsInv'
    <3>1. \A i \in DOMAIN candidate' : \E k \in 1..(job'.i - 1) : candidate'[i].path = Looked'[k]
        BY <1>1, <1>5, <1>6, <1>7, LookedIs
    <3> QED BY <1>1, <1>5, <1>7, <3>1 DEF PathsInv
  <2>3. ForthInv' /\ BackInv'
      BY <1>1, <1>5, <1>7, FoundStands
  <2> QED BY <2>1, <2>2, <2>3 DEF RepairInv
<1>8. CASE NextFile /\ theirs' = theirs /\ candidate' = Append(candidate, c)
  <2>1. /\ candidate' \in Seq(Captured) /\ Len(candidate') = Len(candidate) + 1 /\ Len(candidate) \in Nat
        /\ DOMAIN candidate' = 1..(Len(candidate) + 1) /\ DOMAIN candidate = 1..Len(candidate)
        /\ \A i \in DOMAIN candidate : candidate'[i] = candidate[i]
        /\ candidate'[Len(candidate) + 1] = c
      BY <1>1, <1>2, <1>8
  <2>2. RepairTypes' /\ PhaseInv'
      BY <1>1, <1>5, <1>8, <2>1 DEF RepairTypes, PhaseInv
  <2>3. \A i \in DOMAIN candidate : candidate[i].path # p
    <3> SUFFICES ASSUME NEW i \in DOMAIN candidate PROVE candidate[i].path # p
        OBVIOUS
    <3>1. PICK k \in 1..(job.i - 1) : candidate[i].path = Looked[k]
        BY <1>6
    <3> QED BY <1>1, <3>1, LookedIs DEF p
  <2>4. PathsInv'
    <3>1. \A i, j \in DOMAIN candidate' : candidate'[i].path = candidate'[j].path => i = j
      <4>1. \A i, j \in DOMAIN candidate : candidate[i].path = candidate[j].path => i = j
          BY <1>1 DEF PathsInv
      <4>2. candidate'[Len(candidate) + 1].path = p
          BY <1>2, <2>1
      <4>3. \A i \in DOMAIN candidate : candidate'[i].path = candidate[i].path /\ candidate[i].path # p
          BY <2>1, <2>3
      <4>4. \A i \in DOMAIN candidate' : i \in DOMAIN candidate \/ i = Len(candidate) + 1
          BY <2>1
      <4> HIDE DEF c
      <4> QED BY <4>1, <4>2, <4>3, <4>4
    <3>2. \A i \in DOMAIN candidate' : \E k \in 1..(job'.i - 1) : candidate'[i].path = Looked'[k]
      <4> SUFFICES ASSUME NEW i \in DOMAIN candidate' PROVE \E k \in 1..job.i : candidate'[i].path = Looked[k]
          BY <1>1, <1>5, <1>8, LookedIs
      <4>1. CASE i = Len(candidate) + 1
          BY <1>1, <1>2, <2>1, <4>1 DEF p
      <4>2. CASE i \in DOMAIN candidate
        <5>1. PICK k \in 1..(job.i - 1) : candidate[i].path = Looked[k]
            BY <1>6, <4>2
        <5>2. k \in 1..job.i /\ candidate'[i] = candidate[i]
            BY <1>1, <2>1, <4>2
        <5> QED BY <5>1, <5>2
      <4> QED BY <2>1, <4>1, <4>2
    <3>3. ASSUME IsCert(job.does), NEW k \in 1..job.i PROVE Includes(Looked[k])'
      <4>1. CASE k = job.i
        <5>1. candidate'[Len(candidate) + 1].path = Looked[k] /\ Len(candidate) + 1 \in DOMAIN candidate'
            BY <1>2, <2>1, <4>1 DEF p
        <5> QED BY <1>5, <1>8, <5>1 DEF Includes
      <4>2. CASE k # job.i
        <5>1. Includes(Looked[k])
            BY <1>1, <3>3, <4>2, LookedIs DEF PathsInv
        <5> QED BY <1>5, <1>8, <2>1, <5>1 DEF Includes
      <4> QED BY <4>1, <4>2
    <3>4. IsCert(job'.does) => \A k \in 1..(job'.i - 1) : Includes(Looked[k])'
        BY <1>1, <1>5, <1>8, <3>3 DEF IsCert
    <3>5. DOMAIN manifest'.saved = {} /\ Len(manifest'.saved) = 0 /\ manifest'.saved = <<>>
        BY <1>1
    <3>6. /\ job'.at = "look" /\ job'.i \in 1..(Len(Looked)' + 1) /\ manifest'.state = "none"
          /\ 0 <= Len(candidate')
        BY <1>1, <1>5, <1>8, <2>1
    <3> QED BY <3>1, <3>2, <3>4, <3>5, <3>6 DEF PathsInv
  <2>5. ForthInv'
    <3>1. \A i \in DOMAIN candidate' : Unspoiled(candidate[i].path)' => AsInspected(i)'
      <4> SUFFICES ASSUME NEW i \in DOMAIN candidate', Unspoiled(candidate[i].path)' PROVE AsInspected(i)'
          OBVIOUS
      <4>1. CASE i = Len(candidate) + 1
          BY <1>1, <1>2, <2>1, <4>1 DEF AsInspected
      <4>2. CASE i \in DOMAIN candidate
        <5>0. candidate'[i] = candidate[i] /\ theirs' = theirs /\ theirs'[candidate'[i].path] = NotEdited
            BY <1>8, <2>1, <4>2 DEF Unspoiled
        <5>1. Unspoiled(candidate[i].path)
            BY <5>0 DEF Unspoiled
        <5>2. AsInspected(i)
            BY <1>1, <4>2, <5>1 DEF ForthInv
        <5> QED BY <1>1, <2>1, <4>2, <5>2 DEF AsInspected
      <4> QED BY <2>1, <4>1, <4>2
    <3>2. \A q \in Roles : Unspoiled(q)' \/ onDisk'[q] = theirs'[q] \/ q \in late'
        BY <1>1, <1>8 DEF ForthInv, Unspoiled
    <3>3. manifest'.state = "none" /\ job'.at = "look"
        BY <1>1, <1>5, <1>8
    <3> QED BY <3>1, <3>2, <3>3 DEF ForthInv
  <2>6. BackInv'
      BY <1>1, <1>5, <1>8 DEF BackInv
  <2> QED BY <2>2, <2>4, <2>5, <2>6 DEF RepairInv
<1> QED
    BY <1>3, <1>4, <1>7, <1>8

\* The snapshot captures one file more, or is given up.
LEMMA CaptureKeeps ==
    ASSUME RepairInv, Capture
    PROVE  RepairInv'
<1> DEFINE c == [path |-> Watched[job.i], was |-> onDisk[Watched[job.i]]]
<1>1. /\ RepairTypes /\ PhaseInv /\ PathsInv /\ ForthInv /\ BackInv
      /\ job.at = "capture" /\ job.i <= Len(candidate) /\ manifest.state = "none" /\ job.i = Len(manifest.saved) + 1
      /\ UNCHANGED <<onDisk, inode, candidate, theirs, late, disturbed, given>>
      /\ candidate \in Seq(Captured) /\ onDisk \in [Roles -> Entries] /\ manifest \in ManifestSet /\ job \in JobSet
      /\ given' \in GivenSet
    BY DEF RepairInv, RepairTypes, Capture, PhaseInv, PathsInv, Beside
<1>2. job.i \in DOMAIN candidate /\ Watched[job.i] = candidate[job.i].path
    BY <1>1, CapturedAre DEF Watched
<1>3. c \in Captured /\ c.path = candidate[job.i].path
    BY <1>1, <1>2, CapturedAre DEF Captured
<1> HIDE DEF c
<1>4. \/ manifest' = [manifest EXCEPT !.saved = Append(@, c)] /\ NextFile
      \/ manifest' = NoManifestYet /\ GiveUpAs("given_up")
    BY DEF Capture, c
<1>5. CASE manifest' = NoManifestYet /\ GiveUpAs("given_up")
  <2>1. job' \in JobSet /\ job'.at = "given_up"
      BY <1>1, <1>5, Moves DEF Stations
  <2> QED BY <1>1, <1>5, <2>1, GivesUpKeeps
<1>6. CASE manifest' = [manifest EXCEPT !.saved = Append(@, c)] /\ NextFile
  <2>1. job' \in JobSet /\ job'.at = "capture" /\ job'.i = job.i + 1 /\ job'.does = job.does
      BY <1>1, <1>6, Moves
  <2> DEFINE s == Append(manifest.saved, c)
  <2>2. /\ s \in Seq(Captured) /\ Len(s) = job.i /\ DOMAIN s = 1..job.i /\ Len(manifest.saved) \in Nat
        /\ \A i \in DOMAIN manifest.saved : s[i] = manifest.saved[i]
        /\ s[job.i] = c /\ DOMAIN manifest.saved = 1..(job.i - 1)
      BY <1>1, <1>3 DEF ManifestSet
  <2> HIDE DEF s
  <2>3. manifest' = [manifest EXCEPT !.saved = s]
      BY <1>6 DEF s
  <2>4. manifest' \in ManifestSet /\ manifest'.state = "none" /\ manifest'.saved = s
      BY <1>1, <2>2, <2>3 DEF ManifestSet
  <2>5. RepairTypes' /\ PhaseInv'
      BY <1>1, <2>1, <2>4 DEF RepairTypes, PhaseInv
  <2>6. PathsInv'
    <3>1. \A i \in DOMAIN s : s[i].path = candidate[i].path
        BY <1>1, <1>3, <2>2 DEF PathsInv
    <3>2. IsCert(job'.does) => \A p \in {"crt", "key", "plain"} : Includes(p)'
        BY <1>1, <2>1, SameFiles DEF PathsInv, IsCert
    <3>3. Len(s) <= Len(candidate) /\ job'.i = Len(s) + 1
        BY <1>1, <2>1, <2>2
    <3> QED BY <1>1, <2>1, <2>4, <3>1, <3>2, <3>3 DEF PathsInv
  <2>7. ForthInv' /\ BackInv'
      BY <1>1, <2>1, <2>4, FoundStands
  <2> QED BY <2>5, <2>6, <2>7 DEF RepairInv
<1> QED
    BY <1>4, <1>5, <1>6

\* Nothing is touched unless all is as it was inspected.
LEMMA RecheckKeeps ==
    ASSUME RepairInv, Recheck
    PROVE  RepairInv'
<1>1. /\ RepairTypes /\ PhaseInv /\ PathsInv /\ ForthInv /\ BackInv
      /\ job.at = "recheck" /\ manifest.state = "applying" /\ manifest.does = job.does /\ job.does # "none"
      /\ UNCHANGED <<onDisk, inode, candidate, manifest, theirs, late, disturbed, given>>
      /\ manifest \in ManifestSet /\ job \in JobSet /\ given' \in GivenSet
    BY DEF RepairInv, RepairTypes, Recheck, PhaseInv, WorkVars, Beside
<1>2. IsCert(manifest.does) => \A p \in {"crt", "key", "plain"} : Includes(p)
    BY <1>1 DEF PathsInv
<1>3. CASE RollBackFrom
  <2>1. job' \in JobSet /\ job'.at = "rolling_back" /\ job'.does = job.does
      BY <1>1, <1>3, Moves DEF RollBackFrom, Stations
  <2>2. PhaseInv'
      BY <1>1, <2>1 DEF PhaseInv
  <2> QED BY <1>1, <1>2, <2>1, <2>2, TurnKeeps
<1>4. CASE (\A i \in DOMAIN candidate : AsInspected(i)) /\ job' = [job EXCEPT !.at = "act", !.i = 1, !.left = ToTouch]
  <2>1. ToTouch \subseteq DOMAIN candidate /\ ToTouch \subseteq Nat
      BY <1>1, CapturedAre DEF ToTouch
  <2>2. job' \in JobSet /\ job'.at = "act" /\ job'.does = job.does /\ job'.left = ToTouch
      BY <1>1, <1>4, <2>1 DEF JobSet, Stations
  <2>3. RepairTypes' /\ PhaseInv'
      BY <1>1, <2>2 DEF RepairTypes, PhaseInv
  <2>4. PathsInv'
      BY <1>1, <2>2, SameFiles DEF PathsInv
  <2>5. ToTouch' = ToTouch
      BY <1>1, <2>2 DEF ToTouch
  <2>6. ForthInv'
    <3>1. \A i \in DOMAIN candidate : AsInspected(i)'
        BY <1>1, <1>4 DEF AsInspected
    <3>2. \A q \in Roles : Unspoiled(q)' \/ onDisk'[q] = theirs'[q] \/ q \in late'
        BY <1>1 DEF ForthInv, Unspoiled
    <3>3. job'.left = ToTouch' /\ candidate' = candidate /\ manifest'.state = "applying" /\ job'.at = "act"
        BY <1>1, <2>2, <2>5
    <3> QED BY <3>1, <3>2, <3>3 DEF ForthInv
  <2>7. BackInv'
      BY <1>1, <2>2 DEF BackInv
  <2> QED BY <2>3, <2>4, <2>6, <2>7 DEF RepairInv
<1> QED
    BY <1>3, <1>4 DEF Recheck

\* The last look at a file, which finds it as it was inspected or ends the repair.
LEMMA AimKeeps ==
    ASSUME RepairInv, Aim
    PROVE  RepairInv'
<1>1. /\ RepairTypes /\ PhaseInv /\ PathsInv /\ ForthInv /\ BackInv
      /\ job.at = "act" /\ manifest.state = "applying" /\ manifest.does = job.does /\ job.does # "none"
      /\ UNCHANGED <<onDisk, inode, candidate, manifest, late, disturbed, given>>
      /\ manifest \in ManifestSet /\ job \in JobSet /\ given' \in GivenSet
      /\ onDisk \in [Roles -> Entries] /\ theirs \in [Roles -> Entries \cup {NotEdited}]
    BY DEF RepairInv, RepairTypes, Aim, PhaseInv, WorkVars
<1>2. IsCert(manifest.does) => \A p \in {"crt", "key", "plain"} : Includes(p)
    BY <1>1 DEF PathsInv
<1>3. PICK i \in job.left :
        \/ RollBackFrom /\ theirs' = theirs
        \/ ~Refuses(i) /\ job' = job /\ theirs' = IF AsInspected(i) THEN [theirs EXCEPT ![candidate[i].path] = NotEdited] ELSE theirs
    BY DEF Aim
<1>4. CASE RollBackFrom /\ theirs' = theirs
  <2>1. job' \in JobSet /\ job'.at = "rolling_back" /\ job'.does = job.does
      BY <1>1, <1>4, Moves DEF RollBackFrom, Stations
  <2>2. PhaseInv'
      BY <1>1, <2>1 DEF PhaseInv
  <2> QED BY <1>1, <1>2, <1>4, <2>1, <2>2, TurnKeeps
<1>5. CASE ~Refuses(i) /\ job' = job /\ theirs' = IF AsInspected(i) THEN [theirs EXCEPT ![candidate[i].path] = NotEdited] ELSE theirs
  <2> DEFINE p == candidate[i].path
  <2>1. /\ job.left \subseteq ToTouch /\ ToTouch \subseteq DOMAIN candidate /\ i \in ToTouch /\ i \in DOMAIN candidate /\ p \in Roles
        /\ \A j \in DOMAIN candidate : candidate[j].path \in Roles
      BY <1>1, CapturedAre DEF ForthInv, ToTouch
  <2>2. AsInspected(i) /\ theirs' = [theirs EXCEPT ![p] = NotEdited]
      BY <1>5 DEF Refuses
  <2>3. /\ theirs' \in [Roles -> Entries \cup {NotEdited}]
        /\ Unspoiled(p)' /\ \A q \in Roles : q # p => theirs'[q] = theirs[q]
      BY <1>1, <2>1, <2>2 DEF Unspoiled
  <2>4. RepairTypes' /\ PhaseInv'
      BY <1>1, <1>5, <2>3 DEF RepairTypes, PhaseInv
  <2>5. Looked' = Looked /\ ToTouch' = ToTouch /\ \A q : Includes(q)' <=> Includes(q)
      BY <1>1, <1>5 DEF Looked, ToTouch, Includes
  <2>6. PathsInv'
      BY <1>1, <1>5, <2>5 DEF PathsInv
  <2>7. ASSUME NEW j \in DOMAIN candidate, theirs'[candidate[j].path] = NotEdited
        PROVE  /\ j \notin ToTouch \ job.left => onDisk'[candidate[j].path] = candidate[j].was
               /\ j \in ToTouch \ job.left => Touched(candidate[j].path)'
    <3>1. CASE j = i
        BY <1>1, <2>2, <3>1 DEF AsInspected
    <3>2. CASE j # i
      <4>1. candidate[j].path # p /\ candidate[j].path \in Roles
          BY <1>1, <2>1, <3>2 DEF PathsInv
      <4>2. Unspoiled(candidate[j].path)
          BY <2>3, <2>7, <4>1 DEF Unspoiled
      <4>3. /\ j \notin ToTouch \ job.left => AsInspected(j)
            /\ j \in ToTouch \ job.left => Touched(candidate[j].path)
          BY <1>1, <4>2 DEF ForthInv
      <4>4. ASSUME Touched(candidate[j].path) PROVE Touched(candidate[j].path)'
        <5>1. CASE job.does \in {"prune", "temp"}
            BY <1>1, <1>5, <4>4, <5>1 DEF Touched
        <5>2. CASE job.does = "bundle"
            BY <1>1, <1>5, <4>4, <5>2 DEF Touched
        <5>3. CASE job.does = "runtime"
          <6>1. p = "plain"
              BY <2>1, <5>3 DEF ToTouch
          <6>2. theirs'["crt"] = theirs["crt"]
              BY <2>3, <6>1 DEF Roles
          <6>3. InStep("crt", "plain")' <=> InStep("crt", "plain")
              BY <1>1 DEF InStep
          <6> QED BY <1>5, <4>4, <5>3, <6>2, <6>3 DEF Touched, Unspoiled
        <5> QED BY <1>1, <5>1, <5>2, <5>3 DEF JobSet, Repairs4
      <4> QED BY <1>1, <4>3, <4>4 DEF AsInspected
    <3> QED BY <3>1, <3>2
  <2>8. ForthInv'
    <3>1. \A q \in Roles : Unspoiled(q)' \/ onDisk'[q] = theirs'[q] \/ q \in late'
        BY <1>1, <2>3 DEF ForthInv, Unspoiled
    <3>2. /\ job'.left \subseteq ToTouch' /\ candidate' = candidate /\ manifest'.state = "applying" /\ job'.at = "act"
          /\ ToTouch' \ job'.left = ToTouch \ job.left
        BY <1>1, <1>5, <2>1, <2>5
    <3>3. ASSUME NEW j \in DOMAIN candidate', Unspoiled(candidate[j].path)'
          PROVE  /\ j \notin ToTouch' \ job'.left => AsInspected(j)'
                 /\ j \in ToTouch' \ job'.left => Touched(candidate[j].path)'
        BY <2>7, <3>2, <3>3 DEF Unspoiled, AsInspected
    <3> QED BY <3>1, <3>2, <3>3 DEF ForthInv
  <2>9. BackInv'
      BY <1>1, <1>5 DEF BackInv
  <2> QED BY <2>4, <2>6, <2>8, <2>9 DEF RepairInv
<1> QED
    BY <1>3, <1>4, <1>5

\* The repair of one file more, or the end of it.
LEMMA TouchKeeps ==
    ASSUME RepairInv, AimInv, Touch
    PROVE  RepairInv'
<1>1. /\ RepairTypes /\ PhaseInv /\ PathsInv /\ ForthInv /\ BackInv
      /\ job.at = "act" /\ manifest.state = "applying" /\ manifest.does = job.does /\ job.does # "none"
      /\ UNCHANGED <<candidate, manifest, theirs, late, disturbed, given>>
      /\ manifest \in ManifestSet /\ job \in JobSet /\ given' \in GivenSet
      /\ onDisk \in [Roles -> Entries] /\ inode \in Nat /\ theirs \in [Roles -> Entries \cup {NotEdited}]
    BY DEF RepairInv, RepairTypes, Touch, PhaseInv, WorkVars
<1>2. IsCert(manifest.does) => \A p \in {"crt", "key", "plain"} : Includes(p)
    BY <1>1 DEF PathsInv
<1>3. PICK a \in aimed :
        \/ RollBackFrom /\ UNCHANGED <<onDisk, inode>>
        \/ /\ IF job.does \in {"prune", "temp"} THEN Unlink(candidate[a.i].path) ELSE Rewrite(candidate[a.i].path, a.data)
           /\ job' = [job EXCEPT !.left = @ \ {a.i}]
    BY DEF Touch
<1>0. /\ a.i \in job.left /\ a.data \in Nat /\ Loads(a)
      /\ Unspoiled(candidate[a.i].path) \/ candidate[a.i].path \in late
    BY DEF AimInv
<1>4. CASE RollBackFrom /\ UNCHANGED <<onDisk, inode>>
  <2>1. job' \in JobSet /\ job'.at = "rolling_back" /\ job'.does = job.does
      BY <1>1, <1>4, Moves DEF RollBackFrom, Stations
  <2>2. PhaseInv'
      BY <1>1, <2>1 DEF PhaseInv
  <2> QED BY <1>1, <1>2, <1>4, <2>1, <2>2, TurnKeeps
<1>5. CASE /\ IF job.does \in {"prune", "temp"} THEN Unlink(candidate[a.i].path) ELSE Rewrite(candidate[a.i].path, a.data)
           /\ job' = [job EXCEPT !.left = @ \ {a.i}]
  <2> DEFINE i == a.i
             p == candidate[i].path
             x == IF job.does \in {"prune", "temp"} THEN Vacant ELSE [kind |-> "file", ino |-> inode, data |-> a.data]
  <2>1. /\ job.left \subseteq ToTouch /\ ToTouch \subseteq DOMAIN candidate /\ i \in ToTouch /\ i \in DOMAIN candidate /\ p \in Roles
        /\ \A j \in DOMAIN candidate : candidate[j].path \in Roles
      BY <1>0, <1>1, CapturedAre DEF ForthInv, ToTouch
  <2>3. onDisk' = [onDisk EXCEPT ![p] = x] /\ inode' \in Nat
      BY <1>1, <1>5 DEF Unlink, Rewrite
  <2>4. x \in Entries
    <3>1. [kind |-> "file", ino |-> inode, data |-> a.data] \in Entries
        BY <1>0, <1>1 DEF Entries, Vacant
    <3> QED BY <3>1, Beginnings
  <2>5. /\ job.does \in {"prune", "temp"} => x = Vacant
        /\ job.does \notin {"prune", "temp"} => x.kind = "file" /\ x.data = a.data
      OBVIOUS
  <2> HIDE DEF x
  <2>6. /\ job' \in JobSet /\ job'.at = "act" /\ job'.does = job.does /\ job'.left = job.left \ {i}
      BY <1>1, <1>5 DEF JobSet
  <2>7. /\ onDisk' \in [Roles -> Entries] /\ onDisk'[p] = x /\ \A q \in Roles : q # p => onDisk'[q] = onDisk[q]
        /\ Unspoiled(p) \/ p \in late
      BY <1>0, <1>1, <2>1, <2>3, <2>4
  <2>8. RepairTypes' /\ PhaseInv'
      BY <1>1, <2>3, <2>6, <2>7 DEF RepairTypes, PhaseInv
  <2>9. PathsInv'
    <3>1. \A q : Includes(q)' <=> Includes(q)
        BY <1>1 DEF Includes
    <3> QED BY <1>1, <2>6, <3>1 DEF PathsInv
  <2>10. ToTouch' = ToTouch
      BY <1>1, <2>6 DEF ToTouch
  <2>11. ASSUME NEW j \in DOMAIN candidate, j # i
         PROVE  candidate[j].path # p /\ candidate[j].path \in Roles
      BY <1>1, <2>1, <2>11 DEF PathsInv
  <2>12. ASSUME NEW j \in DOMAIN candidate, theirs'[candidate[j].path] = NotEdited, j \notin ToTouch \ (job.left \ {i})
         PROVE  onDisk'[candidate[j].path] = candidate[j].was
    <3>1. j # i
        BY <2>1, <2>12
    <3>2. Unspoiled(candidate[j].path) /\ j \notin ToTouch \ job.left
        BY <1>1, <2>12, <3>1 DEF Unspoiled
    <3>3. AsInspected(j)
        BY <1>1, <3>2 DEF ForthInv
    <3> QED BY <2>7, <2>11, <3>1, <3>3 DEF AsInspected
  <2>13. ASSUME NEW j \in DOMAIN candidate, theirs'[candidate[j].path] = NotEdited, j \in ToTouch \ (job.left \ {i})
         PROVE  Touched(candidate[j].path)'
    <3> DEFINE q == candidate[j].path
    <3>1. CASE j = i
      <4>1. CASE job.does \in {"prune", "temp"}
          BY <1>1, <2>5, <2>6, <2>7, <3>1, <4>1 DEF Touched
      <4>2. CASE job.does = "bundle"
        <5>1. onDisk'[p].kind = "file" /\ onDisk'[p].data = 2
            BY <1>0, <2>5, <2>7, <4>2 DEF Loads
        <5> QED BY <1>1, <2>6, <3>1, <4>2, <5>1 DEF Touched
      <4>3. CASE job.does \notin {"prune", "temp", "bundle"}
        <5>1. job.does = "runtime" /\ p = "plain"
            BY <1>1, <2>1, <4>3 DEF ToTouch, JobSet, Repairs4
        <5>2. /\ Unspoiled("crt") => onDisk["crt"].kind = "file" /\ onDisk["crt"].data = a.data
              /\ onDisk'["plain"].kind = "file" /\ onDisk'["plain"].data = a.data
            BY <1>0, <2>5, <2>7, <5>1 DEF Loads
        <5>3. onDisk'["crt"] = onDisk["crt"]
            BY <2>7, <5>1 DEF Roles
        <5>4. Unspoiled("crt") => InStep("crt", "plain")'
            BY <5>2, <5>3 DEF InStep
        <5>5. Unspoiled("crt")' <=> Unspoiled("crt")
            BY <1>1 DEF Unspoiled
        <5> QED BY <2>6, <4>3, <5>4, <5>5 DEF Touched
      <4> QED BY <4>1, <4>2, <4>3
    <3>2. CASE j # i
      <4>1. Touched(q) /\ onDisk'[q] = onDisk[q] /\ q # p
        <5>1. Unspoiled(q) /\ j \in ToTouch \ job.left
            BY <1>1, <2>13, <3>2 DEF Unspoiled
        <5> QED BY <1>1, <2>7, <2>11, <3>2, <5>1 DEF ForthInv
      <4>2. CASE job.does \in {"prune", "temp"}
          BY <1>1, <2>6, <4>1, <4>2 DEF Touched
      <4>3. CASE job.does = "bundle"
          BY <1>1, <2>6, <4>1, <4>3 DEF Touched
      <4>4. CASE job.does = "runtime"
          BY <2>1, <2>13, <4>1, <4>4 DEF ToTouch
      <4> QED BY <1>1, <4>2, <4>3, <4>4 DEF JobSet, Repairs4
    <3> QED BY <3>1, <3>2
  <2>14. ForthInv'
    <3>1. \A q \in Roles : Unspoiled(q)' \/ onDisk'[q] = theirs'[q] \/ q \in late'
        BY <1>1, <2>7 DEF ForthInv, Unspoiled
    <3>2. /\ job'.left \subseteq ToTouch' /\ candidate' = candidate /\ manifest'.state = "applying" /\ job'.at = "act"
          /\ ToTouch' \ job'.left = ToTouch \ (job.left \ {i})
        BY <1>1, <2>1, <2>6, <2>10
    <3>3. ASSUME NEW j \in DOMAIN candidate', Unspoiled(candidate[j].path)'
          PROVE  /\ j \notin ToTouch' \ job'.left => AsInspected(j)'
                 /\ j \in ToTouch' \ job'.left => Touched(candidate[j].path)'
        BY <2>12, <2>13, <3>2, <3>3 DEF Unspoiled, AsInspected
    <3> QED BY <3>1, <3>2, <3>3 DEF ForthInv
  <2>15. BackInv'
      BY <1>1, <2>6 DEF BackInv
  <2> QED BY <2>8, <2>9, <2>14, <2>15 DEF RepairInv
<1> QED
    BY <1>3, <1>4, <1>5

\* The rollback looks at one file more, or finds that it cannot put it back.
LEMMA PreflightKeeps ==
    ASSUME RepairInv, Preflight
    PROVE  RepairInv'
<1>1. /\ RepairTypes /\ PhaseInv /\ PathsInv /\ ForthInv /\ BackInv
      /\ job.at = "preflight" /\ manifest.state = "rolling_back" /\ job.i <= Len(manifest.saved)
      /\ UNCHANGED <<onDisk, inode, candidate, theirs, late, given>>
      /\ manifest \in ManifestSet /\ job \in JobSet /\ given' \in GivenSet /\ disturbed \subseteq Roles
    BY DEF RepairInv, RepairTypes, Preflight, PhaseInv
<1>2. /\ IsCert(manifest.does) => \A p \in {"crt", "key", "plain"} : Includes(p)
      /\ manifest.does # "none" /\ Len(manifest.saved) \in Nat
    BY <1>1, CapturedAre DEF PathsInv, PhaseInv
<1>3. CASE Enters("rollback_failed") /\ GoTo("done") /\ UNCHANGED disturbed
  <2>1. /\ job' \in JobSet /\ job'.at = "done"
        /\ manifest' \in ManifestSet /\ manifest'.state = "rollback_failed" /\ manifest'.does = manifest.does /\ manifest'.saved = manifest.saved
      BY <1>1, <1>3, Moves DEF Stations, ManifestStates
  <2>2. PhaseInv'
      BY <1>1, <1>2, <2>1 DEF PhaseInv
  <2> QED BY <1>1, <1>2, <1>3, <2>1, <2>2, TurnKeeps
<1>4. CASE /\ disturbed' = disturbed \ {Saved(job.i).path} /\ UNCHANGED manifest
           /\ job' = [job EXCEPT !.at = IF job.i = Len(manifest.saved) THEN "restore" ELSE @,
                                 !.i = IF job.i = Len(manifest.saved) THEN job.i ELSE job.i + 1]
  <2>1. /\ job' \in JobSet /\ job'.at \in {"preflight", "restore"}
        /\ job'.at = "restore" => job'.i = Len(manifest.saved)
    <3>1. CASE job.i = Len(manifest.saved)
      <4>1. job' = [job EXCEPT !.at = "restore", !.i = job.i]
          BY <1>4, <3>1
      <4> QED BY <1>1, <3>1, <4>1 DEF JobSet, Stations
    <3>2. CASE job.i # Len(manifest.saved)
      <4>1. job' = [job EXCEPT !.i = job.i + 1]
          BY <1>1, <1>4, <3>2 DEF JobSet
      <4> QED BY <1>1, <3>2, <4>1 DEF JobSet, Stations
    <3> QED BY <3>1, <3>2
  <2>2. RepairTypes' /\ PhaseInv'
      BY <1>1, <1>2, <1>4, <2>1 DEF RepairTypes, PhaseInv
  <2>3. PathsInv'
      BY <1>1, <1>4, <2>1, SameFiles DEF PathsInv
  <2>4. ForthInv'
      BY <1>1, <1>4, <2>1 DEF ForthInv
  <2>5. BackInv'
      BY <1>1, <1>2, <1>4, <2>1, CapturedAre DEF BackInv
  <2> QED BY <2>2, <2>3, <2>4, <2>5 DEF RepairInv
<1> QED
    BY <1>3, <1>4 DEF Preflight

\* The rollback puts one file more back, unless it is another by now.
LEMMA RestoreKeeps ==
    ASSUME RepairInv, RestoreOne
    PROVE  RepairInv'
<1> DEFINE i == job.i
           p == Saved(job.i).path
           b == job.wrong \/ ~SameTarget(job.i)
<1>1. /\ RepairTypes /\ PhaseInv /\ PathsInv /\ ForthInv /\ BackInv
      /\ job.at = "restore" /\ manifest.state = "rolling_back" /\ job.i > 0 /\ job.i <= Len(manifest.saved)
      /\ UNCHANGED <<candidate, manifest, theirs, late, disturbed, given>>
      /\ manifest \in ManifestSet /\ job \in JobSet /\ given' \in GivenSet
      /\ onDisk \in [Roles -> Entries] /\ inode \in Nat
    BY DEF RepairInv, RepairTypes, RestoreOne, PhaseInv, BackInv, WorkVars, Beside
<1>2. /\ i \in DOMAIN manifest.saved /\ p \in Roles /\ Saved(i).was \in Entries /\ i - 1 \in Nat
      /\ \A j \in DOMAIN manifest.saved : j # i => Saved(j).path # p
      /\ \A j \in DOMAIN manifest.saved : Saved(j).path \in Roles
  <2>1. i \in DOMAIN manifest.saved /\ i \in Nat
      BY <1>1, CapturedAre DEF JobSet
  <2>2. \A j \in DOMAIN manifest.saved : Saved(j).path = candidate[j].path /\ j \in DOMAIN candidate
      BY <1>1, CapturedAre DEF PathsInv, Saved
  <2>3. \A j \in DOMAIN manifest.saved : j # i => Saved(j).path # p
      BY <1>1, <2>1, <2>2 DEF PathsInv
  <2> QED BY <1>1, <2>1, <2>3, CapturedAre
<1>3. /\ job' \in JobSet /\ job'.at = "restore" /\ job'.i = i - 1 /\ (~job'.wrong => ~job.wrong /\ SameTarget(i))
  <2>1. b \in BOOLEAN /\ job' = [job EXCEPT !.i = i - 1, !.wrong = b]
      BY <1>1 DEF RestoreOne, JobSet, SameTarget
  <2>2. ~b => ~job.wrong /\ SameTarget(i)
      OBVIOUS
  <2> HIDE DEF b
  <2> QED BY <1>1, <1>2, <2>1, <2>2 DEF JobSet
<1> HIDE DEF p, b
<1>4. /\ onDisk' \in [Roles -> Entries] /\ inode' \in Nat
      /\ \A q \in Roles : q # p => onDisk'[q] = onDisk[q]
      /\ SameTarget(i) => onDisk'[p].kind = Saved(i).was.kind /\ onDisk'[p].data = Saved(i).was.data
  <2>1. CASE ~SameTarget(i)
      BY <1>1, <2>1 DEF RestoreOne
  <2>2. CASE SameTarget(i) /\ Saved(i).was.kind = "absent"
    <3>1. onDisk' = [onDisk EXCEPT ![p] = Vacant] /\ inode' = inode
        BY <2>2 DEF RestoreOne, PutBack, Unlink, p
    <3>2. Saved(i).was = Vacant
        BY <1>2, <2>2 DEF Entries
    <3> QED BY <1>1, <1>2, <3>1, <3>2, Beginnings
  <2>3. CASE SameTarget(i) /\ Saved(i).was.kind # "absent"
    <3> DEFINE e == [Saved(i).was EXCEPT !.ino = inode]
    <3>1. onDisk' = [onDisk EXCEPT ![p] = e] /\ inode' = inode + 1
        BY <2>3 DEF RestoreOne, PutBack, p
    <3>2. e \in Entries /\ e.kind = Saved(i).was.kind /\ e.data = Saved(i).was.data
        BY <1>1, <1>2, <2>3 DEF Entries, Vacant
    <3> HIDE DEF e
    <3> QED BY <1>1, <1>2, <3>1, <3>2
  <2> QED BY <2>1, <2>2, <2>3
<1>5. RepairTypes' /\ PhaseInv'
    BY <1>1, <1>3, <1>4 DEF RepairTypes, PhaseInv
<1>6. PathsInv'
  <2>1. \A q : Includes(q)' <=> Includes(q)
      BY <1>1 DEF Includes
  <2> QED BY <1>1, <1>3, <2>1 DEF PathsInv
<1>7. ForthInv'
    BY <1>1, <1>3 DEF ForthInv
<1>8. BackInv'
  <2>1. ASSUME NEW j \in DOMAIN manifest.saved, j > i - 1, ~job'.wrong, Saved(j).path \notin disturbed
        PROVE  onDisk'[Saved(j).path].kind = Saved(j).was.kind /\ onDisk'[Saved(j).path].data = Saved(j).was.data
    <3>1. CASE j = i
        BY <1>3, <1>4, <2>1, <3>1 DEF p
    <3>2. CASE j # i
      <4>1. j > i
          BY <1>1, <1>2, <2>1, <3>2, CapturedAre
      <4>2. IsBack(j)
          BY <1>1, <1>3, <2>1, <4>1 DEF BackInv
      <4> QED BY <1>2, <1>4, <2>1, <3>2, <4>2 DEF IsBack
    <3> QED BY <3>1, <3>2
  <2>2. manifest' = manifest /\ disturbed' = disturbed /\ job'.i <= Len(manifest.saved) /\ manifest'.state = "rolling_back"
      BY <1>1, <1>2, <1>3, CapturedAre
  <2> QED BY <1>3, <2>1, <2>2 DEF BackInv, IsBack, Saved
<1> QED
    BY <1>5, <1>6, <1>7, <1>8 DEF RepairInv

\* What somebody else leaves is an entry of its own, and counts where it was inspected.
LEMMA LeavesOne ==
    ASSUME RepairTypes, NEW p \in Roles, Disturb(p)
    PROVE  \E e \in Entries :
               /\ onDisk' = [onDisk EXCEPT ![p] = e] /\ inode' \in Nat
               /\ theirs' = IF Includes(p) THEN [theirs EXCEPT ![p] = e] ELSE theirs
               /\ disturbed' = disturbed \cup {p}
               /\ late' = IF \E a \in aimed : candidate[a.i].path = p THEN late \cup {p} ELSE late \ {p}
<1>1. onDisk \in [Roles -> Entries] /\ inode \in Nat /\ onDisk[p] \in Entries
    BY DEF RepairTypes
<1>2. ASSUME NEW e \in Entries, NEW n \in Nat, Leaves(p, e, n)
      PROVE  /\ onDisk' = [onDisk EXCEPT ![p] = e] /\ inode' \in Nat
             /\ theirs' = IF Includes(p) THEN [theirs EXCEPT ![p] = e] ELSE theirs
             /\ disturbed' = disturbed \cup {p}
             /\ late' = IF \E a \in aimed : candidate[a.i].path = p THEN late \cup {p} ELSE late \ {p}
    BY <1>1, <1>2 DEF Leaves, Includes
<1>3. CASE onDisk[p].kind = "file" /\ Leaves(p, [onDisk[p] EXCEPT !.data = EditedData], 0)
  <2>1. [onDisk[p] EXCEPT !.data = EditedData] \in Entries
      BY <1>1, <1>3 DEF Entries, EditedData
  <2> QED BY <1>2, <1>3, <2>1
<1>4. CASE Leaves(p, [kind |-> IF p = "link" THEN "link" ELSE "file", ino |-> inode, data |-> EditedData], 1)
  <2>1. [kind |-> IF p = "link" THEN "link" ELSE "file", ino |-> inode, data |-> EditedData] \in Entries
      BY <1>1 DEF Entries, EditedData
  <2> QED BY <1>2, <1>4, <2>1
<1>5. CASE Leaves(p, Vacant, 0)
    BY <1>2, <1>5, Beginnings
<1>6. CASE Leaves(p, [kind |-> "directory", ino |-> inode, data |-> 0], 1)
  <2>1. [kind |-> "directory", ino |-> inode, data |-> 0] \in Entries
      BY <1>1 DEF Entries
  <2> QED BY <1>2, <1>6, <2>1
<1> QED
    BY <1>3, <1>4, <1>5, <1>6 DEF Disturb

\* Somebody else writes to a file.
LEMMA DisturbKeeps ==
    ASSUME RepairInv, OthersInv, NEW p \in Roles, Disturb(p)
    PROVE  RepairInv'
<1>1. /\ RepairTypes /\ PhaseInv /\ PathsInv /\ ForthInv /\ BackInv
      /\ UNCHANGED <<job, candidate, manifest>> /\ job \in JobSet /\ manifest \in ManifestSet
      /\ onDisk \in [Roles -> Entries] /\ theirs \in [Roles -> Entries \cup {NotEdited}] /\ disturbed \subseteq Roles
    BY DEF RepairInv, RepairTypes, Disturb, WorkVars
<1>2. given' \in GivenSet /\ given'.materialize = given.materialize
  <2>1. given \in GivenSet /\ given.count > 0 /\ given' = [given EXCEPT !.count = @ - 1]
      BY <1>1 DEF RepairInv, RepairTypes, Disturb
  <2>2. given.count - 1 \in Nat
      BY <2>1 DEF GivenSet
  <2> QED BY <2>1, <2>2 DEF GivenSet
<1>3. PICK e \in Entries :
        /\ onDisk' = [onDisk EXCEPT ![p] = e] /\ inode' \in Nat
        /\ theirs' = IF Includes(p) THEN [theirs EXCEPT ![p] = e] ELSE theirs
        /\ disturbed' = disturbed \cup {p}
        /\ \A q \in Roles : q # p => (q \in late' <=> q \in late)
    BY <1>1, LeavesOne
<1>4. e # NotEdited
    BY Beginnings
<1>5. /\ onDisk' \in [Roles -> Entries] /\ onDisk'[p] = e /\ \A q \in Roles : q # p => onDisk'[q] = onDisk[q]
      /\ theirs' \in [Roles -> Entries \cup {NotEdited}] /\ \A q \in Roles : q # p => theirs'[q] = theirs[q]
      /\ Includes(p) => theirs'[p] = e
      /\ ~Includes(p) => theirs' = theirs /\ theirs[p] = NotEdited
    BY <1>1, <1>3 DEF OthersInv, Unspoiled
<1>6. RepairTypes' /\ PhaseInv'
    BY <1>1, <1>2, <1>3, <1>5 DEF RepairTypes, PhaseInv
<1>7. \A q : Includes(q)' <=> Includes(q)
    BY <1>1 DEF Includes
<1>8. PathsInv'
  <2>1. Looked' = Looked
      BY <1>1 DEF Looked
  <2> QED BY <1>1, <1>7, <2>1 DEF PathsInv
<1>9. \A i \in DOMAIN candidate : candidate[i].path \in Roles /\ Includes(candidate[i].path)
    BY <1>1, CapturedAre DEF Includes
<1>10. ASSUME NEW i \in DOMAIN candidate, theirs'[candidate[i].path] = NotEdited
       PROVE  /\ candidate[i].path # p /\ Unspoiled(candidate[i].path)
              /\ onDisk'[candidate[i].path] = onDisk[candidate[i].path]
  <2>1. candidate[i].path # p
      BY <1>4, <1>5, <1>9, <1>10
  <2> QED BY <1>5, <1>9, <1>10, <2>1 DEF Unspoiled
<1>11. \A q, r \in Roles : q # p /\ r # p => (InStep(q, r)' <=> InStep(q, r))
    BY <1>5 DEF InStep
<1>12. ForthInv'
  <2>1. manifest.state \notin {"rolling_back", "rolled_back", "rollback_failed"} =>
            \A q \in Roles : theirs'[q] = NotEdited \/ onDisk'[q] = theirs'[q] \/ q \in late'
      BY <1>1, <1>3, <1>5 DEF ForthInv, Unspoiled
  <2>2. job.at \in {"look", "capture", "snapshotted", "recheck"} =>
            \A i \in DOMAIN candidate : theirs'[candidate[i].path] = NotEdited => onDisk'[candidate[i].path] = candidate[i].was
      BY <1>1, <1>10 DEF ForthInv, AsInspected
  <2>3. ToTouch' = ToTouch
      BY <1>1, <1>2 DEF ToTouch
  <2>4. ASSUME job.at = "act", NEW i \in DOMAIN candidate, theirs'[candidate[i].path] = NotEdited
        PROVE  /\ i \notin ToTouch \ job.left => onDisk'[candidate[i].path] = candidate[i].was
               /\ i \in ToTouch \ job.left => Touched(candidate[i].path)'
    <3>1. /\ i \notin ToTouch \ job.left => AsInspected(i)
          /\ i \in ToTouch \ job.left => Touched(candidate[i].path)
        BY <1>1, <1>10, <2>4 DEF ForthInv
    <3>2. ASSUME Touched(candidate[i].path), i \in ToTouch PROVE Touched(candidate[i].path)'
      <4>1. CASE job.does \in {"prune", "temp"}
          BY <1>1, <1>10, <2>4, <3>2, <4>1 DEF Touched
      <4>2. CASE job.does = "bundle"
          BY <1>1, <1>10, <2>4, <3>2, <4>2 DEF Touched
      <4>3. CASE job.does = "runtime"
        <5>1. candidate[i].path = "plain" /\ manifest.does = "runtime" /\ manifest.state = "applying"
            BY <1>1, <2>4, <3>2, <4>3 DEF ToTouch, PhaseInv
        <5>2. Includes("crt") /\ (Unspoiled("crt") => InStep("crt", "plain"))
            BY <1>1, <3>2, <4>3, <5>1 DEF PathsInv, IsCert, Touched
        <5>3. ASSUME theirs'["crt"] = NotEdited PROVE InStep("crt", "plain")'
          <6>1. "crt" # p /\ "plain" # p /\ Unspoiled("crt")
              BY <1>4, <1>5, <1>10, <2>4, <5>1, <5>2, <5>3 DEF Unspoiled, Roles
          <6> QED BY <1>11, <5>2, <6>1 DEF Roles
        <5> QED BY <1>1, <4>3, <5>3 DEF Touched, Unspoiled
      <4> QED BY <1>1, <2>4, <4>1, <4>2, <4>3 DEF PhaseInv, JobSet, Repairs4
    <3> QED BY <1>10, <2>4, <3>1, <3>2 DEF AsInspected
  <2>5. ASSUME manifest.state \in {"validating", "succeeded"}, \A q \in Roles : theirs'[q] = NotEdited, NEW i \in DOMAIN manifest.saved
        PROVE  AsIntended(Saved(i).path)'
    <3>1. ~Includes(p) /\ \A q \in Roles : Unspoiled(q)
        BY <1>4, <1>5, <2>5 DEF Unspoiled
    <3>2. AsIntended(Saved(i).path)
        BY <1>1, <2>5, <3>1 DEF ForthInv
    <3>3. Saved(i).path = candidate[i].path /\ i \in DOMAIN candidate
        BY <1>1, CapturedAre DEF PathsInv, Saved
    <3>4. Saved(i).path # p /\ Saved(i).path \in Roles /\ Saved(i)' = Saved(i)
        BY <1>1, <1>9, <3>1, <3>3 DEF Saved
    <3>5. manifest'.does = manifest.does /\ onDisk'[Saved(i).path] = onDisk[Saved(i).path]
        BY <1>1, <1>5, <3>4
    <3>6. CASE manifest.does \in {"prune", "temp"}
        BY <3>2, <3>4, <3>5, <3>6 DEF AsIntended
    <3>7. CASE IsCert(manifest.does)
      <4>1. p \notin {"crt", "key", "plain"}
          BY <1>1, <2>5, <3>1, <3>7 DEF PathsInv
      <4>2. /\ InStep("crt", "key")' <=> InStep("crt", "key")
            /\ InStep("crt", "plain")' <=> InStep("crt", "plain")
            /\ Present("plain")' <=> Present("plain")
          BY <1>5, <1>11, <4>1 DEF Roles, Present
      <4> QED BY <3>2, <3>5, <3>7, <4>2 DEF AsIntended, IsCert
    <3> QED BY <1>1, <2>5, <3>6, <3>7 DEF PhaseInv, ManifestSet, Repairs4, IsCert
  <2> QED BY <1>1, <2>1, <2>2, <2>3, <2>4, <2>5 DEF ForthInv, Unspoiled, AsInspected, Saved
<1>13. BackInv'
  <2>1. \A i \in DOMAIN manifest.saved : Saved(i).path \in Roles
      BY <1>1, CapturedAre
  <2>2. ASSUME NEW i \in DOMAIN manifest.saved, Saved(i).path \notin disturbed', IsBack(i)
        PROVE  onDisk'[Saved(i).path].kind = Saved(i).was.kind /\ onDisk'[Saved(i).path].data = Saved(i).was.data
    <3>1. Saved(i).path # p
        BY <1>3, <2>2
    <3> QED BY <1>5, <2>1, <2>2, <3>1 DEF IsBack
  <2>3. disturbed \subseteq disturbed'
      BY <1>3
  <2> QED BY <1>1, <2>2, <2>3 DEF BackInv, IsBack, Saved
<1> QED
    BY <1>6, <1>8, <1>12, <1>13 DEF RepairInv

\* What others leave counts at the files inspected, which stay inspected until none is.
LEMMA OthersKeep ==
    ASSUME RepairTypes, OthersInv, RepairNext
    PROVE  OthersInv'
<1>1. CASE UNCHANGED <<candidate, theirs>>
    BY <1>1 DEF OthersInv, Unspoiled, Includes
<1>2. CASE Look
  <2>1. CASE theirs' = Unedited
      BY <2>1, Beginnings DEF OthersInv, Unspoiled
  <2>2. ASSUME theirs' = theirs, NEW c, candidate' = Append(candidate, c) PROVE OthersInv'
    <3>1. candidate \in Seq(Captured)
        BY DEF RepairTypes
    <3>2. \A i \in DOMAIN candidate : i \in DOMAIN candidate' /\ candidate'[i] = candidate[i]
        BY <2>2, <3>1
    <3> QED BY <2>2, <3>2 DEF OthersInv, Unspoiled, Includes
  <2> QED BY <1>1, <1>2, <2>1, <2>2 DEF Look
<1>3. CASE Aim
  <2>1. candidate' = candidate /\ \A q \in Roles : theirs[q] = NotEdited => theirs'[q] = NotEdited
    <3>1. theirs \in [Roles -> Entries \cup {NotEdited}]
        BY DEF RepairTypes
    <3>2. theirs' = theirs \/ \E i : theirs' = [theirs EXCEPT ![candidate[i].path] = NotEdited]
        BY <1>3 DEF Aim
    <3> QED BY <1>3, <3>1, <3>2 DEF Aim, WorkVars
  <2> QED BY <2>1 DEF OthersInv, Unspoiled, Includes
<1>4. ASSUME NEW p \in Roles, Disturb(p) PROVE OthersInv'
  <2>1. PICK e \in Entries : theirs' = IF Includes(p) THEN [theirs EXCEPT ![p] = e] ELSE theirs
      BY <1>4, LeavesOne
  <2>2. candidate' = candidate /\ theirs \in [Roles -> Entries \cup {NotEdited}]
      BY <1>4 DEF Disturb, WorkVars, RepairTypes
  <2>3. \A q \in Roles : (q = p /\ Includes(p)) \/ theirs'[q] = theirs[q]
      BY <2>1, <2>2
  <2> QED BY <2>2, <2>3 DEF OthersInv, Unspoiled, Includes
<1>5. RepairNext => Look \/ Aim \/ (\E p \in Roles : Disturb(p)) \/ UNCHANGED <<candidate, theirs>>
    BY DEF RepairNext, RepairSteps, InspectFiles, Resolve, Capture, Keep, Applying, Recheck, Touch, Acted, ValidateFiles,
           RollingBack, Preflight, RestoreOne, Rolled, CrashAndResume, WorkVars, Beside
<1> QED
    BY <1>1, <1>2, <1>3, <1>4, <1>5

\* A file is aimed at only while the repair acts, and what is aimed holds until it is done.
LEMMA AimHolds ==
    ASSUME RepairInv, OthersInv, AimInv, RepairNext
    PROVE  AimInv'
<1>1. /\ RepairTypes /\ PhaseInv /\ PathsInv /\ ForthInv /\ job \in JobSet
      /\ onDisk \in [Roles -> Entries] /\ theirs \in [Roles -> Entries \cup {NotEdited}]
    BY DEF RepairInv, RepairTypes
<1>2. CASE aimed' = {}
    BY <1>2 DEF AimInv
<1>3. CASE Aim /\ aimed' # {}
  <2>1. PICK i \in job.left : ~Refuses(i) /\ aimed' = {[i |-> i, data |-> NewData]}
               /\ theirs' = (IF AsInspected(i) THEN [theirs EXCEPT ![candidate[i].path] = NotEdited] ELSE theirs) /\ job' = job
      BY <1>3 DEF Aim
  <2>2. job.at = "act" /\ job.does # "none" /\ UNCHANGED <<onDisk, candidate, late>>
      BY <1>1, <1>3 DEF Aim, PhaseInv, WorkVars
  <2>3. /\ AsInspected(i) /\ (job.does = "runtime" => InStep("crt", "key"))
        /\ i \in DOMAIN candidate /\ candidate[i].path \in Roles
      BY <1>1, <2>1, <2>2, CapturedAre DEF Refuses, ForthInv, ToTouch
  <2>4. Unspoiled(candidate[i].path)'
      BY <1>1, <2>1, <2>2, <2>3 DEF Unspoiled
  <2> DEFINE a == [i |-> i, data |-> NewData]
  <2>5. NewData \in Nat
    <3>1. \A e \in Entries : e.data \in Nat
        BY DEF Entries
    <3> QED BY <1>1, <3>1 DEF NewData, Roles
  <2>6. Loads(a)'
    <3>1. CASE job.does \in {"prune", "temp"}
        BY <2>1, <3>1 DEF Loads
    <3>2. CASE job.does = "bundle"
        BY <2>1, <3>2 DEF Loads, NewData
    <3>3. CASE job.does = "runtime"
      <4>1. onDisk["crt"].kind = "file" /\ onDisk["crt"].data = NewData
          BY <2>3, <3>3 DEF InStep, NewData
      <4>2. a.data = NewData /\ onDisk' = onDisk /\ job'.does = "runtime" /\ a' = a
        <5>1. NewData' = NewData
            BY <2>1, <2>2 DEF NewData
        <5> QED BY <2>1, <2>2, <3>3, <5>1
      <4> HIDE DEF a
      <4> QED BY <4>1, <4>2 DEF Loads
    <3> QED BY <1>1, <2>2, <3>1, <3>2, <3>3 DEF JobSet, Repairs4
  <2>7. a' = a /\ aimed' = {a} /\ a.i = i /\ a.data = NewData
    <3>1. NewData' = NewData
        BY <2>1, <2>2 DEF NewData
    <3> QED BY <2>1, <3>1
  <2> HIDE DEF a
  <2>8. \A b \in aimed' : b.i \in job'.left /\ b.data \in Nat /\ Loads(b)' /\ Unspoiled(candidate[b.i].path)'
      BY <2>1, <2>2, <2>4, <2>5, <2>6, <2>7
  <2> QED BY <2>1, <2>2, <2>8 DEF AimInv
<1>4. ASSUME NEW p \in Roles, Disturb(p) PROVE AimInv'
  <2>1. PICK e \in Entries :
            /\ onDisk' = [onDisk EXCEPT ![p] = e]
            /\ theirs' = IF Includes(p) THEN [theirs EXCEPT ![p] = e] ELSE theirs
            /\ late' = IF \E a \in aimed : candidate[a.i].path = p THEN late \cup {p} ELSE late \ {p}
      BY <1>1, <1>4, LeavesOne
  <2>2. UNCHANGED <<job, candidate, aimed, manifest>>
      BY <1>4 DEF Disturb, WorkVars
  <2>3. /\ \A q \in Roles : q # p => onDisk'[q] = onDisk[q] /\ theirs'[q] = theirs[q]
        /\ Includes(p) => theirs'[p] # NotEdited
      BY <1>1, <2>1, Beginnings
  <2>4. ASSUME NEW a \in aimed
        PROVE  /\ a.i \in job'.left /\ a.data \in Nat /\ Loads(a)'
               /\ Unspoiled(candidate[a.i].path)' \/ candidate'[a.i].path \in late'
    <3>1. a.i \in job.left /\ a.data \in Nat /\ Loads(a) /\ (Unspoiled(candidate[a.i].path) \/ candidate[a.i].path \in late) /\ job.at = "act"
        BY <2>4 DEF AimInv
    <3>2. a.i \in DOMAIN candidate /\ candidate[a.i].path \in Roles
        BY <1>1, <3>1, CapturedAre DEF ForthInv, ToTouch
    <3>3. Unspoiled(candidate[a.i].path)' \/ candidate'[a.i].path \in late'
      <4>1. CASE candidate[a.i].path = p
          BY <2>1, <2>2, <4>1
      <4>2. CASE candidate[a.i].path # p
        <5>1. theirs'[candidate[a.i].path] = theirs[candidate[a.i].path] /\ candidate' = candidate
            BY <2>2, <2>3, <3>2, <4>2
        <5>2. candidate[a.i].path \in late => candidate[a.i].path \in late'
            BY <2>1, <4>2
        <5> QED BY <3>1, <5>1, <5>2 DEF Unspoiled
      <4> QED BY <4>1, <4>2
    <3>4. Loads(a)'
      <4>1. CASE job.does \in {"prune", "temp"}
          BY <2>2, <4>1 DEF Loads
      <4>2. CASE job.does = "bundle"
          BY <2>2, <3>1, <4>2 DEF Loads
      <4>3. CASE job.does = "runtime"
        <5>1. Includes("crt")
            BY <1>1, <3>1, <4>3 DEF PathsInv, PhaseInv, IsCert
        <5>2. CASE p = "crt"
          <6>1. theirs'["crt"] # NotEdited
              BY <2>3, <5>1, <5>2
          <6> QED BY <2>2, <4>3, <6>1 DEF Loads, Unspoiled
        <5>3. CASE p # "crt"
          <6>1. onDisk'["crt"] = onDisk["crt"] /\ theirs'["crt"] = theirs["crt"]
              BY <2>3, <5>3 DEF Roles
          <6> QED BY <2>2, <3>1, <4>3, <6>1 DEF Loads, Unspoiled
        <5> QED BY <5>2, <5>3
      <4> QED BY <1>1, <3>1, <4>1, <4>2, <4>3 DEF PhaseInv, JobSet, Repairs4
    <3> QED BY <2>2, <3>1, <3>3, <3>4
  <2> QED BY <2>2, <2>4 DEF AimInv
<1>5. RepairNext => \/ (aimed' = aimed /\ (job.at # "act" \/ Acted))
                   \/ (Recheck /\ aimed' = aimed) \/ Aim \/ aimed' = {} \/ \E p \in Roles : Disturb(p)
    BY DEF RepairNext, RepairSteps, InspectFiles, Look, Resolve, Capture, Keep, Applying, Recheck, Touch, ValidateFiles, Acted,
           RollingBack, Preflight, RestoreOne, Rolled, CrashAndResume, Beside
<1>6. CASE Aim /\ aimed' = {}
    BY <1>6, <1>2
<1>7. CASE aimed' = aimed /\ (job.at # "act" \/ Acted)
  <2>1. aimed = {}
      BY <1>7 DEF AimInv, Acted
  <2> QED BY <1>2, <1>7, <2>1
<1>8. CASE Recheck /\ aimed' = aimed
    BY <1>2, <1>8 DEF AimInv, Recheck
<1> QED
    BY <1>2, <1>3, <1>4, <1>5, <1>6, <1>7, <1>8

\* At first nothing has been inspected.
LEMMA RepairBegins ==
    ASSUME RepairInit
    PROVE  RepairInv /\ OthersInv /\ AimInv
<1>1. /\ job = JobIdle /\ candidate = <<>> /\ manifest = NoManifestYet /\ theirs = Unedited /\ disturbed = {} /\ aimed = {}
      /\ onDisk = [p \in Roles |-> FileOf(given.files, p)] /\ inode = 2 /\ given \in RepairCases
    BY DEF RepairInit
<1>2. given \in GivenSet
    BY <1>1, RepairAssumptions DEF GivenSet
<1>3. onDisk \in [Roles -> Entries]
  <2>1. ASSUME NEW p \in Roles PROVE FileOf(given.files, p) \in Entries
    <3>1. given.files[p] \in {0, 1, 2}
        BY <1>2 DEF GivenSet
    <3>2. [kind |-> IF p = "link" THEN "link" ELSE "file", ino |-> 1, data |-> given.files[p]] \in Entries
        BY <3>1 DEF Entries
    <3> QED BY <3>2, Beginnings DEF FileOf
  <2> QED BY <1>1, <2>1
<1>4. candidate \in Seq(Captured) /\ DOMAIN candidate = {} /\ Len(candidate) = 0 /\ DOMAIN manifest.saved = {} /\ Len(manifest.saved) = 0
    BY <1>1, Beginnings
<1>5. RepairTypes
    BY <1>1, <1>2, <1>3, <1>4, Beginnings DEF RepairTypes
<1>6. job.at = "idle" /\ manifest.state = "none" /\ manifest.saved = <<>> /\ \A p \in Roles : Unspoiled(p)
    BY <1>1, Beginnings DEF Unspoiled
<1>7. PhaseInv /\ PathsInv /\ ForthInv /\ BackInv /\ OthersInv /\ AimInv
    BY <1>1, <1>4, <1>6 DEF PhaseInv, PathsInv, ForthInv, BackInv, OthersInv, AimInv
<1> QED
    BY <1>5, <1>7 DEF RepairInv

\* A step leaves the invariant as it is.
LEMMA RepairKeeps ==
    ASSUME RepairInv, OthersInv, AimInv, RepairNext
    PROVE  RepairInv'
    BY InspectKeeps, LookKeeps, SnapshotTurns, CaptureKeeps, RecheckKeeps, AimKeeps, TouchKeeps, RepairTurns, PreflightKeeps,
       RestoreKeeps, CrashKeeps, DisturbKeeps DEF RepairNext, RepairSteps

\* The invariant says what a repair says of itself.
LEMMA InvEnds == RepairInv => EndsAsSaid
<1> SUFFICES ASSUME RepairInv PROVE EndsAsSaid
    OBVIOUS
<1>1. RepairTypes /\ ForthInv /\ BackInv
    BY DEF RepairInv
<1>2. AllOrNothing
    BY <1>1 DEF AllOrNothing, ForthInv, BackInv, Unspoiled, IsBack
<1>3. SparesEdits
    BY <1>1 DEF SparesEdits, ForthInv, Unspoiled
<1> QED
    BY <1>2, <1>3 DEF EndsAsSaid

\* While nothing happens the invariant stays.
LEMMA RepairStutters ==
    ASSUME RepairInv, OthersInv, AimInv, UNCHANGED repairVars
    PROVE  RepairInv' /\ OthersInv' /\ AimInv'
<1>1. UNCHANGED <<onDisk, inode, job, candidate, manifest, aimed, theirs, late, disturbed, given>>
    BY DEF repairVars
<1>2. OthersInv' /\ AimInv'
    BY <1>1 DEF OthersInv, Unspoiled, Includes, AimInv, Loads
<1>3. RepairTypes' /\ PhaseInv'
    BY <1>1 DEF RepairInv, RepairTypes, PhaseInv
<1>4. PathsInv'
    BY <1>1 DEF RepairInv, PathsInv, Includes, Looked
<1>5. ForthInv'
    BY <1>1 DEF RepairInv, ForthInv, Unspoiled, AsInspected, ToTouch, Touched, AsIntended, InStep, Present, Saved
<1>6. BackInv'
    BY <1>1 DEF RepairInv, BackInv, IsBack, Saved
<1> QED
    BY <1>2, <1>3, <1>4, <1>5, <1>6 DEF RepairInv

\* EndsAsSaid (RepairFiles.tla), for every host, every edit and every crash: what a repair
\* says of itself at its end is so (agent/recovery/coordinator.go, snapshot.go).
THEOREM EndsAsSaidCorrect == RepairSpec => []EndsAsSaid
<1>1. RepairInit => RepairInv /\ OthersInv /\ AimInv
    BY RepairBegins
<1>2. RepairInv /\ OthersInv /\ AimInv /\ [RepairNext]_repairVars => RepairInv' /\ OthersInv' /\ AimInv'
    BY RepairKeeps, OthersKeep, AimHolds, RepairStutters DEF RepairInv
<1>3. RepairInv => EndsAsSaid
    BY InvEnds
<1> QED
    BY <1>1, <1>2, <1>3, PTL DEF RepairSpec
=============================================================================
