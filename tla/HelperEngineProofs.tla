-------------------------- MODULE HelperEngineProofs --------------------------
(***************************************************************************)
(* For any operations, targets, faults and number of faults: the helper lets *)
(* an operation's handler at the host once, and an incident keeps its breaker *)
(* open in every later process.  And the helper, with its journal, snapshots  *)
(* and rollbacks, does what HelperPromise says in one step: operations take    *)
(* effect whole or not at all, until one is in doubt.  The invariant of the     *)
(* first part is IInv, of the refinement IInv with RInv.                          *)
(***************************************************************************)
EXTENDS HelperEngine, TLAPS

(* What the record says of the operation the process is at.                   *)
OnRecord ==
    LET o == hp.op IN
    /\ hp.pc \in {"claim", "record"} => journal[o] = "none" /\ o \notin pruned
    /\ hp.pc \in {"prepare", "run"} => journal[o] = "authorized"
    /\ hp.pc \in {"execute", "write", "judge"} => journal[o] = "running"
    /\ hp.pc \in {"mutated", "validated"} => journal[o] = hp.pc
    /\ hp.pc \in {"restore", "settle", "failed"} => journal[o] = "rollback_running"

Saved == {"run", "execute", "write", "judge", "mutated", "validated", "restore", "settle", "failed"}

(* From its snapshot on, what is to be written or restored is what was saved.   *)
SnapshotTaken ==
    /\ hp.pc \in Saved => snaps[hp.op] # None
    /\ hp.pc \in Working => hp.todo \subseteq Targets[hp.op]

(* An operation that may still begin has not been executed.                     *)
OnceRecord ==
    /\ \A o \in Ops : executed[o] \in 0..1
    /\ \A o \in pruned : o \in expired /\ journal[o] = "none"
    /\ \A o \in Ops : journal[o] = "authorized" \/ (journal[o] = "none" /\ o \notin pruned) => executed[o] = 0
    /\ hp.pc = "execute" => executed[hp.op] = 0

(* The breaker is on the disk before an incident is on record.                  *)
LatchRecord ==
    "relatch" \notin case.faults =>
        /\ (\E o \in Ops : journal[o] \in Incident) => breaker.disk \/ hp.pc = "latch"
        /\ hp.pc = "failed" => breaker.disk

IInv == OnRecord /\ SnapshotTaken /\ OnceRecord /\ LatchRecord

-----------------------------------------------------------------------------
(* Types. *)

\* What an action leaves alone keeps its type.
LEMMA Frames ==
    /\ HostTyped /\ UNCHANGED <<host, wrote>> => HostTyped'
    /\ TablesTyped /\ UNCHANGED tables => TablesTyped'
    /\ StoreTyped /\ UNCHANGED store => StoreTyped'
    /\ ProcessTyped /\ UNCHANGED hp => ProcessTyped'
    /\ HistoryTyped /\ UNCHANGED <<case, left, expired, executed, pruned>> => HistoryTyped'
BY DEF HostTyped, TablesTyped, StoreTyped, ProcessTyped, HistoryTyped, Imaged, tables, store

LEMMA SpendTyped ==
    ASSUME HistoryTyped, NEW f, Spend(f) \/ UNCHANGED left, UNCHANGED <<case, expired, executed, pruned>>
    PROVE  HistoryTyped'
BY DEF HistoryTyped, Spend

\* Where the process may go next.
LEMMA NextTyped ==
    ASSUME ProcessTyped
    PROVE  /\ Idle.pc = "idle" /\ Down.pc = "down" /\ Broken.pc = "broken"
           /\ hp' = Idle \/ hp' = Down \/ hp' = Broken \/ hp' = Resting => ProcessTyped'
           /\ \A pc \in Working : hp.op \in Ops /\ hp' = Goto(pc) => ProcessTyped'
           /\ \A pc \in Working, b \in BOOLEAN : hp.op \in Ops /\ hp' = [hp EXCEPT !.pc = pc, !.ok = b] => ProcessTyped'
           /\ \A pc \in {"latch", "recover"} : hp' = Goto(pc) => ProcessTyped'
           /\ \A pc \in Working, o \in Ops : hp' = Process(pc, o) => ProcessTyped'
<1>1. Idle.pc = "idle" /\ Down.pc = "down" /\ Broken.pc = "broken"
    BY DEF Idle, Down, Broken, Process
<1>0. hp' = Idle \/ hp' = Down \/ hp' = Broken \/ hp' = Resting => ProcessTyped'
    <2>1. hp.op \in Ops \cup {None}
        BY DEF ProcessTyped
    <2>2. \A o \in Ops \cup {None}, pc \in {"idle", "down", "broken"} : hp' = Process(pc, o) => ProcessTyped'
        BY DEF ProcessTyped, Process, Working, Pcs
    <2> QED BY <2>1, <2>2 DEF Idle, Down, Broken, Resting
<1>2. \A pc \in Working : hp.op \in Ops /\ hp' = Goto(pc) => ProcessTyped'
    BY DEF ProcessTyped, Goto, Working
<1>3. \A pc \in Working, b \in BOOLEAN : hp.op \in Ops /\ hp' = [hp EXCEPT !.pc = pc, !.ok = b] => ProcessTyped'
    BY DEF ProcessTyped, Working
<1>4. \A pc \in {"latch", "recover"} : hp' = Goto(pc) => ProcessTyped'
    BY DEF ProcessTyped, Goto, Working, Pcs
<1>5. \A pc \in Working, o \in Ops : hp' = Process(pc, o) => ProcessTyped'
    BY DEF ProcessTyped, Process, Working
<1> QED BY <1>0, <1>1, <1>2, <1>3, <1>4, <1>5

LEMMA ImageTyped ==
    ASSUME NEW f, Imaged(f), NEW o \in Ops, HostTyped
    PROVE  /\ Imaged([f EXCEPT ![o] = Facts(o)])
           /\ Imaged([f EXCEPT ![o] = None])
<1>1. Facts(o) \in [Targets[o] -> Contents]
    BY HelperAssumptions DEF HostTyped, Facts, Hosts
<1> QED BY <1>1 DEF Imaged

LEMMA AnswerTyped ==
    ASSUME TablesTyped, NEW o \in Ops, NEW state, Answer(o, state) \/ UNCHANGED receipt,
           UNCHANGED <<plan, confirmed, current>>
    PROVE  TablesTyped'
<1>1. receipt' \in [Ops -> Terminal \cup {None}]
    BY DEF TablesTyped, Answer, StoreReceipt, StoreManagedReceipt
<1> QED BY <1>1 DEF TablesTyped, Imaged

LEMMA JournalTyped ==
    ASSUME StoreTyped, NEW o \in Ops, NEW state \in States,
           journal' \in {journal, [journal EXCEPT ![o] = state]}, UNCHANGED <<claims, snaps, breaker>>
    PROVE  StoreTyped'
<1>1. journal' \in [Ops -> States]
    BY DEF StoreTyped
<1> QED BY <1>1 DEF StoreTyped, Imaged

LEMMA BreakerTyped ==
    ASSUME StoreTyped, breaker' \in [mem : BOOLEAN, disk : BOOLEAN], journal' \in [Ops -> States],
           UNCHANGED <<claims, snaps>>
    PROVE  StoreTyped'
BY DEF StoreTyped, Imaged

LEMMA BreakerMoves ==
    ASSUME StoreTyped
    PROVE  /\ [mem |-> TRUE, disk |-> TRUE] \in [mem : BOOLEAN, disk : BOOLEAN]
           /\ [mem |-> FALSE, disk |-> TRUE] \in [mem : BOOLEAN, disk : BOOLEAN]
           /\ [breaker EXCEPT !.mem = TRUE] \in [mem : BOOLEAN, disk : BOOLEAN]
           /\ breaker \in [mem : BOOLEAN, disk : BOOLEAN]
<1>1. breaker \in [mem : BOOLEAN, disk : BOOLEAN]
    BY DEF StoreTyped
<1>2. [breaker EXCEPT !.mem = TRUE] \in [mem : BOOLEAN, disk : BOOLEAN]
    BY <1>1
<1>3. [mem |-> TRUE, disk |-> TRUE] \in [mem : BOOLEAN, disk : BOOLEAN]
    OBVIOUS
<1>4. [mem |-> FALSE, disk |-> TRUE] \in [mem : BOOLEAN, disk : BOOLEAN]
    OBVIOUS
<1> QED BY <1>1, <1>2, <1>3, <1>4

LEMMA LogTyped ==
    ASSUME TypeOK, hp.op \in Ops, NEW state \in States, NEW next, Log(hp.op, state, next),
           hp' = next => ProcessTyped',
           UNCHANGED <<claims, snaps, breaker, case, expired, executed, pruned>>
    PROVE  StoreTyped' /\ ProcessTyped' /\ HistoryTyped'
BY JournalTyped, SpendTyped, NextTyped DEF TypeOK, Log

LEMMA FinishTyped ==
    ASSUME TypeOK, hp.op \in Ops, NEW state \in Terminal, Finish(hp.op, state),
           UNCHANGED <<host, plan, confirmed, current, expired, case, claims, snaps, breaker, history>>
    PROVE  TypeOK'
<1>1. state \in States
    BY DEF States
<1>2. Log(hp.op, state, Idle)
    BY DEF Finish
<1>3. StoreTyped' /\ ProcessTyped' /\ HistoryTyped'
    BY <1>1, <1>2, LogTyped, NextTyped DEF TypeOK, history
<1>4. TablesTyped'
    BY AnswerTyped DEF TypeOK, Finish
<1>5. HostTyped'
    BY Frames DEF TypeOK, history
<1> QED BY <1>3, <1>4, <1>5 DEF TypeOK

LEMMA WroteTyped ==
    ASSUME HostTyped, NEW t \in Things
    PROVE  /\ Unwritten(t) \in [Ops -> [Things -> Contents \cup {None}]]
           /\ \A o \in Ops : Written(o, t) \in [Ops -> [Things -> Contents \cup {None}]]
           /\ \A c \in Contents : [host EXCEPT ![t] = c] \in Hosts
<1>1. Unwritten(t) \in [Ops -> [Things -> Contents \cup {None}]]
    BY DEF HostTyped, Unwritten
<1>2. host[t] \in Contents
    BY DEF HostTyped, Hosts
<1>3. \A o \in Ops : [Unwritten(t) EXCEPT ![o][t] = host[t]] \in [Ops -> [Things -> Contents \cup {None}]]
    BY <1>1, <1>2
<1>4. \A c \in Contents : [host EXCEPT ![t] = c] \in Hosts
    BY DEF HostTyped, Hosts
<1> QED BY <1>1, <1>3, <1>4 DEF Written

LEMMA PlanActionTyped == ASSUME TypeOK, NEW o \in Ops, PlanAction(o) PROVE TypeOK'
<1>1. TablesTyped'
    BY ImageTyped DEF TypeOK, PlanAction, StorePlan, TablesTyped
<1> QED BY <1>1, Frames DEF TypeOK, PlanAction, Unplanned, history

LEMMA ConfirmTyped == ASSUME TypeOK, NEW o \in Ops, Confirm(o) PROVE TypeOK'
<1>1. confirmed' \in [Ops -> 0..2]
    BY DEF TypeOK, TablesTyped, Confirm
<1>2. TablesTyped'
    BY <1>1 DEF TypeOK, Confirm, TablesTyped, Imaged
<1> QED BY <1>2, Frames DEF TypeOK, Confirm, Unplanned, history

LEMMA PublishIntentTyped == ASSUME TypeOK, NEW o \in Ops, PublishIntent(o) PROVE TypeOK'
<1>1. TablesTyped'
    BY DEF TypeOK, PublishIntent, TablesTyped, Imaged
<1> QED BY <1>1, Frames DEF TypeOK, PublishIntent, Unplanned, history

LEMMA AuthorizeManagedTyped == ASSUME TypeOK, NEW o \in Ops, AuthorizeManaged(o) PROVE TypeOK'
<1>1. Imaged(plan')
    BY ImageTyped DEF TypeOK, TablesTyped, AuthorizeManaged, StoreManagedPlan
<1>2. confirmed' \in [Ops -> 0..2]
    BY DEF TypeOK, TablesTyped, AuthorizeManaged, StoreManagedGrant
<1>3. TablesTyped'
    BY <1>1, <1>2 DEF TypeOK, AuthorizeManaged, TablesTyped
<1> QED BY <1>3, Frames DEF TypeOK, AuthorizeManaged, Unplanned, history

LEMMA ExpireTyped == ASSUME TypeOK, NEW o \in Ops, Expire(o) PROVE TypeOK'
<1>1. HistoryTyped'
    BY DEF TypeOK, Expire, HistoryTyped, history
<1> QED BY <1>1, Frames DEF TypeOK, Expire, history

LEMMA AnswerKnownTyped == ASSUME TypeOK, NEW o \in Ops, AnswerKnown(o) PROVE TypeOK'
<1>1. TablesTyped'
    BY AnswerTyped DEF TypeOK, AnswerKnown
<1>2. ProcessTyped'
    BY NextTyped DEF TypeOK, AnswerKnown
<1> QED BY <1>1, <1>2, Frames DEF TypeOK, AnswerKnown, history

LEMMA AnswerConvergedTyped == ASSUME TypeOK, NEW o \in Ops, AnswerConverged(o) PROVE TypeOK'
<1>1. TablesTyped'
    BY AnswerTyped DEF TypeOK, AnswerConverged
<1>2. ProcessTyped'
    BY NextTyped DEF TypeOK, AnswerConverged
<1> QED BY <1>1, <1>2, Frames DEF TypeOK, AnswerConverged, history

LEMMA AcceptTyped == ASSUME TypeOK, NEW o \in Ops, Accept(o) PROVE TypeOK'
<1>1. ProcessTyped'
    BY NextTyped DEF TypeOK, Accept, Working, Pcs
<1>2. HistoryTyped'
    BY SpendTyped DEF TypeOK, Accept, history
<1> QED BY <1>1, <1>2, Frames DEF TypeOK, Accept, history

LEMMA ClaimGrantTyped == ASSUME TypeOK, ClaimGrant PROVE TypeOK'
<1>0. hp.op \in Ops
    BY DEF TypeOK, ProcessTyped, ClaimGrant, Working, Pcs
<1>1. ProcessTyped'
    BY <1>0, NextTyped DEF TypeOK, ClaimGrant, Working, Pcs
<1>2. HistoryTyped'
    BY SpendTyped DEF TypeOK, ClaimGrant, history
<1>3. StoreTyped'
    BY <1>0 DEF TypeOK, ClaimGrant, StoreTyped, Imaged
<1> QED BY <1>1, <1>2, <1>3, Frames DEF TypeOK, ClaimGrant, history

LEMMA RecordOperationTyped == ASSUME TypeOK, RecordOperation PROVE TypeOK'
<1>1. hp.op \in Ops
    BY DEF TypeOK, ProcessTyped, RecordOperation, Working, Pcs
<1>2. hp' = Goto("prepare") => ProcessTyped'
    BY <1>1, NextTyped DEF TypeOK, Working, Pcs
<1>3. StoreTyped' /\ ProcessTyped' /\ HistoryTyped'
    BY <1>1, <1>2, LogTyped DEF RecordOperation, history, States, InFlight
<1> QED BY <1>3, Frames DEF TypeOK, RecordOperation, history

LEMMA TakeSnapshotTyped == ASSUME TypeOK, TakeSnapshot PROVE TypeOK'
<1>0. hp.op \in Ops
    BY DEF TypeOK, ProcessTyped, TakeSnapshot, Working, Pcs
<1>1. ProcessTyped'
    BY <1>0, NextTyped DEF TypeOK, TakeSnapshot, Working, Pcs
<1>2. StoreTyped'
    BY <1>0, ImageTyped DEF TypeOK, TakeSnapshot, StoreTyped
<1> QED BY <1>1, <1>2, Frames DEF TypeOK, TakeSnapshot, history

LEMMA RefuseSnapshotTyped == ASSUME TypeOK, RefuseSnapshot PROVE TypeOK'
<1>1. hp.op \in Ops
    BY DEF TypeOK, ProcessTyped, RefuseSnapshot, Working, Pcs
<1> QED BY <1>1, FinishTyped DEF RefuseSnapshot, Terminal, Prunable, Incident

LEMMA RunTyped == ASSUME TypeOK, Run PROVE TypeOK'
<1>1. hp.op \in Ops
    BY DEF TypeOK, ProcessTyped, Run, Working, Pcs
<1>2. hp' = Goto("execute") => ProcessTyped'
    BY <1>1, NextTyped DEF TypeOK, Working, Pcs
<1>3. StoreTyped' /\ ProcessTyped' /\ HistoryTyped'
    BY <1>1, <1>2, LogTyped DEF Run, history, States, InFlight
<1> QED BY <1>3, Frames DEF TypeOK, Run, history

LEMMA ExecuteTyped == ASSUME TypeOK, Execute PROVE TypeOK'
<1>0. hp.op \in Ops
    BY DEF TypeOK, ProcessTyped, Execute, Working, Pcs
<1>1. ProcessTyped'
    <2>1. Pending(hp.op) \subseteq Things /\ Targets[hp.op] \subseteq Things
        BY <1>0, HelperAssumptions DEF Pending
    <2> QED BY <1>0, <2>1 DEF TypeOK, Execute, Goto, ProcessTyped, Working, Pcs
<1>2. executed' \in [Ops -> Nat]
    BY <1>0 DEF TypeOK, HistoryTyped, Execute
<1>3. HistoryTyped'
    BY <1>2 DEF TypeOK, HistoryTyped, Execute, Spend
<1> QED BY <1>1, <1>3, Frames DEF TypeOK, Execute

LEMMA WriteTyped == ASSUME TypeOK, NEW t \in Things, Write(t) PROVE TypeOK'
<1>0. hp.op \in Ops /\ hp.op \in Contents
    BY DEF TypeOK, ProcessTyped, Write, Working, Pcs, Contents
<1>1. ProcessTyped'
    BY <1>0 DEF TypeOK, Write, ProcessTyped, Working, Pcs
<1>2. HostTyped'
    BY <1>0, WroteTyped DEF TypeOK, HostTyped, Write
<1> QED BY <1>1, <1>2, Frames DEF TypeOK, Write

LEMMA WriteFailsTyped == ASSUME TypeOK, NEW t \in Things, WriteFails(t) PROVE TypeOK'
<1>0. hp.op \in Ops /\ hp.op \in Contents
    BY DEF TypeOK, ProcessTyped, WriteFails, Working, Pcs, Contents
<1>1. ProcessTyped'
    BY <1>0 DEF TypeOK, WriteFails, ProcessTyped, Working, Pcs
<1>2. HostTyped'
    BY <1>0, WroteTyped DEF TypeOK, HostTyped, WriteFails
<1>3. HistoryTyped'
    BY SpendTyped DEF TypeOK, WriteFails
<1> QED BY <1>1, <1>2, <1>3, Frames DEF TypeOK, WriteFails

LEMMA ValidateTyped == ASSUME TypeOK, Validate PROVE TypeOK'
<1>0. hp.op \in Ops
    BY DEF TypeOK, ProcessTyped, Validate, Working, Pcs
<1>1. ProcessTyped'
    BY <1>0, NextTyped DEF TypeOK, Validate, Working, Pcs
<1>2. HistoryTyped'
    BY SpendTyped DEF TypeOK, Validate, history
<1> QED BY <1>1, <1>2, Frames DEF TypeOK, Validate, history

LEMMA NothingWrittenTyped == ASSUME TypeOK, NothingWritten PROVE TypeOK'
<1>1. hp.op \in Ops
    BY DEF TypeOK, ProcessTyped, NothingWritten, Working, Pcs
<1> QED BY <1>1, FinishTyped DEF NothingWritten, Terminal, Prunable, Incident

LEMMA LogMutatedTyped == ASSUME TypeOK, LogMutated PROVE TypeOK'
<1>1. hp.op \in Ops
    BY DEF TypeOK, ProcessTyped, LogMutated, Working, Pcs
<1>2. hp' = Goto("mutated") => ProcessTyped'
    BY <1>1, NextTyped DEF TypeOK, Working, Pcs
<1>3. StoreTyped' /\ ProcessTyped' /\ HistoryTyped'
    BY <1>1, <1>2, LogTyped DEF LogMutated, history, States, InFlight
<1> QED BY <1>3, Frames DEF TypeOK, LogMutated, history

LEMMA LogValidatedTyped == ASSUME TypeOK, LogValidated PROVE TypeOK'
<1>1. hp.op \in Ops
    BY DEF TypeOK, ProcessTyped, LogValidated, Working, Pcs
<1>2. hp' = Goto("validated") => ProcessTyped'
    BY <1>1, NextTyped DEF TypeOK, Working, Pcs
<1>3. StoreTyped' /\ ProcessTyped' /\ HistoryTyped'
    BY <1>1, <1>2, LogTyped DEF LogValidated, history, States, InFlight
<1> QED BY <1>3, Frames DEF TypeOK, LogValidated, history

LEMMA SucceedTyped == ASSUME TypeOK, Succeed PROVE TypeOK'
<1>1. hp.op \in Ops
    BY DEF TypeOK, ProcessTyped, Succeed, Working, Pcs
<1> QED BY <1>1, FinishTyped DEF Succeed, Terminal, Prunable, Incident

LEMMA EnterRollbackTyped == ASSUME TypeOK, EnterRollback PROVE TypeOK'
<1>1. hp.op \in Ops
    BY DEF TypeOK, ProcessTyped, EnterRollback, Working, Pcs
<1>2. hp' = [hp EXCEPT !.pc = "restore", !.todo = Targets[hp.op], !.ok = TRUE] => ProcessTyped'
    BY <1>1, HelperAssumptions DEF TypeOK, ProcessTyped, Working, Pcs
<1>3. StoreTyped' /\ ProcessTyped' /\ HistoryTyped'
    BY <1>1, <1>2, LogTyped DEF EnterRollback, history, States, InFlight
<1> QED BY <1>3, Frames DEF TypeOK, EnterRollback, history

LEMMA RestoreTyped == ASSUME TypeOK, SnapshotTaken, NEW t \in Things, Restore(t) PROVE TypeOK'
<1>0. hp.op \in Ops /\ snaps[hp.op][t] \in Contents
    BY DEF TypeOK, ProcessTyped, Restore, Working, Pcs, StoreTyped, Imaged, SnapshotTaken, Saved
<1>1. ProcessTyped'
    BY <1>0 DEF TypeOK, Restore, ProcessTyped, Working, Pcs
<1>2. HostTyped'
    BY <1>0, WroteTyped DEF TypeOK, HostTyped, Restore
<1> QED BY <1>1, <1>2, Frames DEF TypeOK, Restore

LEMMA RestoreEndsTyped == ASSUME TypeOK, RestoreEnds PROVE TypeOK'
<1>0. hp.op \in Ops
    BY DEF TypeOK, ProcessTyped, RestoreEnds, Working, Pcs
<1>1. ProcessTyped'
    BY <1>0, NextTyped DEF TypeOK, RestoreEnds, Working, Pcs
<1>2. HistoryTyped'
    BY SpendTyped DEF TypeOK, RestoreEnds, history
<1> QED BY <1>1, <1>2, Frames DEF TypeOK, RestoreEnds, history

LEMMA RolledBackTyped == ASSUME TypeOK, RolledBack PROVE TypeOK'
<1>1. hp.op \in Ops
    BY DEF TypeOK, ProcessTyped, RolledBack, Working, Pcs
<1> QED BY <1>1, FinishTyped DEF RolledBack, Terminal, Prunable, Incident

LEMMA OpenBreakerTyped == ASSUME TypeOK, OpenBreaker PROVE TypeOK'
<1>0. hp.op \in Ops
    BY DEF TypeOK, ProcessTyped, OpenBreaker, Working, Pcs
<1>1. ProcessTyped'
    BY <1>0, NextTyped DEF TypeOK, OpenBreaker, Working, Pcs
<1>2. HistoryTyped'
    BY SpendTyped DEF TypeOK, OpenBreaker, history
<1>3. breaker' \in [mem : BOOLEAN, disk : BOOLEAN]
    BY BreakerMoves DEF TypeOK, OpenBreaker
<1>4. StoreTyped'
    BY <1>3, BreakerTyped DEF TypeOK, OpenBreaker, StoreTyped
<1> QED BY <1>1, <1>2, <1>4, Frames DEF TypeOK, OpenBreaker, history

LEMMA RollbackFailedTyped == ASSUME TypeOK, RollbackFailed PROVE TypeOK'
<1>1. hp.op \in Ops
    BY DEF TypeOK, ProcessTyped, RollbackFailed, Working, Pcs
<1> QED BY <1>1, FinishTyped DEF RollbackFailed, Terminal, Prunable, Incident

LEMMA RestartTyped == ASSUME TypeOK, Restart PROVE TypeOK'
<1>1. ProcessTyped'
    BY DEF TypeOK, Restart, ProcessTyped, Process, Working, Pcs
<1>2. StoreTyped'
    BY DEF TypeOK, Restart, StoreTyped, Imaged
<1> QED BY <1>1, <1>2, Frames DEF TypeOK, Restart, history

LEMMA RefuseStartTyped == ASSUME TypeOK, RefuseStart PROVE TypeOK'
<1>1. StoreTyped'
    BY BreakerTyped, BreakerMoves DEF TypeOK, StoreTyped, RefuseStart
<1> QED BY <1>1, Frames DEF TypeOK, RefuseStart, tables, history

LEMMA MarkIndeterminateTyped == ASSUME TypeOK, NEW o \in Ops, MarkIndeterminate(o) PROVE TypeOK'
<1>1. ProcessTyped'
    BY NextTyped DEF TypeOK, MarkIndeterminate
<1>2. HistoryTyped'
    BY SpendTyped DEF TypeOK, MarkIndeterminate, history
<1>3. breaker' \in [mem : BOOLEAN, disk : BOOLEAN]
    BY BreakerMoves DEF TypeOK, MarkIndeterminate
<1>4. journal' \in [Ops -> States]
    BY DEF TypeOK, MarkIndeterminate, StoreTyped, States, Terminal, Incident
<1>5. StoreTyped'
    BY <1>3, <1>4, BreakerTyped DEF TypeOK, MarkIndeterminate
<1> QED BY <1>1, <1>2, <1>5, Frames DEF TypeOK, MarkIndeterminate, history

LEMMA LatchTyped == ASSUME TypeOK, Latch PROVE TypeOK'
<1>1. ProcessTyped'
    BY NextTyped DEF TypeOK, Latch
<1>2. HistoryTyped'
    BY SpendTyped DEF TypeOK, Latch, history
<1>3. breaker' \in [mem : BOOLEAN, disk : BOOLEAN]
    BY BreakerMoves DEF TypeOK, Latch
<1>4. StoreTyped'
    BY <1>3, BreakerTyped DEF TypeOK, Latch, StoreTyped
<1> QED BY <1>1, <1>2, <1>4, Frames DEF TypeOK, Latch, history

LEMMA RecoveredTyped == ASSUME TypeOK, Recovered PROVE TypeOK'
<1>1. ProcessTyped'
    BY NextTyped DEF TypeOK, Recovered
<1> QED BY <1>1, Frames DEF TypeOK, Recovered, history

LEMMA PruneTyped == ASSUME TypeOK, NEW o \in Ops, Prune(o) PROVE TypeOK'
<1>1. ProcessTyped'
    BY NextTyped DEF TypeOK, Prune, ProcessTyped
<1>2. HistoryTyped'
    BY DEF TypeOK, Prune, HistoryTyped, Spend
<1>3. journal' \in [Ops -> States] /\ claims' \subseteq Ops /\ breaker' \in [mem : BOOLEAN, disk : BOOLEAN]
    BY DEF TypeOK, Prune, StoreTyped, States
<1>4. StoreTyped'
    BY <1>3, ImageTyped DEF TypeOK, Prune, StoreTyped
<1> QED BY <1>1, <1>2, <1>4, Frames DEF TypeOK, Prune

LEMMA CrashTyped == ASSUME TypeOK, Crash PROVE TypeOK'
<1>1. ProcessTyped'
    BY NextTyped DEF TypeOK, Crash
<1>2. HistoryTyped'
    BY SpendTyped DEF TypeOK, Crash, history
<1>3. StoreTyped'
    BY DEF TypeOK, Crash, StoreTyped, Imaged
<1> QED BY <1>1, <1>2, <1>3, Frames DEF TypeOK, Crash, history

LEMMA OperatorEditsTyped == ASSUME TypeOK, NEW t \in Things, OperatorEdits(t) PROVE TypeOK'
<1>1. HostTyped'
    BY WroteTyped DEF TypeOK, HostTyped, OperatorEdits, Contents
<1>2. HistoryTyped'
    BY SpendTyped DEF TypeOK, OperatorEdits
<1> QED BY <1>1, <1>2, Frames DEF TypeOK, OperatorEdits

-----------------------------------------------------------------------------
(* What every step keeps. *)

\* What the orchestrator and an operator do leaves the helper alone.
LEMMA FrozenKeeps ==
    ASSUME IInv, UNCHANGED <<hp, journal, snaps, breaker, case, executed, pruned>>, expired \subseteq expired'
    PROVE  IInv'
BY DEF IInv, OnRecord, SnapshotTaken, OnceRecord, LatchRecord

\* A process that ends what it does without a word in the journal.
LEMMA RestingKeeps ==
    ASSUME IInv, hp.pc # "latch", hp'.pc = "idle",
           UNCHANGED <<journal, snaps, breaker, case, executed, pruned, expired>>
    PROVE  IInv'
BY DEF IInv, OnRecord, SnapshotTaken, Saved, OnceRecord, LatchRecord, Working

LEMMA LogFacts ==
    ASSUME StoreTyped, NEW o \in Ops, NEW state, NEW next, Log(o, state, next)
    PROVE  \/ hp' = next /\ journal'[o] = state /\ \A p \in Ops \ {o} : journal'[p] = journal[p]
           \/ (hp' = Idle \/ hp' = Broken) /\ journal'[o] \in {journal[o], state} /\ \A p \in Ops \ {o} : journal'[p] = journal[p]
BY DEF StoreTyped, Log

LEMMA GotoFacts ==
    ASSUME ProcessTyped, NEW pc
    PROVE  /\ Goto(pc).pc = pc /\ Goto(pc).op = hp.op /\ Goto(pc).todo = hp.todo
           /\ Goto(pc).mutated = hp.mutated /\ Goto(pc).ok = hp.ok
BY DEF ProcessTyped, Goto

\* A word in the journal that takes the process on, or ends its work.
LEMMA LogKeeps ==
    ASSUME TypeOK, IInv, hp.op \in Ops, hp.pc \in Working, NEW state, NEW next, Log(hp.op, state, next),
           next.op = hp.op, next.todo \subseteq Targets[hp.op],
           \/ hp.pc = "record" /\ state = "authorized" /\ next.pc = "prepare"
           \/ hp.pc = "run" /\ state = "running" /\ next.pc = "execute"
           \/ hp.pc \in Saved \ {"run"} /\ state \in {"mutated", "validated"} /\ next.pc = state
           \/ hp.pc \in Saved \ {"run"} /\ state = "rollback_running" /\ next.pc = "restore",
           UNCHANGED <<case, snaps, breaker, expired, history>>
    PROVE  IInv'
<1>1. \/ hp' = next /\ journal'[hp.op] = state
      \/ hp'.pc \in {"idle", "broken"} /\ journal'[hp.op] \in {journal[hp.op], state}
    BY LogFacts, NextTyped DEF TypeOK
<1>2. \A p \in Ops \ {hp.op} : journal'[p] = journal[p]
    BY LogFacts DEF TypeOK
<1>3. UNCHANGED <<case, snaps, breaker, expired, executed, pruned>>
    BY DEF history
<1>4. OnRecord'
    BY <1>1, <1>3 DEF OnRecord
<1>5. SnapshotTaken'
    BY <1>1, <1>3 DEF IInv, SnapshotTaken, Saved, Working
<1>6. OnceRecord'
    <2>1. pruned \subseteq Ops
        BY DEF TypeOK, HistoryTyped
    <2>2. state = "authorized" => journal[hp.op] = "none" /\ hp.op \notin pruned
        BY DEF IInv, OnRecord, Saved
    <2>3. journal[hp.op] # "none" \/ hp.op \notin pruned
        BY DEF IInv, OnRecord, Saved
    <2>4. hp'.pc = "execute" => journal[hp.op] = "authorized" /\ hp'.op = hp.op
        BY <1>1 DEF IInv, OnRecord
    <2>5. hp.op \notin pruned /\ state # "none"
        BY DEF IInv, OnRecord, OnceRecord, Saved
    <2> QED BY <1>1, <1>2, <1>3, <2>1, <2>2, <2>4, <2>5 DEF IInv, OnceRecord
<1>7. LatchRecord'
    BY <1>1, <1>2, <1>3 DEF IInv, LatchRecord, Working, Incident, Saved
<1> QED BY <1>4, <1>5, <1>6, <1>7 DEF IInv

LEMMA FinishKeeps ==
    ASSUME TypeOK, IInv, hp.op \in Ops, hp.pc \in Working, journal[hp.op] # "none",
           NEW state \in Terminal, Finish(hp.op, state),
           state \in Incident /\ "relatch" \notin case.faults => breaker.disk,
           UNCHANGED <<case, snaps, breaker, expired, history>>
    PROVE  IInv'
<1>1. /\ hp'.pc \in {"idle", "broken"} /\ journal'[hp.op] \in {journal[hp.op], state}
      /\ \A p \in Ops \ {hp.op} : journal'[p] = journal[p]
    BY LogFacts, NextTyped DEF TypeOK, Finish
<1>2. hp.pc # "latch" /\ state \notin {"none", "authorized"}
    BY DEF Working, Terminal, Prunable, Incident
<1> QED BY <1>1, <1>2 DEF IInv, OnRecord, SnapshotTaken, Saved, OnceRecord, LatchRecord, Working, history,
                         TypeOK, HistoryTyped

LEMMA PlanActionKeeps == ASSUME TypeOK, IInv, NEW o \in Ops, PlanAction(o) PROVE IInv'
BY FrozenKeeps DEF PlanAction, Unplanned, store, history

LEMMA ConfirmKeeps == ASSUME TypeOK, IInv, NEW o \in Ops, Confirm(o) PROVE IInv'
BY FrozenKeeps DEF Confirm, Unplanned, store, history

LEMMA PublishIntentKeeps == ASSUME TypeOK, IInv, NEW o \in Ops, PublishIntent(o) PROVE IInv'
BY FrozenKeeps DEF PublishIntent, Unplanned, store, history

LEMMA AuthorizeManagedKeeps == ASSUME TypeOK, IInv, NEW o \in Ops, AuthorizeManaged(o) PROVE IInv'
BY FrozenKeeps DEF AuthorizeManaged, Unplanned, store, history

LEMMA ExpireKeeps == ASSUME TypeOK, IInv, NEW o \in Ops, Expire(o) PROVE IInv'
BY FrozenKeeps DEF Expire, Unplanned, store, history

LEMMA AnswerKnownKeeps == ASSUME TypeOK, IInv, NEW o \in Ops, AnswerKnown(o) PROVE IInv'
BY RestingKeeps, NextTyped DEF AnswerKnown, Admitted, Asked, store, history, Resting, Process

LEMMA AnswerConvergedKeeps == ASSUME TypeOK, IInv, NEW o \in Ops, AnswerConverged(o) PROVE IInv'
BY RestingKeeps, NextTyped DEF AnswerConverged, Admitted, Asked, store, history, Resting, Process

LEMMA AcceptKeeps == ASSUME TypeOK, IInv, NEW o \in Ops, Accept(o) PROVE IInv'
<1>1. /\ hp'.pc \in {"claim", "prepare"} /\ hp'.op = o /\ hp'.todo = {} /\ hp.pc = "idle"
      /\ journal[o] = (IF hp'.pc = "claim" THEN "none" ELSE "authorized")
    BY DEF Accept, Admitted, Asked, HasReceipt, Process
<1>2. o \notin expired
    BY DEF Accept, Admitted, Asked, Asks, AsksManaged, Granted
<1>3. o \notin pruned
    BY <1>2 DEF IInv, OnceRecord
<1> QED BY <1>1, <1>3 DEF IInv, OnRecord, SnapshotTaken, Saved, OnceRecord, LatchRecord, Accept, store, history

LEMMA ClaimGrantKeeps == ASSUME TypeOK, IInv, ClaimGrant PROVE IInv'
<1>1. hp'.pc = "idle" \/ hp' = Goto("record")
    BY NextTyped DEF TypeOK, ClaimGrant
<1>2. hp' = Goto("record") => hp'.pc = "record" /\ hp'.op = hp.op /\ hp'.todo = hp.todo
    BY GotoFacts DEF TypeOK
<1> QED BY <1>1, <1>2 DEF IInv, OnRecord, SnapshotTaken, Saved, Working, Pcs, OnceRecord, LatchRecord, ClaimGrant, store, history

LEMMA RecordOperationKeeps == ASSUME TypeOK, IInv, RecordOperation PROVE IInv'
<1>1. hp.op \in Ops /\ hp.pc = "record"
    BY DEF TypeOK, ProcessTyped, RecordOperation, Working, Pcs
<1>2. Goto("prepare").pc = "prepare" /\ Goto("prepare").op = hp.op /\ Goto("prepare").todo = hp.todo
    BY GotoFacts DEF TypeOK
<1> QED BY <1>1, <1>2, LogKeeps DEF RecordOperation, IInv, SnapshotTaken, Working, Pcs, Saved, history

LEMMA TakeSnapshotKeeps == ASSUME TypeOK, IInv, TakeSnapshot PROVE IInv'
<1>1. hp.op \in Ops /\ hp.pc = "prepare"
    BY DEF TypeOK, ProcessTyped, TakeSnapshot, Working, Pcs
<1>2. Facts(hp.op) # None
    BY <1>1, NullAssumptions, HelperAssumptions DEF TypeOK, HostTyped, Hosts, Facts, Contents
<1>3. hp'.pc = "run" /\ hp'.op = hp.op /\ hp'.todo = hp.todo
    BY GotoFacts DEF TypeOK, TakeSnapshot
<1>4. snaps'[hp.op] # None
    BY <1>1, <1>2 DEF TypeOK, StoreTyped, Imaged, TakeSnapshot
<1> QED BY <1>1, <1>3, <1>4 DEF IInv, OnRecord, SnapshotTaken, Saved, Working, Pcs, OnceRecord, LatchRecord, TakeSnapshot, history

LEMMA RefuseSnapshotKeeps == ASSUME TypeOK, IInv, RefuseSnapshot PROVE IInv'
<1>1. hp.op \in Ops /\ hp.pc \in Working
    BY DEF TypeOK, ProcessTyped, RefuseSnapshot, Working, Pcs
<1>2. journal[hp.op] \notin {"none"}
    BY DEF RefuseSnapshot, IInv, OnRecord
<1> QED BY <1>1, <1>2, FinishKeeps DEF RefuseSnapshot, States, InFlight, Terminal, Prunable, Incident, IInv, LatchRecord

LEMMA RunKeeps == ASSUME TypeOK, IInv, Run PROVE IInv'
<1>1. hp.op \in Ops /\ hp.pc = "run"
    BY DEF TypeOK, ProcessTyped, Run, Working, Pcs
<1>2. Goto("execute").pc = "execute" /\ Goto("execute").op = hp.op /\ Goto("execute").todo = hp.todo
    BY GotoFacts DEF TypeOK
<1> QED BY <1>1, <1>2, LogKeeps DEF Run, IInv, SnapshotTaken, Working, Pcs, Saved, history

LEMMA ExecuteKeeps == ASSUME TypeOK, IInv, Execute PROVE IInv'
<1>1. hp.op \in Ops /\ hp.pc = "execute"
    BY DEF TypeOK, ProcessTyped, Execute, Working, Pcs
<1>2. \A o \in Ops : executed'[o] = IF o = hp.op THEN 1 ELSE executed[o]
    BY <1>1 DEF IInv, OnceRecord, Execute, TypeOK, HistoryTyped
<1>3. hp.todo \subseteq Targets[hp.op] /\ Pending(hp.op) \subseteq Targets[hp.op]
    BY <1>1 DEF IInv, SnapshotTaken, Working, Pcs, Pending
<1>4. hp'.pc \in {"write", "judge"} /\ hp'.op = hp.op /\ hp'.todo \subseteq Targets[hp.op]
    BY <1>1, <1>3 DEF TypeOK, ProcessTyped, Execute, Goto
<1> QED BY <1>1, <1>2, <1>4 DEF IInv, OnRecord, SnapshotTaken, Saved, Working, Pcs, OnceRecord, LatchRecord, Execute, store

LEMMA WriteKeeps == ASSUME TypeOK, IInv, NEW t \in Things, Write(t) PROVE IInv'
<1>1. hp.pc = "write" /\ hp'.pc = "write" /\ hp'.op = hp.op /\ hp'.todo \subseteq hp.todo
    BY DEF TypeOK, ProcessTyped, Write
<1>2. UNCHANGED <<journal, snaps, breaker, executed, pruned, expired, case>>
    BY DEF Write, store, history
<1>3. OnRecord'
    BY <1>1, <1>2 DEF IInv, OnRecord
<1>4. SnapshotTaken'
    BY <1>1, <1>2 DEF IInv, SnapshotTaken, Saved, Working, Pcs
<1>5. OnceRecord'
    BY <1>1, <1>2 DEF IInv, OnceRecord
<1>6. LatchRecord'
    BY <1>1, <1>2 DEF IInv, LatchRecord
<1> QED BY <1>3, <1>4, <1>5, <1>6 DEF IInv

LEMMA WriteFailsKeeps == ASSUME TypeOK, IInv, NEW t \in Things, WriteFails(t) PROVE IInv'
<1>1. hp.pc = "write" /\ hp'.pc = "judge" /\ hp'.op = hp.op /\ hp'.todo \subseteq hp.todo
    BY DEF TypeOK, ProcessTyped, WriteFails
<1>2. UNCHANGED <<journal, snaps, breaker, executed, pruned, expired, case>>
    BY DEF WriteFails, store, history
<1>3. OnRecord'
    BY <1>1, <1>2 DEF IInv, OnRecord
<1>4. SnapshotTaken'
    BY <1>1, <1>2 DEF IInv, SnapshotTaken, Saved, Working, Pcs
<1>5. OnceRecord'
    BY <1>1, <1>2 DEF IInv, OnceRecord
<1>6. LatchRecord'
    BY <1>1, <1>2 DEF IInv, LatchRecord
<1> QED BY <1>3, <1>4, <1>5, <1>6 DEF IInv

LEMMA ValidateKeeps == ASSUME TypeOK, IInv, Validate PROVE IInv'
<1>1. hp.pc = "write" /\ hp'.pc = "judge" /\ hp'.op = hp.op /\ hp'.todo \subseteq hp.todo
    BY DEF TypeOK, ProcessTyped, Validate, Goto
<1>2. UNCHANGED <<journal, snaps, breaker, executed, pruned, expired, case>>
    BY DEF Validate, store, history
<1>3. OnRecord'
    BY <1>1, <1>2 DEF IInv, OnRecord
<1>4. SnapshotTaken'
    BY <1>1, <1>2 DEF IInv, SnapshotTaken, Saved, Working, Pcs
<1>5. OnceRecord'
    BY <1>1, <1>2 DEF IInv, OnceRecord
<1>6. LatchRecord'
    BY <1>1, <1>2 DEF IInv, LatchRecord
<1> QED BY <1>3, <1>4, <1>5, <1>6 DEF IInv

LEMMA NothingWrittenKeeps == ASSUME TypeOK, IInv, NothingWritten PROVE IInv'
<1>1. hp.op \in Ops /\ hp.pc \in Working
    BY DEF TypeOK, ProcessTyped, NothingWritten, Working, Pcs
<1>2. journal[hp.op] \notin {"none"}
    BY DEF NothingWritten, IInv, OnRecord
<1> QED BY <1>1, <1>2, FinishKeeps DEF NothingWritten, States, InFlight, Terminal, Prunable, Incident, IInv, LatchRecord

LEMMA LogMutatedKeeps == ASSUME TypeOK, IInv, LogMutated PROVE IInv'
<1>1. hp.op \in Ops /\ hp.pc = "judge"
    BY DEF TypeOK, ProcessTyped, LogMutated, Working, Pcs
<1>2. Goto("mutated").pc = "mutated" /\ Goto("mutated").op = hp.op /\ Goto("mutated").todo = hp.todo
    BY GotoFacts DEF TypeOK
<1> QED BY <1>1, <1>2, LogKeeps DEF LogMutated, IInv, SnapshotTaken, Working, Pcs, Saved, history

LEMMA LogValidatedKeeps == ASSUME TypeOK, IInv, LogValidated PROVE IInv'
<1>1. hp.op \in Ops /\ hp.pc = "mutated"
    BY DEF TypeOK, ProcessTyped, LogValidated, Working, Pcs
<1>2. Goto("validated").pc = "validated" /\ Goto("validated").op = hp.op /\ Goto("validated").todo = hp.todo
    BY GotoFacts DEF TypeOK
<1> QED BY <1>1, <1>2, LogKeeps DEF LogValidated, IInv, SnapshotTaken, Working, Pcs, Saved, history

LEMMA SucceedKeeps == ASSUME TypeOK, IInv, Succeed PROVE IInv'
<1>1. hp.op \in Ops /\ hp.pc \in Working
    BY DEF TypeOK, ProcessTyped, Succeed, Working, Pcs
<1>2. journal[hp.op] \notin {"none"}
    BY DEF Succeed, IInv, OnRecord
<1> QED BY <1>1, <1>2, FinishKeeps DEF Succeed, States, InFlight, Terminal, Prunable, Incident, IInv, LatchRecord

LEMMA EnterRollbackKeeps == ASSUME TypeOK, IInv, EnterRollback PROVE IInv'
<1> DEFINE next == [hp EXCEPT !.pc = "restore", !.todo = Targets[hp.op], !.ok = TRUE]
<1>1. hp.op \in Ops /\ hp.pc = "mutated"
    BY DEF TypeOK, ProcessTyped, EnterRollback, Working, Pcs
<1>2. next.pc = "restore" /\ next.op = hp.op /\ next.todo = Targets[hp.op]
    BY DEF TypeOK, ProcessTyped
<1>3. Log(hp.op, "rollback_running", next)
    BY DEF EnterRollback
<1> HIDE DEF next
<1> QED BY <1>1, <1>2, <1>3, LogKeeps DEF EnterRollback, IInv, SnapshotTaken, Working, Pcs, Saved, history

LEMMA RestoreKeeps == ASSUME TypeOK, IInv, NEW t \in Things, Restore(t) PROVE IInv'
BY DEF TypeOK, ProcessTyped, StoreTyped, HistoryTyped, IInv, OnRecord, OnceRecord, LatchRecord, SnapshotTaken, Saved, Restore, store, Working, Pcs

LEMMA RestoreEndsKeeps == ASSUME TypeOK, IInv, RestoreEnds PROVE IInv'
<1>1. hp'.pc = "settle" /\ hp'.op = hp.op /\ hp'.todo = hp.todo
    BY DEF TypeOK, ProcessTyped, RestoreEnds, Goto
<1> QED BY <1>1 DEF IInv, OnRecord, SnapshotTaken, Saved, Working, Pcs, OnceRecord, LatchRecord, RestoreEnds, store, history

LEMMA RolledBackKeeps == ASSUME TypeOK, IInv, RolledBack PROVE IInv'
<1>1. hp.op \in Ops /\ hp.pc \in Working
    BY DEF TypeOK, ProcessTyped, RolledBack, Working, Pcs
<1>2. journal[hp.op] \notin {"none"}
    BY DEF RolledBack, IInv, OnRecord
<1> QED BY <1>1, <1>2, FinishKeeps DEF RolledBack, States, InFlight, Terminal, Prunable, Incident, IInv, LatchRecord

LEMMA OpenBreakerKeeps == ASSUME TypeOK, IInv, OpenBreaker PROVE IInv'
<1>0. hp'.pc = "idle" \/ (hp' = Goto("failed") /\ breaker' = [mem |-> TRUE, disk |-> TRUE])
    BY NextTyped DEF TypeOK, OpenBreaker
<1>1. hp'.pc = "idle" \/ (hp' = Goto("failed") /\ breaker'.disk)
    BY <1>0
<1>2. hp' = Goto("failed") => hp'.pc = "failed" /\ hp'.op = hp.op /\ hp'.todo = hp.todo
    BY GotoFacts DEF TypeOK
<1>3. breaker.disk => breaker'.disk
    BY DEF TypeOK, StoreTyped, OpenBreaker
<1>4. hp.pc = "settle" /\ UNCHANGED <<journal, snaps, expired, executed, pruned, case>>
    BY DEF OpenBreaker, history
<1> QED BY <1>1, <1>2, <1>3, <1>4 DEF IInv, OnRecord, SnapshotTaken, Saved, Working, Pcs, OnceRecord, LatchRecord

LEMMA RollbackFailedKeeps == ASSUME TypeOK, IInv, RollbackFailed PROVE IInv'
<1>1. hp.op \in Ops /\ hp.pc \in Working
    BY DEF TypeOK, ProcessTyped, RollbackFailed, Working, Pcs
<1>2. journal[hp.op] \notin {"none"}
    BY DEF RollbackFailed, IInv, OnRecord
<1> QED BY <1>1, <1>2, FinishKeeps DEF RollbackFailed, States, InFlight, Terminal, Prunable, Incident, IInv, LatchRecord

LEMMA RestartKeeps == ASSUME TypeOK, IInv, Restart PROVE IInv'
<1>1. hp'.pc = "recover" /\ breaker'.disk = breaker.disk /\ hp.pc = "down"
    BY DEF TypeOK, StoreTyped, Restart, Process
<1>2. UNCHANGED <<journal, snaps, expired, executed, pruned, case>>
    BY DEF Restart, history
<1> QED BY <1>1, <1>2 DEF IInv, OnRecord, SnapshotTaken, Saved, Working, OnceRecord, LatchRecord

LEMMA RefuseStartKeeps == ASSUME TypeOK, IInv, RefuseStart PROVE IInv'
<1>1. breaker'.disk
    BY DEF RefuseStart
<1> QED BY <1>1 DEF RefuseStart, history, IInv, OnRecord, SnapshotTaken, OnceRecord, LatchRecord

LEMMA MarkIndeterminateKeeps == ASSUME TypeOK, IInv, NEW o \in Ops, MarkIndeterminate(o) PROVE IInv'
<1>0. \/ hp'.pc = "latch" \/ (hp'.pc = "down" /\ breaker' = [mem |-> FALSE, disk |-> TRUE])
      \/ hp'.pc = "broken" /\ UNCHANGED <<journal, breaker>> /\ hp.pc = "recover"
    BY GotoFacts, NextTyped DEF TypeOK, MarkIndeterminate
<1>1. \/ hp'.pc = "latch" \/ (hp'.pc = "down" /\ breaker'.disk)
      \/ hp'.pc = "broken" /\ UNCHANGED <<journal, breaker>> /\ hp.pc = "recover"
    BY <1>0
<1>2. \A p \in Ops : journal'[p] = journal[p] \/ (journal[p] \in InFlight /\ journal'[p] = "outcome_indeterminate")
    BY DEF TypeOK, StoreTyped, MarkIndeterminate
<1>3. UNCHANGED <<snaps, expired, executed, pruned, case>>
    BY DEF MarkIndeterminate, history
<1>4. OnRecord' /\ SnapshotTaken' /\ LatchRecord'
    BY <1>1, <1>3 DEF IInv, OnRecord, SnapshotTaken, Saved, Working, LatchRecord
<1>5. OnceRecord'
    <2>1. pruned \subseteq Ops
        BY DEF TypeOK, HistoryTyped
    <2> QED BY <1>1, <1>2, <1>3, <2>1 DEF IInv, OnceRecord, InFlight
<1> QED BY <1>4, <1>5 DEF IInv

LEMMA LatchKeeps == ASSUME TypeOK, IInv, Latch PROVE IInv'
<1>1. hp'.pc = "recover" /\ hp.pc = "latch"
    BY GotoFacts DEF TypeOK, Latch
<1>2. "relatch" \notin case.faults => breaker'.disk
    BY DEF Latch, Spend
<1>3. UNCHANGED <<journal, snaps, expired, executed, pruned, case>>
    BY DEF Latch, history
<1> QED BY <1>1, <1>2, <1>3 DEF IInv, OnRecord, SnapshotTaken, Saved, Working, OnceRecord, LatchRecord

LEMMA RecoveredKeeps == ASSUME TypeOK, IInv, Recovered PROVE IInv'
<1>1. hp.pc = "recover" /\ hp'.pc = "idle"
    BY NextTyped DEF TypeOK, Recovered
<1> QED BY <1>1, RestingKeeps DEF Recovered, store, history

LEMMA PruneKeeps == ASSUME TypeOK, IInv, NEW o \in Ops, Prune(o) PROVE IInv'
<1>1. hp' = hp \/ hp'.pc = "down"
    BY NextTyped DEF TypeOK, Prune
<1>2. journal[o] \in Prunable /\ o \in expired /\ o \in Ops
    BY DEF Prune
<1>3. \A p \in Ops \ {o} : journal'[p] = journal[p] /\ snaps'[p] = snaps[p]
    BY DEF TypeOK, StoreTyped, Imaged, Prune
<1>4. \/ journal' = journal /\ pruned' = pruned
      \/ journal'[o] = "none" /\ pruned' = pruned \cup {o}
    BY DEF TypeOK, StoreTyped, Prune
<1>5. hp.pc \in Working => hp.op \in Ops /\ (hp.pc \in Saved => hp.op # o)
    BY <1>2 DEF TypeOK, ProcessTyped, IInv, OnRecord, Saved, Working, Prunable
<1>6. /\ hp.pc # "latch" /\ breaker'.disk = breaker.disk
      /\ UNCHANGED <<expired, executed, case>> /\ pruned \subseteq Ops
    BY DEF Prune, TypeOK, StoreTyped, HistoryTyped
<1>7. OnRecord'
    BY <1>1, <1>2, <1>3, <1>4, <1>5 DEF IInv, OnRecord, Prunable, Working, Pcs
<1>8. SnapshotTaken'
    BY <1>1, <1>3, <1>5 DEF IInv, SnapshotTaken, Saved, Working, Pcs
<1>9. OnceRecord'
    BY <1>1, <1>2, <1>3, <1>4, <1>6 DEF IInv, OnceRecord, Prunable
<1>10. LatchRecord'
    BY <1>1, <1>2, <1>3, <1>4, <1>6 DEF IInv, LatchRecord, Prunable, Incident
<1> QED BY <1>7, <1>8, <1>9, <1>10 DEF IInv

LEMMA CrashKeeps == ASSUME TypeOK, IInv, Crash PROVE IInv'
<1>1. hp'.pc = "down" /\ breaker'.disk = breaker.disk
    BY NextTyped DEF TypeOK, StoreTyped, Crash
<1>2. hp.pc = "latch" => "relatch" \in case.faults
    BY DEF Crash
<1>3. UNCHANGED <<journal, snaps, expired, executed, pruned, case>>
    BY DEF Crash, history
<1> QED BY <1>1, <1>2, <1>3 DEF IInv, OnRecord, SnapshotTaken, Saved, Working, OnceRecord, LatchRecord

LEMMA OperatorEditsKeeps == ASSUME TypeOK, IInv, NEW t \in Things, OperatorEdits(t) PROVE IInv'
BY FrozenKeeps DEF OperatorEdits, store

-----------------------------------------------------------------------------
(* The theorems. *)

LEMMA HandlesKeep == ASSUME TypeOK, IInv, Handles PROVE TypeOK' /\ IInv'
<1>1. CASE \E t \in Things : Write(t) \/ WriteFails(t) \/ Restore(t)
    BY <1>1, WriteTyped, WriteKeeps, WriteFailsTyped, WriteFailsKeeps, RestoreTyped, RestoreKeeps DEF IInv
<1>2. CASE ~\E t \in Things : Write(t) \/ WriteFails(t) \/ Restore(t)
    BY <1>2, ClaimGrantTyped, ClaimGrantKeeps, RecordOperationTyped, RecordOperationKeeps,
       TakeSnapshotTyped, TakeSnapshotKeeps, RefuseSnapshotTyped, RefuseSnapshotKeeps,
       RunTyped, RunKeeps, ExecuteTyped, ExecuteKeeps, ValidateTyped, ValidateKeeps,
       NothingWrittenTyped, NothingWrittenKeeps, LogMutatedTyped, LogMutatedKeeps,
       LogValidatedTyped, LogValidatedKeeps, SucceedTyped, SucceedKeeps, EnterRollbackTyped,
       EnterRollbackKeeps, RestoreEndsTyped, RestoreEndsKeeps, RolledBackTyped,
       RolledBackKeeps, OpenBreakerTyped, OpenBreakerKeeps, RollbackFailedTyped,
       RollbackFailedKeeps
       DEF Handles
<1> QED BY <1>1, <1>2

LEMMA StepKeeps == ASSUME TypeOK, IInv, [HelperNext]_vars PROVE TypeOK' /\ IInv'
<1>1. CASE \E o \in Ops : \/ PlanAction(o) \/ Confirm(o) \/ PublishIntent(o) \/ AuthorizeManaged(o) \/ Expire(o)
                       \/ AnswerKnown(o) \/ AnswerConverged(o) \/ Accept(o) \/ Prune(o)
    BY <1>1, PlanActionTyped, PlanActionKeeps, ConfirmTyped, ConfirmKeeps, PublishIntentTyped,
       PublishIntentKeeps, AuthorizeManagedTyped, AuthorizeManagedKeeps, ExpireTyped,
       ExpireKeeps, AnswerKnownTyped, AnswerKnownKeeps, AnswerConvergedTyped,
       AnswerConvergedKeeps, AcceptTyped, AcceptKeeps, PruneTyped, PruneKeeps
<1>2. CASE Handles
    BY <1>2, HandlesKeep
<1>3. CASE Recovers
    BY <1>3, RestartTyped, RestartKeeps, RefuseStartTyped, RefuseStartKeeps, LatchTyped, LatchKeeps, RecoveredTyped, RecoveredKeeps,
       MarkIndeterminateTyped, MarkIndeterminateKeeps DEF Recovers
<1>4. CASE Crash \/ \E t \in Things : OperatorEdits(t)
    BY <1>4, CrashTyped, CrashKeeps, OperatorEditsTyped, OperatorEditsKeeps
<1>5. CASE UNCHANGED vars
    BY <1>5, Frames, FrozenKeeps DEF vars, tables, store, history, TypeOK
<1> QED BY <1>1, <1>2, <1>3, <1>4, <1>5 DEF HelperNext

LEMMA InitHolds == HelperInit => TypeOK /\ IInv
<1> SUFFICES ASSUME HelperInit PROVE TypeOK /\ IInv
    OBVIOUS
<1>1. HostTyped
    <2>1. \A o \in Ops : AsAppliedBy(o) \in Hosts
        BY HelperAssumptions DEF AsAppliedBy, Hosts, Contents
    <2>2. [t \in Things |-> Before] \in Hosts
        BY DEF Hosts, Contents
    <2>3. host \in Hosts
        BY <2>1, <2>2, HelperAssumptions DEF HelperInit
    <2> QED BY <2>3 DEF HelperInit, HostTyped
<1>2. TablesTyped /\ StoreTyped
    BY DEF HelperInit, TablesTyped, StoreTyped, Imaged, States
<1>3. ProcessTyped /\ hp.pc = "idle"
    BY DEF HelperInit, ProcessTyped, Resting, Process, Working, Pcs
<1>4. HistoryTyped
    BY HelperAssumptions DEF HelperInit, HistoryTyped
<1>5. IInv
    BY <1>3 DEF HelperInit, IInv, OnRecord, SnapshotTaken, Saved, Working, OnceRecord, LatchRecord, Incident
<1> QED BY <1>1, <1>2, <1>3, <1>4, <1>5 DEF TypeOK

LEMMA Invariance == HelperSpec => [](TypeOK /\ IInv)
<1>1. TypeOK /\ IInv /\ [HelperNext]_vars => (TypeOK /\ IInv)'
    BY StepKeeps
<1> QED BY <1>1, InitHolds, PTL DEF HelperSpec

(* The journal, the breaker, the host and the orchestrator's tables keep their types:   *)
(* a process at work is at an operation, and what it restores was saved.                 *)
THEOREM TypeCorrect == HelperSpec => []TypeOK
BY Invariance, PTL

(* Whatever is repeated, lost or restarted, an operation's handler is let at the host     *)
(* once (Engine.Execute): a record that may begin again is of one that did not begin.      *)
THEOREM OnceCorrect == HelperSpec => []ExecutedOnce
<1>1. IInv => ExecutedOnce
    BY DEF IInv, OnceRecord, ExecutedOnce
<1> QED BY <1>1, Invariance, PTL

(* An incident on record keeps the breaker open on the disk (Engine.Execute,                *)
(* Journal.Recover), unless the breaker's write is lost while the helper recovers.           *)
THEOREM LatchCorrect == HelperSpec => []IncidentLatched
<1>1. IInv => IncidentLatched
    BY DEF IInv, LatchRecord, IncidentLatched
<1> QED BY <1>1, Invariance, PTL
-----------------------------------------------------------------------------
(* What the refinement rests on. *)

(* Where a journal write may fail, the operations called for have nothing in      *)
(* common: the record such a failure leaves in flight does not keep the process     *)
(* from the next operation, which would build on what is not decided.                *)
Apart ==
    \A c \in Cases : "disk" \in c.faults =>
        \A o, p \in c.ops : o # p => Targets[o] \cap Targets[p] = {}

(* What wrote says.                                                               *)
Ledger ==
    /\ \A o, p \in Ops, t \in Things : wrote[o][t] # None /\ wrote[p][t] # None => o = p
    /\ \A o \in Ops, t \in Things : wrote[o][t] # None => host[t] = o /\ t \in Targets[o]
    /\ \A o \in Ops : executed[o] = 0 => \A t \in Things : wrote[o][t] = None

(* Nothing is begun while the breaker is open.                                      *)
Latching ==
    /\ hp.pc \notin {"down", "broken"} /\ breaker.disk => breaker.mem
    /\ hp.pc \in Working \ {"failed"} => ~breaker.mem

(* Only what the case calls for is planned, granted, recorded and worked at.         *)
Called ==
    /\ \A o \in Ops : (plan[o] # None \/ confirmed[o] > 0 \/ journal[o] # "none") => o \in case.ops
    /\ current # None => current \in case.ops
    /\ hp.pc \in Working => hp.op \in case.ops

(* One operation is in flight at a time, or what is has nothing in common.             *)
Alone ==
    /\ "disk" \notin case.faults /\ hp.pc \notin {"down", "broken", "recover", "latch"} =>
        \A p \in Ops : journal[p] \in InFlight => p = hp.op /\ hp.pc \in Working

(* What the process knows of its writes.                                                *)
Begins == {"claim", "record", "prepare", "run", "execute"}

Knows ==
    /\ hp.pc \in Begins => ~hp.mutated
    /\ hp.pc \in Begins \cup {"write"} => ~hp.ok
    /\ hp.pc = "validated" => hp.ok

(* A handler that is past its first check was let at the host.                           *)
Begun == hp.pc \in {"write", "judge", "mutated", "validated", "restore", "settle", "failed"} => executed[hp.op] # 0

(* What stands to be written was not, and what does not is there or was edited.           *)
Standing ==
    /\ hp.pc = "write" => \A t \in hp.todo : wrote[hp.op][t] = None
    /\ hp.pc = "write" => \A t \in Targets[hp.op] \ hp.todo : host[t] \in {hp.op, Edited}
    /\ hp.pc \in {"judge", "mutated", "validated"} /\ hp.ok =>
           \A t \in Targets[hp.op] : host[t] \in {hp.op, Edited}

(* A handler that reports no mutation wrote nothing, or a write it took for failed.         *)
Unmutated ==
    ~hp.mutated /\ (hp.pc = "write" \/ (hp.pc = "judge" /\ (hp.ok \/ "sync" \notin case.faults))) =>
        \A t \in Things : wrote[hp.op][t] = None

(* What the snapshot has is what was there, but for an operator's edit; and what was         *)
(* restored is no longer the operation's.                                                      *)
Saves ==
    hp.pc \in Saved => \A t \in Targets[hp.op] :
        /\ host[t] \in {snaps[hp.op][t], Edited} \/ wrote[hp.op][t] # None
        /\ wrote[hp.op][t] \in {None, snaps[hp.op][t], Edited}
Restored ==
    /\ hp.pc = "restore" => \A t \in Targets[hp.op] \ hp.todo : wrote[hp.op][t] = None
    /\ hp.pc = "settle" /\ hp.ok => \A t \in Targets[hp.op] : wrote[hp.op][t] = None

RInv == Ledger /\ Latching /\ Called /\ Alone /\ Knows /\ Begun /\ Standing /\ Unmutated /\ Saves /\ Restored
-----------------------------------------------------------------------------
(* What the refinement rests on is kept. *)

Progress == Knows /\ Begun /\ Standing /\ Unmutated /\ Saves /\ Restored

LEMMA PartsFrame ==
    ASSUME RInv
    PROVE  /\ UNCHANGED <<host, wrote, executed>> => Ledger'
           /\ UNCHANGED <<hp, breaker>> => Latching'
           /\ UNCHANGED <<hp, plan, confirmed, current, journal, case>> => Called'
           /\ UNCHANGED <<hp, journal, case>> => Alone'
           /\ UNCHANGED <<hp, host, wrote, executed, snaps, case>> => Progress'
<1>1. UNCHANGED <<host, wrote, executed>> => Ledger'
    BY DEF RInv, Ledger
<1>2. UNCHANGED <<hp, breaker>> => Latching'
    BY DEF RInv, Latching
<1>3. UNCHANGED <<hp, plan, confirmed, current, journal, case>> => Called'
    BY DEF RInv, Called
<1>4. UNCHANGED <<hp, journal, case>> => Alone'
    BY DEF RInv, Alone
<1>5. UNCHANGED <<hp, host, wrote, executed, snaps, case>> => Progress'
    BY DEF RInv, Progress, Knows, Begun, Standing, Unmutated, Saves, Restored
<1> QED BY <1>1, <1>2, <1>3, <1>4, <1>5

\* A process that is at no operation knows nothing of one.
LEMMA ProgressOff == ASSUME hp'.pc \notin Working PROVE Progress'
BY DEF Progress, Knows, Begun, Standing, Unmutated, Saves, Saved, Restored, Begins, Working, Pcs

\* The grants and the calls stay what they are, and no other operation is recorded.
LEMMA CalledOn ==
    ASSUME RInv, hp.pc \in Working, hp.pc \in Working => hp.op \in Ops,
           hp'.pc \in Working => hp'.op = hp.op,
           \A p \in Ops \ {hp.op} : journal'[p] = journal[p] \/ journal'[p] = "none",
           UNCHANGED <<plan, confirmed, current, case>>
    PROVE  Called'
BY DEF RInv, Called

LEMMA CalledOff ==
    ASSUME RInv, hp'.pc \notin Working,
           \A p \in Ops : journal'[p] # "none" => journal[p] # "none",
           UNCHANGED <<plan, confirmed, current, case>>
    PROVE  Called'
BY DEF RInv, Called

\* The process goes on with its operation, or ends its work with a record that has an outcome.
LEMMA AloneOn ==
    ASSUME RInv, hp.pc \in Working, UNCHANGED case,
           \A p \in Ops \ {hp.op} : journal'[p] = journal[p] \/ journal'[p] = "none",
           "disk" \notin case.faults => \/ (hp'.pc \in Working /\ hp'.op = hp.op)
                                       \/ (hp'.pc \notin Working /\ journal'[hp.op] \notin InFlight)
                                       \/ hp'.pc \in {"down", "broken", "recover", "latch"}
    PROVE  Alone'
BY DEF RInv, Alone, Working, InFlight

LEMMA AloneGoes ==
    ASSUME RInv, hp.pc \in Working, UNCHANGED case,
           \A p \in Ops \ {hp.op} : journal'[p] = journal[p],
           (hp'.pc \in Working /\ hp'.op = hp.op) \/ (hp'.pc \notin Working /\ ("disk" \in case.faults \/ hp'.pc = "broken"))
    PROVE  Alone'
BY DEF RInv, Alone, Working, InFlight

LEMMA Lines ==
    ASSUME TypeOK, NEW t \in Things
    PROVE  /\ \A p \in Ops, u \in Things : Unwritten(t)[p][u] = IF u = t THEN None ELSE wrote[p][u]
           /\ \A o, p \in Ops, u \in Things :
                 Written(o, t)[p][u] = IF u = t THEN (IF p = o THEN host[t] ELSE None) ELSE wrote[p][u]
           /\ host[t] \in Contents /\ host[t] # None
<1>1. \A p \in Ops, u \in Things : Unwritten(t)[p][u] = IF u = t THEN None ELSE wrote[p][u]
    BY DEF TypeOK, HostTyped, Unwritten
<1>2. \A o, p \in Ops, u \in Things :
          Written(o, t)[p][u] = IF u = t THEN (IF p = o THEN host[t] ELSE None) ELSE wrote[p][u]
    BY DEF TypeOK, HostTyped, Unwritten, Written
<1>3. host[t] \in Contents /\ host[t] # None
    BY NullAssumptions DEF TypeOK, HostTyped, Hosts, Contents
<1> QED BY <1>1, <1>2, <1>3

\* One target takes what o writes, or what it is left without o.
LEMMA LedgerWrite ==
    ASSUME TypeOK, Ledger, NEW o \in Ops, NEW t \in Targets[o], t \in Things, executed[o] # 0,
           host' = [host EXCEPT ![t] = o], wrote' = Written(o, t), UNCHANGED executed
    PROVE  Ledger'
<1>1. \A u \in Things : host'[u] = IF u = t THEN o ELSE host[u]
    BY DEF TypeOK, HostTyped, Hosts
<1>2. \A p \in Ops, u \in Things :
          wrote'[p][u] = IF u = t THEN (IF p = o THEN host[t] ELSE None) ELSE wrote[p][u]
    BY Lines
<1> QED BY <1>1, <1>2 DEF Ledger

LEMMA LedgerClear ==
    ASSUME TypeOK, Ledger, NEW t \in Things, NEW c,
           host' = [host EXCEPT ![t] = c], wrote' = Unwritten(t), UNCHANGED executed
    PROVE  Ledger'
<1>1. \A u \in Things : u # t => host'[u] = host[u]
    BY DEF TypeOK, HostTyped, Hosts
<1>2. \A p \in Ops, u \in Things : wrote'[p][u] = IF u = t THEN None ELSE wrote[p][u]
    BY Lines
<1> QED BY <1>1, <1>2 DEF Ledger

LEMMA FinishRuns ==
    ASSUME TypeOK, RInv, hp.op \in Ops, hp.pc \in Working,
           NEW state \in Terminal, Finish(hp.op, state),
           UNCHANGED <<host, wrote, executed, breaker, plan, confirmed, current, snaps, case>>
    PROVE  RInv'
<1>1. /\ hp'.pc \in {"idle", "broken"} /\ \A p \in Ops \ {hp.op} : journal'[p] = journal[p]
      /\ journal'[hp.op] = state \/ "disk" \in case.faults \/ hp'.pc = "broken"
    BY LogFacts, NextTyped DEF TypeOK, StoreTyped, Finish, Log, Spend
<1>2. state \notin InFlight
    BY DEF InFlight, Terminal, Prunable, Incident
<1>3. Latching'
    BY <1>1 DEF RInv, Latching, Working
<1>4. Called'
    BY <1>1, CalledOn DEF Working
<1>5. Alone'
    BY <1>1, <1>2, AloneOn DEF Working
<1> QED BY <1>1, <1>3, <1>4, <1>5, ProgressOff, PartsFrame DEF RInv, Progress, Working

LEMMA PlanActionRuns == ASSUME TypeOK, IInv, RInv, NEW o \in Ops, PlanAction(o) PROVE RInv'
<1>1. Called'
    BY DEF TypeOK, TablesTyped, Imaged, RInv, Called, PlanAction, StorePlan, Unplanned, store, history
<1> QED BY <1>1, PartsFrame DEF RInv, Progress, PlanAction, Unplanned, store, history

LEMMA ConfirmRuns == ASSUME TypeOK, IInv, RInv, NEW o \in Ops, Confirm(o) PROVE RInv'
<1>1. Called'
    BY DEF TypeOK, TablesTyped, RInv, Called, Confirm, Unplanned, store, history
<1> QED BY <1>1, PartsFrame DEF RInv, Progress, Confirm, Unplanned, store, history

LEMMA PublishIntentRuns == ASSUME TypeOK, IInv, RInv, NEW o \in Ops, PublishIntent(o) PROVE RInv'
<1>1. Called'
    BY DEF RInv, Called, PublishIntent, Unplanned, store, history
<1> QED BY <1>1, PartsFrame DEF RInv, Progress, PublishIntent, Unplanned, store, history

LEMMA AuthorizeManagedRuns == ASSUME TypeOK, IInv, RInv, NEW o \in Ops, AuthorizeManaged(o) PROVE RInv'
<1>1. Called'
    BY NullAssumptions DEF TypeOK, TablesTyped, Imaged, RInv, Called, AuthorizeManaged, StoreManagedPlan, StoreManagedGrant, Unplanned, store, history
<1> QED BY <1>1, PartsFrame DEF RInv, Progress, AuthorizeManaged, Unplanned, store, history

LEMMA ExpireRuns == ASSUME TypeOK, IInv, RInv, NEW o \in Ops, Expire(o) PROVE RInv'
BY PartsFrame DEF RInv, Progress, Expire, tables, store, history

LEMMA AnswerKnownRuns == ASSUME TypeOK, IInv, RInv, NEW o \in Ops, AnswerKnown(o) PROVE RInv'
<1>1. hp.pc = "idle" /\ hp'.pc = "idle"
    BY DEF AnswerKnown, Admitted, Asked, Resting, Process
<1>2. UNCHANGED <<host, wrote, executed, breaker, plan, confirmed, current, journal, snaps, case>>
    BY DEF AnswerKnown, store, history
<1>3. Latching' /\ Called' /\ Alone'
    BY <1>1, <1>2 DEF RInv, Latching, Called, Alone, Working
<1>4. Progress'
    BY <1>1, ProgressOff DEF Working
<1> QED BY <1>2, <1>3, <1>4, PartsFrame DEF RInv, Progress

LEMMA AnswerConvergedRuns == ASSUME TypeOK, IInv, RInv, NEW o \in Ops, AnswerConverged(o) PROVE RInv'
<1>1. hp.pc = "idle" /\ hp'.pc = "idle"
    BY DEF AnswerConverged, Admitted, Asked, Resting, Process
<1>2. UNCHANGED <<host, wrote, executed, breaker, plan, confirmed, current, journal, snaps, case>>
    BY DEF AnswerConverged, store, history
<1>3. Latching' /\ Called' /\ Alone'
    BY <1>1, <1>2 DEF RInv, Latching, Called, Alone, Working
<1>4. Progress'
    BY <1>1, ProgressOff DEF Working
<1> QED BY <1>2, <1>3, <1>4, PartsFrame DEF RInv, Progress

LEMMA AcceptRuns == ASSUME TypeOK, IInv, RInv, NEW o \in Ops, Accept(o) PROVE RInv'
<1>1. /\ hp'.pc \in {"claim", "prepare"} /\ hp'.op = o /\ ~hp'.mutated /\ ~hp'.ok
      /\ hp.pc = "idle" /\ journal[o] \notin InFlight /\ ~breaker.mem /\ confirmed[o] = 2
    BY DEF Accept, Admitted, Asked, Asks, AsksManaged, Granted, HasReceipt, Process, InFlight
<1>2. UNCHANGED <<host, wrote, executed, breaker, plan, confirmed, current, journal, snaps, case>>
    BY DEF Accept, tables, store, history
<1>3. Latching'
    BY <1>1, <1>2 DEF RInv, Latching
<1>4. Called'
    BY <1>1, <1>2 DEF RInv, Called
<1>5. Alone'
    BY <1>1, <1>2 DEF RInv, Alone, Working
<1>6. Progress'
    BY <1>1 DEF Progress, Knows, Standing, Unmutated, Saves, Saved, Restored, Begun
<1> QED BY <1>2, <1>3, <1>4, <1>5, <1>6, PartsFrame DEF RInv, Progress

LEMMA ClaimGrantRuns == ASSUME TypeOK, IInv, RInv, ClaimGrant PROVE RInv'
<1>0. hp.op \in Ops /\ hp.pc = "claim" /\ hp.pc \in Working
    BY DEF TypeOK, ProcessTyped, ClaimGrant, Working, Pcs
<1>1. hp' = Goto("record") \/ (hp'.pc = "idle" /\ "disk" \in case.faults)
    BY NextTyped DEF TypeOK, ClaimGrant, Spend
<1>2. hp' = Goto("record") => /\ hp'.pc = "record" /\ hp'.op = hp.op /\ hp'.todo = hp.todo
                         /\ hp'.mutated = hp.mutated /\ hp'.ok = hp.ok
    BY GotoFacts DEF TypeOK
<1>3. UNCHANGED <<host, wrote, executed, breaker, plan, confirmed, current, snaps, case>>
    BY DEF ClaimGrant, tables, history
<1>4. \A p \in Ops \ {hp.op} : journal'[p] = journal[p]
    BY <1>0, LogFacts DEF TypeOK, ClaimGrant
<1>5. Latching'
    BY <1>0, <1>1, <1>2, <1>3 DEF RInv, Latching, Working
<1>a. (hp'.pc \in Working /\ hp'.op = hp.op) \/ (hp'.pc \notin Working /\ "disk" \in case.faults)
    BY <1>1, <1>2 DEF Working, Pcs
<1>b. Called'
    BY <1>0, <1>3, <1>4, <1>a, CalledOn
<1>c. Alone'
    BY <1>0, <1>3, <1>4, <1>a, AloneGoes
<1>6. Called' /\ Alone'
    BY <1>b, <1>c
<1>7. CASE hp'.pc = "idle"
    BY <1>3, <1>5, <1>6, <1>7, ProgressOff, PartsFrame DEF RInv, Progress, Working
<1>8. CASE hp' = Goto("record")
    <2>1. Progress'
        BY <1>0, <1>2, <1>3, <1>8 DEF RInv, Progress, Knows, Standing, Unmutated, Saves, Saved, Restored, Begins, Begun
    <2> QED BY <1>3, <1>5, <1>6, <2>1, PartsFrame DEF RInv, Progress
<1> QED BY <1>1, <1>7, <1>8

LEMMA RecordOperationRuns == ASSUME TypeOK, IInv, RInv, RecordOperation PROVE RInv'
<1>0. hp.op \in Ops /\ hp.pc = "record" /\ hp.pc \in Working
    BY DEF TypeOK, ProcessTyped, RecordOperation, Working, Pcs
<1>1. hp' = Goto("prepare") \/ (hp'.pc = "idle" /\ "disk" \in case.faults) \/ hp'.pc = "broken"
    BY NextTyped DEF TypeOK, RecordOperation, Log, Spend
<1>2. hp' = Goto("prepare") => /\ hp'.pc = "prepare" /\ hp'.op = hp.op /\ hp'.todo = hp.todo
                         /\ hp'.mutated = hp.mutated /\ hp'.ok = hp.ok
    BY GotoFacts DEF TypeOK
<1>3. UNCHANGED <<host, wrote, executed, breaker, plan, confirmed, current, snaps, case>>
    BY DEF RecordOperation, tables, history
<1>4. \A p \in Ops \ {hp.op} : journal'[p] = journal[p]
    BY <1>0, LogFacts DEF TypeOK, RecordOperation
<1>5. Latching'
    BY <1>0, <1>1, <1>2, <1>3 DEF RInv, Latching, Working
<1>a. (hp'.pc \in Working /\ hp'.op = hp.op) \/ (hp'.pc \notin Working /\ ("disk" \in case.faults \/ hp'.pc = "broken"))
    BY <1>1, <1>2 DEF Working, Pcs
<1>b. Called'
    BY <1>0, <1>3, <1>4, <1>a, CalledOn
<1>c. Alone'
    BY <1>0, <1>3, <1>4, <1>a, AloneGoes
<1>6. Called' /\ Alone'
    BY <1>b, <1>c
<1>7. CASE hp'.pc \in {"idle", "broken"}
    BY <1>3, <1>5, <1>6, <1>7, ProgressOff, PartsFrame DEF RInv, Progress, Working
<1>8. CASE hp' = Goto("prepare")
    <2>1. Progress'
        BY <1>0, <1>2, <1>3, <1>8 DEF RInv, Progress, Knows, Standing, Unmutated, Saves, Saved, Restored, Begins, Begun
    <2> QED BY <1>3, <1>5, <1>6, <2>1, PartsFrame DEF RInv, Progress
<1> QED BY <1>1, <1>7, <1>8

LEMMA TakeSnapshotRuns == ASSUME TypeOK, IInv, RInv, TakeSnapshot PROVE RInv'
<1>0. hp.op \in Ops /\ hp.pc = "prepare" /\ hp.pc \in Working
    BY DEF TypeOK, ProcessTyped, TakeSnapshot, Working, Pcs
<1>1. /\ hp'.pc = "run" /\ hp'.op = hp.op /\ hp'.mutated = hp.mutated /\ hp'.ok = hp.ok
    BY GotoFacts DEF TypeOK, TakeSnapshot
<1>2. UNCHANGED <<host, wrote, executed, breaker, plan, confirmed, current, journal, case>>
    BY DEF TakeSnapshot, tables, history
<1>a. hp'.pc \in Working /\ hp'.op = hp.op
    BY <1>1, <1>2 DEF Working, Pcs
<1>b. Called'
    BY <1>0, <1>1, <1>2, <1>a, CalledOn
<1>c. Alone'
    BY <1>0, <1>1, <1>2, <1>a, AloneGoes
<1>3. Latching' /\ Called' /\ Alone'
    BY <1>0, <1>1, <1>2, <1>a, <1>b, <1>c DEF RInv, Latching, Working
<1>4. \A t \in Targets[hp.op] : snaps'[hp.op][t] = host[t]
    BY <1>0 DEF TypeOK, StoreTyped, Imaged, TakeSnapshot, Facts
<1>5. \A t \in Targets[hp.op] : wrote[hp.op][t] = None
    BY <1>0, HelperAssumptions DEF IInv, OnRecord, OnceRecord, RInv, Ledger
<1>6. Progress'
    BY <1>0, <1>1, <1>2, <1>4, <1>5 DEF RInv, Progress, Knows, Standing, Unmutated, Saves, Saved, Restored, Begins, Begun
<1> QED BY <1>2, <1>3, <1>6, PartsFrame DEF RInv, Progress

LEMMA RunRuns == ASSUME TypeOK, IInv, RInv, Run PROVE RInv'
<1>0. hp.op \in Ops /\ hp.pc = "run" /\ hp.pc \in Working
    BY DEF TypeOK, ProcessTyped, Run, Working, Pcs
<1>1. hp' = Goto("execute") \/ (hp'.pc = "idle" /\ "disk" \in case.faults) \/ hp'.pc = "broken"
    BY NextTyped DEF TypeOK, Run, Log, Spend
<1>2. hp' = Goto("execute") => /\ hp'.pc = "execute" /\ hp'.op = hp.op /\ hp'.todo = hp.todo
                         /\ hp'.mutated = hp.mutated /\ hp'.ok = hp.ok
    BY GotoFacts DEF TypeOK
<1>3. UNCHANGED <<host, wrote, executed, breaker, plan, confirmed, current, snaps, case>>
    BY DEF Run, tables, history
<1>4. \A p \in Ops \ {hp.op} : journal'[p] = journal[p]
    BY <1>0, LogFacts DEF TypeOK, Run
<1>5. Latching'
    BY <1>0, <1>1, <1>2, <1>3 DEF RInv, Latching, Working
<1>a. (hp'.pc \in Working /\ hp'.op = hp.op) \/ (hp'.pc \notin Working /\ ("disk" \in case.faults \/ hp'.pc = "broken"))
    BY <1>1, <1>2 DEF Working, Pcs
<1>b. Called'
    BY <1>0, <1>3, <1>4, <1>a, CalledOn
<1>c. Alone'
    BY <1>0, <1>3, <1>4, <1>a, AloneGoes
<1>6. Called' /\ Alone'
    BY <1>b, <1>c
<1>7. CASE hp'.pc \in {"idle", "broken"}
    BY <1>3, <1>5, <1>6, <1>7, ProgressOff, PartsFrame DEF RInv, Progress, Working
<1>8. CASE hp' = Goto("execute")
    <2>1. Progress'
        BY <1>0, <1>2, <1>3, <1>8 DEF RInv, Progress, Knows, Standing, Unmutated, Saves, Saved, Restored, Begins, Begun
    <2> QED BY <1>3, <1>5, <1>6, <2>1, PartsFrame DEF RInv, Progress
<1> QED BY <1>1, <1>7, <1>8

LEMMA LogMutatedRuns == ASSUME TypeOK, IInv, RInv, LogMutated PROVE RInv'
<1>0. hp.op \in Ops /\ hp.pc = "judge" /\ hp.pc \in Working
    BY DEF TypeOK, ProcessTyped, LogMutated, Working, Pcs
<1>1. hp' = Goto("mutated") \/ (hp'.pc = "idle" /\ "disk" \in case.faults) \/ hp'.pc = "broken"
    BY NextTyped DEF TypeOK, LogMutated, Log, Spend
<1>2. hp' = Goto("mutated") => /\ hp'.pc = "mutated" /\ hp'.op = hp.op /\ hp'.todo = hp.todo
                         /\ hp'.mutated = hp.mutated /\ hp'.ok = hp.ok
    BY GotoFacts DEF TypeOK
<1>3. UNCHANGED <<host, wrote, executed, breaker, plan, confirmed, current, snaps, case>>
    BY DEF LogMutated, tables, history
<1>4. \A p \in Ops \ {hp.op} : journal'[p] = journal[p]
    BY <1>0, LogFacts DEF TypeOK, LogMutated
<1>5. Latching'
    BY <1>0, <1>1, <1>2, <1>3 DEF RInv, Latching, Working
<1>a. (hp'.pc \in Working /\ hp'.op = hp.op) \/ (hp'.pc \notin Working /\ ("disk" \in case.faults \/ hp'.pc = "broken"))
    BY <1>1, <1>2 DEF Working, Pcs
<1>b. Called'
    BY <1>0, <1>3, <1>4, <1>a, CalledOn
<1>c. Alone'
    BY <1>0, <1>3, <1>4, <1>a, AloneGoes
<1>6. Called' /\ Alone'
    BY <1>b, <1>c
<1>7. CASE hp'.pc \in {"idle", "broken"}
    BY <1>3, <1>5, <1>6, <1>7, ProgressOff, PartsFrame DEF RInv, Progress, Working
<1>8. CASE hp' = Goto("mutated")
    <2>1. Progress'
        BY <1>0, <1>2, <1>3, <1>8 DEF RInv, Progress, Knows, Standing, Unmutated, Saves, Saved, Restored, Begins, Begun
    <2> QED BY <1>3, <1>5, <1>6, <2>1, PartsFrame DEF RInv, Progress
<1> QED BY <1>1, <1>7, <1>8

LEMMA LogValidatedRuns == ASSUME TypeOK, IInv, RInv, LogValidated PROVE RInv'
<1>0. hp.op \in Ops /\ hp.pc = "mutated" /\ hp.pc \in Working
    BY DEF TypeOK, ProcessTyped, LogValidated, Working, Pcs
<1>1. hp' = Goto("validated") \/ (hp'.pc = "idle" /\ "disk" \in case.faults) \/ hp'.pc = "broken"
    BY NextTyped DEF TypeOK, LogValidated, Log, Spend
<1>2. hp' = Goto("validated") => /\ hp'.pc = "validated" /\ hp'.op = hp.op /\ hp'.todo = hp.todo
                         /\ hp'.mutated = hp.mutated /\ hp'.ok = hp.ok
    BY GotoFacts DEF TypeOK
<1>3. UNCHANGED <<host, wrote, executed, breaker, plan, confirmed, current, snaps, case>>
    BY DEF LogValidated, tables, history
<1>4. \A p \in Ops \ {hp.op} : journal'[p] = journal[p]
    BY <1>0, LogFacts DEF TypeOK, LogValidated
<1>5. Latching'
    BY <1>0, <1>1, <1>2, <1>3 DEF RInv, Latching, Working
<1>a. (hp'.pc \in Working /\ hp'.op = hp.op) \/ (hp'.pc \notin Working /\ ("disk" \in case.faults \/ hp'.pc = "broken"))
    BY <1>1, <1>2 DEF Working, Pcs
<1>b. Called'
    BY <1>0, <1>3, <1>4, <1>a, CalledOn
<1>c. Alone'
    BY <1>0, <1>3, <1>4, <1>a, AloneGoes
<1>6. Called' /\ Alone'
    BY <1>b, <1>c
<1>7. CASE hp'.pc \in {"idle", "broken"}
    BY <1>3, <1>5, <1>6, <1>7, ProgressOff, PartsFrame DEF RInv, Progress, Working
<1>8. CASE hp' = Goto("validated")
    <2>1. Progress'
        BY <1>0, <1>2, <1>3, <1>8 DEF LogValidated, RInv, Progress, Knows, Standing, Unmutated, Saves, Saved, Restored, Begins, Begun
    <2> QED BY <1>3, <1>5, <1>6, <2>1, PartsFrame DEF RInv, Progress
<1> QED BY <1>1, <1>7, <1>8

LEMMA ExecuteRuns == ASSUME TypeOK, IInv, RInv, Execute PROVE RInv'
<1>0. hp.op \in Ops /\ hp.pc = "execute" /\ hp.pc \in Working
    BY DEF TypeOK, ProcessTyped, Execute, Working, Pcs
<1>1. /\ hp'.pc \in {"write", "judge"} /\ hp'.op = hp.op /\ hp'.mutated = hp.mutated /\ hp'.ok = hp.ok
      /\ hp'.pc = "write" => hp'.todo \in {Pending(hp.op), Targets[hp.op]}
    <2> DEFINE next == [hp EXCEPT !.pc = "write", !.todo = IF hp.op \in Managed THEN Pending(hp.op) ELSE Targets[hp.op]]
    <2>1. /\ next.pc = "write" /\ next.op = hp.op /\ next.mutated = hp.mutated /\ next.ok = hp.ok
          /\ next.todo \in {Pending(hp.op), Targets[hp.op]}
        BY DEF TypeOK, ProcessTyped
    <2>2. hp' = next \/ hp' = Goto("judge")
        BY DEF Execute
    <2> HIDE DEF next
    <2> QED BY <2>1, <2>2, GotoFacts DEF TypeOK
<1>2. UNCHANGED <<host, wrote, breaker, plan, confirmed, current, journal, snaps, case>>
    BY DEF Execute, tables, store
<1>3. \A p \in Ops : executed'[p] = 0 => executed[p] = 0
    BY <1>0 DEF TypeOK, HistoryTyped, IInv, OnceRecord, Execute
<1>4. Ledger'
    BY <1>2, <1>3 DEF RInv, Ledger
<1>a. hp'.pc \in Working /\ hp'.op = hp.op
    BY <1>1, <1>2 DEF Working, Pcs
<1>b. Called'
    BY <1>0, <1>1, <1>2, <1>a, CalledOn
<1>c. Alone'
    BY <1>0, <1>1, <1>2, <1>a, AloneGoes
<1>5. Latching' /\ Called' /\ Alone'
    BY <1>0, <1>1, <1>2, <1>a, <1>b, <1>c DEF RInv, Latching, Working
<1>6. \A t \in Things : wrote[hp.op][t] = None
    BY <1>0 DEF IInv, OnceRecord, RInv, Ledger
<1>7. \A t \in Targets[hp.op] \ Pending(hp.op) : host[t] = hp.op
    BY DEF Pending
<1>8. hp'.todo \subseteq Things \/ hp'.pc # "write"
    BY <1>0, <1>1, HelperAssumptions DEF Pending
<1>9. executed'[hp.op] # 0
    BY <1>0 DEF TypeOK, HistoryTyped, IInv, OnceRecord, Execute
<1>10. Knows' /\ Begun' /\ Restored' /\ Unmutated'
    BY <1>0, <1>1, <1>2, <1>6, <1>9 DEF RInv, Knows, Unmutated, Restored, Begins, Begun
<1>11. Standing'
    BY <1>0, <1>1, <1>2, <1>6, <1>7, <1>8 DEF RInv, Knows, Standing, Begins
<1>12. Saves'
    BY <1>0, <1>1, <1>2 DEF RInv, Saves, Saved
<1>13. Progress'
    BY <1>10, <1>11, <1>12 DEF Progress
<1> QED BY <1>4, <1>5, <1>13 DEF RInv, Progress

LEMMA WriteRuns == ASSUME TypeOK, IInv, RInv, NEW t \in Things, Write(t) PROVE RInv'
<1>0. hp.op \in Ops /\ hp.pc = "write" /\ hp.pc \in Working
    BY DEF TypeOK, ProcessTyped, Write, Working, Pcs
<1>1. t \in Targets[hp.op] /\ wrote[hp.op][t] = None
    BY <1>0 DEF Write, IInv, SnapshotTaken, RInv, Standing
<1>2. executed[hp.op] # 0
    BY <1>0 DEF RInv, Begun
<1>3. Ledger'
    BY <1>0, <1>1, <1>2, LedgerWrite DEF RInv, Write
<1>4. /\ hp'.pc = "write" /\ hp'.op = hp.op /\ hp'.todo = hp.todo \ {t} /\ hp'.mutated = TRUE /\ hp'.ok = hp.ok
    BY <1>0 DEF TypeOK, ProcessTyped, Write
<1>5. UNCHANGED <<breaker, plan, confirmed, current, journal, snaps, case, executed>>
    BY DEF Write, tables, store
<1>a. hp'.pc \in Working /\ hp'.op = hp.op
    BY <1>4, <1>5 DEF Working, Pcs
<1>b. Called'
    BY <1>0, <1>4, <1>5, <1>a, CalledOn
<1>c. Alone'
    BY <1>0, <1>4, <1>5, <1>a, AloneGoes
<1>6. Latching' /\ Called' /\ Alone'
    BY <1>0, <1>4, <1>5, <1>a, <1>b, <1>c DEF RInv, Latching, Working
<1>7. \A u \in Things : host'[u] = IF u = t THEN hp.op ELSE host[u]
    BY DEF Write, TypeOK, HostTyped, Hosts
<1>8. \A u \in Things : wrote'[hp.op][u] = IF u = t THEN host[t] ELSE wrote[hp.op][u]
    BY <1>0, Lines DEF Write
<1>9. Targets[hp.op] \subseteq Things /\ host[t] # None
    BY <1>0, HelperAssumptions, Lines
<1>10. hp'.todo \subseteq Things
    BY <1>0, <1>4, <1>9 DEF IInv, SnapshotTaken
<1>11. Standing'
    BY <1>0, <1>4, <1>7, <1>8, <1>9, <1>10 DEF RInv, Standing
<1>12. Saves'
    BY <1>0, <1>1, <1>4, <1>5, <1>7, <1>8, <1>9 DEF RInv, Saves, Saved
<1>13. Knows' /\ Unmutated' /\ Restored'
    BY <1>0, <1>4 DEF RInv, Knows, Unmutated, Restored, Begins, Begun
<1>14. Begun'
    BY <1>0, <1>2, <1>4, <1>5 DEF Begun
<1> QED BY <1>3, <1>6, <1>11, <1>12, <1>13, <1>14 DEF RInv

LEMMA WriteFailsRuns == ASSUME TypeOK, IInv, RInv, NEW t \in Things, WriteFails(t) PROVE RInv'
<1>0. hp.op \in Ops /\ hp.pc = "write" /\ hp.pc \in Working
    BY DEF TypeOK, ProcessTyped, WriteFails, Working, Pcs
<1>1. t \in Targets[hp.op] /\ wrote[hp.op][t] = None
    BY <1>0 DEF WriteFails, IInv, SnapshotTaken, RInv, Standing
<1>2. executed[hp.op] # 0
    BY <1>0 DEF RInv, Begun
<1>3. Ledger'
    BY <1>0, <1>1, <1>2, LedgerWrite, PartsFrame DEF RInv, WriteFails
<1>4. /\ hp'.pc = "judge" /\ hp'.op = hp.op /\ hp'.todo = hp.todo /\ hp'.ok = hp.ok
      /\ hp.mutated => hp'.mutated
    BY <1>0 DEF TypeOK, ProcessTyped, WriteFails
<1>5. UNCHANGED <<breaker, plan, confirmed, current, journal, snaps, case, executed>>
    BY DEF WriteFails, tables, store
<1>a. hp'.pc \in Working /\ hp'.op = hp.op
    BY <1>4, <1>5 DEF Working, Pcs
<1>b. Called'
    BY <1>0, <1>4, <1>5, <1>a, CalledOn
<1>c. Alone'
    BY <1>0, <1>4, <1>5, <1>a, AloneGoes
<1>6. Latching' /\ Called' /\ Alone'
    BY <1>0, <1>4, <1>5, <1>a, <1>b, <1>c DEF RInv, Latching, Working
<1>7. ~hp.ok
    BY <1>0 DEF RInv, Knows, Begins
<1>8. Knows' /\ Standing' /\ Restored' /\ Begun'
    BY <1>2, <1>4, <1>5, <1>7 DEF Knows, Standing, Restored, Begun, Begins
<1>9. CASE UNCHANGED <<host, wrote>>
    BY <1>0, <1>3, <1>4, <1>5, <1>6, <1>7, <1>8, <1>9 DEF RInv, Saves, Saved, Unmutated
<1>10. CASE "sync" \in case.faults /\ host' = [host EXCEPT ![t] = hp.op] /\ wrote' = Written(hp.op, t)
    <2>1. \A u \in Things : host'[u] = IF u = t THEN hp.op ELSE host[u]
        BY <1>10 DEF TypeOK, HostTyped, Hosts
    <2>2. \A u \in Things : wrote'[hp.op][u] = IF u = t THEN host[t] ELSE wrote[hp.op][u]
        BY <1>0, <1>10, Lines
    <2>3. Targets[hp.op] \subseteq Things /\ host[t] # None
        BY <1>0, HelperAssumptions, Lines
    <2>4. Saves'
        BY <1>0, <1>1, <1>4, <1>5, <2>1, <2>2, <2>3 DEF RInv, Saves, Saved
    <2>5. Unmutated'
        BY <1>4, <1>5, <1>7, <1>10 DEF Unmutated
    <2> QED BY <1>3, <1>6, <1>8, <2>4, <2>5 DEF RInv
<1> QED BY <1>9, <1>10 DEF WriteFails, Spend

LEMMA ValidateRuns == ASSUME TypeOK, IInv, RInv, Validate PROVE RInv'
<1>0. hp.op \in Ops /\ hp.pc = "write" /\ hp.pc \in Working
    BY DEF TypeOK, ProcessTyped, Validate, Working, Pcs
<1>1. /\ hp'.pc = "judge" /\ hp'.op = hp.op /\ hp'.mutated = hp.mutated /\ hp.todo = {}
      /\ hp.mutated \/ hp'.ok
    <2> DEFINE next == [hp EXCEPT !.pc = "judge", !.ok = TRUE]
    <2>1. next.pc = "judge" /\ next.op = hp.op /\ next.mutated = hp.mutated /\ next.ok = TRUE
        BY DEF TypeOK, ProcessTyped
    <2>2. hp.todo = {} /\ (hp' = next \/ (hp.mutated /\ hp' = Goto("judge")))
        BY DEF Validate
    <2> HIDE DEF next
    <2> QED BY <2>1, <2>2, GotoFacts DEF TypeOK
<1>2. UNCHANGED <<host, wrote, executed, breaker, plan, confirmed, current, journal, snaps, case>>
    BY DEF Validate, tables, store, history
<1>a. hp'.pc \in Working /\ hp'.op = hp.op
    BY <1>1, <1>2 DEF Working, Pcs
<1>b. Called'
    BY <1>0, <1>1, <1>2, <1>a, CalledOn
<1>c. Alone'
    BY <1>0, <1>1, <1>2, <1>a, AloneGoes
<1>3. Latching' /\ Called' /\ Alone'
    BY <1>0, <1>1, <1>2, <1>a, <1>b, <1>c DEF RInv, Latching, Working
<1>4. Progress'
    BY <1>0, <1>1, <1>2 DEF RInv, Progress, Knows, Standing, Unmutated, Saves, Saved, Restored, Begins, Begun
<1> QED BY <1>2, <1>3, <1>4, PartsFrame DEF RInv, Progress

LEMMA RefuseSnapshotRuns == ASSUME TypeOK, IInv, RInv, RefuseSnapshot PROVE RInv'
<1>0. hp.op \in Ops /\ hp.pc = "prepare" /\ hp.pc \in Working
    BY DEF TypeOK, ProcessTyped, RefuseSnapshot, Working, Pcs
<1>1. UNCHANGED <<host, wrote, executed, breaker, plan, confirmed, current, snaps, case>>
    BY DEF RefuseSnapshot, history
<1>2. \E state \in Terminal : Finish(hp.op, state)
    BY DEF RefuseSnapshot, Terminal, Prunable, Incident
<1> QED BY <1>0, <1>1, <1>2, FinishRuns

LEMMA NothingWrittenRuns == ASSUME TypeOK, IInv, RInv, NothingWritten PROVE RInv'
<1>0. hp.op \in Ops /\ hp.pc = "judge" /\ hp.pc \in Working
    BY DEF TypeOK, ProcessTyped, NothingWritten, Working, Pcs
<1>1. UNCHANGED <<host, wrote, executed, breaker, plan, confirmed, current, snaps, case>>
    BY DEF NothingWritten, history
<1>2. \E state \in Terminal : Finish(hp.op, state)
    BY DEF NothingWritten, Terminal, Prunable, Incident
<1> QED BY <1>0, <1>1, <1>2, FinishRuns

LEMMA SucceedRuns == ASSUME TypeOK, IInv, RInv, Succeed PROVE RInv'
<1>0. hp.op \in Ops /\ hp.pc = "validated" /\ hp.pc \in Working
    BY DEF TypeOK, ProcessTyped, Succeed, Working, Pcs
<1>1. UNCHANGED <<host, wrote, executed, breaker, plan, confirmed, current, snaps, case>>
    BY DEF Succeed, history
<1>2. \E state \in Terminal : Finish(hp.op, state)
    BY DEF Succeed, Terminal, Prunable, Incident
<1> QED BY <1>0, <1>1, <1>2, FinishRuns

LEMMA RolledBackRuns == ASSUME TypeOK, IInv, RInv, RolledBack PROVE RInv'
<1>0. hp.op \in Ops /\ hp.pc = "settle" /\ hp.pc \in Working
    BY DEF TypeOK, ProcessTyped, RolledBack, Working, Pcs
<1>1. UNCHANGED <<host, wrote, executed, breaker, plan, confirmed, current, snaps, case>>
    BY DEF RolledBack, history
<1>2. \E state \in Terminal : Finish(hp.op, state)
    BY DEF RolledBack, Terminal, Prunable, Incident
<1> QED BY <1>0, <1>1, <1>2, FinishRuns

LEMMA RollbackFailedRuns == ASSUME TypeOK, IInv, RInv, RollbackFailed PROVE RInv'
<1>0. hp.op \in Ops /\ hp.pc = "failed" /\ hp.pc \in Working
    BY DEF TypeOK, ProcessTyped, RollbackFailed, Working, Pcs
<1>1. UNCHANGED <<host, wrote, executed, breaker, plan, confirmed, current, snaps, case>>
    BY DEF RollbackFailed, history
<1>2. \E state \in Terminal : Finish(hp.op, state)
    BY DEF RollbackFailed, Terminal, Prunable, Incident
<1> QED BY <1>0, <1>1, <1>2, FinishRuns

LEMMA EnterRollbackRuns == ASSUME TypeOK, IInv, RInv, EnterRollback PROVE RInv'
<1>0. hp.op \in Ops /\ hp.pc = "mutated" /\ hp.pc \in Working
    BY DEF TypeOK, ProcessTyped, EnterRollback, Working, Pcs
<1> DEFINE next == [hp EXCEPT !.pc = "restore", !.todo = Targets[hp.op], !.ok = TRUE]
<1>1. next.pc = "restore" /\ next.op = hp.op /\ next.todo = Targets[hp.op]
    BY DEF TypeOK, ProcessTyped
<1>2. Log(hp.op, "rollback_running", next)
    BY DEF EnterRollback
<1> HIDE DEF next
<1>3. hp' = next \/ (hp'.pc = "idle" /\ "disk" \in case.faults) \/ hp'.pc = "broken"
    BY <1>2, NextTyped DEF TypeOK, Log, Spend
<1>4. UNCHANGED <<host, wrote, executed, breaker, plan, confirmed, current, snaps, case>>
    BY DEF EnterRollback, tables, history
<1>5. \A p \in Ops \ {hp.op} : journal'[p] = journal[p]
    BY <1>0, <1>2, LogFacts DEF TypeOK
<1>6. Latching'
    BY <1>0, <1>1, <1>3, <1>4 DEF RInv, Latching, Working
<1>a. (hp'.pc \in Working /\ hp'.op = hp.op) \/ (hp'.pc \notin Working /\ ("disk" \in case.faults \/ hp'.pc = "broken"))
    BY <1>1, <1>3 DEF Working, Pcs
<1>b. Called'
    BY <1>0, <1>4, <1>5, <1>a, CalledOn
<1>c. Alone'
    BY <1>0, <1>4, <1>5, <1>a, AloneGoes
<1>7. Called' /\ Alone'
    BY <1>b, <1>c
<1>8. Progress'
    <2>1. CASE hp' = next
        BY <1>0, <1>1, <1>4, <2>1 DEF RInv, Progress, Knows, Standing, Unmutated, Saves, Saved, Restored, Begins, Begun
    <2> QED BY <1>3, <2>1, ProgressOff DEF Working
<1> QED BY <1>4, <1>6, <1>7, <1>8, PartsFrame DEF RInv, Progress

LEMMA RestoreRuns == ASSUME TypeOK, IInv, RInv, NEW t \in Things, Restore(t) PROVE RInv'
<1>0. hp.op \in Ops /\ hp.pc = "restore" /\ hp.pc \in Working
    BY DEF TypeOK, ProcessTyped, Restore, Working, Pcs
<1>1. Ledger'
    BY LedgerClear DEF RInv, Restore
<1>2. /\ hp'.pc = "restore" /\ hp'.op = hp.op /\ hp'.todo = hp.todo \ {t} /\ hp'.mutated = hp.mutated /\ hp'.ok = hp.ok
    BY <1>0 DEF TypeOK, ProcessTyped, Restore
<1>3. UNCHANGED <<breaker, plan, confirmed, current, journal, snaps, case, executed>>
    BY DEF Restore, tables, store
<1>a. hp'.pc \in Working /\ hp'.op = hp.op
    BY <1>2, <1>3 DEF Working, Pcs
<1>b. Called'
    BY <1>0, <1>2, <1>3, <1>a, CalledOn
<1>c. Alone'
    BY <1>0, <1>2, <1>3, <1>a, AloneGoes
<1>4. Latching' /\ Called' /\ Alone'
    BY <1>0, <1>2, <1>3, <1>a, <1>b, <1>c DEF RInv, Latching, Working
<1>5. \A u \in Things : host'[u] = IF u = t THEN snaps[hp.op][t] ELSE host[u]
    BY DEF Restore, TypeOK, HostTyped, Hosts
<1>6. \A u \in Things : wrote'[hp.op][u] = IF u = t THEN None ELSE wrote[hp.op][u]
    BY <1>0, Lines DEF Restore
<1>7. Targets[hp.op] \subseteq Things
    BY <1>0, HelperAssumptions
<1>8. Saves' /\ Restored'
    BY <1>0, <1>2, <1>3, <1>5, <1>6, <1>7 DEF RInv, Saves, Saved, Restored, Begun
<1>9. Knows' /\ Standing' /\ Unmutated' /\ Begun'
    BY <1>0, <1>2, <1>3 DEF RInv, Knows, Standing, Unmutated, Begins, Begun
<1> QED BY <1>1, <1>4, <1>8, <1>9 DEF RInv

LEMMA RestoreEndsRuns == ASSUME TypeOK, IInv, RInv, RestoreEnds PROVE RInv'
<1>0. hp.op \in Ops /\ hp.pc = "restore" /\ hp.pc \in Working
    BY DEF TypeOK, ProcessTyped, RestoreEnds, Working, Pcs
<1>1. /\ hp'.pc = "settle" /\ hp'.op = hp.op /\ hp'.mutated = hp.mutated
      /\ ~hp'.ok \/ hp.todo = {}
    BY DEF TypeOK, ProcessTyped, RestoreEnds, Goto
<1>2. UNCHANGED <<host, wrote, executed, breaker, plan, confirmed, current, journal, snaps, case>>
    BY DEF RestoreEnds, tables, store, history
<1>a. hp'.pc \in Working /\ hp'.op = hp.op
    BY <1>1, <1>2 DEF Working, Pcs
<1>b. Called'
    BY <1>0, <1>1, <1>2, <1>a, CalledOn
<1>c. Alone'
    BY <1>0, <1>1, <1>2, <1>a, AloneGoes
<1>3. Latching' /\ Called' /\ Alone'
    BY <1>0, <1>1, <1>2, <1>a, <1>b, <1>c DEF RInv, Latching, Working
<1>4. Progress'
    BY <1>0, <1>1, <1>2 DEF RInv, Progress, Knows, Standing, Unmutated, Saves, Saved, Restored, Begins, Begun
<1> QED BY <1>2, <1>3, <1>4, PartsFrame DEF RInv, Progress

LEMMA OpenBreakerRuns == ASSUME TypeOK, IInv, RInv, OpenBreaker PROVE RInv'
<1>0. hp.op \in Ops /\ hp.pc = "settle" /\ hp.pc \in Working
    BY DEF TypeOK, ProcessTyped, OpenBreaker, Working, Pcs
<1>1. \/ hp' = Goto("failed") /\ breaker' = [mem |-> TRUE, disk |-> TRUE]
      \/ hp'.pc = "idle" /\ "disk" \in case.faults /\ breaker' \in {[breaker EXCEPT !.mem = TRUE], [mem |-> TRUE, disk |-> TRUE]}
    BY NextTyped DEF TypeOK, OpenBreaker, Spend
<1>2. hp' = Goto("failed") => hp'.pc = "failed" /\ hp'.op = hp.op
    BY GotoFacts DEF TypeOK
<1>3. UNCHANGED <<host, wrote, executed, plan, confirmed, current, journal, snaps, case>>
    BY DEF OpenBreaker, tables, history
<1>4. breaker'.mem
    <2>1. [breaker EXCEPT !.mem = TRUE].mem = TRUE
        BY DEF TypeOK, StoreTyped
    <2>2. CASE breaker' = [breaker EXCEPT !.mem = TRUE]
        BY <2>1, <2>2
    <2>3. CASE breaker' = [mem |-> TRUE, disk |-> TRUE]
        BY <2>3
    <2> QED BY <1>1, <2>2, <2>3
<1>5. Latching'
    BY <1>1, <1>2, <1>4 DEF Latching, Working
<1>a. (hp'.pc \in Working /\ hp'.op = hp.op) \/ (hp'.pc \notin Working /\ "disk" \in case.faults)
    BY <1>1, <1>2 DEF Working, Pcs
<1>b. Called'
    BY <1>0, <1>3, <1>a, CalledOn
<1>c. Alone'
    BY <1>0, <1>3, <1>a, AloneGoes
<1>6. Called' /\ Alone'
    BY <1>b, <1>c
<1>7. Progress'
    <2>1. CASE hp' = Goto("failed")
        BY <1>0, <1>2, <1>3, <2>1 DEF RInv, Progress, Knows, Standing, Unmutated, Saves, Saved, Restored, Begins, Begun
    <2> QED BY <1>1, <2>1, ProgressOff DEF Working
<1> QED BY <1>3, <1>5, <1>6, <1>7, PartsFrame DEF RInv, Progress

LEMMA RestartRuns == ASSUME TypeOK, IInv, RInv, Restart PROVE RInv'
<1>1. hp'.pc = "recover" /\ breaker'.mem = breaker.disk /\ breaker'.disk = breaker.disk
    BY DEF TypeOK, StoreTyped, Restart, Process
<1>2. UNCHANGED <<host, wrote, executed, plan, confirmed, current, journal, snaps, case>>
    BY DEF Restart, tables, history
<1>3. Latching' /\ Alone'
    BY <1>1, <1>2 DEF Latching, Alone, Working
<1>4. Called'
    BY <1>1, <1>2, CalledOff DEF Working
<1> QED BY <1>1, <1>2, <1>3, <1>4, ProgressOff, PartsFrame DEF RInv, Progress, Working

LEMMA RefuseStartRuns == ASSUME TypeOK, IInv, RInv, RefuseStart PROVE RInv'
<1>1. hp.pc = "broken" /\ hp'.pc = "broken"
    BY DEF RefuseStart
<1>2. UNCHANGED <<host, wrote, executed, plan, confirmed, current, journal, snaps, case>>
    BY DEF RefuseStart, tables, history
<1>3. Latching' /\ Alone'
    BY <1>1 DEF Latching, Alone, Working
<1>4. Called'
    BY <1>1, <1>2, CalledOff DEF Working
<1> QED BY <1>1, <1>2, <1>3, <1>4, ProgressOff, PartsFrame DEF RInv, Progress, Working

LEMMA MarkIndeterminateRuns == ASSUME TypeOK, IInv, RInv, NEW o \in Ops, MarkIndeterminate(o) PROVE RInv'
<1>1. \/ hp'.pc = "latch" /\ UNCHANGED breaker /\ hp.pc = "recover"
      \/ hp'.pc \in {"down", "broken"}
    <2>1. hp.pc = "recover" /\ ((hp' = Goto("latch") /\ UNCHANGED breaker) \/ hp' = Down \/ hp' = Broken)
        BY DEF MarkIndeterminate
    <2>2. Goto("latch").pc = "latch" /\ Down.pc = "down" /\ Broken.pc = "broken"
        BY GotoFacts, NextTyped DEF TypeOK
    <2> QED BY <2>1, <2>2
<1>2. \A p \in Ops : journal'[p] # "none" => journal[p] # "none"
    BY DEF TypeOK, StoreTyped, MarkIndeterminate, InFlight
<1>3. UNCHANGED <<host, wrote, executed, plan, confirmed, current, snaps, case>>
    BY DEF MarkIndeterminate, tables, history
<1>4. Latching' /\ Alone'
    BY <1>1 DEF RInv, Latching, Alone, Working
<1>5. Called'
    BY <1>1, <1>2, <1>3, CalledOff DEF Working
<1> QED BY <1>1, <1>3, <1>4, <1>5, ProgressOff, PartsFrame DEF RInv, Progress, Working

LEMMA LatchRuns == ASSUME TypeOK, IInv, RInv, Latch PROVE RInv'
<1>1. hp'.pc = "recover" /\ breaker' \in {[breaker EXCEPT !.mem = TRUE], [mem |-> TRUE, disk |-> TRUE]}
    BY GotoFacts DEF TypeOK, Latch
<1>2. breaker'.mem
    <2>1. [breaker EXCEPT !.mem = TRUE].mem = TRUE
        BY DEF TypeOK, StoreTyped
    <2>2. CASE breaker' = [breaker EXCEPT !.mem = TRUE]
        BY <2>1, <2>2
    <2>3. CASE breaker' = [mem |-> TRUE, disk |-> TRUE]
        BY <2>3
    <2> QED BY <1>1, <2>2, <2>3
<1>3. UNCHANGED <<host, wrote, executed, plan, confirmed, current, journal, snaps, case>>
    BY DEF Latch, tables, history
<1>4. Latching' /\ Alone'
    BY <1>1, <1>2 DEF Latching, Alone, Working
<1>5. Called'
    BY <1>1, <1>3, CalledOff DEF Working
<1> QED BY <1>1, <1>3, <1>4, <1>5, ProgressOff, PartsFrame DEF RInv, Progress, Working

LEMMA RecoveredRuns == ASSUME TypeOK, IInv, RInv, Recovered PROVE RInv'
<1>1. hp.pc = "recover" /\ hp'.pc = "idle"
    BY NextTyped DEF TypeOK, Recovered
<1>2. UNCHANGED <<host, wrote, executed, breaker, plan, confirmed, current, journal, snaps, case>>
    BY DEF Recovered, tables, store, history
<1>3. Latching' /\ Alone'
    BY <1>1, <1>2 DEF RInv, Latching, Alone, Working, Recovered
<1>4. Called'
    BY <1>1, <1>2, CalledOff DEF Working
<1> QED BY <1>1, <1>2, <1>3, <1>4, ProgressOff, PartsFrame DEF RInv, Progress, Working

LEMMA PruneRuns == ASSUME TypeOK, IInv, RInv, NEW o \in Ops, Prune(o) PROVE RInv'
<1>1. \/ hp' = hp /\ breaker' = breaker
      \/ hp'.pc = "down"
    BY NextTyped DEF TypeOK, Prune
<1>2. journal[o] \in Prunable /\ hp.pc \notin {"down", "broken", "recover", "latch"}
    BY DEF Prune
<1>3. /\ \A p \in Ops : journal'[p] = journal[p] \/ (p = o /\ journal'[p] = "none")
      /\ \A p \in Ops \ {o} : snaps'[p] = snaps[p]
    BY DEF TypeOK, StoreTyped, Imaged, Prune
<1>4. hp.pc \in Saved => hp.op \in Ops \ {o}
    BY <1>2 DEF TypeOK, ProcessTyped, IInv, OnRecord, Saved, Working, Pcs, Prunable
<1>5. UNCHANGED <<host, wrote, executed, plan, confirmed, current, case>>
    BY DEF Prune, tables
<1>6. Latching' /\ Called'
    BY <1>1, <1>3, <1>5 DEF RInv, Latching, Called, Working
<1>7. Alone'
    BY <1>1, <1>2, <1>3, <1>5 DEF RInv, Alone, Working, InFlight
<1>8. Progress'
    <2>1. CASE hp' = hp
        <3>1. hp.pc \in Saved => snaps'[hp.op] = snaps[hp.op]
            BY <1>3, <1>4
        <3>2. Saves'
            BY <1>5, <2>1, <3>1 DEF RInv, Saves
        <3>3. Knows' /\ Standing' /\ Unmutated' /\ Restored' /\ Begun'
            BY <1>5, <2>1 DEF RInv, Knows, Standing, Unmutated, Restored, Begun
        <3> QED BY <3>2, <3>3 DEF Progress
    <2> QED BY <1>1, <2>1, ProgressOff DEF Working
<1> QED BY <1>5, <1>6, <1>7, <1>8, PartsFrame DEF RInv, Progress

LEMMA CrashRuns == ASSUME TypeOK, IInv, RInv, Crash PROVE RInv'
<1>1. hp'.pc = "down"
    BY NextTyped DEF TypeOK, Crash
<1>2. UNCHANGED <<host, wrote, executed, plan, confirmed, current, journal, snaps, case>>
    BY DEF Crash, tables, history
<1>3. Latching' /\ Alone'
    BY <1>1 DEF Latching, Alone, Working
<1>4. Called'
    BY <1>1, <1>2, CalledOff DEF Working
<1> QED BY <1>1, <1>2, <1>3, <1>4, ProgressOff, PartsFrame DEF RInv, Progress, Working

LEMMA OperatorEditsRuns == ASSUME TypeOK, IInv, RInv, NEW t \in Things, OperatorEdits(t) PROVE RInv'
<1>1. Ledger'
    BY LedgerClear DEF RInv, OperatorEdits
<1>2. UNCHANGED <<hp, breaker, plan, confirmed, current, journal, snaps, case, executed>>
    BY DEF OperatorEdits, tables, store
<1>3. Latching' /\ Called' /\ Alone'
    BY <1>2, PartsFrame
<1>4. \A u \in Things : host'[u] = IF u = t THEN Edited ELSE host[u]
    BY DEF OperatorEdits, TypeOK, HostTyped, Hosts
<1>5. hp.op \in Ops => \A u \in Things : wrote'[hp.op][u] = IF u = t THEN None ELSE wrote[hp.op][u]
    BY Lines DEF OperatorEdits
<1>6. hp.pc \in Working => hp.op \in Ops /\ Targets[hp.op] \subseteq Things /\ hp.todo \subseteq Things
    BY HelperAssumptions DEF TypeOK, ProcessTyped
<1>7. Knows' /\ Restored' /\ Begun'
    BY <1>2, <1>5, <1>6 DEF RInv, Knows, Restored, Working, Pcs, Begun
<1>8. Standing' /\ Unmutated'
    BY <1>2, <1>4, <1>5, <1>6 DEF RInv, Standing, Unmutated, Working, Pcs
<1>9. Saves'
    BY <1>2, <1>4, <1>5, <1>6 DEF RInv, Saves, Saved, Working, Pcs
<1> QED BY <1>1, <1>3, <1>7, <1>8, <1>9 DEF RInv

LEMMA HandlesRun == ASSUME TypeOK, IInv, RInv, Handles PROVE RInv'
<1>1. CASE \E t \in Things : Write(t) \/ WriteFails(t) \/ Restore(t)
    BY <1>1, WriteRuns, WriteFailsRuns, RestoreRuns
<1>2. CASE ~\E t \in Things : Write(t) \/ WriteFails(t) \/ Restore(t)
    BY <1>2, ClaimGrantRuns, RecordOperationRuns, TakeSnapshotRuns, RefuseSnapshotRuns, RunRuns,
       ExecuteRuns, ValidateRuns, NothingWrittenRuns, LogMutatedRuns, LogValidatedRuns,
       SucceedRuns, EnterRollbackRuns, RestoreEndsRuns, RolledBackRuns, OpenBreakerRuns,
       RollbackFailedRuns
       DEF Handles
<1> QED BY <1>1, <1>2

LEMMA StepRuns == ASSUME TypeOK, IInv, RInv, [HelperNext]_vars PROVE RInv'
<1>1. CASE \E o \in Ops : \/ PlanAction(o) \/ Confirm(o) \/ PublishIntent(o) \/ AuthorizeManaged(o) \/ Expire(o)
                       \/ AnswerKnown(o) \/ AnswerConverged(o) \/ Accept(o) \/ Prune(o)
    BY <1>1, PlanActionRuns, ConfirmRuns, PublishIntentRuns, AuthorizeManagedRuns, ExpireRuns,
       AnswerKnownRuns, AnswerConvergedRuns, AcceptRuns, PruneRuns
<1>2. CASE Handles
    BY <1>2, HandlesRun
<1>3. CASE Recovers
    BY <1>3, RestartRuns, RefuseStartRuns, LatchRuns, RecoveredRuns, MarkIndeterminateRuns DEF Recovers
<1>4. CASE Crash \/ \E t \in Things : OperatorEdits(t)
    BY <1>4, CrashRuns, OperatorEditsRuns
<1>5. CASE UNCHANGED vars
    BY <1>5, PartsFrame DEF RInv, Progress, vars
<1> QED BY <1>1, <1>2, <1>3, <1>4, <1>5 DEF HelperNext

LEMMA InitRuns == HelperInit => RInv
<1> SUFFICES ASSUME HelperInit PROVE RInv
    OBVIOUS
<1>1. hp.pc = "idle" /\ ~breaker.disk /\ hp.pc \notin Working /\ hp.pc \notin Saved \cup Begins
    BY DEF HelperInit, Resting, Process, Working, Saved, Begins
<1>2. Ledger /\ Latching /\ Called /\ Alone
    BY <1>1 DEF HelperInit, Ledger, Latching, Called, Alone, InFlight
<1>3. Knows /\ Begun /\ Standing /\ Unmutated /\ Saves /\ Restored
    BY <1>1 DEF Knows, Begun, Standing, Unmutated, Saves, Restored, Begins
<1> QED BY <1>2, <1>3 DEF RInv

LEMMA RefinementInvariance == HelperSpec => [](TypeOK /\ IInv /\ RInv)
<1>1. TypeOK /\ IInv /\ RInv /\ [HelperNext]_vars => (TypeOK /\ IInv /\ RInv)'
    BY StepKeeps, StepRuns
<1>2. HelperInit => TypeOK /\ IInv /\ RInv
    BY InitHolds, InitRuns
<1> QED BY <1>1, <1>2, PTL DEF HelperSpec

-----------------------------------------------------------------------------
(* The refinement mapping. *)

\* A target shows what is on the host, or what the operation in flight displaced.
LEMMA LiveIs ==
    ASSUME Ledger, NEW t \in Things
    PROVE  /\ (\A o \in Ops : journal[o] \in InFlight => wrote[o][t] = None) => LiveHost[t] = host[t]
           /\ \A o \in Ops : journal[o] \in InFlight /\ wrote[o][t] # None => LiveHost[t] = wrote[o][t]
<1>1. ASSUME \A o \in Ops : journal[o] \in InFlight => wrote[o][t] = None PROVE LiveHost[t] = host[t]
    <2>1. Undecided(t) = {}
        BY <1>1 DEF Undecided
    <2> QED BY <2>1 DEF LiveHost
<1>2. ASSUME NEW o \in Ops, journal[o] \in InFlight, wrote[o][t] # None PROVE LiveHost[t] = wrote[o][t]
    <2>1. Undecided(t) = {o}
        BY <1>2 DEF Undecided, Ledger
    <2> QED BY <2>1 DEF LiveHost
<1> QED BY <1>1, <1>2

LEMMA LiveWillBe ==
    ASSUME Ledger', NEW t \in Things
    PROVE  /\ (\A o \in Ops : journal'[o] \in InFlight => wrote'[o][t] = None) => LiveHost'[t] = host'[t]
           /\ \A o \in Ops : journal'[o] \in InFlight /\ wrote'[o][t] # None => LiveHost'[t] = wrote'[o][t]
<1>1. ASSUME \A o \in Ops : journal'[o] \in InFlight => wrote'[o][t] = None PROVE LiveHost'[t] = host'[t]
    <2>1. Undecided(t)' = {}
        BY <1>1 DEF Undecided
    <2> QED BY <2>1 DEF LiveHost
<1>2. ASSUME NEW o \in Ops, journal'[o] \in InFlight, wrote'[o][t] # None PROVE LiveHost'[t] = wrote'[o][t]
    <2>1. Undecided(t)' = {o}
        BY <1>2 DEF Undecided, Ledger
    <2> QED BY <2>1 DEF LiveHost
<1> QED BY <1>1, <1>2

LEMMA LiveTable == /\ LiveHost = [t \in Things |-> LiveHost[t]]
                   /\ LiveHost' = [t \in Things |-> LiveHost'[t]]
<1>1. LiveHost = [t \in Things |-> LiveHost[t]]
    BY DEF LiveHost
<1>2. LiveHost' = [t \in Things |-> LiveHost'[t]]
    BY DEF LiveHost
<1> QED BY <1>1, <1>2

LEMMA LiveSame ==
    ASSUME Ledger, Ledger', NEW t \in Things, host'[t] = host[t], \A o \in Ops : wrote'[o][t] = wrote[o][t],
           \A o \in Ops : wrote[o][t] # None => (journal'[o] \in InFlight <=> journal[o] \in InFlight)
    PROVE  LiveHost'[t] = LiveHost[t]
<1>1. CASE \A o \in Ops : journal[o] \in InFlight => wrote[o][t] = None
    BY <1>1, LiveIs, LiveWillBe
<1>2. ASSUME NEW o \in Ops, journal[o] \in InFlight, wrote[o][t] # None PROVE LiveHost'[t] = LiveHost[t]
    BY <1>2, LiveIs, LiveWillBe
<1> QED BY <1>1, <1>2

LEMMA LiveFrozen ==
    ASSUME Ledger, Ledger', UNCHANGED <<host, wrote>>,
           \A o \in Ops, t \in Things : wrote[o][t] # None => (journal'[o] \in InFlight <=> journal[o] \in InFlight)
    PROVE  LiveHost' = LiveHost
<1>1. \A t \in Things : LiveHost'[t] = LiveHost[t]
    BY LiveSame
<1> QED BY <1>1 DEF LiveHost

LEMMA EndedFrozen ==
    ASSUME UNCHANGED pruned,
           \A o \in Ops : journal'[o] = journal[o] \/ (journal[o] \notin Terminal /\ journal'[o] \notin Terminal)
    PROVE  Ended' = Ended
BY DEF Ended, OutcomeOf, Terminal

LEMMA EndedOne ==
    ASSUME StoreTyped, NEW o \in Ops, o \notin pruned, UNCHANGED pruned, journal[o] \notin Terminal,
           NEW state \in Terminal, journal' = [journal EXCEPT ![o] = state]
    PROVE  /\ Ended[o] = "open"
           /\ Ended' = [Ended EXCEPT ![o] = IF state \in Incident THEN "doubt" ELSE state]
<1>1. \A p \in Ops : journal'[p] = IF p = o THEN state ELSE journal[p]
    BY DEF StoreTyped
<1> QED BY <1>1 DEF Ended, OutcomeOf, Terminal, Prunable, Incident

\* A step of the promise, or none.
PStep == [Promise!PromiseNext /\ UNCHANGED Lapses]_<<LiveHost, Ended, receipt, Lapses>>

LEMMA Stutters ==
    ASSUME Ledger, Ledger', UNCHANGED <<host, wrote, pruned, receipt, case>>,
           \A o \in Ops : \/ journal'[o] = journal[o]
                          \/ /\ journal[o] \notin Terminal /\ journal'[o] \notin Terminal
                             /\ journal'[o] \in InFlight <=> journal[o] \in InFlight
                          \/ journal[o] \notin Terminal /\ journal'[o] \notin Terminal /\ executed[o] = 0
    PROVE  PStep
<1>1. LiveHost' = LiveHost
    BY LiveFrozen DEF Ledger
<1>2. Ended' = Ended
    BY EndedFrozen
<1> QED BY <1>1, <1>2 DEF PStep, Lapses

\* A word of the operation's end: it is on record and perhaps told, or nothing happened.
LEMMA FinishIs ==
    ASSUME TypeOK, NEW o \in Ops, NEW state \in Terminal, Finish(o, state)
    PROVE  \/ UNCHANGED <<journal, receipt>>
           \/ journal' = [journal EXCEPT ![o] = state] /\ Promise!Heard(o, state)
BY DEF TypeOK, TablesTyped, Finish, Log, Spend, Answer, StoreReceipt, StoreManagedReceipt, Promise!Heard, HistoryTyped
-----------------------------------------------------------------------------
(* What each step is to the promise. *)

Sound == TypeOK /\ IInv /\ RInv

LEMMA Aside == ASSUME Sound, Sound', UNCHANGED <<host, wrote, pruned, receipt, case, journal>> PROVE PStep
BY Stutters DEF Sound, RInv

LEMMA PlanActionMaps == ASSUME Sound, Sound', NEW o \in Ops, PlanAction(o) PROVE PStep
BY Aside DEF PlanAction, Unplanned, store, history

LEMMA ConfirmMaps == ASSUME Sound, Sound', NEW o \in Ops, Confirm(o) PROVE PStep
BY Aside DEF Confirm, Unplanned, store, history

LEMMA PublishIntentMaps == ASSUME Sound, Sound', NEW o \in Ops, PublishIntent(o) PROVE PStep
BY Aside DEF PublishIntent, Unplanned, store, history

LEMMA AuthorizeManagedMaps == ASSUME Sound, Sound', NEW o \in Ops, AuthorizeManaged(o) PROVE PStep
BY Aside DEF AuthorizeManaged, Unplanned, store, history

LEMMA ExpireMaps == ASSUME Sound, Sound', NEW o \in Ops, Expire(o) PROVE PStep
BY Aside DEF Expire, tables, store, history

LEMMA AcceptMaps == ASSUME Sound, Sound', NEW o \in Ops, Accept(o) PROVE PStep
BY Aside DEF Accept, tables, store, history

LEMMA ClaimGrantMaps == ASSUME Sound, Sound', ClaimGrant PROVE PStep
BY Aside DEF ClaimGrant, tables, store, history

LEMMA TakeSnapshotMaps == ASSUME Sound, Sound', TakeSnapshot PROVE PStep
BY Aside DEF TakeSnapshot, tables, store, history

LEMMA ValidateMaps == ASSUME Sound, Sound', Validate PROVE PStep
BY Aside DEF Validate, tables, store, history

LEMMA RestoreEndsMaps == ASSUME Sound, Sound', RestoreEnds PROVE PStep
BY Aside DEF RestoreEnds, tables, store, history

LEMMA OpenBreakerMaps == ASSUME Sound, Sound', OpenBreaker PROVE PStep
BY Aside DEF OpenBreaker, tables, store, history

LEMMA RestartMaps == ASSUME Sound, Sound', Restart PROVE PStep
BY Aside DEF Restart, tables, store, history

LEMMA RefuseStartMaps == ASSUME Sound, Sound', RefuseStart PROVE PStep
BY Aside DEF RefuseStart, tables, store, history

LEMMA LatchMaps == ASSUME Sound, Sound', Latch PROVE PStep
BY Aside DEF Latch, tables, store, history

LEMMA RecoveredMaps == ASSUME Sound, Sound', Recovered PROVE PStep
BY Aside DEF Recovered, tables, store, history

LEMMA CrashMaps == ASSUME Sound, Sound', Crash PROVE PStep
BY Aside DEF Crash, tables, store, history

LEMMA ExecuteMaps == ASSUME Sound, Sound', Execute PROVE PStep
BY Aside DEF Execute, tables, store

LEMMA RecordOperationMaps == ASSUME Sound, Sound', RecordOperation PROVE PStep
<1>1. hp.op \in Ops /\ journal[hp.op] = "none"
    BY DEF RecordOperation, Sound, TypeOK, ProcessTyped, Working, Pcs, IInv, OnRecord
<1>2. journal'[hp.op] \in {"none", "authorized"} /\ \A p \in Ops \ {hp.op} : journal'[p] = journal[p]
    BY <1>1, LogFacts DEF Sound, TypeOK, RecordOperation
<1>3. "none" \notin Terminal /\ "authorized" \notin Terminal
    BY DEF Terminal, Prunable, Incident
<1> QED BY <1>1, <1>2, <1>3, Stutters DEF RecordOperation, tables, history, Sound, RInv, InFlight, Terminal, Prunable, Incident

LEMMA RunMaps == ASSUME Sound, Sound', Run PROVE PStep
<1>1. hp.op \in Ops /\ journal[hp.op] = "authorized"
    BY DEF Run, Sound, TypeOK, ProcessTyped, Working, Pcs, IInv, OnRecord
<1>2. journal'[hp.op] \in {"authorized", "running"} /\ \A p \in Ops \ {hp.op} : journal'[p] = journal[p]
    BY <1>1, LogFacts DEF Sound, TypeOK, Run
<1>3. executed[hp.op] = 0 
    BY <1>1 DEF Sound, IInv, OnceRecord
<1> QED BY <1>1, <1>2, <1>3, Stutters DEF Run, tables, history, Sound, RInv, InFlight, Terminal, Prunable, Incident

LEMMA LogMutatedMaps == ASSUME Sound, Sound', LogMutated PROVE PStep
<1>1. hp.op \in Ops /\ journal[hp.op] = "running"
    BY DEF LogMutated, Sound, TypeOK, ProcessTyped, Working, Pcs, IInv, OnRecord
<1>2. journal'[hp.op] \in {"running", "mutated"} /\ \A p \in Ops \ {hp.op} : journal'[p] = journal[p]
    BY <1>1, LogFacts DEF Sound, TypeOK, LogMutated
<1>3. "running" \notin Terminal /\ "mutated" \notin Terminal
    BY DEF Terminal, Prunable, Incident
<1> QED BY <1>1, <1>2, <1>3, Stutters DEF LogMutated, tables, history, Sound, RInv, InFlight, Terminal, Prunable, Incident

LEMMA LogValidatedMaps == ASSUME Sound, Sound', LogValidated PROVE PStep
<1>1. hp.op \in Ops /\ journal[hp.op] = "mutated"
    BY DEF LogValidated, Sound, TypeOK, ProcessTyped, Working, Pcs, IInv, OnRecord
<1>2. journal'[hp.op] \in {"mutated", "validated"} /\ \A p \in Ops \ {hp.op} : journal'[p] = journal[p]
    BY <1>1, LogFacts DEF Sound, TypeOK, LogValidated
<1>3. "mutated" \notin Terminal /\ "validated" \notin Terminal
    BY DEF Terminal, Prunable, Incident
<1> QED BY <1>1, <1>2, <1>3, Stutters DEF LogValidated, tables, history, Sound, RInv, InFlight, Terminal, Prunable, Incident

LEMMA EnterRollbackMaps == ASSUME Sound, Sound', EnterRollback PROVE PStep
<1>1. hp.op \in Ops /\ journal[hp.op] = "mutated"
    BY DEF EnterRollback, Sound, TypeOK, ProcessTyped, Working, Pcs, IInv, OnRecord
<1>2. journal'[hp.op] \in {"mutated", "rollback_running"} /\ \A p \in Ops \ {hp.op} : journal'[p] = journal[p]
    BY <1>1, LogFacts DEF Sound, TypeOK, EnterRollback
<1>3. "mutated" \notin Terminal /\ "rollback_running" \notin Terminal
    BY DEF Terminal, Prunable, Incident
<1> QED BY <1>1, <1>2, <1>3, Stutters DEF EnterRollback, tables, history, Sound, RInv, InFlight, Terminal, Prunable, Incident

LEMMA AnswerKnownMaps == ASSUME Sound, Sound', NEW o \in Ops, AnswerKnown(o) PROVE PStep
<1>1. UNCHANGED <<host, wrote, pruned, case, journal>>
    BY DEF AnswerKnown, store, history
<1>2. CASE UNCHANGED receipt
    BY <1>1, <1>2, Aside
<1>3. CASE receipt[o] = None /\ journal[o] \in Terminal /\ receipt' = [receipt EXCEPT ![o] = journal[o]]
    <2>1. o \notin pruned
        BY <1>3 DEF Sound, IInv, OnceRecord, Terminal, Prunable, Incident
    <2>2. Promise!Tell(o)
        <3>1. LiveHost' = LiveHost /\ Ended' = Ended
            BY <1>1, LiveFrozen, EndedFrozen DEF Sound, RInv
        <3>2. Ended[o] = IF journal[o] \in Incident THEN "doubt" ELSE journal[o]
            BY <1>3, <2>1 DEF Ended, OutcomeOf, Terminal
        <3> QED BY <1>3, <3>1, <3>2 DEF Promise!Tell, Terminal, Prunable, Incident
    <2> QED BY <1>1, <2>2 DEF PStep, Lapses, Promise!PromiseNext
<1> QED BY <1>2, <1>3 DEF AnswerKnown, Answer, StoreReceipt, StoreManagedReceipt

LEMMA AnswerConvergedMaps == ASSUME Sound, Sound', NEW o \in Ops, AnswerConverged(o) PROVE PStep
<1>1. UNCHANGED <<host, wrote, pruned, case, journal>>
    BY DEF AnswerConverged, store, history
<1>2. CASE UNCHANGED receipt
    BY <1>1, <1>2, Aside
<1>3. CASE receipt' = [receipt EXCEPT ![o] = "succeeded"]
    <2>1. journal[o] = "none" /\ o \notin pruned /\ \A t \in Targets[o] : host[t] = o
        BY DEF AnswerConverged, Admitted, Asked, Asks, AsksManaged, Granted, Converged, Pending, Sound, IInv, OnceRecord
    <2>2. \A t \in Targets[o] : LiveHost[t] = o
        <3> SUFFICES ASSUME NEW t \in Targets[o] PROVE LiveHost[t] = o
            OBVIOUS
        <3>1. t \in Things
            BY HelperAssumptions
        <3>2. \A p \in Ops : journal[p] \in InFlight => wrote[p][t] = None
            BY <2>1, <3>1 DEF Sound, RInv, Ledger, InFlight
        <3> QED BY <2>1, <3>1, <3>2, LiveIs DEF Sound, RInv
    <2>3. Ended[o] = "open" /\ LiveHost' = LiveHost /\ Ended' = Ended
        BY <1>1, <2>1, LiveFrozen, EndedFrozen DEF Sound, RInv, Ended, OutcomeOf, Prunable, Incident
    <2>4. Promise!Converge(o)
        BY <1>3, <2>2, <2>3 DEF Promise!Converge
    <2> QED BY <1>1, <2>4 DEF PStep, Lapses, Promise!PromiseNext
<1> QED BY <1>2, <1>3 DEF AnswerConverged, Answer, StoreReceipt, StoreManagedReceipt

\* No other operation in flight has written, or stands to write, what is this one's.
LEMMA OursAlone ==
    ASSUME Sound, Apart, hp.pc \in Working, NEW t \in Targets[hp.op], NEW p \in Ops, p # hp.op, journal[p] \in InFlight
    PROVE  wrote[p][t] = None
<1>1. hp.op \in Ops /\ t \in Things
    BY HelperAssumptions DEF Sound, TypeOK, ProcessTyped
<1>2. "disk" \in case.faults
    BY DEF Sound, RInv, Alone, Working
<1>3. case \in Cases /\ p \in case.ops /\ hp.op \in case.ops
    BY DEF Sound, TypeOK, HistoryTyped, RInv, Called, InFlight
<1>4. t \notin Targets[p]
    BY <1>2, <1>3 DEF Apart
<1> QED BY <1>1, <1>4 DEF Sound, RInv, Ledger

\* A write shows only when it is decided.
LEMMA WriteHides ==
    ASSUME Sound, Sound', Apart, hp.op \in Ops, hp.pc = "write", NEW t \in hp.todo, t \in Things,
           host' = [host EXCEPT ![t] = hp.op], wrote' = Written(hp.op, t),
           UNCHANGED <<pruned, receipt, case, journal>>
    PROVE  PStep
<1>1. hp.pc \in Working /\ journal[hp.op] = "running" /\ wrote[hp.op][t] = None /\ t \in Targets[hp.op]
    BY DEF Working, Pcs, Sound, IInv, OnRecord, SnapshotTaken, RInv, Standing
<1>2. \A p \in Ops : journal[p] \in InFlight => wrote[p][t] = None
    BY <1>1, OursAlone
<1>3. LiveHost[t] = host[t]
    BY <1>2, LiveIs DEF Sound, RInv
<1>4. wrote'[hp.op][t] = host[t] /\ host[t] # None
    BY Lines DEF Sound
<1>5. LiveHost'[t] = host[t]
    BY <1>1, <1>4, LiveWillBe DEF Sound, RInv, InFlight
<1>6. \A u \in Things \ {t} : LiveHost'[u] = LiveHost[u]
    <2>1. \A u \in Things \ {t} : host'[u] = host[u] /\ \A p \in Ops : wrote'[p][u] = wrote[p][u]
        BY Lines DEF Sound, TypeOK, HostTyped, Hosts
    <2> QED BY <2>1, LiveSame DEF Sound, RInv
<1>7. LiveHost' = LiveHost
    BY <1>3, <1>5, <1>6 DEF LiveHost
<1>8. Ended' = Ended
    BY EndedFrozen
<1> QED BY <1>7, <1>8 DEF PStep, Lapses

LEMMA WriteMaps == ASSUME Sound, Sound', Apart, NEW t \in Things, Write(t) PROVE PStep
<1>1. hp.op \in Ops
    BY DEF Write, Sound, TypeOK, ProcessTyped, Working, Pcs
<1> QED BY <1>1, WriteHides DEF Write, tables, store

LEMMA WriteFailsMaps == ASSUME Sound, Sound', Apart, NEW t \in Things, WriteFails(t) PROVE PStep
<1>1. hp.op \in Ops
    BY DEF WriteFails, Sound, TypeOK, ProcessTyped, Working, Pcs
<1>2. CASE UNCHANGED <<host, wrote>>
    BY <1>2, Aside DEF WriteFails, tables, store
<1>3. CASE host' = [host EXCEPT ![t] = hp.op] /\ wrote' = Written(hp.op, t)
    BY <1>1, <1>3, WriteHides DEF WriteFails, tables, store
<1> QED BY <1>2, <1>3 DEF WriteFails

LEMMA OperatorEditsMaps == ASSUME Sound, Sound', NEW t \in Things, OperatorEdits(t) PROVE PStep
<1>1. \A u \in Things : host'[u] = IF u = t THEN Edited ELSE host[u]
    BY DEF OperatorEdits, Sound, TypeOK, HostTyped, Hosts
<1>2. \A p \in Ops, u \in Things : wrote'[p][u] = IF u = t THEN None ELSE wrote[p][u]
    BY Lines DEF OperatorEdits, Sound
<1>3. UNCHANGED <<pruned, receipt, case, journal>>
    BY DEF OperatorEdits, tables, store
<1>4. LiveHost'[t] = Edited
    BY <1>1, <1>2, LiveWillBe DEF Sound, RInv
<1>5. \A u \in Things \ {t} : LiveHost'[u] = LiveHost[u]
    BY <1>1, <1>2, <1>3, LiveSame DEF Sound, RInv
<1>6. LiveHost' = [LiveHost EXCEPT ![t] = Edited]
    BY <1>4, <1>5, LiveTable
<1>7. Ended' = Ended
    BY <1>3, EndedFrozen
<1>8. Promise!OperatorEdits
    BY <1>3, <1>6, <1>7 DEF Promise!OperatorEdits
<1> QED BY <1>3, <1>8 DEF PStep, Lapses, Promise!PromiseNext

LEMMA RestoreMaps == ASSUME Sound, Sound', Apart, NEW t \in Things, Restore(t) PROVE PStep
<1>1. hp.op \in Ops /\ hp.pc = "restore" /\ hp.pc \in Working /\ t \in hp.todo
    BY DEF Restore, Sound, TypeOK, ProcessTyped, Working, Pcs
<1>2. t \in Targets[hp.op] /\ journal[hp.op] = "rollback_running"
    BY <1>1 DEF Sound, IInv, OnRecord, SnapshotTaken
<1>3. \A u \in Things : host'[u] = IF u = t THEN snaps[hp.op][t] ELSE host[u]
    BY DEF Restore, Sound, TypeOK, HostTyped, Hosts
<1>4. \A p \in Ops, u \in Things : wrote'[p][u] = IF u = t THEN None ELSE wrote[p][u]
    BY Lines DEF Restore, Sound
<1>5. UNCHANGED <<pruned, receipt, case, journal>>
    BY DEF Restore, tables, store
<1>6. LiveHost'[t] = snaps[hp.op][t]
    BY <1>3, <1>4, LiveWillBe DEF Sound, RInv
<1>7. \A u \in Things \ {t} : LiveHost'[u] = LiveHost[u]
    BY <1>3, <1>4, <1>5, LiveSame DEF Sound, RInv
<1>8. LiveHost[t] \in {snaps[hp.op][t], Edited}
    <2>1. CASE wrote[hp.op][t] # None
        BY <1>1, <1>2, <2>1, LiveIs DEF Sound, RInv, Saves, Saved, InFlight
    <2>2. CASE wrote[hp.op][t] = None
        <3>1. \A p \in Ops : journal[p] \in InFlight => wrote[p][t] = None
            BY <1>1, <1>2, <2>2, OursAlone
        <3> QED BY <1>1, <1>2, <2>2, <3>1, LiveIs DEF Sound, RInv, Saves, Saved
    <2> QED BY <2>1, <2>2
<1>9. Ended' = Ended /\ Ended[hp.op] = "open"
    <2>1. hp.op \notin pruned
        BY <1>2 DEF Sound, IInv, OnceRecord
    <2> QED BY <1>1, <1>2, <1>5, <2>1, EndedFrozen DEF Ended, OutcomeOf, Prunable, Incident
<1>10. CASE LiveHost[t] = snaps[hp.op][t]
    <2>1. LiveHost' = LiveHost
        BY <1>6, <1>7, <1>10 DEF LiveHost
    <2> QED BY <1>5, <1>9, <2>1 DEF PStep, Lapses
<1>11. CASE LiveHost[t] = Edited /\ snaps[hp.op][t] # Edited
    <2>1. LiveHost' = [LiveHost EXCEPT ![t] = snaps[hp.op][t]]
        BY <1>6, <1>7 DEF LiveHost
    <2>2. snaps[hp.op][t] \in Ops \cup {Before}
        BY <1>1, <1>2, <1>11 DEF Sound, TypeOK, StoreTyped, Imaged, IInv, SnapshotTaken, Saved, Contents
    <2>3. Promise!LoseEdit(hp.op)
        BY <1>2, <1>5, <1>9, <1>11, <2>1, <2>2 DEF Promise!LoseEdit
    <2> QED BY <1>1, <1>5, <2>3 DEF PStep, Lapses, Promise!PromiseNext
<1> QED BY <1>8, <1>10, <1>11

\* What an operation that ends leaves of its targets: what is on the host.
LEMMA EndShows ==
    ASSUME Sound, Sound', NEW o \in Ops, NEW state \in Terminal, journal[o] \notin Terminal,
           journal' = [journal EXCEPT ![o] = state], UNCHANGED <<host, wrote>>
    PROVE  /\ \A t \in Things : wrote[o][t] = None => LiveHost'[t] = LiveHost[t]
           /\ \A t \in Things : wrote[o][t] # None => LiveHost'[t] = o /\ t \in Targets[o]
           /\ \A t \in Things \ Targets[o] : LiveHost'[t] = LiveHost[t]
<1>1. \A p \in Ops : journal'[p] = IF p = o THEN state ELSE journal[p]
    BY DEF Sound, TypeOK, StoreTyped
<1>2. state \notin InFlight
    BY DEF Terminal, Prunable, Incident, InFlight
<1>3. \A t \in Things : wrote[o][t] = None => LiveHost'[t] = LiveHost[t]
    BY <1>1, LiveSame DEF Sound, RInv
<1>4. \A t \in Things : wrote[o][t] # None => LiveHost'[t] = host[t]
    BY <1>1, <1>2, LiveWillBe DEF Sound, RInv, Ledger
<1> QED BY <1>3, <1>4 DEF Sound, RInv, Ledger

\* Nothing comes to an end well while an incident is on record.
LEMMA NotLatched ==
    ASSUME Sound, hp.pc \in Working \ {"failed"}
    PROVE  Promise!Latched => "relatch" \in Lapses
<1>1. Promise!Latched => \E p \in Ops : journal[p] \in Incident
    BY DEF Promise!Latched, Ended, OutcomeOf, Prunable
<1> QED BY <1>1 DEF Lapses, Sound, IInv, LatchRecord, RInv, Latching, Working

LEMMA Commits ==
    ASSUME Sound, Sound', hp.op \in Ops, hp.pc \in {"judge", "validated"}, hp.ok,
           journal' = [journal EXCEPT ![hp.op] = "succeeded"], Promise!Heard(hp.op, "succeeded"),
           UNCHANGED <<host, wrote, pruned, case>>
    PROVE  PStep
<1> DEFINE o == hp.op
<1>1. journal[o] \notin Terminal /\ o \notin pruned /\ "succeeded" \in Terminal \ Incident
    BY DEF Sound, IInv, OnRecord, OnceRecord, Terminal, Prunable, Incident
<1>2. Ended[o] = "open" /\ Ended' = [Ended EXCEPT ![o] = "succeeded"]
    BY <1>1, EndedOne DEF Sound, TypeOK
<1>3. Promise!Latched => "relatch" \in Lapses
    BY NotLatched DEF Working, Pcs
<1>4. \A t \in Targets[o] : LiveHost'[t] = o \/ (LiveHost[t] = Edited /\ LiveHost'[t] = Edited)
    <2> SUFFICES ASSUME NEW t \in Targets[o] PROVE LiveHost'[t] = o \/ (LiveHost[t] = Edited /\ LiveHost'[t] = Edited)
        OBVIOUS
    <2>1. t \in Things /\ host[t] \in {o, Edited}
        BY HelperAssumptions DEF Sound, RInv, Standing
    <2>2. CASE wrote[o][t] # None
        BY <1>1, <2>1, <2>2, EndShows
    <2>3. CASE wrote[o][t] = None
        <3>1. ASSUME NEW p \in Ops PROVE wrote[p][t] = None
            <4>1. Edited \notin Ops
                BY HelperAssumptions
            <4>2. wrote[p][t] # None => host[t] = p
                BY <2>1 DEF Sound, RInv, Ledger
            <4> QED BY <2>1, <2>3, <4>1, <4>2
        <3>2. LiveHost'[t] = LiveHost[t]
            BY <1>1, <2>1, <2>3, EndShows
        <3>3. Ledger
            BY DEF Sound, RInv
        <3>4. LiveHost[t] = host[t]
            BY <2>1, <3>1, <3>3, LiveIs
        <3> QED BY <2>1, <3>2, <3>4
    <2> QED BY <2>2, <2>3
<1>5. \A t \in Things \ Targets[o] : LiveHost'[t] = LiveHost[t]
    BY <1>1, EndShows
<1>6. Promise!Commit(o)
    BY <1>2, <1>3, <1>4, <1>5 DEF Promise!Commit, Promise!Ends
<1> QED BY <1>6 DEF PStep, Lapses, Promise!PromiseNext

LEMMA Abandons ==
    ASSUME Sound, Sound', NEW o \in Ops, NEW state \in {"failed_before_mutation", "rolled_back"},
           journal[o] \notin Terminal, o \notin pruned,
           "sync" \in case.faults \/ \A t \in Things : wrote[o][t] = None,
           journal' = [journal EXCEPT ![o] = state], Promise!Heard(o, state),
           UNCHANGED <<host, wrote, pruned, case>>
    PROVE  PStep
<1>1. state \in Terminal \ Incident
    BY DEF Terminal, Prunable, Incident
<1>2. Ended[o] = "open" /\ Ended' = [Ended EXCEPT ![o] = state]
    BY <1>1, EndedOne DEF Sound, TypeOK
<1>3. \A t \in Things : LiveHost'[t] # LiveHost[t] => t \in Targets[o] /\ LiveHost'[t] = o /\ "sync" \in Lapses
    <2> SUFFICES ASSUME NEW t \in Things, LiveHost'[t] # LiveHost[t]
                 PROVE  t \in Targets[o] /\ LiveHost'[t] = o /\ "sync" \in Lapses
        OBVIOUS
    <2>1. wrote[o][t] # None
        BY <1>1, EndShows
    <2>2. LiveHost'[t] = o /\ t \in Targets[o]
        BY <1>1, <2>1, EndShows
    <2>3. "sync" \in Lapses
        BY <2>1 DEF Lapses
    <2> QED BY <2>2, <2>3
<1>4. Promise!Abandon(o)
    BY <1>2, <1>3 DEF Promise!Abandon, Promise!Ends
<1> QED BY <1>4 DEF PStep, Lapses, Promise!PromiseNext

LEMMA Doubts ==
    ASSUME Sound, Sound', NEW o \in Ops, NEW state \in Incident, journal[o] \in InFlight,
           journal' = [journal EXCEPT ![o] = state], Promise!Heard(o, "rollback_failed"),
           UNCHANGED <<host, wrote, pruned, case>>
    PROVE  PStep
<1>1. state \in Terminal /\ journal[o] \notin Terminal /\ o \notin pruned
    BY DEF Terminal, Prunable, Incident, InFlight, Sound, IInv, OnceRecord
<1>2. Ended[o] = "open" /\ Ended' = [Ended EXCEPT ![o] = "doubt"]
    BY <1>1, EndedOne DEF Sound, TypeOK
<1>3. \A t \in Things \ Targets[o] : LiveHost'[t] = LiveHost[t]
    BY <1>1, EndShows
<1>4. Promise!Doubt(o)
    BY <1>2, <1>3 DEF Promise!Doubt, Promise!Ends
<1> QED BY <1>4 DEF PStep, Lapses, Promise!PromiseNext

LEMMA RefuseSnapshotMaps == ASSUME Sound, Sound', RefuseSnapshot PROVE PStep
<1>1. hp.op \in Ops /\ hp.pc = "prepare" /\ journal[hp.op] = "authorized"
    BY DEF RefuseSnapshot, Sound, TypeOK, ProcessTyped, Working, Pcs, IInv, OnRecord
<1>2. UNCHANGED <<host, wrote, pruned, case>>
    BY DEF RefuseSnapshot, history
<1>3. CASE UNCHANGED <<journal, receipt>>
    BY <1>2, <1>3, Aside
<1>4. journal[hp.op] \notin Terminal /\ hp.op \notin pruned
    BY <1>1 DEF Terminal, Prunable, Incident, Sound, IInv, OnceRecord
<1>5. \A t \in Things : wrote[hp.op][t] = None
    BY <1>1 DEF Sound, IInv, OnceRecord, RInv, Ledger
<1>6. CASE journal' = [journal EXCEPT ![hp.op] = "failed_before_mutation"] /\ Promise!Heard(hp.op, "failed_before_mutation")
    BY <1>1, <1>2, <1>4, <1>5, <1>6, Abandons
<1> QED BY <1>1, <1>3, <1>6, FinishIs DEF RefuseSnapshot, Sound, Terminal, Prunable

LEMMA NothingWrittenMaps == ASSUME Sound, Sound', NothingWritten PROVE PStep
<1>1. hp.op \in Ops /\ hp.pc = "judge" /\ journal[hp.op] = "running"
    BY DEF NothingWritten, Sound, TypeOK, ProcessTyped, Working, Pcs, IInv, OnRecord
<1>2. UNCHANGED <<host, wrote, pruned, case>>
    BY DEF NothingWritten, history
<1>3. CASE UNCHANGED <<journal, receipt>>
    BY <1>2, <1>3, Aside
<1>4. journal[hp.op] \notin Terminal /\ hp.op \notin pruned
    BY <1>1 DEF Terminal, Prunable, Incident, Sound, IInv, OnceRecord
<1>5. CASE hp.ok
    <2>1. CASE journal' = [journal EXCEPT ![hp.op] = "succeeded"] /\ Promise!Heard(hp.op, "succeeded")
        BY <1>1, <1>2, <1>5, <2>1, Commits
    <2> QED BY <1>1, <1>3, <1>5, <2>1, FinishIs DEF NothingWritten, Sound, Terminal, Prunable
<1>6. CASE ~hp.ok
    <2>1. "sync" \in case.faults \/ \A t \in Things : wrote[hp.op][t] = None
        BY <1>1 DEF NothingWritten, Sound, RInv, Unmutated
    <2>2. CASE journal' = [journal EXCEPT ![hp.op] = "failed_before_mutation"] /\ Promise!Heard(hp.op, "failed_before_mutation")
        BY <1>1, <1>2, <1>4, <2>1, <2>2, Abandons
    <2> QED BY <1>1, <1>3, <1>6, <2>2, FinishIs DEF NothingWritten, Sound, Terminal, Prunable
<1> QED BY <1>5, <1>6

LEMMA SucceedMaps == ASSUME Sound, Sound', Succeed PROVE PStep
<1>1. hp.op \in Ops /\ hp.pc = "validated" /\ journal[hp.op] = "validated"
    BY DEF Succeed, Sound, TypeOK, ProcessTyped, Working, Pcs, IInv, OnRecord
<1>2. UNCHANGED <<host, wrote, pruned, case>>
    BY DEF Succeed, history
<1>3. CASE UNCHANGED <<journal, receipt>>
    BY <1>2, <1>3, Aside
<1>4. journal[hp.op] \notin Terminal /\ hp.op \notin pruned
    BY <1>1 DEF Terminal, Prunable, Incident, Sound, IInv, OnceRecord
<1>5. hp.ok
    BY <1>1 DEF Sound, RInv, Knows
<1>6. CASE journal' = [journal EXCEPT ![hp.op] = "succeeded"] /\ Promise!Heard(hp.op, "succeeded")
    BY <1>1, <1>2, <1>5, <1>6, Commits
<1> QED BY <1>1, <1>3, <1>6, FinishIs DEF Succeed, Sound, Terminal, Prunable

LEMMA RolledBackMaps == ASSUME Sound, Sound', RolledBack PROVE PStep
<1>1. hp.op \in Ops /\ hp.pc = "settle" /\ journal[hp.op] = "rollback_running"
    BY DEF RolledBack, Sound, TypeOK, ProcessTyped, Working, Pcs, IInv, OnRecord
<1>2. UNCHANGED <<host, wrote, pruned, case>>
    BY DEF RolledBack, history
<1>3. CASE UNCHANGED <<journal, receipt>>
    BY <1>2, <1>3, Aside
<1>4. journal[hp.op] \notin Terminal /\ hp.op \notin pruned
    BY <1>1 DEF Terminal, Prunable, Incident, Sound, IInv, OnceRecord
<1>5. \A t \in Things : wrote[hp.op][t] = None
    BY <1>1 DEF RolledBack, Sound, RInv, Restored, Ledger
<1>6. CASE journal' = [journal EXCEPT ![hp.op] = "rolled_back"] /\ Promise!Heard(hp.op, "rolled_back")
    BY <1>1, <1>2, <1>4, <1>5, <1>6, Abandons
<1> QED BY <1>1, <1>3, <1>6, FinishIs DEF RolledBack, Sound, Terminal, Prunable

LEMMA RollbackFailedMaps == ASSUME Sound, Sound', RollbackFailed PROVE PStep
<1>1. hp.op \in Ops /\ hp.pc = "failed" /\ journal[hp.op] = "rollback_running"
    BY DEF RollbackFailed, Sound, TypeOK, ProcessTyped, Working, Pcs, IInv, OnRecord
<1>2. UNCHANGED <<host, wrote, pruned, case>>
    BY DEF RollbackFailed, history
<1>3. CASE UNCHANGED <<journal, receipt>>
    BY <1>2, <1>3, Aside
<1>4. journal[hp.op] \notin Terminal /\ hp.op \notin pruned
    BY <1>1 DEF Terminal, Prunable, Incident, Sound, IInv, OnceRecord
<1>5. journal[hp.op] \in InFlight /\ "rollback_failed" \in Incident
    BY <1>1 DEF InFlight, Incident
<1>6. CASE journal' = [journal EXCEPT ![hp.op] = "rollback_failed"] /\ Promise!Heard(hp.op, "rollback_failed")
    BY <1>1, <1>2, <1>5, <1>6, Doubts
<1> QED BY <1>1, <1>3, <1>6, FinishIs DEF RollbackFailed, Sound, Terminal, Incident

LEMMA MarkIndeterminateMaps == ASSUME Sound, Sound', NEW o \in Ops, MarkIndeterminate(o) PROVE PStep
<1>1. journal[o] \in InFlight /\ "outcome_indeterminate" \in Incident
    BY DEF MarkIndeterminate, Incident
<1>2. UNCHANGED <<host, wrote, pruned, case, receipt>>
    BY DEF MarkIndeterminate, tables, history
<1>3. CASE UNCHANGED journal
    BY <1>2, <1>3, Aside
<1>4. CASE journal' = [journal EXCEPT ![o] = "outcome_indeterminate"]
    BY <1>1, <1>2, <1>4, Doubts DEF Promise!Heard
<1> QED BY <1>3, <1>4 DEF MarkIndeterminate

LEMMA PruneMaps == ASSUME Sound, Sound', NEW o \in Ops, Prune(o) PROVE PStep
<1>1. journal[o] \in Prunable /\ UNCHANGED <<host, wrote, receipt, case>>
    BY DEF Prune, tables
<1>2. CASE UNCHANGED <<journal, pruned>>
    BY <1>1, <1>2, Aside
<1>3. CASE journal' = [journal EXCEPT ![o] = "none"] /\ pruned' = pruned \cup {o}
    <2>1. \A p \in Ops : journal'[p] = IF p = o THEN "none" ELSE journal[p]
        BY <1>3 DEF Sound, TypeOK, StoreTyped
    <2>2. LiveHost' = LiveHost
        BY <1>1, <2>1, LiveFrozen DEF Sound, RInv, InFlight, Prunable
    <2>3. Ended[o] = journal[o]
        BY <1>1 DEF Sound, IInv, OnceRecord, Ended, OutcomeOf, Prunable, Incident
    <2>4. Ended' = [Ended EXCEPT ![o] = "forgotten"]
        BY <1>3, <2>1 DEF Ended, OutcomeOf
    <2>5. Promise!Forget(o)
        BY <1>1, <2>2, <2>3, <2>4 DEF Promise!Forget, Prunable
    <2> QED BY <1>1, <2>5 DEF PStep, Lapses, Promise!PromiseNext
<1> QED BY <1>2, <1>3 DEF Prune

LEMMA HandlesMap == ASSUME Sound, Sound', Apart, Handles PROVE PStep
<1>1. CASE \E t \in Things : Write(t) \/ WriteFails(t) \/ Restore(t)
    BY <1>1, WriteMaps, WriteFailsMaps, RestoreMaps
<1>2. CASE ~\E t \in Things : Write(t) \/ WriteFails(t) \/ Restore(t)
    BY <1>2, ClaimGrantMaps, RecordOperationMaps, TakeSnapshotMaps, RefuseSnapshotMaps, RunMaps,
       ExecuteMaps, ValidateMaps, NothingWrittenMaps, LogMutatedMaps, LogValidatedMaps,
       SucceedMaps, EnterRollbackMaps, RestoreEndsMaps, RolledBackMaps, OpenBreakerMaps,
       RollbackFailedMaps
       DEF Handles
<1> QED BY <1>1, <1>2

LEMMA StepMaps == ASSUME Sound, Sound', Apart, [HelperNext]_vars PROVE PStep
<1>1. CASE \E o \in Ops : \/ PlanAction(o) \/ Confirm(o) \/ PublishIntent(o) \/ AuthorizeManaged(o) \/ Expire(o)
                       \/ AnswerKnown(o) \/ AnswerConverged(o) \/ Accept(o) \/ Prune(o)
    BY <1>1, PlanActionMaps, ConfirmMaps, PublishIntentMaps, AuthorizeManagedMaps, ExpireMaps,
       AnswerKnownMaps, AnswerConvergedMaps, AcceptMaps, PruneMaps
<1>2. CASE Handles
    BY <1>2, HandlesMap
<1>3. CASE Recovers
    BY <1>3, RestartMaps, RefuseStartMaps, LatchMaps, RecoveredMaps, MarkIndeterminateMaps DEF Recovers
<1>4. CASE Crash \/ \E t \in Things : OperatorEdits(t)
    BY <1>4, CrashMaps, OperatorEditsMaps
<1>5. CASE UNCHANGED vars
    BY <1>5, Aside DEF vars
<1> QED BY <1>1, <1>2, <1>3, <1>4, <1>5 DEF HelperNext

LEMMA InitMaps == HelperInit => Promise!PromiseInit
<1> SUFFICES ASSUME HelperInit PROVE Promise!PromiseInit
    OBVIOUS
<1>1. LiveHost = host
    <2>1. \A t \in Things : LiveHost[t] = host[t]
        BY InitRuns, LiveIs DEF HelperInit, RInv, InFlight
    <2>2. DOMAIN host = Things
        BY InitHolds DEF TypeOK, HostTyped, Hosts
    <2> QED BY <2>1, <2>2, InitHolds DEF LiveHost, TypeOK, HostTyped, Hosts
<1>2. host \in [Things -> Ops \cup {Before}]
    BY HelperAssumptions DEF HelperInit, AsAppliedBy
<1>3. Ended = [o \in Ops |-> "open"]
    BY DEF HelperInit, Ended, OutcomeOf, Incident, Prunable
<1>4. receipt = [o \in Ops |-> None] /\ Lapses \subseteq {"relatch", "sync"}
    BY DEF HelperInit, Lapses
<1> QED BY <1>1, <1>2, <1>3, <1>4 DEF Promise!PromiseInit

(* Every step of the helper, its crashes, retries and failed writes included, is a step of      *)
(* what it promises or none (Engine.Execute, Journal.Recover): an operation takes effect whole     *)
(* or not at all, or is in doubt, and then nothing takes effect any more.                            *)
THEOREM PromiseKept == ASSUME Apart PROVE HelperSpec => KeepsPromise
<1>1. HelperInit => Promise!PromiseInit
    BY InitMaps
<1>2. Sound /\ Sound' /\ [HelperNext]_vars => PStep
    BY StepMaps
<1>3. HelperSpec => []Sound
    BY RefinementInvariance DEF Sound
<1> QED BY <1>1, <1>2, <1>3, PTL DEF HelperSpec, KeepsPromise, Promise!PromiseSpec, Promise!pvars, PStep
=============================================================================
