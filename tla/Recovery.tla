------------------------------ MODULE Recovery ------------------------------
(***************************************************************************)
(* The agent's repairs: the coordinator (recovery/coordinator.go) takes a   *)
(* snapshot of the files, mutates them, validates and reloads the proxy,    *)
(* and restores the snapshot when something fails.  Every step is first     *)
(* written to the operation's manifest (recovery/snapshot.go), from which a *)
(* restarted agent resumes a validation or a rollback, never a mutation.    *)
(*                                                                          *)
(* Validation, reload, execution and restoring may fail at any time.        *)
(* One of the FaultSets can happen too: "crash"; "disk", a manifest that     *)
(* cannot be written, or is, with an error; "retention", seven days pass     *)
(* and a finished operation's manifest is pruned.                            *)
(***************************************************************************)
EXTENDS Naturals, FiniteSets

CONSTANTS
    Resources,
    Ops, NoOp,
    UserOps,        \* those a user requests, any number of times
    ResourceOf,     \* ResourceOf[o]: the resource o repairs
    FaultSets,      \* what may go wrong: in each behaviour the faults of one of these sets
    MaxFaults,      \* bound: crashes and failed writes
    MaxWrites       \* bound: changes to the files from outside

ASSUME RecoveryAssumptions ==
    /\ NoOp \notin Ops /\ UserOps \subseteq Ops
    /\ ResourceOf \in [Ops -> Resources]
    /\ FaultSets \subseteq SUBSET {"crash", "disk", "retention"}
    /\ MaxFaults \in Nat /\ MaxWrites \in Nat

VARIABLES
    files,     \* files[r]: what is in the files of r
    writes,    \* how often files were written
    disk,      \* disk[o]: the manifest, its state and what it captured
    running,   \* the agent runs
    resuming,  \* the operations a starting agent has still to resume
    found,     \* c.candidates: the content a repair was proposed for
    memory,    \* c.operations: the outcomes known
    cur,       \* the operation the coordinator is at
    latched,   \* the breaker's latch of a failed rollback, in its own file
    executed,  \* executed[o]: how often o mutated files
    damaged,   \* the resources a rollback failed on and that nothing restored since
    left       \* what may go wrong, and what is left of the bounds

agentVars == <<running, resuming, found, memory, cur>>
fileVars == <<files, writes>>
vars == <<fileVars, disk, agentVars, latched, executed, damaged, left>>

Kinds == {"good", "faulty", "part"}
\* Files that need no repair, that do, or that someone left half written.
Content(kind, by) == [n |-> writes + 1, kind |-> kind, by |-> by]
Initial == [n |-> 0, kind |-> "faulty", by |-> NoOp]
None == [n |-> 0, kind |-> "none", by |-> NoOp]

Terminal == {"succeeded", "rolled_back", "rollback_failed"}
\* Mutants: a restarted agent does not look at failed rollbacks, or at validations.
MutActiveFailed == {"snapshotted", "applying", "validating", "rolling_back"}
MutActiveValidating == {"snapshotted", "applying", "rolling_back", "rollback_failed"}

\* activeSnapshotState
Active == {"snapshotted", "applying", "validating", "rolling_back", "rollback_failed"}
NoManifest == [state |-> "none", captured |-> None]
Idle == [op |-> NoOp, at |-> "idle", from |-> "none", ended |-> "none", resumed |-> FALSE]

Init ==
    /\ files = [r \in Resources |-> Initial]
    /\ writes = 0
    /\ disk = [o \in Ops |-> NoManifest]
    /\ running = TRUE /\ resuming = {}
    /\ found = [r \in Resources |-> None]
    /\ memory = [o \in Ops |-> "none"]
    /\ cur = Idle
    /\ latched = {}
    /\ executed = [o \in Ops |-> 0]
    /\ damaged = {}
    /\ \E may \in FaultSets : left = [may |-> may, faults |-> MaxFaults, writes |-> MaxWrites]

\* What may go wrong in this behaviour.
Faults == left.may

\* Mutant: the agent works before it has resumed what a crash interrupted.
MutFree == running /\ cur = Idle

Free == running /\ resuming = {} /\ cur = Idle
Here == ResourceOf[cur.op]
At(step) == running /\ cur.at = step
Goto(step) == cur' = [cur EXCEPT !.at = step]
Fault(f) == f \in Faults /\ left.faults > 0 /\ left' = [left EXCEPT !.faults = @ - 1]
-----------------------------------------------------------------------------
(* The manifests. *)

\* ValidTransition
Successors == [snapshotted |-> {"applying", "rolling_back"},
               applying |-> {"validating", "rolling_back"},
               validating |-> {"succeeded", "rolling_back"},
               rolling_back |-> {"rolled_back", "rollback_failed"}]

\* Mutant: a snapshot may replace that of a finished operation.
MutFresh(o) == disk[o].state \in {"none", "pruned"} \cup Terminal

\* Mkdirat makes the directory of an operation there is none of.
Fresh(o) == disk[o].state \in {"none", "pruned"}

Put(o, state) == disk' = [disk EXCEPT ![o].state = state]

\* TransitionReport: the manifest is in the state expected and the next one is written.
Persisted(o, from, to) == disk[o].state = from /\ to \in Successors[from] /\ Put(o, to) /\ UNCHANGED left
\* It is in another state, or it cannot be written, or its directory not synced after.
NotPersisted(o, from, to) ==
    \/ disk[o].state # from /\ UNCHANGED <<disk, left>>
    \/ disk[o].state = from /\ Fault("disk") /\ (UNCHANGED disk \/ Put(o, to))

\* Prune, seven days or twenty operations later, takes the finished and the incomplete.
Prunable(d) == {o \in Ops : d[o].state \in {"succeeded", "rolled_back", "incomplete"}}
Pruned(d) == IF "retention" \in Faults
             THEN {[o \in Ops |-> IF o \in gone THEN [d[o] EXCEPT !.state = "pruned"] ELSE d[o]] :
                     gone \in SUBSET Prunable(d)}
             ELSE {d}
-----------------------------------------------------------------------------
(* Outside the coordinator, in the goroutine that also calls it. *)

\* A routine apply makes files good, or something new is wrong with them.
Write(r) ==
    /\ Free
    /\ left.writes > 0 /\ left' = [left EXCEPT !.writes = @ - 1]
    /\ \E kind \in {"good", "faulty"} : files' = [files EXCEPT ![r] = Content(kind, NoOp)]
    /\ writes' = writes + 1
    /\ UNCHANGED <<disk, agentVars, latched, executed, damaged>>

\* inspectLocked; what a failed rollback left is not dropped.
Inspect ==
    /\ Free
    /\ found' = [r \in Resources |->
          IF files[r].kind # "good" THEN files[r]
          ELSE IF \E o \in Ops : memory[o] = "rollback_failed" /\ ResourceOf[o] = r THEN found[r]
          ELSE None]
    /\ UNCHANGED <<fileVars, disk, running, resuming, memory, cur, latched, executed, damaged, left>>
-----------------------------------------------------------------------------
(* A repair: repairLocked. *)

Start(o) ==
    /\ Free
    /\ memory[o] = "none"
    /\ found[ResourceOf[o]] # None
    /\ UNCHANGED <<fileVars, disk, running, resuming, found, latched, executed, damaged, left>>

\* AutoRepair: the operation is a new one.
Automatic(o) ==
    /\ o \notin UserOps /\ disk[o].state = "none"
    /\ Start(o)
    /\ IF ResourceOf[o] \in latched
       THEN memory' = [memory EXCEPT ![o] = "suppressed"] /\ UNCHANGED cur
       ELSE cur' = [Idle EXCEPT !.op = o, !.at = "snapshot"] /\ UNCHANGED memory

\* HandleRequest; an outcome that is known is answered.  A user may pass the latch.
Request(o) ==
    /\ o \in UserOps
    /\ Start(o)
    /\ cur' = [Idle EXCEPT !.op = o, !.at = "snapshot"]
    /\ UNCHANGED memory

\* CreateOperationForDiagnostic; the manifest is new.
TakeSnapshot ==
    LET o == cur.op IN
    /\ At("snapshot")
    /\ \/ /\ Fresh(o)
          /\ disk' = [disk EXCEPT ![o] = [state |-> "snapshotted", captured |-> files[Here]]]
          /\ Goto("applying") /\ UNCHANGED <<memory, left>>
       \/ /\ \/ ~Fresh(o) /\ UNCHANGED left
             \/ Fault("disk")
          /\ memory' = [memory EXCEPT ![o] = "diagnosis_only"]
          /\ cur' = Idle /\ UNCHANGED disk
    /\ UNCHANGED <<fileVars, running, resuming, found, latched, executed, damaged>>

\* rollbackLocked takes over, expecting the manifest in state from.
RollBack(from) == cur' = [cur EXCEPT !.at = "rolling_back", !.from = from]

\* The manifest says what comes before it is done.
Enter(from, to, step) ==
    /\ At(to)
    /\ \/ Persisted(cur.op, from, to) /\ Goto(step)
       \/ NotPersisted(cur.op, from, to) /\ RollBack(from)
    /\ UNCHANGED <<fileVars, running, resuming, found, memory, latched, executed, damaged>>
Apply == Enter("snapshotted", "applying", "execute")
Revalidate == Enter("applying", "validating", "validate")

Mutated(kind) ==
    /\ files' = [files EXCEPT ![Here] = Content(kind, cur.op)]
    /\ writes' = writes + 1
    /\ executed' = [executed EXCEPT ![cur.op] = @ + 1]

\* ExecuteRecovery, which refuses files that are not those inspected.
Execute ==
    /\ At("execute")
    /\ \/ files[Here] = found[Here] /\ Mutated("good") /\ Goto("validating")
       \/ files[Here] = found[Here] /\ Mutated("part") /\ RollBack("applying")
       \/ UNCHANGED <<fileVars, executed>> /\ RollBack("applying")
    /\ UNCHANGED <<disk, running, resuming, found, memory, latched, damaged, left>>

\* Validate and ReloadRecovery.
Validate ==
    /\ At("validate")
    /\ \/ Goto("succeeded")
       \/ RollBack("validating")
    /\ UNCHANGED <<fileVars, disk, running, resuming, found, memory, latched, executed, damaged, left>>

\* The outcome; unless it is written, nothing of it is kept.
Succeed ==
    LET o == cur.op IN
    /\ At("succeeded")
    /\ cur' = Idle
    /\ \/ /\ disk[o].state = "validating"
          /\ disk' \in Pruned([disk EXCEPT ![o].state = "succeeded"])
          /\ memory' = [memory EXCEPT ![o] = "succeeded"]
          /\ found' = IF cur.resumed THEN found ELSE [found EXCEPT ![Here] = None]
          /\ latched' = IF o \in UserOps /\ ~cur.resumed THEN latched \ {Here} ELSE latched
          /\ damaged' = IF o \in UserOps THEN damaged \ {Here} ELSE damaged
          /\ UNCHANGED left
       \/ NotPersisted(o, "validating", "succeeded") /\ UNCHANGED <<memory, found, latched, damaged>>
    /\ UNCHANGED <<fileVars, running, resuming, executed>>
-----------------------------------------------------------------------------
(* Rolling back: rollbackLocked, and the end of Recover. *)

EndAs(outcome) == cur' = [cur EXCEPT !.at = "conclude", !.ended = outcome]
\* Mutant: an error of the rollback is dropped.
MutFailed == EndAs("rolled_back") /\ UNCHANGED damaged

Failed == EndAs("rollback_failed") /\ damaged' = damaged \cup {Here}

\* Recover gives up if this cannot be written, rollbackLocked counts it as a failed
\* rollback.
EnterRollback ==
    /\ At("rolling_back")
    /\ \/ Persisted(cur.op, cur.from, "rolling_back") /\ Goto("restore") /\ UNCHANGED damaged
       \/ /\ NotPersisted(cur.op, cur.from, "rolling_back")
          /\ IF cur.resumed THEN cur' = Idle /\ UNCHANGED damaged ELSE Failed
    /\ UNCHANGED <<fileVars, running, resuming, found, memory, latched, executed>>

Restored(content) == files' = [files EXCEPT ![Here] = content]

\* SnapshotStore.Rollback
Restore ==
    /\ At("restore")
    /\ \/ /\ disk[cur.op].state = "rolling_back"
          /\ Restored(disk[cur.op].captured)
          /\ Goto("check") /\ UNCHANGED <<writes, damaged>>
       \/ Restored(Content("part", cur.op)) /\ writes' = writes + 1 /\ Failed
       \/ UNCHANGED fileVars /\ Failed
    /\ UNCHANGED <<disk, running, resuming, found, memory, latched, executed, left>>

\* What was restored is validated and reloaded.
Check ==
    /\ At("check")
    /\ \/ EndAs("rolled_back") /\ damaged' = damaged \ {Here}
       \/ Failed
    /\ UNCHANGED <<fileVars, disk, running, resuming, found, memory, latched, executed, left>>

Conclude ==
    LET o == cur.op IN
    /\ At("conclude")
    /\ cur' = Idle
    /\ \/ /\ disk[o].state = "rolling_back"
          /\ disk' \in Pruned([disk EXCEPT ![o].state = cur.ended])
          /\ memory' = [memory EXCEPT ![o] = cur.ended]
          /\ latched' = IF cur.ended = "rollback_failed" THEN latched \cup {Here} ELSE latched
          /\ UNCHANGED left
       \/ NotPersisted(o, "rolling_back", cur.ended) /\ UNCHANGED <<memory, latched>>
    /\ UNCHANGED <<fileVars, running, resuming, found, executed, damaged>>
-----------------------------------------------------------------------------
(* Crash and restart. *)

\* What a crash in the middle of a step leaves in the files and of a new snapshot.
Interrupted ==
    \/ /\ UNCHANGED <<fileVars, executed>>
       /\ \/ UNCHANGED disk
          \/ cur.at = "snapshot" /\ Fresh(cur.op) /\ Put(cur.op, "incomplete")
          \/ cur.at = "succeeded" /\ disk[cur.op].state = "validating" /\ Put(cur.op, "succeeded")
          \/ cur.at = "conclude" /\ disk[cur.op].state = "rolling_back" /\ Put(cur.op, cur.ended)
    \/ /\ cur.at = "execute" /\ files[Here] = found[Here]
       /\ \E kind \in {"part", "good"} : Mutated(kind)
       /\ UNCHANGED disk
    \/ /\ cur.at = "restore"
       /\ \/ Restored(Content("part", cur.op)) /\ writes' = writes + 1
          \/ Restored(disk[cur.op].captured) /\ UNCHANGED writes
       /\ UNCHANGED <<disk, executed>>

Crash ==
    /\ running /\ Fault("crash")
    /\ Interrupted
    /\ running' = FALSE /\ resuming' = {}
    /\ found' = [r \in Resources |-> None]
    /\ memory' = [o \in Ops |-> "none"]
    /\ cur' = Idle
    /\ UNCHANGED <<latched, damaged>>

\* main: prune, then resume what ActiveOperationIDs lists, before anything else.
Restart ==
    /\ ~running
    /\ running' = TRUE
    /\ disk' \in Pruned(disk)
    /\ resuming' = {o \in Ops : disk[o].state \in Active}
    /\ UNCHANGED <<fileVars, found, memory, cur, latched, executed, damaged, left>>

\* RestartDispositionFor
Disposition == [applying |-> "rolling_back", validating |-> "validate", rolling_back |-> "restore"]

\* Recover
Resume(o) ==
    /\ running /\ cur = Idle /\ o \in resuming
    /\ resuming' = resuming \ {o}
    /\ \/ disk[o].state = "snapshotted" /\ UNCHANGED <<memory, latched, cur>>
       \/ /\ disk[o].state = "rollback_failed"
          /\ memory' = [memory EXCEPT ![o] = "rollback_failed"]
          /\ latched' = latched \cup {ResourceOf[o]}
          /\ UNCHANGED cur
       \/ /\ disk[o].state \in DOMAIN Disposition
          /\ cur' = [Idle EXCEPT !.op = o, !.at = Disposition[disk[o].state],
                                !.from = disk[o].state, !.resumed = TRUE]
          /\ UNCHANGED <<memory, latched>>
    /\ UNCHANGED <<fileVars, disk, running, found, executed, damaged, left>>
-----------------------------------------------------------------------------
Coordinator ==
    \/ TakeSnapshot \/ Apply \/ Execute \/ Revalidate \/ Validate \/ Succeed
    \/ EnterRollback \/ Restore \/ Check \/ Conclude
    \/ \E o \in Ops : Resume(o)

Next ==
    \/ Coordinator
    \/ \E r \in Resources : Write(r)
    \/ Inspect
    \/ \E o \in Ops : Automatic(o) \/ Request(o)
    \/ Crash \/ Restart

Spec == Init /\ [][Next]_vars

\* A repair under way goes on, and an agent that crashed is started again.
RecoveryFairness == WF_vars(Coordinator) /\ WF_vars(Restart)
FairSpec == Spec /\ RecoveryFairness
-----------------------------------------------------------------------------
(* Properties. *)

States == {"none", "incomplete", "pruned"} \cup Active \cup Terminal
Steps == {"idle", "snapshot", "applying", "execute", "validating", "validate", "succeeded",
          "rolling_back", "restore", "check", "conclude"}
Work == [op : Ops \cup {NoOp}, at : Steps, from : DOMAIN Successors \cup {"none"},
         ended : Terminal \cup {"none"}, resumed : BOOLEAN]
Contents == [n : Nat, kind : Kinds \cup {"none"}, by : Ops \cup {NoOp}]

TypeOK ==
    /\ files \in [Resources -> Contents] /\ writes \in Nat
    /\ disk \in [Ops -> [state : States, captured : Contents]]
    /\ running \in BOOLEAN /\ resuming \subseteq Ops
    /\ found \in [Resources -> Contents]
    /\ memory \in [Ops -> Terminal \cup {"none", "suppressed", "diagnosis_only"}]
    /\ cur \in Work
    /\ latched \subseteq Resources /\ damaged \subseteq Resources
    /\ executed \in [Ops -> Nat]
    /\ left \in [may : FaultSets, faults : Nat, writes : Nat]

\* An operation mutates files at most once, however often it is requested, wherever the
\* agent crashes and whatever is not written; unless its manifest is pruned.
MutatesOnce == "retention" \notin Faults => \A o \in Ops : executed[o] <= 1

\* An operation that says rolled_back has put back exactly what it captured.
RestoresExactly ==
    [][\A o \in Ops : disk[o].state # "rolled_back" /\ disk'[o].state = "rolled_back"
          => files'[ResourceOf[o]] = disk[o].captured]_vars

\* A rollback undoes only its own operation's work, unless a manifest was not written.
UndoesOnlyItsOwn ==
    [][\A r \in Resources : "disk" \notin Faults /\ cur.at = "restore" /\ files'[r] # files[r]
          => files[r].by = cur.op \/ files[r] = disk[cur.op].captured]_vars

\* After a rollback that failed, no automatic repair mutates the resource until a
\* user's has succeeded, unless a manifest was not written.
StopsAfterFailedRollback ==
    [][\A o \in Ops \ UserOps : "disk" \notin Faults /\ executed'[o] # executed[o] => ResourceOf[o] \notin damaged]_vars

\* What was mutated comes to an end whatever crashes: its operation is finished, on disk.
Concludes ==
    \A o \in Ops : executed[o] > 0 /\ Faults \subseteq {"crash"} ~> disk[o].state \in Terminal
================================================================================
