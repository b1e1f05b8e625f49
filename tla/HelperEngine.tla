----------------------------- MODULE HelperEngine -----------------------------
(***************************************************************************)
(* The privileged helper (internal/agent/helper): it carries out operations   *)
(* the orchestrator has granted, one at a time, each as a journalled            *)
(* transaction: claim the grant, record the operation, snapshot, write,          *)
(* validate, and restore what was written where that fails.  The process may      *)
(* die between any two statements; what it finds in its journal when it comes      *)
(* back decides what it may still do.                                               *)
(*                                                                           *)
(* An operation writes the content "o" into each of its targets.  The agent      *)
(* asks for the same operation again until the orchestrator has a receipt of it.  *)
(***************************************************************************)
EXTENDS Naturals, FiniteSets

CONSTANTS
    Ops,            \* operations
    Things,         \* files, links and services of the host
    Targets,        \* Targets[o] \subseteq Things
    Managed,        \* the operations that apply managed proxy state; others act on the service
    Restorable,     \* those whose rollback covers everything (RollbackCoverageFull)
    Before, Edited, \* contents that no operation wrote
    None,
    Cases           \* what to consider: the operations called for, the faults, how many faults

Faults == {"crash", "relatch", "disk", "install", "sync", "invalid", "edit"}

ASSUME HelperAssumptions ==
    /\ Targets \in [Ops -> SUBSET Things]
    /\ Managed \subseteq Ops /\ Restorable \subseteq Ops
    /\ Before \notin Ops /\ Edited \notin Ops /\ Before # Edited
    /\ Cases \subseteq [ops : SUBSET Ops, faults : SUBSET Faults, budget : Nat]
    /\ \A o \in Ops : o \notin {"none", "authorized"}

(* None is a value of its own.                                                *)
ASSUME NullAssumptions ==
    /\ None \notin Ops \cup {Before, Edited}
    /\ None \notin {"succeeded", "failed_before_mutation", "rolled_back", "rollback_failed", "outcome_indeterminate"}
    /\ \A o \in Ops : None \notin [Targets[o] -> Ops \cup {Before, Edited}]

VARIABLES
    host,           \* what is on the host
    plan,           \* plan[o]: the targets as the plan the orchestrator stores fingerprinted them
    confirmed,      \* confirmed[o]: confirmations the orchestrator has of it, granted with the second
    current,        \* the latest managed apply published
    expired,        \* operations whose plan and grant have run out
    journal,        \* journal[o]: the state of o's record, "none" if there is none
    claims,         \* grants claimed
    snaps,          \* snaps[o]: o's snapshot
    breaker,        \* breaker.mem, breaker.disk: open in memory, in the file
    hp,             \* the process: where it is, in which operation
    receipt,        \* what the orchestrator has stored for o
    case, left,     \* the case considered, and how many faults are left of it
    wrote,          \* history: wrote[o][t]: where t holds what o wrote, what that displaced
    executed,       \* history: how often o's handler was let at the host
    pruned          \* history: operations whose record was removed

tables  == <<plan, confirmed, current, receipt>>     \* the orchestrator's
store   == <<journal, claims, snaps, breaker>>       \* the helper's
history == <<wrote, executed, pruned>>
vars    == <<host, plan, confirmed, current, expired, journal, claims, snaps, breaker, hp,
             receipt, case, left, wrote, executed, pruned>>

-----------------------------------------------------------------------------
(* States of a record (helperprotocol/types.go).                              *)

InFlight == {"running", "mutated", "validated", "rollback_running"}
Prunable == {"succeeded", "failed_before_mutation", "rolled_back"}
Incident == {"rollback_failed", "outcome_indeterminate"}
Terminal == Prunable \cup Incident
States   == {"none", "authorized"} \cup InFlight \cup Terminal

Contents == Ops \cup {Before, Edited}
Hosts    == [Things -> Contents]

(* Mutant: a record left in flight is taken for one that may begin again.     *)
MutHasReceipt(o) == journal[o] \in Terminal

(* authorized is the only state a record has without a receipt.                *)
HasReceipt(o) == journal[o] \notin {"none", "authorized"}
Pending(o)    == {t \in Targets[o] : host[t] # o}

(* What a fingerprint of the host tells of o's targets.                         *)
Facts(o) == [t \in Targets[o] |-> host[t]]

(* The operation an idle or restarting process last worked at is the one the      *)
(* agent may still be waiting for.                                                *)
Process(pc, o) == [pc |-> pc, op |-> o, todo |-> {}, mutated |-> FALSE, ok |-> FALSE]
Resting  == Process("idle", None)
Idle     == Process("idle", hp.op)
Down     == Process("down", hp.op)
Broken   == Process("broken", hp.op)
Goto(pc) == [hp EXCEPT !.pc = pc]

Pcs == {"idle", "down", "broken", "claim", "record", "prepare", "run", "execute", "write", "judge",
        "mutated", "validated", "restore", "settle", "failed", "recover", "latch"}
Working == Pcs \ {"idle", "down", "broken", "recover", "latch"}

(* Who wrote what t holds: nobody, or o in place of what was there.             *)
Unwritten(t)  == [p \in Ops |-> [wrote[p] EXCEPT ![t] = None]]
Written(o, t) == [Unwritten(t) EXCEPT ![o][t] = host[t]]

Traces(o)     == {t \in Things : wrote[o][t] # None}

Spend(f) == f \in case.faults /\ left > 0 /\ left' = left - 1

(* An apply may find that an earlier one already brought the host where it should be. *)
AsAppliedBy(o) == [t \in Things |-> IF t \in Targets[o] THEN o ELSE Before]

HelperInit ==
    /\ host = [t \in Things |-> Before] \/ \E o \in Managed : host = AsAppliedBy(o)
    /\ plan = [o \in Ops |-> None]
    /\ confirmed = [o \in Ops |-> 0]
    /\ current = None
    /\ expired = {}
    /\ journal = [o \in Ops |-> "none"]
    /\ claims = {}
    /\ snaps = [o \in Ops |-> None]
    /\ breaker = [mem |-> FALSE, disk |-> FALSE]
    /\ hp = Resting
    /\ receipt = [o \in Ops |-> None]
    /\ case \in Cases
    /\ left = case.budget
    /\ wrote = [o \in Ops |-> [t \in Things |-> None]]
    /\ executed = [o \in Ops |-> 0]
    /\ pruned = {}

-----------------------------------------------------------------------------
(* Journal.Transition.  A record is written beside and renamed: a write that    *)
(* fails may have failed before the rename or after it, and the request ends     *)
(* with an error either way.  A process that is killed within it leaves the        *)
(* temporary file among the records.                                                *)
Log(o, state, next) ==
    \/ /\ journal' = [journal EXCEPT ![o] = state]
       /\ hp' = next
       /\ UNCHANGED left
    \/ /\ Spend("disk")
       /\ journal' \in {journal, [journal EXCEPT ![o] = state]}
       /\ hp' = Idle
    \/ /\ Spend("crash")
       /\ \/ UNCHANGED journal
          \/ journal[o] = "none" /\ journal' = [journal EXCEPT ![o] = state]   \* a new record is linked
       /\ hp' = Broken

(* The orchestrator keeps the first receipt and takes none that is not final; nor   *)
(* does the agent send one of a managed apply that is not.                           *)
StoreReceipt(o, state) ==
    IF receipt[o] = None /\ state \in Terminal THEN [receipt EXCEPT ![o] = state] ELSE receipt

StoreManagedReceipt(o, state) ==
    IF receipt[o] = None /\ confirmed[o] = 2 /\ state \in Terminal THEN [receipt EXCEPT ![o] = state] ELSE receipt

(* The answer may be lost on the way.                                              *)
Answer(o, state) ==
    receipt' \in {receipt, IF o \in Managed THEN StoreManagedReceipt(o, state) ELSE StoreReceipt(o, state)}

Finish(o, state) ==
    /\ Log(o, state, Idle)
    /\ IF left' = left THEN Answer(o, state) ELSE UNCHANGED receipt

-----------------------------------------------------------------------------
(* Hard recovery: the agent has the helper plan what a diagnostic calls for, the     *)
(* orchestrator stores the plan, and a user confirms it twice.                        *)
Unplanned == UNCHANGED <<host, expired, case, left, store, hp, history>>

StorePlan(o) == plan[o] = None /\ plan' = [plan EXCEPT ![o] = Facts(o)]

PlanAction(o) ==
    /\ o \in case.ops \ Managed /\ hp.pc = "idle"
    /\ Pending(o) # {}
    /\ StorePlan(o)
    /\ UNCHANGED <<confirmed, current, receipt>> /\ Unplanned

(* The second confirmation stores the signed grant.                                   *)
Confirm(o) ==
    /\ o \notin Managed /\ plan[o] # None /\ confirmed[o] < 2 /\ o \notin expired
    /\ confirmed' = [confirmed EXCEPT ![o] = @ + 1]
    /\ UNCHANGED <<plan, current, receipt>> /\ Unplanned

Granted(o) == confirmed[o] = 2 /\ o \notin expired

(* Managed applies: the reconciler publishes an intent, which supersedes the one       *)
(* before.  The agent asks the helper for a plan each time it applies the intent, and    *)
(* the orchestrator grants at once, but no other plan than the first.                     *)
PublishIntent(o) ==
    /\ o \in case.ops \cap Managed /\ current # o /\ plan[o] = None /\ o \notin expired
    /\ current' = o
    /\ UNCHANGED <<plan, confirmed, receipt>> /\ Unplanned

StoreManagedPlan(o)  == o = current /\ plan[o] = None /\ plan' = [plan EXCEPT ![o] = Facts(o)]
StoreManagedGrant(o) == o = current /\ confirmed' = [confirmed EXCEPT ![o] = 2]

AuthorizeManaged(o) ==
    /\ o \in Managed /\ hp.pc = "idle" /\ o \notin expired
    /\ StoreManagedPlan(o) /\ StoreManagedGrant(o)
    /\ UNCHANGED <<current, receipt>> /\ Unplanned

Expire(o) ==
    /\ plan[o] # None /\ o \notin expired
    /\ expired' = expired \cup {o}
    /\ UNCHANGED <<host, case, left, tables, store, hp, history>>

-----------------------------------------------------------------------------
(* Controller.Reconcile goes through the grants that have no receipt;                  *)
(* ManagedController.Apply comes this far only with the plan that was granted.            *)
Asks(o)        == o \notin Managed /\ Granted(o) /\ receipt[o] = None
AsksManaged(o) == o \in Managed /\ Granted(o) /\ receipt[o] = None /\ current = o /\ plan[o] = Facts(o)
Asked(o)       == hp.pc = "idle" /\ (Asks(o) \/ AsksManaged(o))

(* Engine.GetReceipt, and Execute for an operation that is known.                         *)
AnswerKnown(o) ==
    /\ Asked(o) \/ (hp.pc = "idle" /\ hp.op = o)
    /\ HasReceipt(o)
    /\ Answer(o, journal[o])
    /\ hp' = Resting
    /\ UNCHANGED <<host, plan, confirmed, current, expired, case, left, store, history>>

(* The checks of Execute, before anything is recorded.                                     *)
Admitted(o) ==
    /\ Asked(o) /\ ~HasReceipt(o)
    /\ plan[o] = Facts(o)
    /\ ~breaker.mem

(* convergedManagedReceipt: nothing is pending and the proxy is valid.                      *)
Converged(o) == o \in Managed /\ journal[o] = "none" /\ Pending(o) = {}

AnswerConverged(o) ==
    /\ Admitted(o) /\ Converged(o)
    /\ Answer(o, "succeeded")
    /\ hp' = Resting
    /\ UNCHANGED <<host, plan, confirmed, current, expired, case, left, store, history>>

(* An operation that is only authorized begins again; no other is resumed.                    *)
Accept(o) ==
    /\ Admitted(o)
    /\ IF Converged(o) THEN Spend("invalid") ELSE UNCHANGED left
    /\ hp' = Process(IF journal[o] = "none" THEN "claim" ELSE "prepare", o)
    /\ UNCHANGED <<host, expired, case, tables, store, history>>

-----------------------------------------------------------------------------
(* BeginOperation: two files.                                                       *)
ClaimGrant ==
    /\ hp.pc = "claim"
    /\ \/ claims' = claims \cup {hp.op} /\ hp' = Goto("record") /\ UNCHANGED left
       \/ Spend("disk") /\ claims' \in {claims, claims \cup {hp.op}} /\ hp' = Idle
    /\ UNCHANGED <<host, expired, case, tables, journal, snaps, breaker, history>>

RecordOperation ==
    /\ hp.pc = "record"
    /\ Log(hp.op, "authorized", Goto("prepare"))
    /\ UNCHANGED <<host, expired, case, tables, claims, snaps, breaker, history>>

(* The handler's Prepare: the facts are as planned, and the snapshot is new or the   *)
(* same as the one an earlier attempt left.                                          *)
TakeSnapshot ==
    LET o == hp.op IN
    /\ hp.pc = "prepare"
    /\ plan[o] = Facts(o) /\ snaps[o] \in {None, Facts(o)}
    /\ snaps' = [snaps EXCEPT ![o] = Facts(o)]
    /\ hp' = Goto("run")
    /\ UNCHANGED <<host, expired, case, tables, journal, claims, breaker, left, history>>

RefuseSnapshot ==
    LET o == hp.op IN
    /\ hp.pc = "prepare"
    /\ plan[o] # Facts(o) \/ snaps[o] \notin {None, Facts(o)}
    /\ Finish(o, "failed_before_mutation")
    /\ UNCHANGED <<host, plan, confirmed, current, expired, case, claims, snaps, breaker, history>>

Run ==
    /\ hp.pc = "run"
    /\ Log(hp.op, "running", Goto("execute"))
    /\ UNCHANGED <<host, expired, case, tables, claims, snaps, breaker, history>>

(* The handler's Execute begins with the same checks again, and a native validation. *)
Execute ==
    LET o == hp.op IN
    /\ hp.pc = "execute"
    /\ executed' = [executed EXCEPT ![o] = @ + 1]
    /\ \/ plan[o] = Facts(o) /\ UNCHANGED left
            /\ hp' = [hp EXCEPT !.pc = "write", !.todo = IF o \in Managed THEN Pending(o) ELSE Targets[o]]
       \/ plan[o] # Facts(o) /\ UNCHANGED left /\ hp' = Goto("judge")
       \/ Spend("invalid") /\ hp' = Goto("judge")
    /\ UNCHANGED <<host, expired, case, tables, store, wrote, pruned>>

(* One file, link or service at a time.                                             *)
Write(t) ==
    LET o == hp.op IN
    /\ hp.pc = "write" /\ t \in hp.todo
    /\ host' = [host EXCEPT ![t] = o]
    /\ wrote' = Written(o, t)
    /\ hp' = [hp EXCEPT !.todo = @ \ {t}, !.mutated = TRUE]
    /\ UNCHANGED <<expired, case, tables, store, left, executed, pruned>>

(* A write that fails, before or after it took effect.  installManagedFile says       *)
(* which, and its caller drops that: what it reports is whether an earlier write        *)
(* succeeded.  A command on the service that fails counts as a mutation.                *)
WriteFails(t) ==
    LET o == hp.op IN
    /\ hp.pc = "write" /\ t \in hp.todo
    /\ \/ Spend("install") /\ UNCHANGED <<host, wrote>>
       \/ /\ Spend("sync")
          /\ host' = [host EXCEPT ![t] = o]
          /\ wrote' = Written(o, t)
    /\ hp' = [hp EXCEPT !.pc = "judge", !.mutated = @ \/ o \notin Managed]
    /\ UNCHANGED <<expired, case, tables, store, executed, pruned>>

(* Validation, reload, validation again: only after something was written.             *)
Validate ==
    /\ hp.pc = "write" /\ hp.todo = {}
    /\ \/ hp' = [hp EXCEPT !.pc = "judge", !.ok = TRUE] /\ UNCHANGED left
       \/ hp.mutated /\ Spend("invalid") /\ hp' = Goto("judge")
    /\ UNCHANGED <<host, expired, case, tables, store, history>>

-----------------------------------------------------------------------------
(* What the engine makes of the handler's result.                                     *)
NothingWritten ==
    /\ hp.pc = "judge" /\ ~hp.mutated
    /\ Finish(hp.op, IF hp.ok THEN "succeeded" ELSE "failed_before_mutation")
    /\ UNCHANGED <<host, plan, confirmed, current, expired, case, claims, snaps, breaker, history>>

LogMutated ==
    /\ hp.pc = "judge" /\ hp.mutated
    /\ Log(hp.op, "mutated", Goto("mutated"))
    /\ UNCHANGED <<host, expired, case, tables, claims, snaps, breaker, history>>

LogValidated ==
    /\ hp.pc = "mutated" /\ hp.ok
    /\ Log(hp.op, "validated", Goto("validated"))
    /\ UNCHANGED <<host, expired, case, tables, claims, snaps, breaker, history>>

Succeed ==
    /\ hp.pc = "validated"
    /\ Finish(hp.op, "succeeded")
    /\ UNCHANGED <<host, plan, confirmed, current, expired, case, claims, snaps, breaker, history>>

(* Mutant: the rollback restores what was still to be written.                        *)
MutEnterRollback ==
    /\ hp.pc = "mutated" /\ ~hp.ok
    /\ Log(hp.op, "rollback_running", [hp EXCEPT !.pc = "restore", !.ok = TRUE])
    /\ UNCHANGED <<host, expired, case, tables, claims, snaps, breaker, history>>

EnterRollback ==
    /\ hp.pc = "mutated" /\ ~hp.ok
    /\ Log(hp.op, "rollback_running", [hp EXCEPT !.pc = "restore", !.todo = Targets[hp.op], !.ok = TRUE])
    /\ UNCHANGED <<host, expired, case, tables, claims, snaps, breaker, history>>

(* A service that was restarted or reloaded cannot be restored.                         *)
CanRestore(o) == o \in Managed \cup Restorable

Restore(t) ==
    LET o == hp.op IN
    /\ hp.pc = "restore" /\ t \in hp.todo /\ CanRestore(o)
    /\ host' = [host EXCEPT ![t] = snaps[o][t]]
    /\ wrote' = Unwritten(t)
    /\ hp' = [hp EXCEPT !.todo = @ \ {t}]
    /\ UNCHANGED <<expired, case, tables, store, left, executed, pruned>>

(* The last of it: validate, reload and validate what was restored.                     *)
RestoreEnds ==
    /\ hp.pc = "restore"
    /\ \/ hp.todo = {} /\ hp' = Goto("settle") /\ UNCHANGED left
       \/ (Spend("install") \/ Spend("invalid")) /\ hp' = [hp EXCEPT !.pc = "settle", !.ok = FALSE]
       \/ ~CanRestore(hp.op) /\ hp' = [hp EXCEPT !.pc = "settle", !.ok = FALSE] /\ UNCHANGED left
    /\ UNCHANGED <<host, expired, case, tables, store, history>>

RolledBack ==
    /\ hp.pc = "settle" /\ hp.ok /\ hp.op \in Restorable
    /\ Finish(hp.op, "rolled_back")
    /\ UNCHANGED <<host, plan, confirmed, current, expired, case, claims, snaps, breaker, history>>

(* Mutant: the rollback's failure is recorded although the breaker was not written.     *)
MutOpenBreaker ==
    /\ hp.pc = "settle" /\ ~(hp.ok /\ hp.op \in Restorable)
    /\ \/ breaker' = [mem |-> TRUE, disk |-> TRUE] /\ UNCHANGED left
       \/ Spend("disk") /\ breaker' = [breaker EXCEPT !.mem = TRUE]
    /\ hp' = Goto("failed")
    /\ UNCHANGED <<host, expired, case, tables, journal, claims, snaps, history>>

(* A rollback that is not complete, or covers only part, opens the breaker for good:     *)
(* before it is recorded.                                                                  *)
OpenBreaker ==
    /\ hp.pc = "settle" /\ ~(hp.ok /\ hp.op \in Restorable)
    /\ \/ breaker' = [mem |-> TRUE, disk |-> TRUE] /\ hp' = Goto("failed") /\ UNCHANGED left
       \/ Spend("disk") /\ breaker' \in {[breaker EXCEPT !.mem = TRUE], [mem |-> TRUE, disk |-> TRUE]} /\ hp' = Idle
    /\ UNCHANGED <<host, expired, case, tables, journal, claims, snaps, history>>

RollbackFailed ==
    /\ hp.pc = "failed"
    /\ Finish(hp.op, "rollback_failed")
    /\ UNCHANGED <<host, plan, confirmed, current, expired, case, claims, snaps, breaker, history>>

-----------------------------------------------------------------------------
(* Journal.Recover, at the start, before anything is served.                             *)
Restart ==
    /\ hp.pc = "down"
    /\ hp' = Process("recover", hp.op)
    /\ breaker' = [breaker EXCEPT !.mem = breaker.disk]
    /\ UNCHANGED <<host, expired, case, tables, journal, claims, snaps, left, history>>

MarkIndeterminate(o) ==
    /\ hp.pc = "recover" /\ journal[o] \in InFlight
    /\ \/ /\ journal' = [journal EXCEPT ![o] = "outcome_indeterminate"]
          /\ hp' = Goto("latch")
          /\ UNCHANGED <<breaker, left>>
       \/ /\ Spend("disk")                      \* the helper does not start
          /\ journal' \in {journal, [journal EXCEPT ![o] = "outcome_indeterminate"]}
          /\ breaker' = [mem |-> FALSE, disk |-> TRUE]
          /\ hp' = Down
       \/ /\ Spend("crash") /\ hp' = Broken
          /\ UNCHANGED <<journal, breaker>>
    /\ UNCHANGED <<host, expired, case, tables, claims, snaps, history>>

Latch ==
    /\ hp.pc = "latch"
    /\ \/ breaker' = [mem |-> TRUE, disk |-> TRUE] /\ UNCHANGED left
       \/ Spend("relatch") /\ breaker' = [breaker EXCEPT !.mem = TRUE]   \* the error is dropped
    /\ hp' = Goto("recover")
    /\ UNCHANGED <<host, expired, case, tables, journal, claims, snaps, history>>

(* A file that is no record ends every start, before a record is read.                    *)
RefuseStart ==
    /\ hp.pc = "broken"
    /\ breaker' = [mem |-> FALSE, disk |-> TRUE]
    /\ UNCHANGED <<host, expired, case, left, tables, journal, claims, snaps, hp, history>>

(* Mutant: the helper serves although records are still in flight.                        *)
MutRecovered ==
    /\ hp.pc = "recover"
    /\ hp' = Idle
    /\ UNCHANGED <<host, expired, case, tables, store, left, history>>

Recovered ==
    /\ hp.pc = "recover" /\ \A o \in Ops : journal[o] \notin InFlight
    /\ hp' = Idle
    /\ UNCHANGED <<host, expired, case, tables, store, left, history>>

(* Prune, beside everything else but a journal operation: a finished operation is         *)
(* removed long after its grant has run out (operationRetentionMinAge and                   *)
(* MaxGrantLifetime); its record last, so a crash may leave the record alone.                *)
Prune(o) ==
    /\ hp.pc \notin {"down", "broken", "recover", "latch"}
    /\ journal[o] \in Prunable /\ o \in expired
    /\ snaps' = [snaps EXCEPT ![o] = None]
    /\ claims' = claims \ {o}
    /\ \/ /\ journal' = [journal EXCEPT ![o] = "none"]
          /\ pruned' = pruned \cup {o}
          /\ UNCHANGED <<hp, left, breaker>>
       \/ /\ Spend("crash") /\ hp' = Down /\ breaker' = [breaker EXCEPT !.mem = FALSE]
          /\ UNCHANGED <<journal, pruned>>
    /\ UNCHANGED <<host, expired, case, tables, wrote, executed>>

-----------------------------------------------------------------------------
(* The environment.  A crash between the two writes of Recover is a fault of its own.     *)
Crash ==
    /\ hp.pc \notin {"down", "broken"}
    /\ Spend("crash") /\ (hp.pc = "latch" => "relatch" \in case.faults)
    /\ hp' = Down
    /\ breaker' = [breaker EXCEPT !.mem = FALSE]
    /\ UNCHANGED <<host, expired, case, tables, journal, claims, snaps, history>>

OperatorEdits(t) ==
    /\ Spend("edit")
    /\ host' = [host EXCEPT ![t] = Edited]
    /\ wrote' = Unwritten(t)
    /\ UNCHANGED <<expired, case, tables, store, hp, executed, pruned>>

Handles ==
    \/ ClaimGrant \/ RecordOperation \/ TakeSnapshot \/ RefuseSnapshot \/ Run \/ Execute
    \/ \E t \in Things : Write(t) \/ WriteFails(t) \/ Restore(t)
    \/ Validate \/ NothingWritten \/ LogMutated \/ LogValidated \/ Succeed
    \/ EnterRollback \/ RestoreEnds \/ RolledBack \/ OpenBreaker \/ RollbackFailed

Recovers == Restart \/ RefuseStart \/ Latch \/ Recovered \/ \E o \in Ops : MarkIndeterminate(o)

HelperNext ==
    \/ \E o \in Ops : \/ PlanAction(o) \/ Confirm(o) \/ PublishIntent(o) \/ AuthorizeManaged(o) \/ Expire(o)
                    \/ AnswerKnown(o) \/ AnswerConverged(o) \/ Accept(o) \/ Prune(o)
    \/ Handles \/ Recovers
    \/ Crash
    \/ \E t \in Things : OperatorEdits(t)

HelperSpec == HelperInit /\ [][HelperNext]_vars

(* A process that runs goes on, and systemd starts one that died.                         *)
FairHelperSpec == HelperSpec /\ WF_vars(Handles) /\ WF_vars(Recovers)

-----------------------------------------------------------------------------
Imaged(f) == f = [o \in Ops |-> f[o]] /\ \A o \in Ops : f[o] \in [Targets[o] -> Contents] \cup {None}

HostTyped ==
    /\ host \in Hosts
    /\ wrote \in [Ops -> [Things -> Contents \cup {None}]]
TablesTyped ==
    /\ Imaged(plan)
    /\ confirmed \in [Ops -> 0..2]
    /\ current \in Managed \cup {None}
    /\ receipt \in [Ops -> Terminal \cup {None}]
StoreTyped ==
    /\ journal \in [Ops -> States]
    /\ claims \subseteq Ops
    /\ Imaged(snaps)
    /\ breaker \in [mem : BOOLEAN, disk : BOOLEAN]
ProcessTyped ==
    /\ hp \in [pc : Pcs, op : Ops \cup {None}, todo : SUBSET Things, mutated : BOOLEAN, ok : BOOLEAN]
    /\ hp.pc \in Working => hp.op \in Ops
HistoryTyped ==
    /\ case \in Cases /\ left \in Nat
    /\ expired \subseteq Ops
    /\ executed \in [Ops -> Nat]
    /\ pruned \subseteq Ops

TypeOK == HostTyped /\ TablesTyped /\ StoreTyped /\ ProcessTyped /\ HistoryTyped

(* An operation's handler is let at the host once: not again for a request that is        *)
(* repeated because its answer was lost, the helper restarted, a journal write failed        *)
(* or the record was pruned.                                                                  *)
ExecutedOnce == \A o \in Ops : executed[o] <= 1

(* A rollback that failed, or an operation found unfinished at a start, keeps the breaker      *)
(* open in every later process, whatever writes of the journal fail in between; unless the       *)
(* write of the breaker is lost while the helper recovers.                                         *)
IncidentLatched ==
    "relatch" \notin case.faults /\ (\E o \in Ops : journal[o] \in Incident)
        => breaker.disk \/ hp.pc = "latch"

(* What the record says: nothing of the operation is on the host where it says that it        *)
(* failed before a mutation, or was rolled back.                                                 *)
FailedUntouched ==
    \A o \in Ops : journal[o] \in {"failed_before_mutation", "rolled_back"} => Traces(o) = {}

(* Whatever began to write ends with an outcome on record, if only that there is doubt; unless    *)
(* a journal write fails, which leaves the record as it is until a restart, or the process is       *)
(* killed within one: the file that leaves ends every later start with the breaker open, and the      *)
(* record stays as it is.                                                                              *)
Concludes ==
    \A o \in Ops : journal[o] \in InFlight /\ "disk" \notin case.faults
                    ~> \/ journal[o] \in Terminal \cup {"none"}
                       \/ hp.pc = "broken" /\ breaker.disk

-----------------------------------------------------------------------------
(* The helper implements its promise.  What an operation in flight has written is not yet     *)
(* live: in its place is what it displaced.                                                     *)
Undecided(t) == {o \in Ops : journal[o] \in InFlight /\ wrote[o][t] # None}

LiveHost ==
    [t \in Things |-> IF Undecided(t) = {} THEN host[t] ELSE wrote[CHOOSE o \in Undecided(t) : TRUE][t]]

OutcomeOf(o) ==
    IF o \in pruned THEN "forgotten"
    ELSE IF journal[o] \in Incident THEN "doubt"
    ELSE IF journal[o] \in Prunable THEN journal[o] ELSE "open"

Ended  == [o \in Ops |-> OutcomeOf(o)]
Lapses == case.faults \cap {"relatch", "sync"}

Promise == INSTANCE HelperPromise WITH live <- LiveHost, outcome <- Ended, told <- receipt, lapses <- Lapses

(* Every behaviour of the helper, its crashes, retries and failed writes included, is one of     *)
(* operations that take effect in one step or not at all, and of none once one is in doubt.       *)
KeepsPromise == Promise!PromiseSpec
=============================================================================
