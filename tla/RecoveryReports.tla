---------------------------- MODULE RecoveryReports ----------------------------
(***************************************************************************)
(* What the agent reports of its recovery, on the way to the orchestrator:  *)
(* the coordinator enqueues every state of an operation and snapshots of    *)
(* the active diagnostics (recovery/coordinator.go), the bounded reporter   *)
(* delivers them from a goroutine of its own (recovery/reporter.go), and    *)
(* the orchestrator takes an operation only one state at a time, starting   *)
(* with the first, under an active diagnostic (api/recovery.go).            *)
(*                                                                          *)
(* An operation goes through Last states, the last one terminal; its report *)
(* number i carries the steps 1..i.  The agent begins an automatic one by    *)
(* itself; a user's begins at the orchestrator, which asks the agent for it. *)
(***************************************************************************)
EXTENDS Naturals, Sequences, FiniteSets

CONSTANTS
    Repairs, NoRepair,
    Requested,  \* those a user asks for
    Diags,
    Last,     \* the number of states of an operation
    Cases     \* what to consider: the diagnostic each operation repairs, how many operations
              \* the reporter admits, whether a send may fail for good, and bounds on
              \* observations, inspections, such failures and lost answers

ASSUME ReportsAssumptions ==
    /\ NoRepair \notin Repairs /\ Requested \subseteq Repairs
    /\ Last \in Nat \ {0, 1}
    /\ Cases \subseteq [of : [Repairs -> Diags], limit : Nat \ {0}, fails : BOOLEAN,
                      observe : Nat, inspect : Nat, fail : Nat, lose : Nat]

VARIABLES
    occurrences,  \* c.diagnostics: how often each was observed, 0 if not active
    seen,         \* and when last (LastSeenAt)
    repairing,      \* the operation under way
    progress,     \* progress[o]: the states o has gone through and reported
    stuck,      \* the diagnostics an operation left with rollback_failed
    queue,        \* r.queue
    lane,         \* r.operations: [pending, terminal, quarantined] of the admitted
    pending,      \* r.diagnosticPending
    nextSeq,      \* r.nextDiagnosticSeq
    flush,        \* Flush: how many items are left to it, which operations it blocks
                  \* and what it is sending
    stored,       \* stored[o]: the state the orchestrator has of o, 0 if none
    entry,        \* entry[d]: the orchestrator's row of d: last_seen_at, resolved_at
    totals,       \* totals[o]: how often the outcome of o was counted
    clock,        \* the time, the same for both
    seenAgain,    \* history: a diagnostic was seen again while a report from before, or an
                  \* operation of it, was still to be delivered; or a snapshot was dropped
                  \* for an equal one, with another snapshot behind that one
    case          \* the case considered, with what is left of its bounds

senderVars == <<occurrences, seen, repairing, progress, stuck>>
reporterVars == <<queue, lane, pending, nextSeq, flush>>
orchestratorVars == <<stored, entry, totals, seenAgain>>
reportsVars == <<senderVars, reporterVars, orchestratorVars, clock, case>>

Op(o, i) == [kind |-> "op", op |-> o, at |-> i]
Snapshot(diags, times, seq) == [kind |-> "snapshot", diags |-> diags, times |-> times, seq |-> seq]
IsOp(item) == item.kind = "op"
\* reportKey: of a snapshot, the diagnostics and their occurrences.
SameKey(a, b) ==
    \/ IsOp(a) /\ IsOp(b) /\ a = b
    \/ ~IsOp(a) /\ ~IsOp(b) /\ a.diags = b.diags
\* The diagnostics a snapshot names.
Named(item) == {d \in Diags : item.diags[d] > 0}
Nothing == [kind |-> "nothing"]
NoFlush == [left |-> 0, blocked |-> {}, item |-> Nothing]

NotAdmitted == [pending |-> 0, terminal |-> FALSE, quarantined |-> FALSE, admitted |-> FALSE]
Admitted == {o \in Repairs : lane[o].admitted}

\* A row of recovery_diagnostics; resolved is 0 while the diagnostic is active.
NoEntry == [seen |-> 0, resolved |-> 0]
Stored(d) == entry[d].seen > 0
ActiveDiags == {d \in Diags : Stored(d) /\ entry[d].resolved = 0}

ReportsInit ==
    /\ occurrences = [d \in Diags |-> 0] /\ seen = [d \in Diags |-> 0]
    /\ clock = 1 /\ seenAgain = FALSE
    /\ repairing = NoRepair
    /\ progress = [o \in Repairs |-> 0]
    /\ stuck = {}
    /\ queue = <<>>
    /\ lane = [o \in Repairs |-> NotAdmitted]
    /\ pending = [d \in Diags |-> 0]
    /\ nextSeq = 1
    /\ flush = NoFlush
    /\ stored = [o \in Repairs |-> 0]
    /\ entry = [d \in Diags |-> NoEntry]
    /\ totals = [o \in Repairs |-> 0]
    /\ case \in Cases

Spend(what) == case[what] > 0 /\ case' = [case EXCEPT ![what] = @ - 1]

\* The diagnostic an operation repairs.
DiagOf == case.of
-----------------------------------------------------------------------------
(* Enqueue, under the reporter's lock. *)

\* The positions of the snapshots behind the last operation's report: a new snapshot
\* supersedes them.
Superseded == {i \in DOMAIN queue : \A j \in i..Len(queue) : ~IsOp(queue[j])}

\* What is left when they are gone.
Remaining == SubSeq(queue, 1, Len(queue) - Cardinality(Superseded))

Count(items, d) == Cardinality({i \in DOMAIN items : ~IsOp(items[i]) /\ d \in Named(items[i])})

\* Mutant: what a superseded snapshot named stays pending.
MutEnqueueSnapshot(diags, times) ==
    LET item == Snapshot(diags, times, nextSeq)
        kept == Remaining
        duplicate == \E i \in DOMAIN kept : SameKey(kept[i], item)
    IN  /\ nextSeq' = nextSeq + 1
        /\ queue' = IF duplicate THEN kept ELSE Append(kept, item)
        /\ pending' = IF duplicate THEN pending
                      ELSE [d \in Diags |-> pending[d] + IF d \in Named(item) THEN 1 ELSE 0]
        /\ UNCHANGED <<lane, flush>>

EnqueueSnapshot(diags, times) ==
    LET item == Snapshot(diags, times, nextSeq)
        kept == Remaining
        gone == SubSeq(queue, Len(kept) + 1, Len(queue))
        duplicate == \E i \in DOMAIN kept : SameKey(kept[i], item)
        released == [d \in Diags |-> pending[d] - Count(gone, d)]
    IN  /\ nextSeq' = nextSeq + 1
        /\ queue' = IF duplicate THEN kept ELSE Append(kept, item)
        /\ pending' = IF duplicate THEN released
                      ELSE [d \in Diags |-> released[d] + IF d \in Named(item) THEN 1 ELSE 0]
        /\ UNCHANGED <<lane, flush>>

\* An operation that is not admitted yet needs a free lane.
Admissible(o) == lane[o].admitted \/ Cardinality(Admitted) < case.limit

\* The lane of an operation, with another report, and with one less: it is given back
\* with the last.
WithOneMore(l, terminal) ==
    [pending |-> l.pending + 1, terminal |-> l.terminal \/ terminal,
     quarantined |-> l.quarantined, admitted |-> TRUE]
WithOneLess(l) ==
    IF l.pending = 1 /\ l.terminal THEN NotAdmitted ELSE [l EXCEPT !.pending = @ - 1]

\* Mutant: a terminal report is put first.
MutEnqueueOp(o, i) ==
    /\ Admissible(o)
    /\ queue' = IF i = Last THEN <<Op(o, i)>> \o queue ELSE Append(queue, Op(o, i))
    /\ lane' = [lane EXCEPT ![o] = WithOneMore(@, i = Last)]
    /\ UNCHANGED <<pending, nextSeq, flush>>

EnqueueOp(o, i) ==
    /\ Admissible(o)
    /\ queue' = Append(queue, Op(o, i))
    /\ lane' = [lane EXCEPT ![o] = WithOneMore(@, i = Last)]
    /\ UNCHANGED <<pending, nextSeq, flush>>
-----------------------------------------------------------------------------
(* The coordinator, under its lock; a repair holds it to the end. *)

\* A report of an operation of d is queued.
Unreported(d) == \E i \in DOMAIN queue : IsOp(queue[i]) /\ DiagOf[queue[i].op] = d

\* The new snapshot is dropped for an equal one with another behind it, which will have
\* the last word.
DroppedForAnOlder(diags) ==
    \E i, j \in DOMAIN Remaining :
        /\ ~IsOp(Remaining[i]) /\ Remaining[i].diags = diags
        /\ ~IsOp(Remaining[j]) /\ Remaining[j].seq > Remaining[i].seq

\* What is recorded now, next to what was before.
Observed(now, occurrences1) ==
    /\ clock' = clock + 1
    /\ occurrences' = occurrences1
    /\ seen' = [d \in Diags |-> IF d \in now THEN clock ELSE IF occurrences1[d] > 0 THEN seen[d] ELSE 0]
    /\ EnqueueSnapshot(occurrences1, seen')
    /\ seenAgain' =
        \/ seenAgain
        \/ \E d \in Diags : occurrences1[d] > 0 /\ Unreported(d)
        \/ DroppedForAnOlder(occurrences1)
    /\ UNCHANGED <<repairing, progress, stuck, stored, entry, totals>>

\* An apply failed: the diagnostic is recorded.
Observe(d) ==
    /\ repairing = NoRepair
    /\ Spend("observe")
    /\ Observed({d}, [occurrences EXCEPT ![d] = @ + 1])

\* An inspection records what it finds and drops the rest, but for what a failed
\* rollback left.  Of its snapshots the last supersedes the others.
InspectAnew(these) ==
    /\ repairing = NoRepair
    /\ Spend("inspect")
    /\ Observed(these, [d \in Diags |-> IF d \in these THEN occurrences[d] + 1
                                 ELSE IF d \in stuck THEN occurrences[d] ELSE 0])

\* A repair begins only if its first report is admitted; a user's only once requested.
Begin(o) ==
    /\ repairing = NoRepair
    /\ progress[o] = 0
    /\ occurrences[DiagOf[o]] > 0
    /\ o \in Requested => stored[o] > 0
    /\ EnqueueOp(o, 1)
    /\ progress' = [progress EXCEPT ![o] = 1]
    /\ repairing' = o
    /\ UNCHANGED <<occurrences, seen, stuck, orchestratorVars, clock, case>>

Proceed(o) ==
    /\ repairing = o
    /\ EnqueueOp(o, progress[o] + 1)
    /\ progress' = [progress EXCEPT ![o] = @ + 1]

\* The next state.
Advance(o) ==
    /\ progress[o] + 1 < Last
    /\ Proceed(o)
    /\ UNCHANGED <<repairing, occurrences, seen, stuck, orchestratorVars, clock, case>>

\* The last: succeeded, which ends the diagnostic, rolled_back or rollback_failed.
Finish(o) ==
    /\ progress[o] + 1 = Last
    /\ Proceed(o)
    /\ repairing' = NoRepair
    /\ \/ /\ occurrences' = [occurrences EXCEPT ![DiagOf[o]] = 0] /\ seen' = [seen EXCEPT ![DiagOf[o]] = 0]
          /\ UNCHANGED stuck
       \/ UNCHANGED <<occurrences, seen, stuck>>
       \/ stuck' = stuck \cup {DiagOf[o]} /\ UNCHANGED <<occurrences, seen>>
    /\ UNCHANGED <<orchestratorVars, clock, case>>
-----------------------------------------------------------------------------
(* Flush, the reporter's goroutine. *)

StartFlush ==
    /\ flush = NoFlush
    /\ queue # <<>>
    /\ flush' = [NoFlush EXCEPT !.left = Len(queue)]
    /\ UNCHANGED <<senderVars, queue, lane, pending, nextSeq, orchestratorVars, clock, case>>

\* The snapshot that was enqueued first.
Earliest(item) == \A i \in DOMAIN queue : ~IsOp(queue[i]) => item.seq <= queue[i].seq

\* The head of the queue must wait.
MustWait(item) ==
    IF IsOp(item) THEN \/ item.op \in flush.blocked
                       \/ lane[item.op].quarantined
                       \/ pending[DiagOf[item.op]] > 0
                  ELSE ~Earliest(item)

Rotated == Append(Tail(queue), Head(queue))
Pass == [flush EXCEPT !.left = @ - 1, !.item = Nothing]

\* The flush ends when it has gone through its items or the queue is empty.
EndFlush ==
    /\ flush # NoFlush /\ flush.item = Nothing
    /\ flush.left = 0 \/ queue = <<>>
    /\ flush' = NoFlush
    /\ UNCHANGED <<senderVars, queue, lane, pending, nextSeq, orchestratorVars, clock, case>>

Taking == flush.left > 0 /\ flush.item = Nothing /\ queue # <<>>

Rotate ==
    /\ Taking /\ MustWait(Head(queue))
    /\ queue' = Rotated
    /\ flush' = Pass
    /\ UNCHANGED <<senderVars, lane, pending, nextSeq, orchestratorVars, clock, case>>

Take ==
    /\ Taking /\ ~MustWait(Head(queue))
    /\ flush' = [flush EXCEPT !.item = Head(queue)]
    /\ UNCHANGED <<senderVars, queue, lane, pending, nextSeq, orchestratorVars, clock, case>>
-----------------------------------------------------------------------------
(* The orchestrator's handler, under recoveryMu. *)

\* No other operation on the resource is under way.
NoneActive(o) == \A p \in Repairs \ {o} : DiagOf[p] = DiagOf[o] => stored[p] \in {0, Last}

\* persistReportedOperation: created by its first report, advanced by the next, and
\* a report of a state it has been through is welcome.
Created(item) ==
    stored[item.op] = 0 /\ item.at = 1 /\ item.op \notin Requested /\ DiagOf[item.op] \in ActiveDiags /\ NoneActive(item.op)
Advanced(item) == stored[item.op] > 0 /\ item.at = stored[item.op] + 1
Replayed(item) == stored[item.op] > 0 /\ item.at <= stored[item.op]
Accepts(item)  == IsOp(item) => Created(item) \/ Advanced(item) \/ Replayed(item)

\* UpsertDiagnostic: what was seen since it was resolved is active again.
Upserted(item, d) ==
    LET at == item.times[d]
    IN  IF at >= entry[d].seen /\ (entry[d].resolved = 0 \/ at > entry[d].resolved)
        THEN [seen |-> at, resolved |-> 0] ELSE entry[d]
\* ResolveMissingDiagnostics, at the time the report is taken.
Missing(item) == ActiveDiags \ Named(item)

Receive(item) ==
    IF ~IsOp(item)
    THEN /\ entry' = [d \in Diags |-> IF d \in Named(item) THEN Upserted(item, d)
                         ELSE IF d \in Missing(item) THEN [entry[d] EXCEPT !.resolved = clock] ELSE entry[d]]
         /\ clock' = IF Missing(item) = {} THEN clock ELSE clock + 1
         /\ seenAgain' = (seenAgain \/ \E d \in Missing(item) : occurrences[d] > 0 \/ pending[d] > 0)
         /\ UNCHANGED <<stored, totals>>
    ELSE /\ stored' = [stored EXCEPT ![item.op] = IF item.at > @ THEN item.at ELSE @]
         /\ totals' = [totals EXCEPT ![item.op] =
               IF item.at = Last /\ stored[item.op] # Last THEN @ + 1 ELSE @]
         /\ UNCHANGED <<entry, clock, seenAgain>>

\* handleCreateRepair: a user's operation starts here.
RequestRepair(o) ==
    /\ stored[o] = 0 /\ DiagOf[o] \in ActiveDiags
    /\ NoneActive(o)
    /\ stored' = [stored EXCEPT ![o] = 1]
    /\ UNCHANGED <<senderVars, reporterVars, entry, totals, seenAgain, clock, case>>
-----------------------------------------------------------------------------
(* Sending the item taken. *)

\* It is still at the head, or an equal one is.
AtHead == queue # <<>> /\ SameKey(Head(queue), flush.item)

\* Delivered and answered.
Sent ==
    LET item == flush.item IN
    /\ item # Nothing /\ Accepts(item)
    /\ Receive(item)
    /\ IF ~AtHead THEN UNCHANGED <<queue, lane, pending>>
       ELSE /\ queue' = Tail(queue)
            /\ IF IsOp(item)
               THEN /\ lane' = [lane EXCEPT ![item.op] = WithOneLess(@)]
                    /\ UNCHANGED pending
               ELSE /\ pending' = [d \in Diags |->
                          pending[d] - IF d \in Named(item) THEN 1 ELSE 0]
                    /\ UNCHANGED lane
    /\ flush' = Pass
    /\ UNCHANGED <<senderVars, nextSeq, case>>

\* Not delivered for good in this flush: to the tail; a refusal quarantines the operation.
NotSent(refused) ==
    LET item == flush.item IN
    /\ item # Nothing
    /\ IF ~AtHead THEN flush' = Pass /\ UNCHANGED <<queue, lane>>
       ELSE /\ queue' = Rotated
            /\ flush' = [Pass EXCEPT !.blocked = IF IsOp(item) THEN @ \cup {item.op} ELSE @]
            /\ lane' = IF IsOp(item) /\ refused
                       THEN [lane EXCEPT ![item.op].quarantined = TRUE] ELSE lane
    /\ UNCHANGED <<senderVars, pending, nextSeq, orchestratorVars, clock>>

Refused == flush.item # Nothing /\ ~Accepts(flush.item) /\ NotSent(TRUE) /\ UNCHANGED case
\* Five attempts in vain.
SendFails == case.fails /\ Spend("fail") /\ NotSent(FALSE)
\* Delivered, the answer is lost: it is sent again.
Lost ==
    /\ flush.item # Nothing /\ Accepts(flush.item)
    /\ Spend("lose")
    /\ Receive(flush.item)
    /\ UNCHANGED <<senderVars, reporterVars>>

-----------------------------------------------------------------------------
CoordinatorSteps == \E o \in Repairs : Begin(o) \/ Advance(o) \/ Finish(o)
Inspection == (\E d \in Diags : Observe(d)) \/ \E these \in SUBSET Diags : InspectAnew(these)
Reporter == StartFlush \/ EndFlush \/ Rotate \/ Take \/ Sent \/ Refused

ReportsNext == CoordinatorSteps \/ Inspection \/ Reporter \/ SendFails \/ Lost \/ \E o \in Requested : RequestRepair(o)

ReportsSpec == ReportsInit /\ [][ReportsNext]_reportsVars

\* Run goes on flushing, and a repair under way ends.
ReportsFairness == WF_reportsVars(Reporter) /\ WF_reportsVars(\E o \in Repairs : Advance(o) \/ Finish(o))
ReportsFairSpec == ReportsSpec /\ ReportsFairness
-----------------------------------------------------------------------------
(* Properties. *)

\* What the reporter counts is what it queues, whatever is superseded, rotated or still
\* on the wire when the queue moves under it: no operation waits for a snapshot that is
\* gone, and a lane is given back exactly when its last report was delivered.  The
\* orchestrator counts an outcome once, however often its report arrives.
CountsExact ==
    /\ \A o \in Repairs : totals[o] = IF stored[o] = Last THEN 1 ELSE 0
    /\ \A d \in Diags : pending[d] = Count(queue, d)
    /\ \A o \in Repairs :
          /\ lane[o].pending = Cardinality({i \in DOMAIN queue : IsOp(queue[i]) /\ queue[i].op = o})
          /\ lane[o].admitted <=> lane[o].pending > 0 \/ progress[o] \in 1..(Last - 1)

Sending(o, i) == flush.item = Op(o, i)

\* While no send fails, no state is sent before the ones that lead to it, nor the first
\* before the orchestrator knows the diagnostic (reporter_test.go:212: diagnostic before
\* dependent operation), unless the diagnostic is seen again meanwhile or a snapshot was
\* dropped for an older one.
Undisturbed == ~case.fails /\ ~seenAgain
InSequence ==
    Undisturbed => \A o \in Repairs, i \in 1..Last :
        Sending(o, i) => i <= stored[o] + 1 /\ (stored[o] = 0 => DiagOf[o] \in ActiveDiags)

\* The two together: nothing the reporter keeps or sends is out of step with the orchestrator.
ReportsKept == CountsExact /\ InSequence

\* The first report of an automatic repair comes when another repair of the diagnostic is
\* under way at the orchestrator, which a user asked for meanwhile: it is refused with 409
\* and the operation quarantined.
Crossed(o) == progress[o] > 0 /\ stored[o] = 0 /\ ~NoneActive(o)

\* Unless that happens, or what InSequence excepts, or a send fails, the orchestrator learns
\* the outcome of every operation the agent begins.
Delivered ==
    \A o \in Repairs :
        <>Crossed(o) \/ (progress[o] > 0 ~> stored[o] = Last \/ ~Undisturbed)

\* "preserving every admitted operation's ordered state sequence through its terminal
\* outcome" (reporter.go:72): whatever is seen meanwhile, the states of an operation are
\* sent in their order.
OrderKept == ~case.fails => \A o \in Repairs, i \in 1..Last : Sending(o, i) => i <= stored[o] + 1
================================================================================
