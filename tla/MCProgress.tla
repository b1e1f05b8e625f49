------------------------------ MODULE MCProgress ------------------------------
(* What must come to an end: repairs, and the reports of them.  In each behaviour *)
(* one of the two runs, and the other rests.                                      *)
EXTENDS Recovery, MCRecoveryReports
CONSTANTS o1, o2, r1

(* Instances of Recovery: one resource, repaired by every operation; the agent  *)
(* crashes, or every fault there is.                                            *)
ToOne == [o \in Ops |-> r1]
MCFaultSets == {{"crash"}, {"crash", "disk", "retention"}}

RepairsRest ==
    /\ files = [r \in Resources |-> [Initial EXCEPT !.kind = "good"]] /\ writes = 0
    /\ disk = [o \in Ops |-> NoManifest] /\ running = TRUE /\ resuming = {}
    /\ found = [r \in Resources |-> None] /\ memory = [o \in Ops |-> "none"] /\ cur = Idle
    /\ latched = {} /\ executed = [o \in Ops |-> 0] /\ damaged = {}
    /\ left = [may |-> {}, faults |-> 0, writes |-> 0]
ReportsRest ==
    /\ occurrences = [d \in Diags |-> 0] /\ seen = occurrences /\ clock = 1 /\ seenAgain = FALSE /\ repairing = NoRepair
    /\ progress = [o \in Repairs |-> 0] /\ stuck = {}
    /\ queue = <<>> /\ lane = [o \in Repairs |-> NotAdmitted]
    /\ pending = [d \in Diags |-> 0] /\ nextSeq = 1 /\ flush = NoFlush
    /\ stored = [o \in Repairs |-> 0] /\ entry = [d \in Diags |-> NoEntry] /\ totals = [o \in Repairs |-> 0]
    /\ case = Case(OfOne, 1, 0, 0, 0, 0)

ProgressInit == (Init /\ ReportsRest) \/ (RepairsRest /\ ReportsInit)
ProgressNext == (Next /\ UNCHANGED reportsVars) \/ (ReportsNext /\ UNCHANGED vars)
ProgressSpec ==
    ProgressInit /\ [][ProgressNext]_<<vars, reportsVars>> /\ RecoveryFairness /\ ReportsFairness
===============================================================================
