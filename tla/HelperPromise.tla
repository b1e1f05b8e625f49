---------------------------- MODULE HelperPromise ----------------------------
(***************************************************************************)
(* What the privileged helper promises of a host, whatever its process does: *)
(* an operation takes effect whole, in one step, or not at all; where that    *)
(* cannot be said it is in doubt, and from then on nothing takes effect any    *)
(* more.  There is no journal, no process and no step in between here.          *)
(***************************************************************************)
CONSTANTS
    Ops,            \* operations the orchestrator has authorised
    Things,         \* what an operation may write: files, links, the service
    Targets,        \* Targets[o]: what o is to write
    Before, Edited, \* content that was there, content an operator put there
    None

VARIABLES
    live,           \* what is on the host, without what is not yet decided
    outcome,        \* how an operation ended
    told,           \* the outcome the orchestrator has on record
    lapses          \* what the helper cannot stand: a recovery that loses the latch ("relatch"),
                    \* a write that took effect and was reported as failed ("sync")

pvars == <<live, outcome, told, lapses>>

Outcomes == {"open", "succeeded", "failed_before_mutation", "rolled_back", "doubt", "forgotten"}

PromiseInit ==
    /\ live \in [Things -> Ops \cup {Before}]
    /\ outcome = [o \in Ops |-> "open"]
    /\ told = [o \in Ops |-> None]
    /\ lapses \subseteq {"relatch", "sync"}

Latched == \E o \in Ops : outcome[o] = "doubt"

(* The orchestrator hears of it at once, later, or never; but nothing else.    *)
Heard(o, said) == told' \in {told, [told EXCEPT ![o] = said]}
Ends(o, how)   == outcome[o] = "open" /\ outcome' = [outcome EXCEPT ![o] = how]

(* Everything o was to write is there, but for what an operator changed since.  *)
Commit(o) ==
    /\ Latched => "relatch" \in lapses
    /\ Ends(o, "succeeded")
    /\ \A t \in Targets[o] : live'[t] = o \/ (live[t] = Edited /\ live'[t] = Edited)
    /\ \A t \in Things \ Targets[o] : live'[t] = live[t]
    /\ Heard(o, "succeeded")

(* Nothing o was to write is there.                                           *)
Abandon(o) ==
    /\ \E how \in {"failed_before_mutation", "rolled_back"} : Ends(o, how) /\ Heard(o, how)
    /\ \A t \in Things : live'[t] # live[t] => t \in Targets[o] /\ live'[t] = o /\ "sync" \in lapses

(* Nobody can say what of it is there.                                          *)
Doubt(o) ==
    /\ Ends(o, "doubt")
    /\ \A t \in Things \ Targets[o] : live'[t] = live[t]
    /\ Heard(o, "rollback_failed")

(* What had nothing left to write succeeded without a trace.                   *)
Converge(o) ==
    /\ outcome[o] = "open" /\ \A t \in Targets[o] : live[t] = o
    /\ told' = [told EXCEPT ![o] = "succeeded"]
    /\ UNCHANGED <<live, outcome>>

Tell(o) ==
    /\ told[o] = None
    /\ \/ outcome[o] \in {"succeeded", "failed_before_mutation", "rolled_back"} /\ told' = [told EXCEPT ![o] = outcome[o]]
       \/ /\ outcome[o] = "doubt"
          /\ \E said \in {"rollback_failed", "outcome_indeterminate"} : told' = [told EXCEPT ![o] = said]
    /\ UNCHANGED <<live, outcome>>

(* What has ended may be forgotten; it is not done again.                       *)
Forget(o) ==
    /\ outcome[o] \in {"succeeded", "failed_before_mutation", "rolled_back"}
    /\ outcome' = [outcome EXCEPT ![o] = "forgotten"]
    /\ UNCHANGED <<live, told>>

(* But an edit of what an operation in progress is about may be lost: to its write,  *)
(* or to what was there when it began.                                               *)
LoseEdit(o) ==
    /\ outcome[o] = "open"
    /\ \E t \in Targets[o], c \in Ops \cup {Before} : live[t] = Edited /\ live' = [live EXCEPT ![t] = c]
    /\ UNCHANGED <<outcome, told>>

OperatorEdits ==
    /\ \E t \in Things : live' = [live EXCEPT ![t] = Edited]
    /\ UNCHANGED <<outcome, told>>

PromiseNext ==
    \/ OperatorEdits
    \/ \E o \in Ops : Commit(o) \/ Abandon(o) \/ Doubt(o) \/ Converge(o) \/ Tell(o) \/ Forget(o) \/ LoseEdit(o)

PromiseSpec == PromiseInit /\ [][PromiseNext /\ UNCHANGED lapses]_pvars
=============================================================================
