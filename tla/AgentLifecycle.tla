---------------------------- MODULE AgentLifecycle ----------------------------
(***************************************************************************)
(* The life of an agent, from its registration to its deletion: the row     *)
(* the orchestrator keeps, and who writes it.  An agent registers once per  *)
(* start and then waits for its adoption; once it runs it beats and holds a *)
(* stream.  Operators adopt, edit, reject, delete, and set the policy of    *)
(* automatic repairs, and the reconciler marks who is silent.  Each of them *)
(* reads the row and writes it in steps of its own.                         *)
(*                                                                          *)
(* Of what an agent reports only its age is kept: facts counts the states   *)
(* of a host, and a column holds the one it was last told.                  *)
(***************************************************************************)
EXTENDS Naturals, Sequences, FiniteSets

CONSTANTS
    Ids,        \* the ids an agent makes for itself, one per data directory
    Fqdns,      \* the names an agent can have
    Unlisted,   \* no row
    Slots,      \* requests of operators that may be under way together
    Backlog,    \* events a stream holds before it drops one
    Lives       \* what may happen: in each behaviour one of these

AgentStates == {"pending", "adopted", "offline"}
AgentRows ==
    [status : AgentStates, fqdn : Fqdns, seen : {"never", "fresh", "stale"},
     override : {"inherit", "enabled", "disabled"},
     ip : Nat, health : Nat, detected : Nat, narrow : Nat, version : Nat]
AgentLives ==
    [id : Ids, fqdn : Fqdns, adopted : BOOLEAN, events : SUBSET STRING, count : Nat, news : Nat]
ASSUME LifecycleAssumptions ==
    Unlisted \notin Ids \cup AgentRows /\ Backlog \in Nat \ {0} /\ Lives \subseteq AgentLives

VARIABLES
    listed,     \* listed[i]: the row of agent i, or Unlisted
    global,     \* the setting safe_auto_repair
    host,       \* the agent's process
    line,       \* its stream, and the handler that serves it
    beat,       \* the heartbeat under way
    asked,      \* asked[s]: the request of an operator under way
    sweep,      \* sweep[i]: the status the reconciler is about to give i
    said,       \* said[i]: what operators last decided about agent i (history)
    spare       \* what is left of the behaviour's plan

lifeVars == <<listed, global, host, line, beat, asked, sweep, said, spare>>

-----------------------------------------------------------------------------
(* Rows. *)

Known(i) == listed[i] # Unlisted
Taken(f, i) == \E j \in Ids \ {i} : Known(j) /\ listed[j].fqdn = f

\* A new row: nothing was heard of the agent but its registration.
Entered(f, n) ==
    [status |-> "pending", fqdn |-> f, seen |-> "never", override |-> "inherit",
     ip |-> n, health |-> 0, detected |-> n, narrow |-> 0, version |-> n]

\* The mode of one agent counts only once the setting has been made.
Effective(e) ==
    CASE global = "unset" -> FALSE
      [] e.override = "inherit" -> global = "true"
      [] OTHER -> e.override = "enabled"

\* A full write of a row from a copy read before; what it leaves alone is the mode of
\* repairs and what only heartbeats write.
FullWrite(i, e) == [e EXCEPT !.override = listed[i].override, !.narrow = listed[i].narrow]

Quiet == \A s \in Slots : asked[s].pc = "none"
Request(pc, id, copy) == [pc |-> pc, id |-> id, copy |-> copy, told |-> [i \in {} |-> FALSE]]
NoRequest == Request("none", Unlisted, Unlisted)
NoBeat == [pc |-> "none", id |-> Unlisted, facts |-> 0, blank |-> FALSE, prev |-> "pending",
           fresh |-> Unlisted, policy |-> FALSE, heard |-> FALSE, calm |-> FALSE]
Silent == [pc |-> "off", prev |-> "pending", queue |-> <<>>]
NoSweep == [i \in {} |-> "adopted"]

LifecycleInit ==
    /\ spare \in Lives
    /\ global = "unset"
    /\ host = [pc |-> IF spare.adopted THEN "running" ELSE "registering", id |-> spare.id,
               fqdn |-> spare.fqdn, facts |-> 1, policy |-> "unknown"]
    /\ listed = [i \in Ids |-> IF spare.adopted /\ i = spare.id
                    THEN [Entered(spare.fqdn, 1) EXCEPT !.status = "adopted"] ELSE Unlisted]
    /\ line = Silent /\ beat = NoBeat /\ sweep = NoSweep
    /\ asked = [s \in Slots |-> NoRequest]
    /\ said = [i \in Ids |-> [fqdn |-> spare.fqdn, pending |-> ~spare.adopted, override |-> "inherit"]]

\* A bound: what is left of the plan.
Occurs(what) ==
    /\ spare.count > 0 /\ what \in spare.events
    /\ spare' = [spare EXCEPT !.count = @ - 1]

\* Somebody else acted while a heartbeat was served (history).
Disturbs == beat' = [beat EXCEPT !.calm = FALSE]

-----------------------------------------------------------------------------
(* The agent until it runs. *)

Waits == host' = [host EXCEPT !.pc = "waiting"]

\* POST .../register: refused when the name or the id is known.
Register ==
    /\ host.pc = "registering"
    /\ IF Known(host.id) \/ Taken(host.fqdn, host.id)
       THEN UNCHANGED <<listed, said>>
       ELSE /\ listed' = [listed EXCEPT ![host.id] = Entered(host.fqdn, host.facts)]
            /\ said' = [said EXCEPT ![host.id] = [fqdn |-> host.fqdn, pending |-> TRUE, override |-> "inherit"]]
    /\ Waits /\ Disturbs
    /\ UNCHANGED <<global, line, asked, sweep, spare>>

\* The orchestrator cannot be reached, or refuses one registration too many.
RegisterFails ==
    /\ host.pc = "registering" /\ Occurs("unreachable") /\ Waits
    /\ UNCHANGED <<listed, global, line, beat, asked, sweep, said>>

\* The agent asks for its status every few seconds, and for nothing else.
Poll ==
    /\ host.pc = "waiting" /\ Known(host.id) /\ listed[host.id].status # "pending"
    /\ host' = [host EXCEPT !.pc = "running"]
    /\ UNCHANGED <<listed, global, line, beat, asked, sweep, said, spare>>

\* The process ends and starts again, with the version and the state of the host that
\* are current then, and with a new identity when its data directory was lost.
Restart(i) ==
    /\ IF i = host.id THEN Occurs("restart") ELSE Occurs("lost")
    /\ host' = [host EXCEPT !.pc = "registering", !.id = i, !.policy = "unknown",
                            !.facts = IF @ < spare.news THEN @ + 1 ELSE @]
    /\ line' = Silent /\ beat' = [beat EXCEPT !.heard = FALSE]
    /\ UNCHANGED <<listed, global, asked, sweep, said>>

-----------------------------------------------------------------------------
(* The heartbeat: what the handler reads and writes, in the order of the code. *)

BeatAt(pc) == beat.pc = pc
Then(pc) == beat' = [beat EXCEPT !.pc = pc]
BeatGone == beat' = NoBeat
BeatKeeps == UNCHANGED <<global, host, line, asked, sweep, said, spare>>

\* The agent sends what it knows; its address may have been undetectable.
SendBeat(blank) ==
    /\ host.pc = "running" /\ BeatAt("none") /\ Known(host.id)
    /\ blank => "restart" \in spare.events
    /\ beat' = [NoBeat EXCEPT !.pc = "health", !.id = host.id, !.facts = host.facts, !.blank = blank,
                              !.prev = listed[host.id].status, !.heard = TRUE,
                              !.calm = Quiet /\ sweep = NoSweep /\ line.queue = <<>> /\ line.pc # "joining"]
    /\ BeatKeeps /\ UNCHANGED listed

BeatHealth ==
    /\ BeatAt("health")
    /\ IF Known(beat.id)
       THEN /\ listed' = [listed EXCEPT ![beat.id] =
                   [@ EXCEPT !.seen = "fresh", !.health = beat.facts,
                             !.ip = IF beat.blank THEN listed[beat.id].ip ELSE beat.facts]]
            /\ Then("details")
       ELSE BeatGone /\ UNCHANGED listed
    /\ BeatKeeps

\* Detection, capabilities, permissions and recovery capability, each a write of its
\* own that leaves the others' columns alone.
BeatDetails ==
    /\ BeatAt("details") /\ Then("online")
    /\ listed' = IF Known(beat.id)
                 THEN [listed EXCEPT ![beat.id] = [@ EXCEPT !.detected = beat.facts, !.narrow = beat.facts]]
                 ELSE listed
    /\ BeatKeeps

\* Mutant: whether the agent was silent is read after it has been heard.
MutBeatOnline ==
    /\ BeatAt("online") /\ beat' = [beat EXCEPT !.pc = "reread", !.prev = "pending"]
    /\ listed' = IF Known(beat.id) /\ listed[beat.id].seen # "fresh"
                 THEN [listed EXCEPT ![beat.id].status = "adopted"] ELSE listed
    /\ BeatKeeps
\* An agent that was marked offline is back.
BeatOnline ==
    /\ BeatAt("online") /\ beat' = [beat EXCEPT !.pc = "reread", !.prev = "pending"]
    /\ listed' = IF Known(beat.id) /\ beat.prev = "offline"
                 THEN [listed EXCEPT ![beat.id].status = "adopted"] ELSE listed
    /\ BeatKeeps

BeatReread ==
    /\ BeatAt("reread")
    /\ IF Known(beat.id)
       THEN beat' = [beat EXCEPT !.pc = "version", !.fresh = listed[beat.id],
                                 !.policy = Effective(listed[beat.id])]
       ELSE BeatGone
    /\ BeatKeeps /\ UNCHANGED listed

\* Mutant: the version is stored with the whole row that was read.
MutBeatVersion ==
    /\ BeatAt("version") /\ beat' = [beat EXCEPT !.pc = "answer", !.fresh = Unlisted]
    /\ listed' = IF Known(beat.id) /\ beat.fresh.version # beat.facts
                 THEN [listed EXCEPT ![beat.id] = FullWrite(beat.id, [beat.fresh EXCEPT !.version = beat.facts])]
                 ELSE listed
    /\ BeatKeeps
BeatVersion ==
    /\ BeatAt("version") /\ beat' = [beat EXCEPT !.pc = "answer", !.fresh = Unlisted]
    /\ listed' = IF Known(beat.id) /\ beat.fresh.version # beat.facts
                 THEN [listed EXCEPT ![beat.id].version = beat.facts] ELSE listed
    /\ BeatKeeps

\* The answer carries the policy of automatic repairs.
BeatAnswer ==
    /\ BeatAt("answer") /\ BeatGone
    /\ host' = IF beat.heard THEN [host EXCEPT !.policy = IF beat.policy THEN "on" ELSE "off"] ELSE host
    /\ UNCHANGED <<listed, global, line, asked, sweep, said, spare>>

AnswerLost ==
    /\ BeatAt("answer") /\ Occurs("unreachable") /\ BeatGone
    /\ UNCHANGED <<listed, global, host, line, asked, sweep, said>>

-----------------------------------------------------------------------------
(* The stream.  Connecting is a proof of life too, and so is every keepalive. *)

Connect ==
    /\ host.pc = "running" /\ line.pc = "off" /\ Known(host.id) /\ "connect" \in spare.events
    /\ line' = [pc |-> "joining", prev |-> listed[host.id].status, queue |-> <<>>]
    /\ Disturbs /\ UNCHANGED <<listed, global, host, asked, sweep, said, spare>>

MarkAgentOnline ==
    /\ line.pc = "joining" /\ line' = [line EXCEPT !.pc = "open", !.prev = "pending"]
    /\ listed' = IF Known(host.id)
                 THEN [listed EXCEPT ![host.id] =
                         [@ EXCEPT !.seen = "fresh",
                                   !.status = IF line.prev = "offline" THEN "adopted" ELSE listed[host.id].status]]
                 ELSE listed
    /\ Disturbs /\ UNCHANGED <<global, host, asked, sweep, said, spare>>

Keepalive ==
    /\ line.pc = "open" /\ Known(host.id) /\ listed[host.id].seen # "fresh"
    /\ listed' = [listed EXCEPT ![host.id].seen = "fresh"]
    /\ Disturbs /\ UNCHANGED <<global, host, line, asked, sweep, said, spare>>

\* The agent takes the next policy from its stream.
HandlePolicy ==
    /\ line.queue # <<>>
    /\ host' = [host EXCEPT !.policy = IF Head(line.queue) THEN "on" ELSE "off"]
    /\ line' = [line EXCEPT !.queue = Tail(@)]
    /\ Disturbs /\ UNCHANGED <<listed, global, asked, sweep, said, spare>>

Disconnect ==
    /\ line.pc # "off" /\ Occurs("unreachable") /\ line' = Silent
    /\ UNCHANGED <<listed, global, host, beat, asked, sweep, said>>

-----------------------------------------------------------------------------
(* Requests of operators: read, then write. *)

Free(s) == asked[s].pc = "none" /\ \A t \in Slots : t < s => asked[t].pc # "none"
Asks(s, r) == asked' = [asked EXCEPT ![s] = r]
Done(s) == asked' = [asked EXCEPT ![s] = NoRequest]
RequestKeeps == Disturbs /\ UNCHANGED <<host, sweep>>

\* PUT .../adopt and PUT .../{id}, with another name or the same, up to the write.
ReadAgent(s, i, f, adopts) ==
    /\ Free(s) /\ Known(i) /\ ~Taken(f, i)
    /\ IF adopts THEN Occurs("adopt") /\ listed[i].status = "pending" ELSE Occurs("update")
    /\ Asks(s, Request("write", i,
                       [listed[i] EXCEPT !.fqdn = f, !.status = IF adopts THEN "adopted" ELSE listed[i].status]))
    /\ RequestKeeps /\ UNCHANGED <<listed, global, line, said>>

\* The row is gone, or another agent has its new name by now: nothing is written.
WriteAgent(s) ==
    /\ asked[s].pc = "write"
    /\ LET i == asked[s].id  e == asked[s].copy IN
       IF Known(i) /\ ~Taken(e.fqdn, i)
       THEN /\ listed' = [listed EXCEPT ![i] = FullWrite(i, e)]
            /\ said' = [said EXCEPT ![i] = [@ EXCEPT !.fqdn = e.fqdn, !.pending = e.status = "pending"]]
       ELSE UNCHANGED <<listed, said>>
    /\ Done(s) /\ RequestKeeps /\ UNCHANGED <<global, line, spare>>

\* PUT .../reject looks at a pending agent; DELETE has made sure that no domain is left.
ReadForReject(s, i) ==
    /\ Free(s) /\ Known(i)
    /\ \/ Occurs("reject") /\ listed[i].status = "pending"
       \/ Occurs("delete")
    /\ Asks(s, Request("delete", i, Unlisted))
    /\ RequestKeeps /\ UNCHANGED <<listed, global, line, said>>

DeleteAgent(s) ==
    /\ asked[s].pc = "delete"
    /\ listed' = [listed EXCEPT ![asked[s].id] = Unlisted]
    /\ Done(s) /\ RequestKeeps /\ UNCHANGED <<global, line, said, spare>>

\* PUT .../safe-auto-repair, and the setting all agents inherit: the write.
SetOverride(s, i, o) ==
    /\ Free(s) /\ Known(i) /\ Occurs("policy")
    /\ listed' = [listed EXCEPT ![i].override = o]
    /\ said' = [said EXCEPT ![i].override = o]
    /\ Asks(s, Request("read", i, Unlisted))
    /\ RequestKeeps /\ UNCHANGED <<global, line>>
SetGlobal(s, g) ==
    /\ Free(s) /\ Occurs("policy") /\ global' = g
    /\ Asks(s, Request("read", Unlisted, Unlisted))
    /\ RequestKeeps /\ UNCHANGED <<listed, line, said>>

\* What is in effect now is read again, and then published.
ReadPolicy(s) ==
    /\ asked[s].pc = "read"
    /\ LET of == {i \in Ids : Known(i) /\ asked[s].id \in {i, Unlisted}}
       IN  Asks(s, [Request("publish", asked[s].id, Unlisted) EXCEPT !.told = [i \in of |-> Effective(listed[i])]])
    /\ RequestKeeps /\ UNCHANGED <<listed, global, line, said, spare>>

\* An agent without a stream, or with a full one, hears nothing.
PublishPolicy(s) ==
    /\ asked[s].pc = "publish"
    /\ line' = IF line.pc # "off" /\ host.id \in DOMAIN asked[s].told /\ Len(line.queue) < Backlog
               THEN [line EXCEPT !.queue = Append(@, asked[s].told[host.id])] ELSE line
    /\ Done(s) /\ RequestKeeps /\ UNCHANGED <<listed, global, said, spare>>

-----------------------------------------------------------------------------
(* The reconciler's check of who is silent. *)

\* Time passes: the row has not been refreshed for longer than the timeout.
FallsSilent(i) ==
    /\ Known(i) /\ listed[i].seen = "fresh" /\ Occurs("silence")
    /\ listed' = [listed EXCEPT ![i].seen = "stale"]
    /\ Disturbs /\ UNCHANGED <<global, host, line, asked, sweep, said>>

Watched(e) == e # Unlisted /\ e.status \in {"adopted", "offline"}
Changes(e) == IF e.seen = "fresh" THEN e.status = "offline" ELSE e.status = "adopted"

\* Rows whose status is right are passed over.
ListAgentRows ==
    /\ sweep = NoSweep
    /\ LET wrong == {i \in Ids : IF Watched(listed[i]) THEN Changes(listed[i]) ELSE FALSE}
       IN  wrong # {} /\ sweep' = [i \in wrong |-> IF listed[i].seen = "fresh" THEN "adopted" ELSE "offline"]
    /\ Disturbs /\ UNCHANGED <<listed, global, host, line, asked, said, spare>>

MarkAgent(i) ==
    /\ i \in DOMAIN sweep /\ sweep' = [j \in DOMAIN sweep \ {i} |-> sweep[j]]
    /\ listed' = IF Known(i)
                 THEN [listed EXCEPT ![i].status = sweep[i]]
                 ELSE listed
    /\ Disturbs /\ UNCHANGED <<global, host, line, asked, said, spare>>

-----------------------------------------------------------------------------
AgentSteps ==
    \/ Register \/ Poll
    \/ \E blank \in BOOLEAN : SendBeat(blank)
    \/ BeatHealth \/ BeatDetails \/ BeatOnline \/ BeatReread \/ BeatVersion \/ BeatAnswer
    \/ Connect \/ MarkAgentOnline \/ Keepalive \/ HandlePolicy
HandlerSteps ==
    \/ \E s \in Slots : WriteAgent(s) \/ DeleteAgent(s) \/ ReadPolicy(s) \/ PublishPolicy(s)
    \/ ListAgentRows \/ \E i \in Ids : MarkAgent(i)
Environment ==
    \/ RegisterFails \/ AnswerLost \/ Disconnect
    \/ \E i \in Ids : Restart(i) \/ FallsSilent(i)
    \/ \E s \in Slots, i \in Ids :
          \/ \E f \in Fqdns, adopts \in BOOLEAN : ReadAgent(s, i, f, adopts)
          \/ ReadForReject(s, i)
          \/ \E o \in {"inherit", "enabled", "disabled"} : SetOverride(s, i, o)
    \/ \E s \in Slots, g \in {"true", "false"} : SetGlobal(s, g)

LifecycleNext == AgentSteps \/ HandlerSteps \/ Environment
LifecycleSpec == LifecycleInit /\ [][LifecycleNext]_lifeVars
\* The agent and the handlers do not stop; nothing obliges operators or the network.
LifecycleFairSpec == LifecycleSpec /\ WF_lifeVars(AgentSteps) /\ WF_lifeVars(HandlerSteps)

-----------------------------------------------------------------------------
(* Properties. *)

\* What operators decided is in the row until they decide otherwise: no heartbeat and no
\* sweep that read the row before gives an agent its old name, puts it back to pending or
\* changes the mode of its repairs ("could revert a rename made concurrently through the
\* API", agents.go:578).
DecisionsKept ==
    \A i \in Ids : Known(i) =>
        /\ listed[i].fqdn = said[i].fqdn /\ listed[i].override = said[i].override
        /\ listed[i].status = "pending" => said[i].pending

\* An undisturbed heartbeat is answered, and the answer arrives.
Answered == BeatAt("answer") /\ beat.calm /\ beat.heard /\ beat' = NoBeat /\ spare' = spare
\* Whatever interleaved before, stale copies written back and policies overtaken, one
\* heartbeat that nobody disturbs makes the row and the agent agree again: it is not
\* offline, every column is what the agent reported, and its repairs follow the policy.
BeatHeals ==
    [][Answered =>
        LET e == listed[beat.id] IN
        /\ e.status # "offline" /\ e.seen = "fresh"
        /\ {e.health, e.detected, e.narrow, e.version} = {beat.facts}
        /\ beat.blank \/ e.ip = beat.facts
        /\ host'.policy = IF Effective(e) THEN "on" ELSE "off"]_lifeVars

===============================================================================
