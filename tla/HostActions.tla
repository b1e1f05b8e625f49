------------------------------ MODULE HostActions ------------------------------
(***************************************************************************)
(* The single actions of the root helper (internal/agent/helper, the files actions_...):  *)
(* open the firewall, give the staging directory its owner and mode, extend     *)
(* the agent unit's sandbox, install the proxy's package, start, reload or       *)
(* restart it.  All follow one protocol, Plan, Prepare, Execute, Rollback, with   *)
(* facts read again at each stage; what they do in it differs.  HelperEngine has   *)
(* the transaction around them.                                                     *)
(***************************************************************************)
EXTENDS Naturals, Sequences

CONSTANT Tasks      \* what to consider: the host, the action, the mishaps, how many of them

Acts  == {"firewall", "access", "sandbox", "package", "start", "reload", "restart"}
Ports == {"80", "443"}

(* A port: closed, open by a rule with NurProxy's comment, or by another.      *)
(* paths: the effective unit lets the agent write where it must.               *)
HostStates ==
    [ufw : BOOLEAN, port : [Ports -> {"closed", "own", "theirs"}],
     owner : BOOLEAN, mode : BOOLEAN,
     dropin : {"absent", "ours", "theirs"}, paths : BOOLEAN, unit : BOOLEAN,
     binary : BOOLEAN, offer : {"safe", "removes", "other"},
     proxy : BOOLEAN, config : {"good", "better", "bad"}]
Troubles == {"fails", "lost", "edit"}

ASSUME TaskAssumptions ==
    Tasks \subseteq [host : HostStates, act : Acts, mishaps : SUBSET Troubles, budget : Nat]

VARIABLES
    host,
    task,       \* the action: where it is, the facts planned and snapshot, the steps left
    mishaps, spare,
    was,        \* history: the host when the snapshot was taken
    happened    \* history: the mishaps since then

taskVars == <<host, task, mishaps, spare, was, happened>>

TaskPcs == {"asked", "planned", "prepared", "run", "check", "undo", "undone", "done",
            "refused", "failed", "rolled_back", "rollback_failed"}
Act == task.act
In(pc) == task.pc = pc
On(pc) == [task EXCEPT !.pc = pc]

TaskInit ==
    \E t \in Tasks :
        /\ host = t.host /\ was = t.host
        /\ task = [act |-> t.act, pc |-> "asked", plan |-> <<>>, snap |-> <<>>, todo |-> <<>>, mutated |-> FALSE]
        /\ mishaps = t.mishaps /\ spare = t.budget
        /\ happened = {}

Use(m) == m \in mishaps /\ spare > 0 /\ spare' = spare - 1 /\ happened' = happened \cup {m}
Spared == UNCHANGED <<spare, happened>>
-----------------------------------------------------------------------------
(* The handlers: what each inspects (facts), whether it may begin (repairable),   *)
(* what it does in which order (steps), how it knows that it worked (proven),      *)
(* whether its work is found whole (undoable) and how it is undone (undos).         *)

Open(p) == host.port[p] # "closed"

(* Ports that are closed, in this order, and those that were, in the opposite one. *)
ClosedOne(h, p) == IF h.port[p] = "closed" THEN <<p>> ELSE <<>>
Additions == ClosedOne(host, "80") \o ClosedOne(host, "443")
Removals == ClosedOne(was, "443") \o ClosedOne(was, "80")

Firewall ==
    [facts      |-> <<host.ufw, host.port>>,
     repairable |-> host.ufw /\ \E p \in Ports : ~Open(p),
     steps      |-> Additions,
     proven     |-> host.ufw /\ \A p \in Ports : Open(p) /\ (was.port[p] = "closed" => host.port[p] = "own"),
     undoable   |-> host.ufw,
     undos      |-> Removals]

Access ==
    [facts      |-> <<host.owner, host.mode>>,
     repairable |-> ~(host.owner /\ host.mode),
     steps      |-> <<"chown", "chmod">>,
     proven     |-> host.owner /\ host.mode,
     undoable   |-> host.owner /\ host.mode,
     undos      |-> <<"chown", "chmod">>]

(* The unit's properties are parsed by a function that keeps LoadState,        *)
(* ActiveState and SubState only: ReadWritePaths is never among them.           *)
Writable == FALSE

Sandbox ==
    [facts      |-> <<host.unit, host.dropin, Writable>>,
     repairable |-> host.unit /\ ~Writable /\ host.dropin = "absent",
     steps      |-> <<"write", "daemon-reload", "restart-agent">>,
     proven     |-> host.unit /\ Writable /\ host.dropin = "ours",
     undoable   |-> host.dropin = "ours",
     undos      |-> <<"remove", "daemon-reload", "restart-agent">>]

(* Prepare and Execute look at the offered transaction only.                   *)
Package ==
    [facts      |-> <<host.offer>>,
     repairable |-> host.offer # "removes",
     steps      |-> <<"install">>,
     proven     |-> host.binary,
     undoable   |-> FALSE,
     undos      |-> <<>>]
(* Plan and Rediscover also look for the binary.                               *)
Missing == Act = "package" => ~host.binary

Valid == host.config # "bad"

Service == Act \in {"start", "reload", "restart"}
ProxyService ==
    [facts      |-> <<host.proxy, host.config>>,
     repairable |-> host.proxy = (Act # "start"),
     steps      |-> <<Act>>,
     proven     |-> Valid /\ host.proxy /\ host.config = was.config,
     undoable   |-> Act = "start",
     undos      |-> IF Act = "start" THEN <<"stop">> ELSE <<>>]

Handler ==
    CASE Act = "firewall" -> Firewall
      [] Act = "access" -> Access
      [] Act = "sandbox" -> Sandbox
      [] Act = "package" -> Package
      [] Service -> ProxyService

(* ufw allow with a comment replaces the comment of an equal rule.             *)
AllowPort(p)   == [host EXCEPT !.port[p] = "own"]
ActEffect(s) ==
    CASE s \in Ports -> AllowPort(s)
      [] s = "chown" -> [host EXCEPT !.owner = TRUE]
      [] s = "chmod" -> [host EXCEPT !.mode = TRUE]
      [] s = "write" -> [host EXCEPT !.dropin = "ours"]
      [] s = "daemon-reload" -> [host EXCEPT !.paths = (host.dropin = "ours")]
      [] s = "restart-agent" -> [host EXCEPT !.unit = TRUE]
      [] s = "install" -> [host EXCEPT !.binary = TRUE]
      [] s \in {"start", "restart"} -> [host EXCEPT !.proxy = (host.config # "bad")]
      [] s = "reload" -> host
-----------------------------------------------------------------------------
Still == <<mishaps, spare, happened>>

PlanTask ==
    /\ In("asked")
    /\ task' = IF Handler.repairable /\ Missing THEN [On("planned") EXCEPT !.plan = Handler.facts] ELSE On("refused")
    /\ UNCHANGED <<host, was, Still>>

(* Rediscover, when the grant comes back with the plan, and Prepare.           *)
PrepareTask ==
    /\ In("planned")
    /\ IF Handler.repairable /\ Missing /\ Handler.facts = task.plan
       THEN task' = [On("prepared") EXCEPT !.snap = Handler.facts] /\ was' = host /\ happened' = {}
       ELSE task' = On("failed") /\ UNCHANGED <<was, happened>>
    /\ UNCHANGED <<host, mishaps, spare>>

(* The facts are as in the snapshot; a service's configuration is valid.        *)
(* Whatever fails from here on counts as having changed the host, except at the  *)
(* firewall, which counts the rules it has added.                                 *)
BeginTask ==
    /\ In("prepared")
    /\ \/ /\ Handler.repairable /\ Handler.facts = task.snap /\ (Service => Valid)
          /\ task' = [On("run") EXCEPT !.todo = Handler.steps, !.mutated = (Act # "firewall")]
          /\ Spared
       \/ /\ ~(Handler.repairable /\ Handler.facts = task.snap /\ (Service => Valid))
          /\ task' = On("failed") /\ Spared
       \/ /\ Service /\ Use("fails")
          /\ task' = On("failed")
    /\ UNCHANGED <<host, was, mishaps>>

GiveUp == IF task.mutated THEN On("undo") ELSE On("failed")
Running == In("run") /\ task.todo # <<>>

ActStep ==
    /\ Running
    /\ host' = ActEffect(Head(task.todo))
    /\ task' = [task EXCEPT !.todo = Tail(@), !.mutated = TRUE]
    /\ UNCHANGED <<was, Still>>

(* A command fails, or does what it should and its answer is lost (runBounded   *)
(* kills it at the deadline).  A restart that fails leaves the service down.     *)
StepFails ==
    /\ Running
    /\ \/ Use("fails") /\ host' = (IF Head(task.todo) = "restart" THEN [host EXCEPT !.proxy = FALSE]
                                   ELSE IF Head(task.todo) = "restart-agent" THEN [host EXCEPT !.unit = FALSE]
                                   ELSE host)
       \/ Use("lost") /\ host' = ActEffect(Head(task.todo))
    /\ task' = GiveUp
    /\ UNCHANGED <<was, mishaps>>

Check ==
    /\ In("run") /\ task.todo = <<>>
    /\ task' = IF Handler.proven THEN On("done") ELSE GiveUp
    /\ UNCHANGED <<host, was, Still>>
-----------------------------------------------------------------------------
(* Rollback.                                                                *)

(* A rollback begins only where its own work is found whole.                   *)
BeginUndo ==
    /\ In("undo")
    /\ task' = IF Handler.undoable THEN [On("undone") EXCEPT !.todo = Handler.undos] ELSE On("rollback_failed")
    /\ UNCHANGED <<host, was, Still>>

(* Mutant: the old mode is not put back.                                       *)
MutUndo(s) ==
    CASE s \in Ports -> [host EXCEPT !.port[s] = "closed"]
      [] s = "chown" -> [host EXCEPT !.owner = was.owner]
      [] s = "chmod" -> host
      [] s = "remove" -> [host EXCEPT !.dropin = "absent"]
      [] s = "daemon-reload" -> [host EXCEPT !.paths = was.paths]
      [] s = "restart-agent" -> [host EXCEPT !.unit = TRUE]
      [] s = "stop" -> [host EXCEPT !.proxy = FALSE]

Undo(s) ==
    CASE s \in Ports -> [host EXCEPT !.port[s] = "closed"]
      [] s = "chown" -> [host EXCEPT !.owner = was.owner]
      [] s = "chmod" -> [host EXCEPT !.mode = was.mode]
      [] s = "remove" -> [host EXCEPT !.dropin = "absent"]
      [] s = "daemon-reload" -> [host EXCEPT !.paths = was.paths]
      [] s = "restart-agent" -> [host EXCEPT !.unit = TRUE]
      [] s = "stop" -> [host EXCEPT !.proxy = FALSE]

(* A rule that is not NurProxy's is not removed, and ends the rollback: also    *)
(* one that was never added because an earlier one failed.                       *)
Removable(s) == s \in Ports => host.port[s] = "own"

UndoStep ==
    /\ In("undone") /\ task.todo # <<>> /\ Removable(Head(task.todo))
    /\ host' = Undo(Head(task.todo))
    /\ task' = [task EXCEPT !.todo = Tail(@)]
    /\ UNCHANGED <<was, Still>>

UndoFails ==
    /\ In("undone") /\ task.todo # <<>>
    /\ IF Removable(Head(task.todo)) THEN Use("fails") ELSE Spared
    /\ task' = On("rollback_failed")
    /\ UNCHANGED <<host, was, mishaps>>

Restored == Act = "firewall" => \A p \in Ports : Open(p) <=> was.port[p] # "closed"
EndUndo ==
    /\ In("undone") /\ task.todo = <<>>
    /\ task' = IF Restored THEN On("rolled_back") ELSE On("rollback_failed")
    /\ UNCHANGED <<host, was, Still>>
-----------------------------------------------------------------------------
(* An operator changes what the action is about, at any time.                  *)
Edits ==
    CASE Act = "firewall" -> {[host EXCEPT !.port[p] = r] : p \in Ports, r \in {"closed", "theirs"}}
                                 \cup {[host EXCEPT !.ufw = FALSE]}
      [] Act = "access" -> {[host EXCEPT !.mode = ~@]}
      [] Act = "sandbox" -> {[host EXCEPT !.dropin = "theirs"]}
      [] Act = "package" -> {[host EXCEPT !.offer = "other"], [host EXCEPT !.offer = "removes"]}
      [] OTHER -> {[host EXCEPT !.config = c] : c \in {"better", "bad"}} \cup {[host EXCEPT !.proxy = ~@]}
OperatorIntervenes ==
    /\ task.pc \notin {"asked", "done", "refused", "failed", "rolled_back", "rollback_failed"}
    /\ Use("edit")
    /\ host' \in Edits \ {host}
    /\ UNCHANGED <<task, was, mishaps>>

TaskNext ==
    PlanTask \/ PrepareTask \/ BeginTask \/ ActStep \/ StepFails \/ Check
        \/ BeginUndo \/ UndoStep \/ UndoFails \/ EndUndo \/ OperatorIntervenes

TaskSpec == TaskInit /\ [][TaskNext]_taskVars
-----------------------------------------------------------------------------
Touched == "edit" \in happened

(* A rollback that succeeded leaves the host as it was when the snapshot was     *)
(* taken, and a port that an operator had opened before that stays open by his    *)
(* rule, whatever becomes of the action.                                           *)
UndoneExactly ==
    ~Touched =>
        /\ In("rolled_back") => host = was
        /\ \A p \in Ports : was.port[p] = "theirs" => host.port[p] = "theirs"

(* An action that passed its checks and that nothing disturbed is not rolled back. *)
UndisturbedSucceeds == happened = {} => ~In("undo")
================================================================================
