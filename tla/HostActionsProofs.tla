---------------------------- MODULE HostActionsProofs ----------------------------
(***************************************************************************)
(* What an agent does to its host.                                            *)
(* For any host, action, mishaps and number of them: what the root helper      *)
(* reports as rolled back is as it was, and rules an operator made stay.        *)
(* TaskType says which steps are left where, TaskInv what they have done to      *)
(* the host and what a rollback has put back of it, action by action.             *)
(* For any sites, sets and upsets: a push to the built-in Caddy that meets with    *)
(* nothing, or is rightly skipped, leaves every host served as it asks (ServesInv).  *)
(* For any hosts, sets and upsets: a push of nginx files that rolls back ends with    *)
(* what was there before (UndoneInv), and one that meets with nothing is served         *)
(* (FilesInv).                                                                           *)
(* For any sites, intents and faults: a managed apply keeps what is an operator's, takes  *)
(* no auth file from a running worker and ends with all of its intent or with none of it.  *)
(* The argument is that the intent compiles, at every step, to the same (Goes, Compiles).   *)
(***************************************************************************)
EXTENDS HostActions, BuiltInCaddy, ProxyFiles, ManagedApply, TLAPS

(* Where a single action and the host may be; the steps left are of the action. *)
StepsLeft ==
    /\ task.act = "firewall" => (task.pc \in {"run", "undone"} => task.todo \in Seq(Ports))
    /\ task.act = "access" =>
         (task.pc \in {"run", "undone"} => task.todo \in {<<"chown", "chmod">>, <<"chmod">>, <<>>})
    /\ task.act = "sandbox" =>
         /\ task.pc = "run" =>
              task.todo \in {<<"write", "daemon-reload", "restart-agent">>,
                             <<"daemon-reload", "restart-agent">>, <<"restart-agent">>, <<>>}
         /\ task.pc = "undone" =>
              task.todo \in {<<"remove", "daemon-reload", "restart-agent">>,
                             <<"daemon-reload", "restart-agent">>, <<"restart-agent">>, <<>>}
    /\ task.act = "package" =>
         (task.pc = "run" => task.todo \in {<<"install">>, <<>>}) /\ task.pc # "undone"
    /\ task.act \in {"start", "reload", "restart"} =>
         /\ task.pc = "run" => task.todo \in {<<task.act>>, <<>>}
         /\ task.pc = "undone" => task.act = "start" /\ task.todo \in {<<"stop">>, <<>>}

TaskType ==
    /\ host \in HostStates /\ was \in HostStates
    /\ task.act \in Acts /\ task.pc \in TaskPcs
    /\ DOMAIN task = {"act", "pc", "plan", "snap", "todo", "mutated"}
    /\ StepsLeft

Fields == {"ufw", "port", "owner", "mode", "dropin", "paths", "unit", "binary", "offer", "proxy", "config"}
SameBut(fields) == \A f \in Fields \ fields : host[f] = was[f]

(* Until it begins, an action has not touched the host.                        *)
NotBegun == task.pc \in {"asked", "planned", "prepared"} => host = was

(* Rules there were are as they were, and only ports that were closed are worked on. *)
FirewallInv ==
    /\ SameBut({"port"})
    /\ \A p \in Ports : was.port[p] # "closed" => host.port[p] = was.port[p]
    /\ task.pc \in {"run", "undone"} =>
         \A i \in 1..Len(task.todo) : was.port[task.todo[i]] = "closed"

(* A step of a rollback that is no longer left has put back what it is about.   *)
AccessInv ==
    /\ SameBut({"owner", "mode"})
    /\ task.pc = "undone" =>
         /\ task.todo \in {<<"chmod">>, <<>>} => host.owner = was.owner
         /\ task.todo = <<>> => host.mode = was.mode

SandboxInv ==
    /\ SameBut({"dropin", "paths", "unit"})
    /\ task.pc \in {"run", "undo", "undone"} => was.dropin = "absent" /\ was.unit = TRUE
    /\ task.pc = "undone" =>
         /\ task.todo \in {<<"daemon-reload", "restart-agent">>, <<"restart-agent">>, <<>>} => host.dropin = "absent"
         /\ task.todo \in {<<"restart-agent">>, <<>>} => host.paths = was.paths
         /\ task.todo = <<>> => host.unit = TRUE

PackageInv == SameBut({"binary"})

ServiceInv ==
    /\ SameBut({"proxy"})
    /\ task.act = "start" /\ task.pc \in {"run", "undo", "undone"} => was.proxy = FALSE
    /\ task.pc = "undone" /\ task.todo = <<>> => host.proxy = FALSE

TaskInv ==
    ~Touched =>
      /\ NotBegun
      /\ task.pc = "rolled_back" => host = was
      /\ task.act = "firewall" => FirewallInv
      /\ task.act = "access" => AccessInv
      /\ task.act = "sandbox" => SandboxInv
      /\ task.act = "package" => PackageInv
      /\ task.act \in {"start", "reload", "restart"} => ServiceInv
-----------------------------------------------------------------------------
(* Two hosts alike in every field are the same.                                *)
LEMMA SameHosts ==
    ASSUME NEW g \in HostStates, NEW h \in HostStates, \A f \in Fields : g[f] = h[f]
    PROVE  g = h
<1>1. /\ g.ufw = h.ufw /\ g.port = h.port /\ g.owner = h.owner /\ g.mode = h.mode
      /\ g.dropin = h.dropin /\ g.paths = h.paths /\ g.unit = h.unit /\ g.binary = h.binary
      /\ g.offer = h.offer /\ g.proxy = h.proxy /\ g.config = h.config
  BY DEF Fields
<1> QED  BY <1>1 DEF HostStates

(* The types hold of every task considered.                                    *)
LEMMA TypeStarts == TaskInit => TaskType
BY TaskAssumptions DEF TaskInit, TaskType, TaskPcs, StepsLeft

(* What a step of an action or of its rollback makes of the host.               *)
LEMMA StepTypes ==
    ASSUME TaskType, NEW s
    PROVE  /\ s \in Ports => ActEffect(s) = [host EXCEPT !.port[s] = "own"] /\ ActEffect(s) \in HostStates
           /\ s = "chown" => ActEffect(s) = [host EXCEPT !.owner = TRUE] /\ ActEffect(s) \in HostStates
           /\ s = "chmod" => ActEffect(s) = [host EXCEPT !.mode = TRUE] /\ ActEffect(s) \in HostStates
           /\ s = "write" => ActEffect(s) = [host EXCEPT !.dropin = "ours"] /\ ActEffect(s) \in HostStates
           /\ s = "daemon-reload" => /\ ActEffect(s) = [host EXCEPT !.paths = (host.dropin = "ours")]
                                     /\ ActEffect(s) \in HostStates
           /\ s = "restart-agent" => ActEffect(s) = [host EXCEPT !.unit = TRUE] /\ ActEffect(s) \in HostStates
           /\ s = "install" => ActEffect(s) = [host EXCEPT !.binary = TRUE] /\ ActEffect(s) \in HostStates
           /\ s \in {"start", "restart"} => /\ ActEffect(s) = [host EXCEPT !.proxy = (host.config # "bad")]
                                            /\ ActEffect(s) \in HostStates
           /\ s = "reload" => ActEffect(s) = host /\ ActEffect(s) \in HostStates
<1>0. host \in HostStates
  BY DEF TaskType
<1>1. CASE s \in Ports
  BY <1>0, <1>1 DEF ActEffect, HostStates, AllowPort, Ports
<1>2. CASE s = "chown"
  BY <1>0, <1>2 DEF ActEffect, HostStates, Ports
<1>3. CASE s = "chmod"
  BY <1>0, <1>3 DEF ActEffect, HostStates, Ports
<1>4. CASE s = "write"
  BY <1>0, <1>4 DEF ActEffect, HostStates, Ports
<1>5. CASE s = "daemon-reload"
  <2>1. ActEffect(s) = [host EXCEPT !.paths = (host.dropin = "ours")]
    BY <1>5 DEF ActEffect, Ports
  <2>2. (host.dropin = "ours") \in BOOLEAN
    OBVIOUS
  <2> QED  BY <1>0, <1>5, <2>1, <2>2 DEF HostStates, Ports
<1>6. CASE s = "restart-agent"
  BY <1>0, <1>6 DEF ActEffect, HostStates, Ports
<1>7. CASE s = "install"
  BY <1>0, <1>7 DEF ActEffect, HostStates, Ports
<1>8. CASE s \in {"start", "restart"}
  <2>1. ActEffect(s) = [host EXCEPT !.proxy = (host.config # "bad")]
    BY <1>8 DEF ActEffect, Ports
  <2>2. (host.config # "bad") \in BOOLEAN
    OBVIOUS
  <2> QED  BY <1>0, <1>8, <2>1, <2>2 DEF HostStates, Ports
<1>9. CASE s = "reload"
  BY <1>0, <1>9 DEF ActEffect, Ports
<1> QED  BY <1>1, <1>2, <1>3, <1>4, <1>5, <1>6, <1>7, <1>8, <1>9 DEF Ports

(* And what a step of a rollback does.                                         *)
LEMMA UndoTypes ==
    ASSUME TaskType, NEW s
    PROVE  /\ s \in Ports => Undo(s) = [host EXCEPT !.port[s] = "closed"] /\ Undo(s) \in HostStates
           /\ s = "chown" => Undo(s) = [host EXCEPT !.owner = was.owner] /\ Undo(s) \in HostStates
           /\ s = "chmod" => Undo(s) = [host EXCEPT !.mode = was.mode] /\ Undo(s) \in HostStates
           /\ s = "remove" => Undo(s) = [host EXCEPT !.dropin = "absent"] /\ Undo(s) \in HostStates
           /\ s = "daemon-reload" => Undo(s) = [host EXCEPT !.paths = was.paths] /\ Undo(s) \in HostStates
           /\ s = "restart-agent" => Undo(s) = [host EXCEPT !.unit = TRUE] /\ Undo(s) \in HostStates
           /\ s = "stop" => Undo(s) = [host EXCEPT !.proxy = FALSE] /\ Undo(s) \in HostStates
<1>0. host \in HostStates /\ was \in HostStates
  BY DEF TaskType
<1>1. CASE s \in Ports
  BY <1>0, <1>1 DEF Undo, HostStates, Ports
<1>2. CASE s = "chown"
  BY <1>0, <1>2 DEF Undo, HostStates, Ports
<1>3. CASE s = "chmod"
  BY <1>0, <1>3 DEF Undo, HostStates, Ports
<1>4. CASE s = "remove"
  BY <1>0, <1>4 DEF Undo, HostStates, Ports
<1>5. CASE s = "daemon-reload"
  BY <1>0, <1>5 DEF Undo, HostStates, Ports
<1>6. CASE s = "restart-agent"
  BY <1>0, <1>6 DEF Undo, HostStates, Ports
<1>7. CASE s = "stop"
  BY <1>0, <1>7 DEF Undo, HostStates, Ports
<1> QED  BY <1>1, <1>2, <1>3, <1>4, <1>5, <1>6, <1>7 DEF Ports

(* The action is at another place, and all else is as it was.                  *)
LEMMA OnMoves ==
    ASSUME TaskType, NEW pc, task' = On(pc)
    PROVE  /\ task'.act = task.act /\ task'.pc = pc /\ task'.todo = task.todo
           /\ DOMAIN task' = DOMAIN task
BY DEF TaskType, On

(* What is left to an action is a step of it, and leaves a host.               *)
LEMMA RunSteps ==
    ASSUME TaskType, task.pc = "run", task.todo # <<>>
    PROVE  /\ ActEffect(Head(task.todo)) \in HostStates
           /\ [host EXCEPT !.proxy = FALSE] \in HostStates /\ [host EXCEPT !.unit = FALSE] \in HostStates
<1>1. task.act = "firewall" => ActEffect(Head(task.todo)) \in HostStates
  <2> HAVE task.act = "firewall"
  <2>0. task.todo \in Seq(Ports) /\ task.todo # <<>>
    BY DEF TaskType, StepsLeft
  <2>1. Head(task.todo) \in Ports
    BY <2>0
  <2> QED  BY <2>1, StepTypes
<1>2. task.act # "firewall" => ActEffect(Head(task.todo)) \in HostStates
  <2> HAVE task.act # "firewall"
  <2>0. \/ task.todo \in {<<"chown", "chmod">>, <<"chmod">>}
        \/ task.todo \in {<<"write", "daemon-reload", "restart-agent">>,
                          <<"daemon-reload", "restart-agent">>, <<"restart-agent">>}
        \/ task.todo = <<"install">> \/ task.todo = <<"start">> \/ task.todo = <<"reload">> \/ task.todo = <<"restart">>
    BY DEF TaskType, StepsLeft, Acts
  <2>1. Head(task.todo) \in {"chown", "chmod", "write", "daemon-reload", "restart-agent", "install",
                             "start", "reload", "restart"}
    BY <2>0
  <2> QED  BY <2>1, StepTypes
<1>3. /\ [host EXCEPT !.proxy = FALSE] \in HostStates /\ [host EXCEPT !.unit = FALSE] \in HostStates
  BY DEF TaskType, HostStates
<1> QED  BY <1>1, <1>2, <1>3

(* What an operator makes of a host is a host.                                 *)
LEMMA EditTypes == ASSUME TaskType PROVE Edits \subseteq HostStates
<1>0. SUFFICES ASSUME NEW g \in Edits PROVE g \in HostStates
  OBVIOUS
<1>1. CASE task.act = "firewall"
  <2> DEFINE PortEdits == {[host EXCEPT !.port[p] = r] : p \in Ports, r \in {"closed", "theirs"}}
  <2>1. Edits = PortEdits \cup {[host EXCEPT !.ufw = FALSE]}
    BY <1>1 DEF Edits, Act
  <2>2. ASSUME g \in PortEdits PROVE g \in HostStates
    <3>1. PICK p \in Ports, r \in {"closed", "theirs"} : g = [host EXCEPT !.port[p] = r]
      BY <2>2
    <3>2. [host.port EXCEPT ![p] = r] \in [Ports -> {"closed", "own", "theirs"}]
      BY DEF TaskType, HostStates
    <3>3. g = [host EXCEPT !.port = [host.port EXCEPT ![p] = r]]
      BY <3>1 DEF TaskType, HostStates
    <3> QED  BY <3>2, <3>3 DEF TaskType, HostStates
  <2>3. [host EXCEPT !.ufw = FALSE] \in HostStates
    BY DEF TaskType, HostStates
  <2> HIDE DEF PortEdits
  <2> QED  BY <1>0, <2>1, <2>2, <2>3
<1>2. CASE task.act = "access"
  <2>1. Edits = {[host EXCEPT !.mode = ~@]}
    BY <1>2 DEF Edits, Act
  <2>2. [host EXCEPT !.mode = ~@] \in HostStates
    BY DEF TaskType, HostStates
  <2> QED  BY <1>0, <2>1, <2>2
<1>3. CASE task.act = "sandbox"
  BY <1>0, <1>3 DEF Edits, Act, TaskType, HostStates
<1>4. CASE task.act = "package"
  BY <1>0, <1>4 DEF Edits, Act, TaskType, HostStates
<1>5. CASE task.act \in {"start", "reload", "restart"}
  <2> DEFINE ConfigEdits == {[host EXCEPT !.config = c] : c \in {"better", "bad"}}
  <2>1. Edits = ConfigEdits \cup {[host EXCEPT !.proxy = ~@]}
    BY <1>5 DEF Edits, Act
  <2>2. ASSUME g \in ConfigEdits PROVE g \in HostStates
    BY <2>2 DEF TaskType, HostStates
  <2>3. [host EXCEPT !.proxy = ~@] \in HostStates
    BY DEF TaskType, HostStates
  <2> HIDE DEF ConfigEdits
  <2> QED  BY <1>0, <2>1, <2>2, <2>3
<1> QED  BY <1>1, <1>2, <1>3, <1>4, <1>5 DEF TaskType, Acts

(* The first step and the ones after it.                                       *)
LEMMA HeadsTails ==
    ASSUME NEW x, NEW y, NEW z
    PROVE  /\ Head(<<x, y, z>>) = x /\ Tail(<<x, y, z>>) = <<y, z>>
           /\ Head(<<x, y>>) = x /\ Tail(<<x, y>>) = <<y>>
           /\ Head(<<x>>) = x /\ Tail(<<x>>) = <<>>
OBVIOUS

(* Steps of different number are different.                                    *)
LEMMA LengthsDiffer ==
    ASSUME NEW a, NEW b, NEW c, NEW x, NEW y
    PROVE  /\ <<a, b, c>> # <<x, y>> /\ <<a, b, c>> # <<x>> /\ <<a, b, c>> # <<>>
           /\ <<a, b>> # <<x>> /\ <<a, b>> # <<>> /\ <<a>> # <<>>
<1>1. Len(<<a, b, c>>) = 3 /\ Len(<<a, b>>) = 2 /\ Len(<<x, y>>) = 2 /\ Len(<<a>>) = 1 /\ Len(<<x>>) = 1
  OBVIOUS
<1> QED  BY <1>1

(* What is left after a step is what the action had left, but for that step.    *)
LEMMA TailsLeft ==
    ASSUME TaskType, task.todo # <<>>, task'.act = task.act, task'.pc = task.pc,
           task'.todo = Tail(task.todo)
    PROVE  StepsLeft'
<1>1. CASE task.act = "firewall"
  <2>1. task.pc \in {"run", "undone"} => task.todo \in Seq(Ports)
    BY <1>1 DEF TaskType, StepsLeft
  <2>2. task'.pc \in {"run", "undone"} => task'.todo \in Seq(Ports)
    BY <2>1
  <2> QED  BY <1>1, <2>2 DEF StepsLeft
<1>2. CASE task.act = "access"
  <2>1. Tail(<<"chown", "chmod">>) = <<"chmod">> /\ Tail(<<"chmod">>) = <<>>
    BY HeadsTails
  <2> QED  BY <1>2, <2>1 DEF TaskType, StepsLeft
<1>3. CASE task.act = "sandbox"
  <2>1. /\ Tail(<<"write", "daemon-reload", "restart-agent">>) = <<"daemon-reload", "restart-agent">>
        /\ Tail(<<"remove", "daemon-reload", "restart-agent">>) = <<"daemon-reload", "restart-agent">>
        /\ Tail(<<"daemon-reload", "restart-agent">>) = <<"restart-agent">>
        /\ Tail(<<"restart-agent">>) = <<>>
    BY HeadsTails
  <2> QED  BY <1>3, <2>1 DEF TaskType, StepsLeft
<1>4. CASE task.act = "package"
  <2>1. Tail(<<"install">>) = <<>>
    BY HeadsTails
  <2> QED  BY <1>4, <2>1 DEF TaskType, StepsLeft
<1>5. CASE task.act \in {"start", "reload", "restart"}
  <2>1. Tail(<<task.act>>) = <<>> /\ Tail(<<"stop">>) = <<>>
    BY HeadsTails
  <2> QED  BY <1>5, <2>1 DEF TaskType, StepsLeft
<1> QED  BY <1>1, <1>2, <1>3, <1>4, <1>5 DEF TaskType, Acts

(* The steps each action and each rollback begins with.                        *)
LEMMA StepsBegin ==
    ASSUME TaskType
    PROVE  /\ task.act = "firewall" => Handler.steps \in Seq(Ports) /\ Handler.undos \in Seq(Ports)
           /\ task.act = "access" => Handler.steps = <<"chown", "chmod">> /\ Handler.undos = <<"chown", "chmod">>
           /\ task.act = "sandbox" => /\ Handler.steps = <<"write", "daemon-reload", "restart-agent">>
                                      /\ Handler.undos = <<"remove", "daemon-reload", "restart-agent">>
           /\ task.act = "package" => Handler.steps = <<"install">> /\ Handler.undoable = FALSE
           /\ task.act \in {"start", "reload", "restart"} =>
                /\ Handler.steps = <<task.act>>
                /\ Handler.undoable = (task.act = "start")
                /\ task.act = "start" => Handler.undos = <<"stop">>
<1>1. task.act = "firewall" => Handler.steps \in Seq(Ports) /\ Handler.undos \in Seq(Ports)
  <2> HAVE task.act = "firewall"
  <2>1. Handler = Firewall
    BY DEF Handler, Act, Service
  <2>2. ASSUME NEW h, NEW p \in Ports PROVE ClosedOne(h, p) \in Seq(Ports)
    BY DEF ClosedOne
  <2>3. Additions \in Seq(Ports) /\ Removals \in Seq(Ports)
    BY <2>2 DEF Additions, Removals, Ports
  <2> QED  BY <2>1, <2>3 DEF Firewall
<1>2. task.act = "access" => Handler = Access
  BY DEF Handler, Act, Service
<1>3. task.act = "sandbox" => Handler = Sandbox
  BY DEF Handler, Act, Service
<1>4. task.act = "package" => Handler = Package
  BY DEF Handler, Act, Service
<1>5. task.act \in {"start", "reload", "restart"} => Handler = ProxyService
  BY DEF Handler, Act, Service
<1> QED  BY <1>1, <1>2, <1>3, <1>4, <1>5 DEF Access, Sandbox, Package, ProxyService, Act

(* Every step keeps the types.                                                  *)
LEMMA TypeMoves ==
    ASSUME TaskType, [TaskNext]_taskVars
    PROVE  TaskType'
<1>1. CASE PlanTask
  BY <1>1 DEF PlanTask, TaskType, StepsLeft, In, On, TaskPcs
<1>2. CASE PrepareTask
  BY <1>2 DEF PrepareTask, TaskType, StepsLeft, In, On, TaskPcs
<1>3. CASE BeginTask
  <2>1. CASE task' = [On("run") EXCEPT !.todo = Handler.steps, !.mutated = (Act # "firewall")]
    <3>1. /\ task'.act = task.act /\ task'.pc = "run" /\ task'.todo = Handler.steps
          /\ DOMAIN task' = DOMAIN task
      BY <2>1 DEF TaskType, On
    <3>2. StepsLeft'
      BY <3>1, StepsBegin DEF StepsLeft, TaskType, Acts
    <3> QED  BY <1>3, <3>1, <3>2 DEF BeginTask, TaskType, TaskPcs
  <2>2. CASE task' = On("failed")
    BY <1>3, <2>2 DEF BeginTask, TaskType, StepsLeft, On, TaskPcs
  <2> QED  BY <1>3, <2>1, <2>2 DEF BeginTask
<1>4. CASE ActStep
  <2>1. host' \in HostStates
    BY <1>4, RunSteps DEF ActStep, Running, In
  <2>2. /\ task'.act = task.act /\ task'.pc = task.pc /\ task'.todo = Tail(task.todo)
        /\ DOMAIN task' = DOMAIN task
    BY <1>4 DEF ActStep, TaskType
  <2>3. StepsLeft'
    BY <1>4, <2>2, TailsLeft DEF ActStep, Running
  <2> QED  BY <1>4, <2>1, <2>2, <2>3 DEF ActStep, TaskType
<1>5. CASE StepFails
  <2>1. host' \in HostStates
    <3>1. host \in HostStates
      BY DEF TaskType
    <3> QED  BY <1>5, <3>1, RunSteps DEF StepFails, Running, In
  <2> QED  BY <1>5, <2>1 DEF StepFails, GiveUp, TaskType, StepsLeft, On, TaskPcs
<1>6. CASE Check
  BY <1>6 DEF Check, GiveUp, TaskType, StepsLeft, On, TaskPcs
<1>7. CASE BeginUndo
  <2>1. CASE task' = [On("undone") EXCEPT !.todo = Handler.undos] /\ Handler.undoable
    <3>1. /\ task'.act = task.act /\ task'.pc = "undone" /\ task'.todo = Handler.undos
          /\ DOMAIN task' = DOMAIN task
      BY <2>1 DEF TaskType, On
    <3>2. StepsLeft'
      BY <2>1, <3>1, StepsBegin DEF StepsLeft, TaskType, Acts
    <3> QED  BY <1>7, <3>1, <3>2 DEF BeginUndo, TaskType, TaskPcs
  <2>2. CASE task' = On("rollback_failed")
    BY <1>7, <2>2 DEF BeginUndo, TaskType, StepsLeft, On, TaskPcs
  <2> QED  BY <1>7, <2>1, <2>2 DEF BeginUndo
<1>8. CASE UndoStep
  <2>1. host' \in HostStates
    <3>1. CASE task.act = "firewall"
      <4>1. task.todo \in Seq(Ports) /\ task.todo # <<>>
        BY <1>8, <3>1 DEF UndoStep, In, TaskType, StepsLeft
      <4>2. Head(task.todo) \in Ports
        BY <4>1
      <4> QED  BY <1>8, <4>2, UndoTypes DEF UndoStep
    <3>2. CASE task.act # "firewall"
      <4>1. \/ task.todo \in {<<"chown", "chmod">>, <<"chmod">>}
            \/ task.todo \in {<<"remove", "daemon-reload", "restart-agent">>,
                              <<"daemon-reload", "restart-agent">>, <<"restart-agent">>}
            \/ task.todo = <<"stop">>
        BY <1>8, <3>2 DEF UndoStep, In, TaskType, StepsLeft, Acts
      <4>2. Head(task.todo) \in {"chown", "chmod", "remove", "daemon-reload", "restart-agent", "stop"}
        BY <4>1, HeadsTails
      <4> QED  BY <1>8, <4>2, UndoTypes DEF UndoStep
    <3> QED  BY <3>1, <3>2
  <2>2. /\ task'.act = task.act /\ task'.pc = task.pc /\ task'.todo = Tail(task.todo)
        /\ DOMAIN task' = DOMAIN task
    BY <1>8 DEF UndoStep, TaskType
  <2>3. StepsLeft'
    BY <1>8, <2>2, TailsLeft DEF UndoStep
  <2> QED  BY <1>8, <2>1, <2>2, <2>3 DEF UndoStep, TaskType
<1>9. CASE UndoFails
  BY <1>9 DEF UndoFails, TaskType, StepsLeft, On, TaskPcs
<1>10. CASE EndUndo
  BY <1>10 DEF EndUndo, TaskType, StepsLeft, On, TaskPcs
<1>11. CASE OperatorIntervenes
  BY <1>11, EditTypes DEF OperatorIntervenes, TaskType, StepsLeft
<1>12. CASE UNCHANGED taskVars
  BY <1>12 DEF taskVars, TaskType, StepsLeft
<1> QED
  BY <1>1, <1>2, <1>3, <1>4, <1>5, <1>6, <1>7, <1>8, <1>9, <1>10, <1>11, <1>12 DEF TaskNext

-----------------------------------------------------------------------------
(* What the handlers read and change.                                          *)
LEMMA Repairable ==
    ASSUME TaskType, Handler.repairable = TRUE
    PROVE  /\ task.act = "sandbox" => host.dropin = "absent" /\ host.unit = TRUE
           /\ task.act = "start" => host.proxy = FALSE
<1>1. task.act = "sandbox" => Handler = Sandbox
  BY DEF Handler, Act, Service
<1>2. task.act = "start" => Handler = ProxyService
  BY DEF Handler, Act, Service
<1>3. task.act = "sandbox" => host.dropin = "absent" /\ host.unit = TRUE
  <2> HAVE task.act = "sandbox"
  <2>1. Sandbox.repairable = TRUE
    BY <1>1
  <2>2. (host.unit /\ ~Writable /\ host.dropin = "absent") = TRUE
    BY <2>1 DEF Sandbox
  <2>3. host.unit \in BOOLEAN
    BY DEF TaskType, HostStates
  <2> QED  BY <2>2, <2>3
<1>4. task.act = "start" => host.proxy = FALSE
  <2> HAVE task.act = "start"
  <2>1. ProxyService.repairable = TRUE
    BY <1>2
  <2>2. (host.proxy = (Act # "start")) = TRUE
    BY <2>1 DEF ProxyService
  <2>3. (Act # "start") = FALSE
    BY DEF Act
  <2> QED  BY <2>2, <2>3
<1> QED  BY <1>3, <1>4

(* What a rollback removes was closed; what an action adds is.                  *)
LEMMA InOrderRemoved ==
    ASSUME NEW h, NEW i \in 1..Len(ClosedOne(h, "443") \o ClosedOne(h, "80"))
    PROVE  h.port[(ClosedOne(h, "443") \o ClosedOne(h, "80"))[i]] = "closed"
BY DEF ClosedOne

(* The ports added, in their order.                                            *)
LEMMA InOrderAdded ==
    ASSUME NEW h, NEW i \in 1..Len(ClosedOne(h, "80") \o ClosedOne(h, "443"))
    PROVE  h.port[(ClosedOne(h, "80") \o ClosedOne(h, "443"))[i]] = "closed"
BY DEF ClosedOne

(* Nothing was done to the host yet.                                           *)
LEMMA InvStarts == TaskInit => TaskInv
<1> SUFFICES ASSUME TaskInit PROVE TaskInv
  OBVIOUS
<1>1. host = was /\ task.pc = "asked"
  BY DEF TaskInit
<1> QED  BY <1>1 DEF TaskInv, NotBegun, FirewallInv, AccessInv, SandboxInv, PackageInv, ServiceInv, SameBut

(* Neither the host nor the snapshot changes, and the action goes where nothing  *)
(* is asked of it.                                                              *)
LEMMA InvRests ==
    ASSUME TaskType, TaskInv, UNCHANGED <<host, was>>, task'.act = task.act, ~Touched' => ~Touched,
           task'.pc \in {"refused", "failed", "done", "rollback_failed"}
    PROVE  TaskInv'
BY DEF TaskInv, NotBegun, FirewallInv, AccessInv, SandboxInv, PackageInv, ServiceInv, SameBut

(* A rule is added where there was none.                                       *)
LEMMA FirewallStep ==
    ASSUME TaskType, FirewallInv, task.act = "firewall", task.pc = "run", task.todo # <<>>,
           UNCHANGED was, host' = ActEffect(Head(task.todo)), task'.act = task.act,
           \/ task'.pc = "run" /\ task'.todo = Tail(task.todo)
           \/ task'.pc \in {"undo", "failed"}
    PROVE  FirewallInv'
<1> DEFINE p == Head(task.todo)
<1>1. /\ task.todo \in Seq(Ports) /\ p \in Ports /\ p = task.todo[1] /\ 1 \in 1..Len(task.todo)
  BY DEF TaskType, StepsLeft
<1>2. was.port[p] = "closed"
  BY <1>1 DEF FirewallInv
<1> HIDE DEF p
<1>3. host' = [host EXCEPT !.port[p] = "own"]
  BY <1>1, StepTypes DEF p
<1>4. SameBut({"port"})'
  BY <1>3 DEF FirewallInv, SameBut, TaskType, HostStates, Fields
<1>5. \A q \in Ports : q # p => host'.port[q] = host.port[q]
  BY <1>3 DEF TaskType, HostStates
<1>6. \A q \in Ports : was'.port[q] # "closed" => host'.port[q] = was'.port[q]
  BY <1>2, <1>5 DEF FirewallInv
<1>7. task'.pc = "run" => \A i \in 1..Len(task'.todo) : was'.port[task'.todo[i]] = "closed"
  <2> HAVE task'.pc = "run"
  <2>0. task'.todo = Tail(task.todo) /\ was' = was
    OBVIOUS
  <2>1. \A i \in 1..Len(Tail(task.todo)) : Tail(task.todo)[i] = task.todo[i + 1] /\ i + 1 \in 1..Len(task.todo)
    BY <1>1
  <2>2. \A i \in 1..Len(task.todo) : was.port[task.todo[i]] = "closed"
    BY DEF FirewallInv
  <2> QED  BY <2>0, <2>1, <2>2
<1> QED  BY <1>4, <1>6, <1>7 DEF FirewallInv

(* A rule is removed where there was none.                                     *)
LEMMA FirewallUndo ==
    ASSUME TaskType, FirewallInv, task.act = "firewall", task.pc = "undone", task.todo # <<>>,
           UNCHANGED was, host' = Undo(Head(task.todo)), task'.act = task.act,
           task'.pc = "undone", task'.todo = Tail(task.todo)
    PROVE  FirewallInv'
<1> DEFINE p == Head(task.todo)
<1>1. /\ task.todo \in Seq(Ports) /\ p \in Ports /\ p = task.todo[1] /\ 1 \in 1..Len(task.todo)
  BY DEF TaskType, StepsLeft
<1>2. was.port[p] = "closed"
  BY <1>1 DEF FirewallInv
<1> HIDE DEF p
<1>3. host' = [host EXCEPT !.port[p] = "closed"]
  BY <1>1, UndoTypes DEF p
<1>4. SameBut({"port"})'
  BY <1>3 DEF FirewallInv, SameBut, TaskType, HostStates, Fields
<1>5. \A q \in Ports : q # p => host'.port[q] = host.port[q]
  BY <1>3 DEF TaskType, HostStates
<1>6. \A q \in Ports : was'.port[q] # "closed" => host'.port[q] = was'.port[q]
  BY <1>2, <1>5 DEF FirewallInv
<1>7. \A i \in 1..Len(task'.todo) : was'.port[task'.todo[i]] = "closed"
  <2>1. \A i \in 1..Len(Tail(task.todo)) : Tail(task.todo)[i] = task.todo[i + 1] /\ i + 1 \in 1..Len(task.todo)
    BY <1>1
  <2> QED  BY <2>1 DEF FirewallInv
<1> QED  BY <1>4, <1>6, <1>7 DEF FirewallInv

(* A step of one of the other actions.                                         *)
LEMMA OtherStep ==
    ASSUME TaskType, TaskInv, ~Touched, task.act # "firewall", task.pc = "run", task.todo # <<>>,
           UNCHANGED was, task'.act = task.act, task'.pc \in {"run", "undo", "failed"},
           \/ host' = ActEffect(Head(task.todo))
           \/ host' = host
           \/ Head(task.todo) = "restart" /\ host' = [host EXCEPT !.proxy = FALSE]
           \/ Head(task.todo) = "restart-agent" /\ host' = [host EXCEPT !.unit = FALSE]
    PROVE  TaskInv'
<1>1. CASE task.act = "access"
  <2>1. AccessInv
    BY <1>1 DEF TaskInv
  <2>2. Head(task.todo) \in {"chown", "chmod"}
    <3>1. task.todo \in {<<"chown", "chmod">>, <<"chmod">>}
      BY <1>1 DEF TaskType, StepsLeft
    <3> QED  BY <3>1, HeadsTails
  <2>3. host' = [host EXCEPT !.owner = TRUE] \/ host' = [host EXCEPT !.mode = TRUE] \/ host' = host
    BY <2>2, StepTypes
  <2>4. AccessInv'
    BY <2>1, <2>3 DEF AccessInv, SameBut, Fields, TaskType, HostStates
  <2> QED  BY <1>1, <2>4 DEF TaskInv, NotBegun
<1>2. CASE task.act = "sandbox"
  <2>1. SandboxInv
    BY <1>2 DEF TaskInv
  <2>2. Head(task.todo) \in {"write", "daemon-reload", "restart-agent"}
    <3>1. task.todo \in {<<"write", "daemon-reload", "restart-agent">>,
                         <<"daemon-reload", "restart-agent">>, <<"restart-agent">>}
      BY <1>2 DEF TaskType, StepsLeft
    <3> QED  BY <3>1, HeadsTails
  <2>3. \/ host' = [host EXCEPT !.dropin = "ours"] \/ host' = [host EXCEPT !.paths = (host.dropin = "ours")]
        \/ host' = [host EXCEPT !.unit = TRUE] \/ host' = host \/ host' = [host EXCEPT !.unit = FALSE]
    BY <2>2, StepTypes
  <2>4. SameBut({"dropin", "paths", "unit"})'
    BY <2>1, <2>3 DEF SandboxInv, SameBut, Fields, TaskType, HostStates
  <2>5. SandboxInv'
    BY <2>1, <2>4 DEF SandboxInv
  <2> QED  BY <1>2, <2>5 DEF TaskInv, NotBegun
<1>3. CASE task.act = "package"
  <2>1. PackageInv
    BY <1>3 DEF TaskInv
  <2>2. Head(task.todo) = "install"
    <3>1. task.todo = <<"install">>
      BY <1>3 DEF TaskType, StepsLeft
    <3> QED  BY <3>1, HeadsTails
  <2>3. host' = [host EXCEPT !.binary = TRUE] \/ host' = host
    BY <2>2, StepTypes
  <2>4. PackageInv'
    BY <2>1, <2>3 DEF PackageInv, SameBut, Fields, TaskType, HostStates
  <2> QED  BY <1>3, <2>4 DEF TaskInv, NotBegun
<1>4. CASE task.act \in {"start", "reload", "restart"}
  <2>1. ServiceInv
    BY <1>4 DEF TaskInv
  <2>2. Head(task.todo) \in {"start", "reload", "restart"}
    <3>1. task.todo = <<task.act>>
      BY <1>4 DEF TaskType, StepsLeft
    <3> QED  BY <1>4, <3>1, HeadsTails
  <2>3. \/ host' = [host EXCEPT !.proxy = (host.config # "bad")] \/ host' = host
        \/ host' = [host EXCEPT !.proxy = FALSE]
    BY <2>2, StepTypes
  <2>4. SameBut({"proxy"})'
    BY <2>1, <2>3 DEF ServiceInv, SameBut, Fields, TaskType, HostStates
  <2>5. ServiceInv'
    BY <2>1, <2>4 DEF ServiceInv
  <2> QED  BY <1>4, <2>5 DEF TaskInv, NotBegun
<1> QED  BY <1>1, <1>2, <1>3, <1>4 DEF TaskType, Acts

(* A step of the rollback of one of them.                                       *)
LEMMA OtherUndo ==
    ASSUME TaskType, TaskInv, ~Touched, task.act # "firewall", task.pc = "undone", task.todo # <<>>,
           UNCHANGED was, task'.act = task.act, task'.pc = "undone", task'.todo = Tail(task.todo),
           host' = Undo(Head(task.todo))
    PROVE  TaskInv'
<1>1. CASE task.act = "access"
  <2>1. AccessInv
    BY <1>1 DEF TaskInv
  <2>2. CASE task.todo = <<"chown", "chmod">>
    <3>1. host' = [host EXCEPT !.owner = was.owner] /\ task'.todo = <<"chmod">>
      BY <2>2, HeadsTails, UndoTypes
    <3>2. AccessInv'
      BY <2>1, <3>1 DEF AccessInv, SameBut, Fields, TaskType, HostStates
    <3> QED  BY <1>1, <3>2 DEF TaskInv, NotBegun
  <2>3. CASE task.todo = <<"chmod">>
    <3>1. host' = [host EXCEPT !.mode = was.mode] /\ task'.todo = <<>>
      BY <2>3, HeadsTails, UndoTypes
    <3>2. AccessInv'
      BY <2>1, <2>3, <3>1 DEF AccessInv, SameBut, Fields, TaskType, HostStates
    <3> QED  BY <1>1, <3>2 DEF TaskInv, NotBegun
  <2> QED  BY <1>1, <2>2, <2>3 DEF TaskType, StepsLeft
<1>2. CASE task.act = "sandbox"
  <2>1. SandboxInv
    BY <1>2 DEF TaskInv
  <2>2. CASE task.todo = <<"remove", "daemon-reload", "restart-agent">>
    <3>1. host' = [host EXCEPT !.dropin = "absent"] /\ task'.todo = <<"daemon-reload", "restart-agent">>
      BY <2>2, HeadsTails, UndoTypes
    <3>2. SameBut({"dropin", "paths", "unit"})' /\ host'.dropin = "absent"
      BY <2>1, <3>1 DEF SandboxInv, SameBut, Fields, TaskType, HostStates
    <3>3. task'.todo \notin {<<"restart-agent">>, <<>>}
      <4>1. <<"daemon-reload", "restart-agent">> # <<"restart-agent">> /\ <<"daemon-reload", "restart-agent">> # <<>>
        BY LengthsDiffer
      <4>2. task'.todo = <<"daemon-reload", "restart-agent">>
        BY <3>1
      <4> QED  BY <4>1, <4>2
    <3>4. SandboxInv'
      BY <2>1, <3>1, <3>2, <3>3 DEF SandboxInv
    <3> QED  BY <1>2, <3>4 DEF TaskInv, NotBegun
  <2>3. CASE task.todo = <<"daemon-reload", "restart-agent">>
    <3>1. host' = [host EXCEPT !.paths = was.paths] /\ task'.todo = <<"restart-agent">>
      BY <2>3, HeadsTails, UndoTypes
    <3>2. SameBut({"dropin", "paths", "unit"})' /\ host'.dropin = "absent" /\ host'.paths = was.paths
      BY <2>1, <2>3, <3>1 DEF SandboxInv, SameBut, Fields, TaskType, HostStates
    <3>3. task'.todo # <<>>
      BY <3>1, LengthsDiffer
    <3>4. SandboxInv'
      BY <2>1, <3>1, <3>2, <3>3 DEF SandboxInv
    <3> QED  BY <1>2, <3>4 DEF TaskInv, NotBegun
  <2>4. CASE task.todo = <<"restart-agent">>
    <3>1. host' = [host EXCEPT !.unit = TRUE] /\ task'.todo = <<>>
      BY <2>4, HeadsTails, UndoTypes
    <3>2. /\ SameBut({"dropin", "paths", "unit"})' /\ host'.dropin = "absent" /\ host'.paths = was.paths
          /\ host'.unit = TRUE
      BY <2>1, <2>4, <3>1 DEF SandboxInv, SameBut, Fields, TaskType, HostStates
    <3>3. SandboxInv'
      BY <2>1, <3>1, <3>2 DEF SandboxInv
    <3> QED  BY <1>2, <3>3 DEF TaskInv, NotBegun
  <2> QED  BY <1>2, <2>2, <2>3, <2>4 DEF TaskType, StepsLeft
<1>3. CASE task.act = "package"
  BY <1>3 DEF TaskType, StepsLeft
<1>4. CASE task.act \in {"start", "reload", "restart"}
  <2>1. ServiceInv
    BY <1>4 DEF TaskInv
  <2>2. task.todo = <<"stop">>
    BY <1>4 DEF TaskType, StepsLeft
  <2>3. host' = [host EXCEPT !.proxy = FALSE] /\ task'.todo = <<>>
    BY <2>2, HeadsTails, UndoTypes
  <2>4. SameBut({"proxy"})' /\ host'.proxy = FALSE
    BY <2>1, <2>3 DEF ServiceInv, SameBut, Fields, TaskType, HostStates
  <2>5. ServiceInv'
    BY <2>1, <2>4 DEF ServiceInv
  <2> QED  BY <1>4, <2>5 DEF TaskInv, NotBegun
<1> QED  BY <1>1, <1>2, <1>3, <1>4 DEF TaskType, Acts

(* A rollback that has come to its end has put everything back.                 *)
LEMMA AllBack ==
    ASSUME TaskType, TaskInv, ~Touched, task.pc = "undone", task.todo = <<>>, Restored
    PROVE  host = was
<1>1. CASE task.act = "firewall"
  <2>1. FirewallInv /\ \A p \in Ports : host.port[p] # "closed" <=> was.port[p] # "closed"
    BY <1>1 DEF TaskInv, Restored, Open, Act
  <2>2. host.port = was.port
    <3>1. host.port \in [Ports -> {"closed", "own", "theirs"}] /\ was.port \in [Ports -> {"closed", "own", "theirs"}]
      BY DEF TaskType, HostStates
    <3>2. ASSUME NEW p \in Ports PROVE host.port[p] = was.port[p]
      <4>1. CASE was.port[p] = "closed"
        BY <2>1, <4>1
      <4>2. CASE was.port[p] # "closed"
        BY <2>1, <4>2 DEF FirewallInv
      <4> QED  BY <4>1, <4>2
    <3> QED  BY <3>1, <3>2
  <2>3. \A f \in Fields : host[f] = was[f]
    BY <2>1, <2>2 DEF FirewallInv, SameBut, Fields
  <2> QED  BY <2>3, SameHosts DEF TaskType
<1>2. CASE task.act = "access"
  <2>1. \A f \in Fields : host[f] = was[f]
    BY <1>2 DEF TaskInv, AccessInv, SameBut, Fields
  <2> QED  BY <2>1, SameHosts DEF TaskType
<1>3. CASE task.act = "sandbox"
  <2>1. \A f \in Fields : host[f] = was[f]
    BY <1>3 DEF TaskInv, SandboxInv, SameBut, Fields
  <2> QED  BY <2>1, SameHosts DEF TaskType
<1>4. CASE task.act = "package"
  BY <1>4 DEF TaskType, StepsLeft
<1>5. CASE task.act \in {"start", "reload", "restart"}
  <2>1. \A f \in Fields : host[f] = was[f]
    BY <1>5 DEF TaskInv, ServiceInv, SameBut, Fields, TaskType, StepsLeft
  <2> QED  BY <2>1, SameHosts DEF TaskType
<1> QED  BY <1>1, <1>2, <1>3, <1>4, <1>5 DEF TaskType, Acts

(* Every step keeps what is known of the host.                                 *)
LEMMA InvMoves ==
    ASSUME TaskType, TaskInv, TaskType', [TaskNext]_taskVars
    PROVE  TaskInv'
<1>0. SUFFICES ASSUME ~Touched' PROVE TaskInv'
  BY DEF TaskInv
<1>1. CASE PlanTask
  <2>1. host = was /\ UNCHANGED <<host, was>> /\ task'.pc \in {"planned", "refused"} /\ task'.act = task.act
    BY <1>0, <1>1 DEF PlanTask, TaskInv, NotBegun, In, On, Still, Touched, TaskType
  <2> QED  BY <2>1 DEF TaskInv, NotBegun, FirewallInv, AccessInv, SandboxInv, PackageInv, ServiceInv, SameBut
<1>2. CASE PrepareTask
  <2>1. CASE task'.pc = "prepared"
    <3>1. host' = was' /\ task'.act = task.act
      BY <1>2, <2>1 DEF PrepareTask, On, TaskType
    <3> QED  BY <2>1, <3>1 DEF TaskInv, NotBegun, FirewallInv, AccessInv, SandboxInv, PackageInv, ServiceInv, SameBut
  <2>2. CASE task' = On("failed") /\ UNCHANGED <<was, happened>>
    <3>1. task'.act = task.act /\ task'.pc = "failed"
      BY <2>2, OnMoves
    <3> QED  BY <1>2, <2>2, <3>1, InvRests DEF PrepareTask, Touched
  <2> QED  BY <1>2, <2>1, <2>2 DEF PrepareTask, On, TaskType
<1>3. CASE BeginTask
  <2>0. /\ UNCHANGED <<host, was>> /\ ~Touched /\ task.pc = "prepared"
    BY <1>0, <1>3 DEF BeginTask, Touched, Spared, Use, In
  <2>1. host = was
    BY <2>0 DEF TaskInv, NotBegun
  <2>2. CASE Handler.repairable /\ task' = [On("run") EXCEPT !.todo = Handler.steps, !.mutated = (Act # "firewall")]
    <3>1. task'.act = task.act /\ task'.pc = "run" /\ task'.todo = Handler.steps
      BY <2>2 DEF TaskType, On
    <3>2. (task.act = "sandbox" => was.dropin = "absent" /\ was.unit = TRUE) /\ (task.act = "start" => was.proxy = FALSE)
      BY <2>1, <2>2, Repairable
    <3>3. task.act = "firewall" => \A i \in 1..Len(task'.todo) : was'.port[task'.todo[i]] = "closed"
      <4> HAVE task.act = "firewall"
      <4>1. task'.todo = ClosedOne(was, "80") \o ClosedOne(was, "443")
        BY <2>1, <3>1 DEF Handler, Act, Service, Firewall, Additions
      <4> QED  BY <2>0, <4>1, InOrderAdded
    <3> QED
      BY <2>0, <2>1, <3>1, <3>2, <3>3
      DEF TaskInv, NotBegun, FirewallInv, AccessInv, SandboxInv, PackageInv, ServiceInv, SameBut
  <2>3. CASE task' = On("failed")
    <3>1. task'.act = task.act /\ task'.pc = "failed"
      BY <2>3, OnMoves
    <3> QED  BY <2>0, <3>1, InvRests
  <2> QED  BY <1>3, <2>2, <2>3 DEF BeginTask
<1>4. CASE ActStep
  <2>1. /\ ~Touched /\ task.pc = "run" /\ task.todo # <<>> /\ UNCHANGED was
        /\ host' = ActEffect(Head(task.todo))
        /\ task'.act = task.act /\ task'.pc = "run" /\ task'.todo = Tail(task.todo)
    BY <1>0, <1>4 DEF ActStep, Running, In, Still, Touched, TaskType
  <2>2. CASE task.act = "firewall"
    <3>1. FirewallInv'
      BY <2>1, <2>2, FirewallStep DEF TaskInv
    <3> QED  BY <2>1, <2>2, <3>1 DEF TaskInv, NotBegun
  <2>3. CASE task.act # "firewall"
    BY <2>1, <2>3, OtherStep
  <2> QED  BY <2>2, <2>3
<1>5. CASE StepFails
  <2>1. /\ ~Touched /\ task.pc = "run" /\ task.todo # <<>> /\ UNCHANGED was
        /\ \/ host' = ActEffect(Head(task.todo))
           \/ host' = host
           \/ Head(task.todo) = "restart" /\ host' = [host EXCEPT !.proxy = FALSE]
           \/ Head(task.todo) = "restart-agent" /\ host' = [host EXCEPT !.unit = FALSE]
    BY <1>0, <1>5 DEF StepFails, Running, In, Touched, Use
  <2>2. task'.act = task.act /\ task'.pc \in {"undo", "failed"}
    BY <1>5, OnMoves DEF StepFails, GiveUp
  <2>3. CASE task.act = "firewall"
    <3>1. FirewallInv
      BY <2>1, <2>3 DEF TaskInv
    <3>2. Head(task.todo) \in Ports
      <4>1. task.todo \in Seq(Ports) /\ task.todo # <<>>
        BY <2>1, <2>3 DEF TaskType, StepsLeft
      <4> QED  BY <4>1
    <3>3. CASE host' = host
      BY <2>1, <2>2, <2>3, <3>1, <3>3 DEF TaskInv, NotBegun, FirewallInv, SameBut
    <3>4. CASE host' = ActEffect(Head(task.todo))
      <4>1. FirewallInv'
        BY <2>1, <2>2, <2>3, <3>1, <3>4, FirewallStep
      <4> QED  BY <2>2, <2>3, <4>1 DEF TaskInv, NotBegun
    <3> QED  BY <2>1, <3>2, <3>3, <3>4 DEF Ports
  <2>4. CASE task.act # "firewall"
    BY <2>1, <2>2, <2>4, OtherStep
  <2> QED  BY <2>3, <2>4
<1>6. CASE Check
  <2>1. /\ ~Touched /\ UNCHANGED <<host, was>> /\ task.pc = "run"
    BY <1>0, <1>6 DEF Check, Still, Touched, In
  <2>2. task'.act = task.act /\ task'.pc \in {"done", "undo", "failed"}
    BY <1>6, OnMoves DEF Check, GiveUp
  <2> QED
    BY <2>1, <2>2 DEF TaskInv, NotBegun, FirewallInv, AccessInv, SandboxInv, PackageInv, ServiceInv, SameBut
<1>7. CASE BeginUndo
  <2>1. /\ ~Touched /\ UNCHANGED <<host, was>> /\ task.pc = "undo"
    BY <1>0, <1>7 DEF BeginUndo, Still, Touched, In
  <2>2. CASE Handler.undoable /\ task' = [On("undone") EXCEPT !.todo = Handler.undos]
    <3>1. task'.act = task.act /\ task'.pc = "undone" /\ task'.todo = Handler.undos
      BY <2>2 DEF TaskType, On
    <3>2. CASE task.act = "firewall"
      <4>1. task'.todo = ClosedOne(was, "443") \o ClosedOne(was, "80")
        BY <3>1, <3>2 DEF Handler, Act, Service, Firewall, Removals
      <4>2. \A i \in 1..Len(task'.todo) : was'.port[task'.todo[i]] = "closed"
        BY <2>1, <4>1, InOrderRemoved
      <4>3. FirewallInv'
        BY <2>1, <3>2, <4>2 DEF TaskInv, FirewallInv, SameBut
      <4> QED  BY <3>1, <3>2, <4>3 DEF TaskInv, NotBegun
    <3>3. CASE task.act = "access"
      <4>1. task'.todo \notin {<<"chmod">>, <<>>}
        BY <3>1, <3>3, StepsBegin, LengthsDiffer
      <4>2. AccessInv'
        BY <2>1, <3>3, <4>1 DEF TaskInv, AccessInv, SameBut
      <4> QED  BY <3>1, <3>3, <4>2 DEF TaskInv, NotBegun
    <3>4. CASE task.act = "sandbox"
      <4>1. task'.todo \notin {<<"daemon-reload", "restart-agent">>, <<"restart-agent">>, <<>>}
        BY <3>1, <3>4, StepsBegin, LengthsDiffer
      <4>2. SandboxInv'
        BY <2>1, <3>4, <4>1 DEF TaskInv, SandboxInv, SameBut
      <4> QED  BY <3>1, <3>4, <4>2 DEF TaskInv, NotBegun
    <3>5. CASE task.act = "package"
      BY <2>2, <3>5, StepsBegin
    <3>6. CASE task.act \in {"start", "reload", "restart"}
      <4>1. task.act = "start" /\ task'.todo = <<"stop">>
        BY <2>2, <3>1, <3>6, StepsBegin
      <4>2. ServiceInv'
        BY <2>1, <3>6, <4>1 DEF TaskInv, ServiceInv, SameBut
      <4> QED  BY <3>1, <3>6, <4>2 DEF TaskInv, NotBegun
    <3> QED  BY <3>2, <3>3, <3>4, <3>5, <3>6 DEF TaskType, Acts
  <2>3. CASE task' = On("rollback_failed")
    <3>1. task'.act = task.act /\ task'.pc = "rollback_failed"
      BY <2>3, OnMoves
    <3> QED  BY <2>1, <3>1, InvRests
  <2> QED  BY <1>7, <2>2, <2>3 DEF BeginUndo
<1>8. CASE UndoStep
  <2>1. /\ ~Touched /\ task.pc = "undone" /\ task.todo # <<>> /\ UNCHANGED was
        /\ host' = Undo(Head(task.todo))
        /\ task'.act = task.act /\ task'.pc = "undone" /\ task'.todo = Tail(task.todo)
    BY <1>0, <1>8 DEF UndoStep, In, Still, Touched, TaskType
  <2>2. CASE task.act = "firewall"
    <3>1. FirewallInv'
      BY <2>1, <2>2, FirewallUndo DEF TaskInv
    <3> QED  BY <2>1, <2>2, <3>1 DEF TaskInv, NotBegun
  <2>3. CASE task.act # "firewall"
    BY <2>1, <2>3, OtherUndo
  <2> QED  BY <2>2, <2>3
<1>9. CASE UndoFails
  <2>1. /\ ~Touched /\ UNCHANGED <<host, was>>
    BY <1>0, <1>9 DEF UndoFails, Use, Spared, Touched
  <2>2. task'.act = task.act /\ task'.pc = "rollback_failed"
    BY <1>9, OnMoves DEF UndoFails
  <2> QED  BY <2>1, <2>2, InvRests
<1>10. CASE EndUndo
  <2>1. /\ ~Touched /\ UNCHANGED <<host, was>> /\ task.pc = "undone" /\ task.todo = <<>>
    BY <1>0, <1>10 DEF EndUndo, Still, Touched, In
  <2>2. CASE task' = On("rolled_back") /\ Restored
    <3>1. host = was
      BY <2>1, <2>2, AllBack
    <3>2. task'.act = task.act /\ task'.pc = "rolled_back"
      BY <2>2, OnMoves
    <3> QED
      BY <2>1, <3>1, <3>2 DEF TaskInv, NotBegun, FirewallInv, AccessInv, SandboxInv, PackageInv, ServiceInv, SameBut
  <2>3. CASE task' = On("rollback_failed")
    <3>1. task'.act = task.act /\ task'.pc = "rollback_failed"
      BY <2>3, OnMoves
    <3> QED  BY <2>1, <3>1, InvRests
  <2> QED  BY <1>10, <2>2, <2>3 DEF EndUndo
<1>11. CASE OperatorIntervenes
  BY <1>0, <1>11 DEF OperatorIntervenes, Use, Touched
<1>12. CASE UNCHANGED taskVars
  BY <1>12 DEF taskVars, TaskInv, NotBegun, FirewallInv, AccessInv, SandboxInv, PackageInv, ServiceInv, SameBut, Touched
<1> QED
  BY <1>1, <1>2, <1>3, <1>4, <1>5, <1>6, <1>7, <1>8, <1>9, <1>10, <1>11, <1>12 DEF TaskNext

(* A rollback that the helper reports as done has put the host back as it was    *)
(* when the snapshot was taken, and no action touches a firewall rule that an     *)
(* operator made: on any host, for every action, and for every mishap on the way   *)
(* but an operator's edit of what the action is about.                             *)
THEOREM UndoneCorrect == TaskSpec => []UndoneExactly
<1>1. TaskInit => TaskType /\ TaskInv
  BY TypeStarts, InvStarts
<1>2. TaskType /\ TaskInv /\ [TaskNext]_taskVars => (TaskType /\ TaskInv)'
  BY TypeMoves, InvMoves
<1>3. TaskType /\ TaskInv => UndoneExactly
  <2> SUFFICES ASSUME TaskType, TaskInv, ~Touched PROVE \A p \in Ports : was.port[p] = "theirs" => host.port[p] = "theirs"
    BY DEF UndoneExactly, TaskInv, In
  <2>1. CASE task.act = "firewall"
    BY <2>1 DEF TaskInv, FirewallInv
  <2>2. CASE task.act # "firewall"
    <3>1. host.port = was.port
      BY <2>2 DEF TaskInv, TaskType, Acts, AccessInv, SandboxInv, PackageInv, ServiceInv, SameBut, Fields
    <3> QED  BY <3>1
  <2> QED  BY <2>1, <2>2
<1> QED  BY <1>1, <1>2, <1>3, PTL DEF TaskSpec
-----------------------------------------------------------------------------
(* A push to the built-in Caddy (BuiltInCaddy).                              *)

(* Well-formed configurations, pushes and orders. *)
ConfigSet == [up : BOOLEAN, srv : {"ready", "bare"}, live : [Sites -> Policies \cup {"none"}], auto : BOOLEAN,
              skip : SUBSET Sites, policies : BOOLEAN, loads : [Sites -> Issues \cup {0}]]
ApplySet == [pc : {"none", "install", "gate", "ensure", "clear", "tls", "add", "end"},
             set : [Sites -> Demanded], todo : SUBSET Sites, kept : SUBSET Sites,
             clean : BOOLEAN, pure : BOOLEAN]
Orders == [sets : SUBSET [Sites -> Demanded], pushes : Nat, upsets : SUBSET Upsets, count : Nat]
PushTypes ==
    /\ caddy \in ConfigSet /\ applying \in ApplySet
    /\ stored \in [Sites -> Issues \cup {0}]
    /\ memo \in [set : [Sites -> Demanded], clean : BOOLEAN]
    /\ holder \in [backend : {"caddy", "files"}, leaving : BOOLEAN]
    /\ tampered \in BOOLEAN /\ demand \in Orders

(* Every host of the set is served as it asks. *)
Serves(set) == \A s \in Sites : ServedRight(s, set[s])
(* The push is at Caddy. *)
InApply == applying.pc \in {"ensure", "clear", "tls", "add", "end"}
(* Nobody else is at Caddy, which is up. *)
AloneAt == caddy.up /\ call = NoCall /\ holder.backend = "caddy" /\ ~holder.leaving
(* The certificates of the set are in the store. *)
CertsStored == \A s \in Sites : applying.set[s].cert # 0 => stored[s] = applying.set[s].cert
(* The TLS strategy of the set is what Caddy has. *)
Secured(set) ==
    /\ caddy.auto = AnyACME(set) /\ caddy.skip = Skip(set) /\ caddy.loads = LoadFiles(set)
    /\ ~AnyACME(set) /\ (\E s \in Sites : LoadFiles(set)[s] # 0) => caddy.policies

(* A push that meets with nothing has done what its phase says. *)
PushDone ==
    /\ applying.clean
    /\ applying.pc # "none" /\ applying.pc # "install" => CertsStored
    /\ InApply => AloneAt
    /\ applying.pc \in {"ensure", "clear", "tls"} => applying.todo = KeptCerts(applying.set)
    /\ applying.pc \notin {"add", "end"} => applying.kept = {}
    /\ applying.pc = "clear" => caddy.srv = "ready"
    /\ applying.pc = "tls" => caddy.live = NoRoutes
    /\ applying.pc \in {"add", "end"} =>
         /\ caddy.srv = "ready" /\ Secured(applying.set)
         /\ applying.todo \subseteq KeptCerts(applying.set)
         /\ applying.kept = KeptCerts(applying.set) \ applying.todo
         /\ \A s \in Sites : caddy.live[s] = IF s \in applying.kept THEN applying.set[s].policy ELSE "none"
    /\ applying.pc = "end" => applying.todo = {}

(* What a clean push has left is so until others change it. *)
MemoHolds ==
    /\ InApply /\ applying.clean /\ ~tampered => applying.pure
    /\ memo.clean /\ ~tampered =>
         /\ applying.pc \in {"none", "install"} => Serves(memo.set)
         /\ applying.pc = "gate" /\ applying.clean /\ applying.set = memo.set => Serves(memo.set)

(* The inductive invariant of a push to the built-in Caddy. *)
ServesInv == PushTypes /\ (applying.pure => PushDone) /\ MemoHolds

(* A push that has met with nothing ends with every host of its set served as it asks:
   its route live, its certificate in the store and loaded, its management by Caddy on or off. *)
LEMMA ServedAtEnd ==
    ASSUME PushTypes, PushDone, applying.pc = "end"
    PROVE  Serves(applying.set)
<1> DEFINE set == applying.set
<1>1. /\ Secured(set) /\ CertsStored /\ applying.kept = KeptCerts(set)
      /\ \A s \in Sites : caddy.live[s] = IF s \in applying.kept THEN set[s].policy ELSE "none"
    BY DEF PushDone, InApply
<1>2. set \in [Sites -> Demanded] /\ stored \in [Sites -> Issues \cup {0}]
    BY DEF PushTypes, ApplySet
<1> SUFFICES ASSUME NEW s \in Sites PROVE ServedRight(s, set[s])
    BY DEF Serves
<1> HIDE DEF set
<1>3. set[s].policy \in Policies \cup {"none"}
    BY <1>2 DEF Demanded
<1>4. caddy.live[s] = set[s].policy
    BY <1>1, <1>3 DEF KeptCerts
<1>5. set[s].cert # 0 => stored[s] = set[s].cert
    BY <1>1 DEF CertsStored, set
<1>6. /\ caddy.auto = AnyACME(set) /\ caddy.skip = Skip(set) /\ caddy.loads = LoadFiles(set)
      /\ ~AnyACME(set) /\ (\E t \in Sites : LoadFiles(set)[t] # 0) => caddy.policies
    BY <1>1 DEF Secured
<1>7. ASSUME set[s].policy = "central"
      PROVE  /\ caddy.loads[s] = stored[s]
             /\ caddy.auto => s \in caddy.skip
             /\ stored[s] # 0 => caddy.auto \/ caddy.policies
  <2>1. caddy.loads[s] = stored[s] /\ LoadFiles(set)[s] = stored[s]
      BY <1>6, <1>7 DEF LoadFiles
  <2>2. caddy.auto => s \in caddy.skip
      BY <1>6, <1>7 DEF Skip, Structured, Policies
  <2>3. stored[s] # 0 => caddy.auto \/ caddy.policies
      BY <1>6, <2>1
  <2> QED BY <2>1, <2>2, <2>3
<1>8. set[s].policy = "self-acme" => caddy.auto /\ s \notin caddy.skip
    BY <1>6 DEF AnyACME, Skip
<1>9. set[s].policy = "off" => ~caddy.auto \/ s \in caddy.skip
    BY <1>6 DEF Skip, Structured, Policies
<1> QED
    BY <1>4, <1>5, <1>7, <1>8, <1>9 DEF ServedRight

(* What EnsureServer, ClearRoutes, AddRoute and RemoveRoute make of a configuration. *)
LEMMA ConfigIs ==
    ASSUME NEW c \in ConfigSet
    PROVE  /\ Ensured(c) \in ConfigSet /\ Ensured(c).srv = "ready" /\ Ensured(c).up = c.up
           /\ c.live = NoRoutes => Ensured(c).live = NoRoutes
           /\ Cleared(c) \in ConfigSet /\ Cleared(c).live = NoRoutes /\ Cleared(c).up = c.up
           /\ \A s \in Sites, p \in Policies \cup {"none"} :
                 /\ Added(c, s, p) \in ConfigSet /\ Added(c, s, p) = [c EXCEPT !.live = [c.live EXCEPT ![s] = p]]
           /\ \A s \in Sites : Removed(c, s) \in ConfigSet
BY DEF Ensured, Cleared, Added, Removed, NoRoutes, ConfigSet, Policies

(* EnsureServerTLS sets what Caddy is to manage, what it is to leave alone and what it
   loads from the store, and makes no route live. *)
LEMMA TlsIs ==
    ASSUME NEW c \in ConfigSet, NEW set \in [Sites -> Demanded], stored \in [Sites -> Issues \cup {0}]
    PROVE  /\ Https(c, set) \in ConfigSet
           /\ LET e == EnsureServerTLS(c, set) IN
              /\ e \in ConfigSet /\ e.up = c.up /\ e.srv = "ready"
              /\ c.live = NoRoutes => e.live = NoRoutes
              /\ e.auto = AnyACME(set) /\ e.skip = Skip(set) /\ e.loads = LoadFiles(set)
              /\ ~AnyACME(set) /\ (\E s \in Sites : LoadFiles(set)[s] # 0) => e.policies
<1>1. /\ AnyACME(set) \in BOOLEAN /\ Skip(set) \subseteq Sites /\ LoadFiles(set) \in [Sites -> Issues \cup {0}]
      /\ (~AnyACME(set) /\ \E s \in Sites : LoadFiles(set)[s] # 0) \in BOOLEAN
    BY DEF AnyACME, Skip, Structured, LoadFiles
<1>2. ASSUME NEW d \in ConfigSet
      PROVE  LET h == Https(d, set) IN
             /\ h \in ConfigSet /\ h.up = d.up /\ h.srv = d.srv /\ h.live = d.live
             /\ h.auto = AnyACME(set) /\ h.skip = Skip(set)
             /\ ~AnyACME(set) /\ (\E s \in Sites : LoadFiles(set)[s] # 0) => h.policies
  <2> DEFINE a == AnyACME(set)
             b == Skip(set)
             p == (~AnyACME(set) /\ \E s \in Sites : LoadFiles(set)[s] # 0)
  <2>1. Https(d, set) = [d EXCEPT !.auto = a, !.skip = b, !.policies = d.policies \/ p]
      BY DEF Https
  <2>2. a \in BOOLEAN /\ b \subseteq Sites /\ (d.policies \/ p) \in BOOLEAN
      BY <1>1 DEF ConfigSet
  <2> DEFINE q == (d.policies \/ p)
  <2>3. p => q
      OBVIOUS
  <2>4. Https(d, set) = [d EXCEPT !.auto = a, !.skip = b, !.policies = q]
      BY <2>1
  <2> HIDE DEF a, b, p, q
  <2>5. LET h == Https(d, set) IN
             /\ h \in ConfigSet /\ h.up = d.up /\ h.srv = d.srv /\ h.live = d.live
             /\ h.auto = a /\ h.skip = b /\ h.policies = q
      BY <2>2, <2>4 DEF ConfigSet, q
  <2> QED BY <2>3, <2>5 DEF a, b, p
<1>3. Https(c, set) \in ConfigSet
    BY <1>2
<1> DEFINE d == Ensured(c)
           h == Https(d, set)
           l == LoadFiles(set)
<1>4. d \in ConfigSet /\ d.srv = "ready" /\ d.up = c.up /\ (c.live = NoRoutes => d.live = NoRoutes)
    BY ConfigIs
<1> HIDE DEF d
<1>5. /\ h \in ConfigSet /\ h.up = d.up /\ h.srv = d.srv /\ h.live = d.live
      /\ h.auto = AnyACME(set) /\ h.skip = Skip(set)
      /\ ~AnyACME(set) /\ (\E s \in Sites : LoadFiles(set)[s] # 0) => h.policies
    BY <1>2, <1>4
<1>6. EnsureServerTLS(c, set) = [h EXCEPT !.loads = l]
    BY DEF EnsureServerTLS, ApplyTLS, d
<1>7. l \in [Sites -> Issues \cup {0}]
    BY <1>1
<1> HIDE DEF h
<1>8. LET e == [h EXCEPT !.loads = LoadFiles(set)] IN
      /\ e \in ConfigSet /\ e.up = h.up /\ e.srv = h.srv /\ e.live = h.live /\ e.auto = h.auto
      /\ e.skip = h.skip /\ e.policies = h.policies /\ e.loads = LoadFiles(set)
    BY <1>5, <1>7 DEF ConfigSet
<1> QED
    BY <1>3, <1>4, <1>5, <1>6, <1>8
(* A call that reaches Caddy and can be carried out has its effect. *)
LEMMA EffectIs ==
    ASSUME caddy \in ConfigSet, NEW can, NEW after \in ConfigSet
    PROVE  Effect(can, after) \in ConfigSet /\ (Reaches /\ can => Effect(can, after) = after)
BY DEF Effect

(* A step of others at Caddy, at the store or at the holder keeps the invariant: it
   makes the push under way, and what the last one left, no longer alone. *)
LEMMA TaintedKeeps ==
    ASSUME ServesInv, Tainted, caddy' \in ConfigSet, stored' \in [Sites -> Issues \cup {0}],
           holder' \in [backend : {"caddy", "files"}, leaving : BOOLEAN], memo' = memo, demand' = demand
    PROVE  ServesInv'
<1>1. applying \in ApplySet /\ applying' = [applying EXCEPT !.pure = FALSE] /\ tampered' = TRUE
    BY DEF ServesInv, PushTypes, Tainted
<1>2. applying' \in ApplySet /\ ~applying'.pure
    BY <1>1 DEF ApplySet
<1>3. PushTypes'
    BY <1>1, <1>2 DEF ServesInv, PushTypes, ConfigSet, ApplySet, Orders
<1> QED
    BY <1>1, <1>2, <1>3 DEF ServesInv, MemoHolds

(* A call of the push keeps the invariant if it fails, which leaves the push unclean,
   or does what its phase is to do. *)
LEMMA CallKeeps ==
    ASSUME ServesInv, caddy' \in ConfigSet, applying' \in ApplySet, stored' \in [Sites -> Issues \cup {0}],
           UNCHANGED <<memo, holder, tampered, demand>>, InApply, InApply',
           \/ ~applying'.clean /\ ~applying'.pure
           \/ /\ applying'.pure = applying.pure /\ (applying'.clean => applying.clean)
              /\ applying.pure => PushDone'
    PROVE  ServesInv'
<1>1. PushTypes'
    BY DEF ServesInv, PushTypes, ConfigSet, ApplySet, Orders
<1>2. applying'.pure => PushDone'
    OBVIOUS
<1>3. MemoHolds'
    BY DEF ServesInv, MemoHolds, InApply
<1> QED
    BY <1>1, <1>2, <1>3 DEF ServesInv

(* EnsureServer keeps the invariant: srv0 is there. *)
LEMMA EnsureServes ==
    ASSUME ServesInv, EnsureServer
    PROVE  ServesInv'
<1>1. caddy \in ConfigSet /\ applying \in ApplySet /\ stored \in [Sites -> Issues \cup {0}] /\ Ensured(caddy) \in ConfigSet
    BY ConfigIs DEF ServesInv, PushTypes
<1>2. /\ applying'.pc = "clear" /\ applying'.set = applying.set /\ applying.pc = "ensure"
      /\ applying'.todo = applying.todo /\ applying'.kept = applying.kept
      /\ applying' \in ApplySet
      /\ \/ caddy' = Effect(TRUE, Ensured(caddy)) /\ applying'.pure = applying.pure
            /\ applying'.clean = (applying.clean /\ Fine(TRUE))
         \/ ~applying'.clean /\ ~applying'.pure /\ caddy' \in {caddy, Ensured(caddy)}
      /\ UNCHANGED <<memo, table, call, holder, tampered, demand, stored>>
    BY <1>1 DEF EnsureServer, Calls, Phase, ApplySet
<1>3. caddy' \in ConfigSet
    BY <1>1, <1>2, EffectIs
<1>4. InApply /\ InApply'
    BY <1>2 DEF InApply
<1>5. ASSUME applying.pure, caddy' = Effect(TRUE, Ensured(caddy)), applying'.clean = (applying.clean /\ Fine(TRUE))
      PROVE  PushDone'
  <2>1. PushDone
      BY <1>5 DEF ServesInv
  <2>2. AloneAt /\ applying.clean /\ CertsStored
      BY <1>2, <1>4, <2>1 DEF PushDone
  <2>3. caddy' = Ensured(caddy) /\ applying'.clean
      BY <1>1, <1>5, <2>2, EffectIs DEF AloneAt, Reaches, Fine
  <2>4. caddy'.srv = "ready" /\ caddy'.up
      BY <1>1, <2>2, <2>3, ConfigIs DEF AloneAt
  <2> QED BY <1>2, <2>1, <2>2, <2>3, <2>4 DEF PushDone, AloneAt, CertsStored, KeptCerts
<1> QED
    BY <1>1, <1>2, <1>3, <1>4, <1>5, CallKeeps

(* ClearRoutes keeps the invariant: no route is live. *)
LEMMA ClearServes ==
    ASSUME ServesInv, ClearRoutes
    PROVE  ServesInv'
<1>1. caddy \in ConfigSet /\ applying \in ApplySet /\ stored \in [Sites -> Issues \cup {0}] /\ Cleared(caddy) \in ConfigSet
    BY ConfigIs DEF ServesInv, PushTypes
<1>2. /\ applying'.pc = "tls" /\ applying'.set = applying.set /\ applying.pc = "clear"
      /\ applying'.todo = applying.todo /\ applying'.kept = applying.kept
      /\ applying' \in ApplySet
      /\ \/ caddy' = Effect(CanClear, Cleared(caddy)) /\ applying'.pure = applying.pure
            /\ applying'.clean = (applying.clean /\ Fine(CanClear))
         \/ ~applying'.clean /\ ~applying'.pure /\ caddy' \in {caddy, Cleared(caddy)}
      /\ UNCHANGED <<memo, table, call, holder, tampered, demand, stored>>
    BY <1>1 DEF ClearRoutes, Calls, Phase, ApplySet
<1>3. caddy' \in ConfigSet
    BY <1>1, <1>2, EffectIs
<1>4. InApply /\ InApply'
    BY <1>2 DEF InApply
<1>5. ASSUME applying.pure, caddy' = Effect(CanClear, Cleared(caddy)), applying'.clean = (applying.clean /\ Fine(CanClear))
      PROVE  PushDone'
  <2>1. PushDone
      BY <1>5 DEF ServesInv
  <2>2. AloneAt /\ applying.clean /\ CertsStored /\ CanClear
      BY <1>2, <1>4, <2>1 DEF PushDone, CanClear
  <2>3. caddy' = Cleared(caddy) /\ applying'.clean
      BY <1>1, <1>5, <2>2, EffectIs DEF AloneAt, Reaches, Fine
  <2>4. caddy'.live = NoRoutes /\ caddy'.up
      BY <1>1, <2>2, <2>3, ConfigIs DEF AloneAt
  <2> QED BY <1>2, <2>1, <2>2, <2>3, <2>4 DEF PushDone, AloneAt, CertsStored, KeptCerts, NoRoutes
<1> QED
    BY <1>1, <1>2, <1>3, <1>4, <1>5, CallKeeps

(* The TLS strategy keeps the invariant: Caddy is secured as the set asks. *)
LEMMA TlsServes ==
    ASSUME ServesInv, ApplyServerTLS
    PROVE  ServesInv'
<1> DEFINE set == applying.set
           after == EnsureServerTLS(caddy, set)
<1>1. caddy \in ConfigSet /\ applying \in ApplySet /\ stored \in [Sites -> Issues \cup {0}] /\ set \in [Sites -> Demanded]
    BY DEF ServesInv, PushTypes, ApplySet
<1>2. /\ applying'.pc = "add" /\ applying'.set = set /\ applying.pc = "tls"
      /\ applying'.todo = applying.todo /\ applying'.kept = applying.kept
      /\ applying' \in ApplySet
      /\ \/ caddy' = Effect(TRUE, after) /\ applying'.pure = applying.pure
            /\ applying'.clean = (applying.clean /\ Fine(TRUE))
         \/ ~applying'.clean /\ ~applying'.pure
            /\ caddy' \in {caddy, after, Ensured(caddy), Https(Ensured(caddy), set)}
      /\ UNCHANGED <<memo, table, call, holder, tampered, demand, stored>>
    BY <1>1 DEF ApplyServerTLS, Calls, Phase, ApplySet
<1> HIDE DEF set
<1>3. /\ after \in ConfigSet /\ after.up = caddy.up /\ after.srv = "ready"
      /\ caddy.live = NoRoutes => after.live = NoRoutes
      /\ after.auto = AnyACME(set) /\ after.skip = Skip(set) /\ after.loads = LoadFiles(set)
      /\ ~AnyACME(set) /\ (\E s \in Sites : LoadFiles(set)[s] # 0) => after.policies
    BY <1>1, TlsIs
<1>4. Ensured(caddy) \in ConfigSet
    BY <1>1, ConfigIs
<1>5. Https(Ensured(caddy), set) \in ConfigSet
    BY <1>1, <1>4, TlsIs
<1> HIDE DEF after
<1>6. caddy' \in ConfigSet
    BY <1>1, <1>2, <1>3, <1>4, <1>5, EffectIs
<1>7. InApply /\ InApply'
    BY <1>2 DEF InApply
<1>8. ASSUME applying.pure, caddy' = Effect(TRUE, after), applying'.clean = (applying.clean /\ Fine(TRUE))
      PROVE  PushDone'
  <2>1. PushDone
      BY <1>8 DEF ServesInv
  <2>2. AloneAt /\ applying.clean /\ CertsStored /\ caddy.live = NoRoutes
        /\ applying.todo = KeptCerts(set) /\ applying.kept = {}
      BY <1>2, <1>7, <2>1 DEF PushDone, set
  <2>3. caddy' = after /\ applying'.clean
      BY <1>1, <1>3, <1>8, <2>2, EffectIs DEF AloneAt, Reaches, Fine
  <2>4. caddy'.up /\ caddy'.srv = "ready" /\ Secured(set)'
    <3>1. set' = set /\ LoadFiles(set)' = LoadFiles(set) /\ AnyACME(set)' = AnyACME(set) /\ Skip(set)' = Skip(set)
        BY <1>2 DEF set, LoadFiles, AnyACME, Skip, Structured
    <3> QED BY <1>3, <2>2, <2>3, <3>1 DEF AloneAt, Secured
  <2>5. \A s \in Sites : caddy'.live[s] = "none"
      BY <1>3, <2>2, <2>3 DEF NoRoutes
  <2>6. AloneAt' /\ CertsStored'
      BY <1>2, <2>2, <2>4 DEF AloneAt, CertsStored, set
  <2> QED BY <1>2, <2>2, <2>3, <2>4, <2>5, <2>6 DEF PushDone, KeptCerts, set
<1> QED
    BY <1>1, <1>2, <1>6, <1>7, <1>8, CallKeeps

(* A route added keeps the invariant: the routes live are those kept. *)
LEMMA AddServes ==
    ASSUME ServesInv, NEW s \in Sites, AddRoute(s)
    PROVE  ServesInv'
<1> DEFINE set == applying.set
           after == Added(caddy, s, set[s].policy)
           can == CanAdd(s)
<1>1. caddy \in ConfigSet /\ applying \in ApplySet /\ stored \in [Sites -> Issues \cup {0}] /\ set \in [Sites -> Demanded]
    BY DEF ServesInv, PushTypes, ApplySet
<1>2. set[s].policy \in Policies \cup {"none"}
    BY <1>1 DEF Demanded
<1>3. after \in ConfigSet /\ after = [caddy EXCEPT !.live = [caddy.live EXCEPT ![s] = set[s].policy]]
    BY <1>1, <1>2, ConfigIs
<1>4. /\ applying'.pc = "add" /\ applying'.set = set /\ applying.pc = "add" /\ s \in applying.todo
      /\ applying'.todo = applying.todo \ {s}
      /\ applying' \in ApplySet
      /\ \/ /\ caddy' = Effect(can, after) /\ applying'.pure = applying.pure
            /\ applying'.clean = (applying.clean /\ Fine(can))
            /\ applying'.kept = IF Fine(can) THEN applying.kept \cup {s} ELSE applying.kept
         \/ ~applying'.clean /\ ~applying'.pure /\ caddy' \in {caddy, after}
      /\ UNCHANGED <<memo, table, call, holder, tampered, demand, stored>>
  <2> DEFINE more == applying.kept \cup {s}
             kept == IF Fine(can) THEN more ELSE applying.kept
             fine == (applying.clean /\ Fine(can))
             on(k) == [applying EXCEPT !.todo = applying.todo \ {s}, !.kept = k]
  <2>1. /\ applying.pc = "add" /\ s \in applying.todo
        /\ \/ caddy' = Effect(can, after) /\ applying' = [on(kept) EXCEPT !.clean = fine]
           \/ caddy' \in {caddy, after} /\ applying' = [on(applying.kept) EXCEPT !.clean = FALSE, !.pure = FALSE]
        /\ UNCHANGED <<memo, table, call, holder, tampered, demand, stored>>
      BY DEF AddRoute, Calls, Phase, set, after, can
  <2>2. more \subseteq Sites /\ kept \in {more, applying.kept} /\ fine \in BOOLEAN
      BY <1>1 DEF ApplySet
  <2>3. kept = IF Fine(can) THEN applying.kept \cup {s} ELSE applying.kept
      OBVIOUS
  <2>4. fine = (applying.clean /\ Fine(can))
      OBVIOUS
  <2> HIDE DEF more, kept, fine
  <2>5. kept \subseteq Sites /\ applying.todo \ {s} \subseteq Sites
      BY <1>1, <2>2 DEF ApplySet
  <2>6. applying'.pc = "add" /\ applying'.set = set /\ applying'.todo = applying.todo \ {s} /\ applying' \in ApplySet
    <3>1. CASE applying' = [on(kept) EXCEPT !.clean = fine]
        BY <1>1, <2>1, <2>2, <2>5, <3>1 DEF ApplySet, set
    <3>2. CASE applying' = [on(applying.kept) EXCEPT !.clean = FALSE, !.pure = FALSE]
        BY <1>1, <2>1, <2>5, <3>2 DEF ApplySet, set
    <3> QED BY <2>1, <3>1, <3>2
  <2>7. ASSUME applying' = [on(kept) EXCEPT !.clean = fine]
        PROVE  applying'.pure = applying.pure /\ applying'.clean = fine /\ applying'.kept = kept
      BY <1>1, <2>5, <2>7 DEF ApplySet
  <2>8. ASSUME applying' = [on(applying.kept) EXCEPT !.clean = FALSE, !.pure = FALSE]
        PROVE  ~applying'.clean /\ ~applying'.pure
      BY <1>1, <2>8 DEF ApplySet
  <2> HIDE DEF on
  <2> QED BY <2>1, <2>3, <2>4, <2>6, <2>7, <2>8
<1> HIDE DEF set, after, can
<1>5. caddy' \in ConfigSet
    BY <1>1, <1>3, <1>4, EffectIs
<1>6. InApply /\ InApply'
    BY <1>4 DEF InApply
<1>7. ASSUME applying.pure, caddy' = Effect(can, after), applying'.clean = (applying.clean /\ Fine(can)),
             applying'.kept = IF Fine(can) THEN applying.kept \cup {s} ELSE applying.kept
      PROVE  PushDone'
  <2>1. PushDone
      BY <1>7 DEF ServesInv
  <2>2. /\ AloneAt /\ applying.clean /\ CertsStored /\ caddy.srv = "ready" /\ Secured(set)
        /\ applying.todo \subseteq KeptCerts(set) /\ applying.kept = KeptCerts(set) \ applying.todo
        /\ \A t \in Sites : caddy.live[t] = IF t \in applying.kept THEN set[t].policy ELSE "none"
      BY <1>4, <1>6, <2>1 DEF PushDone, set
  <2>3. s \notin applying.kept /\ s \in KeptCerts(set)
      BY <1>4, <2>2
  <2>4. can
      BY <2>2, <2>3 DEF CanAdd, can
  <2>5. caddy' = after /\ Fine(can)
      BY <1>3, <1>7, <2>2, <2>4, <1>1, EffectIs DEF AloneAt, Reaches, Fine
  <2>6. applying'.clean /\ applying'.kept = applying.kept \cup {s}
      BY <1>7, <2>2, <2>5
  <2>7. /\ caddy'.srv = caddy.srv /\ caddy'.up = caddy.up /\ caddy'.auto = caddy.auto /\ caddy'.skip = caddy.skip
        /\ caddy'.loads = caddy.loads /\ caddy'.policies = caddy.policies
        /\ caddy'.live = [caddy.live EXCEPT ![s] = set[s].policy]
      BY <1>1, <1>3, <2>5 DEF ConfigSet
  <2>8. \A t \in Sites : caddy'.live[t] = IF t \in applying'.kept THEN set[t].policy ELSE "none"
    <3> TAKE t \in Sites
    <3>1. caddy.live \in [Sites -> Policies \cup {"none"}]
        BY <1>1 DEF ConfigSet
    <3>2. CASE t = s
        BY <2>6, <2>7, <3>1, <3>2
    <3>3. CASE t # s
        BY <2>2, <2>6, <2>7, <3>1, <3>3
    <3> QED BY <3>2, <3>3
  <2>9. AloneAt' /\ CertsStored' /\ set' = set
      BY <1>4, <2>2, <2>7 DEF AloneAt, CertsStored, set
  <2>10. Secured(set)'
    <3>1. LoadFiles(set)' = LoadFiles(set) /\ AnyACME(set)' = AnyACME(set) /\ Skip(set)' = Skip(set)
        BY <1>4, <2>9 DEF LoadFiles, AnyACME, Skip, Structured
    <3> QED BY <2>2, <2>7, <2>9, <3>1 DEF Secured
  <2>11. applying'.todo \subseteq KeptCerts(set) /\ applying'.kept = KeptCerts(set) \ applying'.todo
      BY <1>4, <2>2, <2>3, <2>6
  <2> QED BY <1>4, <2>2, <2>6, <2>7, <2>8, <2>9, <2>10, <2>11 DEF PushDone, KeptCerts, set
<1> QED
    BY <1>1, <1>4, <1>5, <1>6, <1>7, CallKeeps

(* The prune keeps the invariant: with all the routes of the set live there is no
   orphan, so that it scrubs no certificate. *)
LEMMA PruneServes ==
    ASSUME ServesInv, Prune
    PROVE  ServesInv'
<1> DEFINE set == applying.set
           can == (caddy.srv = "ready")
<1>1. caddy \in ConfigSet /\ applying \in ApplySet /\ stored \in [Sites -> Issues \cup {0}] /\ set \in [Sites -> Demanded]
    BY DEF ServesInv, PushTypes, ApplySet
<1>2. /\ applying'.pc = "end" /\ applying'.set = set /\ applying.pc = "add" /\ applying.todo = {}
      /\ applying'.todo = applying.todo /\ applying'.kept = applying.kept
      /\ applying' \in ApplySet
      /\ \/ applying'.pure = applying.pure /\ applying'.clean = (applying.clean /\ Fine(can))
         \/ ~applying'.clean /\ ~applying'.pure
      /\ caddy' = caddy
      /\ UNCHANGED <<memo, table, call, holder, tampered, demand>>
    BY <1>1 DEF Prune, Calls, Phase, ApplySet, Effect
<1>3. stored' = stored \/ stored' = [s \in Sites |-> IF s \in Orphans(applying.kept) THEN 0 ELSE stored[s]]
    BY DEF Prune
<1> HIDE DEF set, can
<1>4. stored' \in [Sites -> Issues \cup {0}]
    BY <1>1, <1>3
<1>5. InApply /\ InApply'
    BY <1>2 DEF InApply
<1>6. ASSUME applying.pure, applying'.clean = (applying.clean /\ Fine(can))
      PROVE  PushDone'
  <2>1. PushDone
      BY <1>6 DEF ServesInv
  <2>2. /\ AloneAt /\ applying.clean /\ CertsStored /\ caddy.srv = "ready" /\ Secured(set)
        /\ applying.kept = KeptCerts(set)
        /\ \A t \in Sites : caddy.live[t] = IF t \in applying.kept THEN set[t].policy ELSE "none"
      BY <1>2, <1>5, <2>1 DEF PushDone, set
  <2>3. applying'.clean
      BY <1>6, <2>2 DEF AloneAt, Fine, can
  <2>4. Orphans(applying.kept) = {}
      BY <2>2 DEF Orphans
  <2>5. stored' = stored
      BY <1>1, <1>3, <2>4
  <2>6. AloneAt' /\ CertsStored' /\ set' = set
      BY <1>2, <2>2, <2>5 DEF AloneAt, CertsStored, set
  <2>7. Secured(set)'
    <3>1. LoadFiles(set)' = LoadFiles(set) /\ AnyACME(set)' = AnyACME(set) /\ Skip(set)' = Skip(set)
        BY <2>5, <2>6 DEF LoadFiles, AnyACME, Skip, Structured
    <3> QED BY <1>2, <2>2, <2>6, <3>1 DEF Secured
  <2> QED BY <1>2, <2>2, <2>3, <2>6, <2>7 DEF PushDone, KeptCerts, set
<1>7. PushTypes'
    BY <1>1, <1>2, <1>4 DEF ServesInv, PushTypes
<1>8. applying'.pure => PushDone'
    BY <1>2, <1>6
<1>9. MemoHolds'
    BY <1>2, <1>5 DEF ServesInv, MemoHolds, InApply
<1> QED
    BY <1>7, <1>8, <1>9 DEF ServesInv

(* The record of no push under way is well formed. *)
LEMMA IdleIs == NoApply \in ApplySet /\ Nowt \in [Sites -> Demanded]
BY DEF NoApply, Nowt, ApplySet, Demanded

(* A push that has not begun has nothing to have done. *)
LEMMA IdleDone ==
    ASSUME applying'.pc \in {"none", "install"}, applying'.clean, applying'.kept = {}
    PROVE  PushDone'
BY DEF PushDone, InApply

(* The end of an apply keeps the invariant: what is remembered as clean was served. *)
LEMMA EndServes ==
    ASSUME ServesInv, EndApply
    PROVE  ServesInv'
<1>1. /\ applying.pc = "end" /\ applying' = NoApply /\ memo' = [set |-> applying.set, clean |-> applying.clean]
      /\ UNCHANGED <<caddy, stored, table, call, holder, tampered, demand>>
    BY DEF EndApply, Phase
<1>2. PushTypes /\ applying \in ApplySet
    BY DEF ServesInv, PushTypes
<1>3. PushTypes'
    BY <1>1, <1>2, CaddyAssumptions DEF PushTypes, NoApply, Nowt, ApplySet, Demanded
<1>4. applying'.pc = "none" /\ applying'.clean /\ applying'.kept = {}
    BY <1>1 DEF NoApply
<1>5. PushDone'
    BY <1>4, IdleDone
<1>6. ASSUME memo'.clean, ~tampered' PROVE Serves(memo.set)'
  <2>1. applying.clean /\ ~tampered /\ memo'.set = applying.set
      BY <1>1, <1>6
  <2>2. PushDone
      BY <1>1, <2>1 DEF ServesInv, MemoHolds, InApply
  <2>3. Serves(applying.set)
      BY <1>1, <1>2, <2>2, ServedAtEnd
  <2> QED BY <1>1, <2>1, <2>3 DEF Serves, ServedRight
<1>7. MemoHolds'
    BY <1>4, <1>6 DEF MemoHolds, InApply
<1> QED
    BY <1>3, <1>5, <1>7 DEF ServesInv

(* A set received keeps the invariant. *)
LEMMA ReceiveServes ==
    ASSUME ServesInv, NEW w \in demand.sets, Receive(w)
    PROVE  ServesInv'
<1>1. /\ applying.pc = "none" /\ applying' = [NoApply EXCEPT !.pc = "install", !.set = w]
      /\ UNCHANGED <<caddy, stored, memo, table, call, holder, tampered, demand>>
    BY DEF Receive, Phase
<1>2. PushTypes /\ w \in [Sites -> Demanded]
    BY DEF ServesInv, PushTypes, Orders
<1>3. applying' = [pc |-> "install", set |-> w, todo |-> {}, kept |-> {}, clean |-> TRUE, pure |-> TRUE]
    BY <1>1 DEF NoApply
<1>4. {} \in SUBSET Sites /\ TRUE \in BOOLEAN
    OBVIOUS
<1>5. applying' \in ApplySet
    BY <1>2, <1>3, <1>4 DEF ApplySet
<1>6. PushTypes'
    BY <1>1, <1>2, <1>5 DEF PushTypes
<1>7. applying'.pc = "install" /\ applying'.clean /\ applying'.kept = {}
    BY <1>3
<1>8. PushDone'
    BY <1>7, IdleDone
<1>9. MemoHolds'
    BY <1>1, <1>7 DEF ServesInv, MemoHolds, InApply, Serves, ServedRight
<1> QED
    BY <1>6, <1>8, <1>9 DEF ServesInv

(* The bundles written keep the invariant: a set that is the remembered one finds its
   certificates in the store and leaves them there. *)
LEMMA InstallServes ==
    ASSUME ServesInv, InstallCerts
    PROVE  ServesInv'
<1> DEFINE set == applying.set
<1>1. PICK done \in SUBSET BundlesOf(set) :
          /\ \/ done = BundlesOf(set) /\ applying' = [applying EXCEPT !.pc = "gate"]
             \/ applying' = [applying EXCEPT !.pc = "gate", !.clean = FALSE, !.pure = FALSE]
          /\ stored' = [s \in Sites |-> IF s \in done THEN set[s].cert
                                        ELSE IF s \in KeptCerts(set) THEN stored[s] ELSE 0]
    BY DEF InstallCerts
<1>2. /\ applying.pc = "install"
      /\ UNCHANGED <<caddy, memo, table, call, holder, tampered, demand>>
    BY DEF InstallCerts, Phase
<1>3. applying \in ApplySet /\ PushTypes /\ set \in [Sites -> Demanded] /\ stored \in [Sites -> Issues \cup {0}]
    BY DEF ServesInv, PushTypes, ApplySet
<1>4. /\ applying' \in ApplySet /\ applying'.pc = "gate" /\ applying'.set = set /\ applying'.kept = applying.kept
      /\ applying'.pure => applying.pure
      /\ applying'.clean => applying.clean /\ done = BundlesOf(set)
      /\ applying'.pure => applying'.clean = applying.clean
    BY <1>1, <1>3 DEF ApplySet
<1> HIDE DEF set
<1>5. stored' \in [Sites -> Issues \cup {0}]
    BY <1>1, <1>3 DEF Demanded
<1>6. PushTypes'
    BY <1>2, <1>3, <1>4, <1>5 DEF PushTypes
<1>7. ASSUME applying'.pure PROVE PushDone'
  <2>1. PushDone
      BY <1>4, <1>7 DEF ServesInv
  <2>2. applying'.clean /\ applying'.kept = {}
      BY <1>2, <1>4, <1>7, <2>1 DEF PushDone
  <2>3. \A s \in Sites : set[s].cert # 0 => stored'[s] = set[s].cert
      BY <1>1, <1>4, <2>2 DEF BundlesOf
  <2> QED BY <1>4, <2>2, <2>3 DEF PushDone, CertsStored, InApply
<1>8. ASSUME memo'.clean, ~tampered', applying'.clean, applying'.set = memo'.set
      PROVE  Serves(memo.set)'
  <2>1. Serves(memo.set) /\ memo.set = set /\ memo' = memo /\ caddy' = caddy
      BY <1>2, <1>4, <1>8 DEF ServesInv, MemoHolds
  <2>2. done = BundlesOf(set)
      BY <1>4, <1>8
  <2> SUFFICES ASSUME NEW s \in Sites PROVE ServedRight(s, set[s])'
      BY <1>2, <1>4, <2>1 DEF Serves, set
  <2>3. ServedRight(s, set[s])
      BY <2>1 DEF Serves
  <2>4. set' = set
      BY <1>4 DEF set
  <2>5. ASSUME set[s].policy = "central" PROVE stored'[s] = stored[s]
      BY <1>1, <2>2, <2>3, <2>5 DEF ServedRight, BundlesOf, KeptCerts
  <2> QED BY <2>1, <2>3, <2>4, <2>5 DEF ServedRight
<1>9. MemoHolds'
    BY <1>4, <1>8 DEF MemoHolds, InApply
<1> QED
    BY <1>6, <1>7, <1>9 DEF ServesInv

(* A push skipped keeps the invariant. *)
LEMMA SkipServes ==
    ASSUME ServesInv, SkipPush
    PROVE  ServesInv'
<1>1. /\ applying.pc = "gate" /\ applying' = NoApply /\ Suppressible
      /\ UNCHANGED <<caddy, stored, memo, table, call, holder, tampered, demand>>
    BY DEF SkipPush, Phase
<1>2. PushTypes
    BY DEF ServesInv
<1>3. PushTypes'
    BY <1>1, <1>2, IdleIs DEF PushTypes
<1>4. applying'.pc = "none" /\ applying'.clean /\ applying'.kept = {}
    BY <1>1 DEF NoApply
<1>5. PushDone'
    BY <1>4, IdleDone
<1>6. MemoHolds'
    BY <1>1, <1>4 DEF ServesInv, MemoHolds, InApply, Suppressible, Serves, ServedRight
<1> QED
    BY <1>3, <1>5, <1>6 DEF ServesInv

(* The beginning of an apply keeps the invariant: the push goes on alone, or is no
   longer promised anything. *)
LEMMA BeginServes ==
    ASSUME ServesInv, BeginApply
    PROVE  ServesInv'
<1> DEFINE alone == caddy.up /\ call = NoCall /\ ~holder.leaving
           pure == applying.pure /\ alone
           kept == KeptCerts(applying.set)
<1>1. PushTypes /\ applying \in ApplySet /\ caddy \in ConfigSet /\ holder \in [backend : {"caddy", "files"}, leaving : BOOLEAN]
    BY DEF ServesInv, PushTypes
<1>2. /\ applying.pc = "gate"
      /\ UNCHANGED <<caddy, stored, table, call, holder, demand>>
    BY DEF BeginApply, Phase
<1>3. CASE holder.backend # "caddy"
  <2>1. applying' = NoApply /\ memo' = [set |-> Nowt, clean |-> FALSE] /\ tampered' = tampered
      BY <1>3 DEF BeginApply
  <2>2. PushTypes'
      BY <1>1, <1>2, <2>1 DEF PushTypes, NoApply, Nowt, ApplySet, Demanded
  <2>3. applying'.pc = "none" /\ applying'.clean /\ applying'.kept = {}
      BY <2>1 DEF NoApply
  <2>4. MemoHolds'
      BY <2>1, <2>3 DEF MemoHolds, InApply
  <2> QED BY <2>2, <2>3, <2>4, IdleDone DEF ServesInv
<1>4. CASE holder.backend = "caddy"
  <2>1. /\ applying' = [applying EXCEPT !.pc = "ensure", !.pure = pure, !.todo = kept]
        /\ tampered' = ~pure /\ memo' = memo
      BY <1>4 DEF BeginApply
  <2>2. pure \in BOOLEAN /\ kept \subseteq Sites
      BY DEF KeptCerts
  <2>3. pure => applying.pure /\ AloneAt
      BY <1>4 DEF AloneAt
  <2> HIDE DEF pure, kept
  <2>4. /\ applying' \in ApplySet /\ applying'.pc = "ensure" /\ applying'.pure = pure /\ applying'.todo = kept
        /\ applying'.set = applying.set /\ applying'.kept = applying.kept /\ applying'.clean = applying.clean
      BY <1>1, <2>1, <2>2 DEF ApplySet
  <2>5. PushTypes'
      BY <1>1, <1>2, <2>1, <2>2, <2>4 DEF PushTypes
  <2>6. ASSUME applying'.pure PROVE PushDone'
    <3>1. PushDone /\ AloneAt
        BY <2>3, <2>4, <2>6 DEF ServesInv
    <3>2. applying.clean /\ CertsStored /\ applying.kept = {}
        BY <1>2, <3>1 DEF PushDone
    <3> QED BY <1>2, <2>4, <3>1, <3>2 DEF PushDone, AloneAt, CertsStored, kept, KeptCerts
  <2>7. MemoHolds'
      BY <2>1, <2>2, <2>4 DEF MemoHolds, InApply
  <2> QED BY <2>5, <2>6, <2>7 DEF ServesInv
<1> QED
    BY <1>3, <1>4

(* A step of others that leaves Caddy, the store, the push and the memory alone keeps
   the invariant, as it is only possible when the push is not alone. *)
LEMMA OthersServe ==
    ASSUME ServesInv, ~AloneAt, UNCHANGED <<caddy, stored, applying, memo, tampered, demand>>,
           holder' \in [backend : {"caddy", "files"}, leaving : BOOLEAN]
    PROVE  ServesInv'
<1>1. PushTypes'
    BY DEF ServesInv, PushTypes
<1>2. ASSUME applying.pure PROVE PushDone'
  <2>1. PushDone /\ ~InApply
      BY <1>2 DEF ServesInv, PushDone
  <2> QED BY <2>1 DEF PushDone, InApply, CertsStored
<1>3. MemoHolds'
    BY DEF ServesInv, MemoHolds, InApply, Serves, ServedRight
<1> QED
    BY <1>1, <1>2, <1>3 DEF ServesInv

(* The calls of the local API keep the invariant. *)
LEMMA ApiServes ==
    ASSUME ServesInv, ApiNext
    PROVE  ServesInv'
<1>1. /\ caddy \in ConfigSet /\ applying \in ApplySet /\ stored \in [Sites -> Issues \cup {0}]
      /\ holder \in [backend : {"caddy", "files"}, leaving : BOOLEAN]
    BY DEF ServesInv, PushTypes
<1>2. /\ Ensured(caddy) \in ConfigSet /\ Cleared(caddy) \in ConfigSet
      /\ \A s \in Sites : Removed(caddy, s) \in ConfigSet /\ Added(caddy, s, "raw") \in ConfigSet
    BY <1>1, ConfigIs DEF Policies
<1>3. ASSUME OpenCall PROVE ServesInv'
  <2>1. Tainted /\ UNCHANGED <<caddy, stored, memo, holder, demand>>
      BY <1>3 DEF OpenCall
  <2> QED BY <1>1, <2>1, TaintedKeeps
<1>4. ASSUME ApiClears PROVE ServesInv'
  <2>1. Tainted /\ UNCHANGED <<stored, memo, holder, demand>> /\ caddy' = Effect(CanClear, Cleared(caddy))
      BY <1>4 DEF ApiClears, Step
  <2>2. caddy' \in ConfigSet
      BY <1>1, <1>2, <2>1, EffectIs
  <2> QED BY <1>1, <2>1, <2>2, TaintedKeeps
<1>5. ASSUME ApiEnsures PROVE ServesInv'
  <2>1. Tainted /\ UNCHANGED <<stored, memo, holder, demand>> /\ caddy' = Effect(TRUE, Ensured(caddy))
      BY <1>5 DEF ApiEnsures, Step
  <2>2. caddy' \in ConfigSet
      BY <1>1, <1>2, <2>1, EffectIs
  <2> QED BY <1>1, <2>1, <2>2, TaintedKeeps
<1>6. ASSUME NEW s \in Sites, ApiRemoves(s) PROVE ServesInv'
  <2> DEFINE live == caddy.live[s] # "none"
  <2>1. /\ Tainted /\ UNCHANGED <<memo, holder, demand>> /\ caddy' = Effect(live, Removed(caddy, s))
        /\ stored' \in {[stored EXCEPT ![s] = 0], stored}
      BY <1>6 DEF ApiRemoves, Step
  <2> HIDE DEF live
  <2>2. caddy' \in ConfigSet
      BY <1>1, <1>2, <2>1, EffectIs
  <2>3. stored' \in [Sites -> Issues \cup {0}]
      BY <1>1, <2>1
  <2> QED BY <1>1, <2>1, <2>2, <2>3, TaintedKeeps
<1>7. ASSUME NEW s \in Sites, ApiAdds(s) PROVE ServesInv'
  <2>1. /\ Tainted /\ UNCHANGED <<stored, memo, holder, demand>> /\ caddy' = Effect(CanAdd(s), Added(caddy, s, "raw"))
      BY <1>7 DEF ApiAdds, Step
  <2>2. caddy' \in ConfigSet
      BY <1>1, <1>2, <2>1, EffectIs
  <2> QED BY <1>1, <2>1, <2>2, TaintedKeeps
<1>8. ASSUME ApiSynced PROVE ServesInv'
  <2>1. call # NoCall /\ UNCHANGED <<caddy, stored, applying, memo, holder, tampered, demand>>
      BY <1>8 DEF ApiSynced, NoCall
  <2> QED BY <1>1, <2>1, OthersServe DEF AloneAt
<1> QED
    BY <1>3, <1>4, <1>5, <1>6, <1>7, <1>8 DEF ApiNext

(* The configuration Caddy starts with is well formed. *)
LEMMA BlankIs == Blank \in ConfigSet /\ [Blank EXCEPT !.up = FALSE] \in ConfigSet
BY DEF Blank, ConfigSet, NoRoutes

(* The holder, the exit of Caddy and the restart of the agent keep the invariant. *)
LEMMA HostServes ==
    ASSUME ServesInv, StopCaddy \/ SwapExisting \/ SwapBuiltIn \/ CaddyExits \/ AgentRestarts
    PROVE  ServesInv'
<1>1. /\ caddy \in ConfigSet /\ applying \in ApplySet /\ stored \in [Sites -> Issues \cup {0}]
      /\ holder \in [backend : {"caddy", "files"}, leaving : BOOLEAN] /\ demand \in Orders
    BY DEF ServesInv, PushTypes
<1>2. ASSUME StopCaddy PROVE ServesInv'
  <2>1. /\ Tainted /\ UNCHANGED <<stored, memo, demand>> /\ caddy' = [Blank EXCEPT !.up = FALSE]
        /\ holder' = [holder EXCEPT !.leaving = TRUE]
      BY <1>2 DEF StopCaddy
  <2>2. holder' \in [backend : {"caddy", "files"}, leaving : BOOLEAN]
      BY <1>1, <2>1
  <2> QED BY <1>1, <2>1, <2>2, BlankIs, TaintedKeeps
<1>3. ASSUME SwapExisting PROVE ServesInv'
  <2>1. /\ holder.leaving /\ UNCHANGED <<caddy, stored, applying, memo, tampered, demand>>
        /\ holder' = [backend |-> "files", leaving |-> FALSE]
      BY <1>3 DEF SwapExisting
  <2> QED BY <2>1, OthersServe DEF AloneAt
<1>4. ASSUME SwapBuiltIn PROVE ServesInv'
  <2>1. /\ holder.backend # "caddy" /\ UNCHANGED <<caddy, stored, applying, memo, tampered, demand>>
        /\ holder' = [backend |-> "caddy", leaving |-> FALSE]
      BY <1>4 DEF SwapBuiltIn
  <2> QED BY <2>1, OthersServe DEF AloneAt
<1>5. ASSUME CaddyExits PROVE ServesInv'
  <2>1. Tainted /\ UNCHANGED <<stored, memo, holder, demand>> /\ caddy' = [Blank EXCEPT !.up = FALSE]
      BY <1>5 DEF CaddyExits
  <2> QED BY <1>1, <2>1, BlankIs, TaintedKeeps
<1>6. ASSUME AgentRestarts PROVE ServesInv'
  <2>1. /\ caddy' = Blank /\ applying' = NoApply /\ memo' = [set |-> Nowt, clean |-> FALSE]
        /\ holder' = [backend |-> "caddy", leaving |-> FALSE] /\ tampered' = FALSE
        /\ UNCHANGED <<stored, demand>>
      BY <1>6 DEF AgentRestarts
  <2>2. PushTypes'
      BY <1>1, <2>1, BlankIs DEF PushTypes, NoApply, Nowt, ApplySet, Demanded
  <2>3. applying'.pc = "none" /\ applying'.clean /\ applying'.kept = {} /\ ~memo'.clean
      BY <2>1 DEF NoApply
  <2>4. MemoHolds'
      BY <2>3 DEF MemoHolds, InApply
  <2> QED BY <2>2, <2>3, <2>4, IdleDone DEF ServesInv
<1> QED
    BY <1>2, <1>3, <1>4, <1>5, <1>6

(* The invariant holds at first. *)
LEMMA ServesStarts ==
    ASSUME CaddyInit
    PROVE  ServesInv
<1>1. PushTypes
    BY BlankIs, CaddyAssumptions DEF CaddyInit, PushTypes, NoApply, Nowt, ApplySet, Demanded, Orders
<1>2. PushDone /\ MemoHolds
    BY DEF CaddyInit, NoApply, PushDone, MemoHolds, InApply
<1> QED
    BY <1>1, <1>2 DEF ServesInv

(* Every step keeps the invariant. *)
LEMMA ServesStays ==
    ASSUME ServesInv, [CaddyNext]_caddyVars
    PROVE  ServesInv'
<1>1. CASE UNCHANGED caddyVars
  <2>1. UNCHANGED <<caddy, stored, applying, memo, call, holder, tampered, demand>>
      BY <1>1 DEF caddyVars
  <2>2. PushTypes'
      BY <2>1 DEF ServesInv, PushTypes
  <2>3. MemoHolds'
      BY <2>1 DEF ServesInv, MemoHolds, InApply, Serves, ServedRight
  <2>4. PushDone => PushDone'
      BY <2>1 DEF PushDone, InApply, AloneAt, CertsStored, Secured, LoadFiles, AnyACME, Skip, Structured, KeptCerts
  <2> QED BY <2>1, <2>2, <2>3, <2>4 DEF ServesInv
<1>2. CASE PushNext
    BY <1>2, ReceiveServes, InstallServes, SkipServes, BeginServes, EnsureServes, ClearServes, TlsServes, AddServes,
       PruneServes, EndServes DEF PushNext
<1>3. CASE ApiNext
    BY <1>3, ApiServes
<1>4. CASE StopCaddy \/ SwapExisting \/ SwapBuiltIn \/ CaddyExits \/ AgentRestarts
    BY <1>4, HostServes
<1> QED
    BY <1>1, <1>2, <1>3, <1>4 DEF CaddyNext

(* A push that ends at the gate while the memory stays clean was suppressed: the
   same set, after a clean apply (stream.go, the suppression of a repeated push). *)
LEMMA OnlySuppressed ==
    ASSUME PushTypes, CaddyNext, Skipped
    PROVE  Suppressible
<1>1. /\ applying.pc = "gate" /\ applying' = NoApply /\ holder.backend = "caddy" /\ memo' = memo /\ memo.clean
      /\ applying \in ApplySet
    BY DEF Skipped, Phase, PushTypes
<1>2. applying'.pc = "none"
    BY <1>1 DEF NoApply
<1>3. ~Tainted /\ applying' # applying
    BY <1>1, <1>2 DEF Tainted, ApplySet
<1>4. ~ApiNext /\ ~StopCaddy /\ ~SwapExisting /\ ~SwapBuiltIn /\ ~CaddyExits
    BY <1>3 DEF ApiNext, OpenCall, ApiClears, ApiEnsures, ApiRemoves, ApiAdds, ApiSynced, Step, StopCaddy, SwapExisting,
                SwapBuiltIn, CaddyExits
<1>5. ~AgentRestarts
    BY <1>1 DEF AgentRestarts
<1>6. ~BeginApply
  <2> SUFFICES ASSUME BeginApply PROVE FALSE
      OBVIOUS
  <2> DEFINE pure == applying.pure /\ caddy.up /\ call = NoCall /\ ~holder.leaving
             kept == KeptCerts(applying.set)
  <2>1. applying' = [applying EXCEPT !.pc = "ensure", !.pure = pure, !.todo = kept]
      BY <1>1 DEF BeginApply
  <2> HIDE DEF pure, kept
  <2> QED BY <1>1, <1>2, <2>1 DEF ApplySet
<1>7. ~InstallCerts /\ ~EnsureServer /\ ~ClearRoutes /\ ~ApplyServerTLS /\ ~Prune /\ ~EndApply
      /\ (\A w \in demand.sets : ~Receive(w)) /\ (\A s \in Sites : ~AddRoute(s))
    BY <1>1 DEF InstallCerts, EnsureServer, ClearRoutes, ApplyServerTLS, Prune, EndApply, Receive, AddRoute, Phase
<1>8. SkipPush
    BY <1>4, <1>5, <1>6, <1>7 DEF CaddyNext, PushNext
<1> QED
    BY <1>8 DEF SkipPush

(* A push that meets with nothing ends clean with every host of its set served as it  *)
(* asks, and one that is skipped leaves that so: whatever Caddy, the store and the    *)
(* memory of the last apply were when it began.                                       *)
THEOREM ServesCorrect == CaddySpec => CaddyServes
<1>1. CaddyInit => ServesInv
    BY ServesStarts
<1>2. ServesInv /\ [CaddyNext]_caddyVars => ServesInv'
    BY ServesStays
<1>3. ServesInv /\ [CaddyNext]_caddyVars
      => [(Concluded /\ applying.pure) \/ (Skipped /\ ~tampered)
          => applying.clean /\ \A s \in Sites : ServedRight(s, applying.set[s])]_caddyVars
  <2> SUFFICES ASSUME ServesInv, CaddyNext, (Concluded /\ applying.pure) \/ (Skipped /\ ~tampered)
               PROVE  applying.clean /\ Serves(applying.set)
      BY DEF Serves
  <2>1. CASE Concluded /\ applying.pure
    <3>1. PushTypes /\ PushDone /\ applying.pc = "end"
        BY <2>1 DEF ServesInv, Concluded, Phase
    <3> QED BY <3>1, ServedAtEnd DEF PushDone
  <2>2. CASE Skipped /\ ~tampered
    <3>1. Suppressible
        BY <2>2, OnlySuppressed DEF ServesInv
    <3> QED BY <2>2, <3>1 DEF ServesInv, MemoHolds, Skipped, Phase, Suppressible
  <2> QED BY <2>1, <2>2
<1> QED
    BY <1>1, <1>2, <1>3, PTL DEF CaddySpec, CaddyServes
-----------------------------------------------------------------------------
(* ProxyFiles.  The values of every variable.                                *)
PushPcs == {"resting", "install", "render", "prune", "stage", "reload", "rollback", "end"}
LinkStates == {"none", "ours", "copy", "elsewhere"}
MaybeFile == Vhosts \cup {NoFile}
FilePlaces == [file : MaybeFile, link : LinkStates]
Pems   == [crt : Certs \cup {0}, key : Certs \cup {0}, plain : Certs \cup {0}]
PushSet == [pc : PushPcs, set : [Hosts -> Wishes], todo : SUBSET Hosts, art : [Hosts -> MaybeFile],
            certsOK : BOOLEAN, clean : BOOLEAN, removed : BOOLEAN, staged : SUBSET Hosts,
            prior : [Hosts -> FilePlaces], before : [Hosts -> FilePlaces], touched : SUBSET Hosts, pure : BOOLEAN]
LastSet == [set : [Hosts -> Wishes], art : [Hosts -> MaybeFile], clean : BOOLEAN, since : BOOLEAN]
FileTypes ==
    /\ vhost \in [Hosts -> MaybeFile] /\ link \in [Hosts -> LinkStates] /\ copied \in [Hosts -> MaybeFile]
    /\ pem \in [Hosts -> Pems]
    /\ loaded \in [Hosts -> {NoFile} \cup [file : Vhosts, crt : Certs \cup {0}]]
    /\ pushed \in PushSet
    /\ last \in LastSet
    /\ setup \in Setups

Pushing == pushed.pc # "resting"
Writing == pushed.pc \in {"stage", "reload", "rollback", "end"}

\* What a push is about, phase by phase.
PushFacts ==
    /\ pushed.pc = "resting" => pushed = NoPush
    /\ Pushing => pushed.set \in setup.sets
    /\ pushed.pc = "install" => pushed.todo \subseteq Bundled(pushed.set)
    /\ pushed.pc = "render" => pushed.todo \subseteq {h \in Hosts : Pushable(h, pushed.set)}
    /\ pushed.pure => pushed.certsOK /\ pushed.touched = {}
    /\ pushed.pc \notin {"resting", "install", "render"} /\ pushed.clean => pushed.certsOK
    /\ Writing => pushed.staged \subseteq Artifacts
    /\ pushed.pc \in {"install", "render", "prune"} => pushed.staged = {}
    /\ pushed.pc = "stage" => pushed.todo \subseteq Artifacts
    /\ pushed.pc = "reload" => pushed.todo = {}

\* What is drawn is drawn for the hosts that have a vhost in the set, as it asks.
Drawing == IF pushed.pc = "render" THEN pushed.todo ELSE {}
ArtIs ==
    /\ pushed.pc \in {"resting", "install"} => pushed.art = NoPush.art
    /\ pushed.pc \notin {"resting", "install"} =>
         \A h \in Hosts :
            /\ pushed.art[h] # NoFile <=> Pushable(h, pushed.set) /\ h \notin Drawing
            /\ pushed.art[h] # NoFile => pushed.art[h].marked /\ pushed.art[h].use = pushed.set[h].use

\* A rollback from here leads back to what was there before: what it puts back is
\* that, and what it leaves alone is that already.
Returns(h) ==
    IF h \in pushed.staged
    THEN /\ pushed.prior[h] = pushed.before[h]
         /\ LinkedAsBefore(h) \/ (pushed.before[h].link = "none" /\ h \notin pushed.todo)
    ELSE /\ vhost[h] = pushed.before[h].file \/ <<h, "file">> \in refusals
         /\ LinkedAsBefore(h)
UndoFiles ==
    /\ pushed.pc = "stage" =>
         /\ pushed.staged \cap pushed.todo = {}
         /\ \A h \in pushed.todo \ pushed.touched : OnDisk(h) = pushed.before[h]
    /\ pushed.pc \in {"stage", "reload", "rollback"} => \A h \in Hosts \ pushed.touched : Returns(h)
UndoneInv == FileTypes /\ PushFacts /\ ArtIs /\ UndoFiles

\* A host that is ever sent a certificate is sent one in every set that renders it.
\* (A rendered vhost whose domain comes without its bundle goes on with the
\* certificate that is on the disk: without this, that is not the one in the set.)
Steady ==
    \A s \in Setups : \A w1, w2 \in s.sets : \A h \in Hosts :
        w1[h].cert # 0 /\ w2[h].use = "rendered" => w2[h].cert # 0

\* Certificates are on the host only where a set sent one, and those of the push stay.
AnyPem(p) == p.crt # 0 \/ p.key # 0 \/ p.plain # 0
PemsGrounded == \A h \in Hosts : AnyPem(pem[h]) => \E w \in setup.sets : w[h].cert # 0
CertIn(h) ==
    /\ pem[h].crt = pushed.set[h].cert /\ pem[h].key = pushed.set[h].cert
    /\ pushed.set[h].use = "raw" => pem[h].plain = pushed.set[h].cert
CertsIn ==
    Pushing /\ pushed.certsOK => \A h \in Hosts :
        Pushable(h, pushed.set) /\ pushed.set[h].cert # 0 /\ (pushed.pc = "install" => h \notin pushed.todo)
            => CertIn(h)
SecureIs ==
    \A h \in Artifacts :
        /\ pushed.art[h].tls => pushed.set[h].cert # 0 /\ (pushed.certsOK => pem[h].plain = pushed.set[h].cert)
        /\ pushed.pure /\ pushed.set[h].cert # 0 => pushed.art[h].tls

\* Where there are no links there is no copy.
LinksOnly == ~HasLinks => \A h \in Hosts : link[h] # "copy"

\* The push as it writes: no orphan is left, what is staged is there, and an
\* operator's copy is one it came upon.
OrphansGone ==
    pushed.touched = {} =>
      /\ pushed.pc = "prune" => \A h \in Hosts \ pushed.todo : ~Orphan(h)
      /\ Writing /\ (pushed.pure \/ pushed.clean) => \A h \in Hosts : ~Orphan(h)
Staging ==
    pushed.touched = {} /\ pushed.pc \in {"stage", "reload"} =>
        \A h \in Artifacts \ pushed.todo : vhost[h] = pushed.art[h] /\ (HasLinks => link[h] = "ours")
CopiesStay ==
    pushed.pure /\ Writing => \A h \in Hosts : link[h] = "copy" => pushed.before[h].link = "copy"
OnlyBlocked == pushed.pure /\ pushed.pc = "rollback" => InTheWay

\* What the workers serve is what was drawn.
Serving(set, art) ==
    \A h \in Hosts :
        /\ art[h] # NoFile =>
             loaded[h] # NoFile /\ loaded[h].file = art[h] /\ loaded[h].crt = IF art[h].tls THEN set[h].cert ELSE 0
        /\ set[h].use = "none" /\ (\E g \in Hosts : art[g] # NoFile) =>
             loaded[h] = NoFile \/ ~loaded[h].file.marked \/ link[h] = "copy"
EndsLive == pushed.pc = "end" /\ pushed.touched = {} /\ (pushed.clean \/ (pushed.pure /\ ~InTheWay)) =>
                Serving(pushed.set, pushed.art)
LastLive == last.clean /\ ~last.since /\ pushed.pc \in {"resting", "install", "render"} => Serving(last.set, last.art)
FilesInv ==
    /\ UndoneInv
    /\ PemsGrounded /\ LinksOnly /\ CertsIn /\ SecureIs
    /\ OrphansGone /\ Staging /\ CopiesStay /\ OnlyBlocked /\ EndsLive /\ LastLive

\* A set arrives.
LEMMA PushIs ==
    ASSUME FileTypes, NEW w \in setup.sets, Push(w)
    PROVE  /\ pushed' \in PushSet /\ pushed.pc = "resting" /\ pushed'.pc = "install" /\ pushed'.set = w
           /\ pushed'.todo = Bundled(w) /\ pushed'.art = NoPush.art /\ pushed'.staged = {} /\ pushed'.touched = {}
           /\ pushed'.certsOK /\ pushed'.clean /\ pushed'.pure
           /\ UNCHANGED <<vhost, link, copied, pem, loaded, last, setup>>
BY FilesAssumptions DEF FileTypes, Push, PushSet, NoPush, PushPcs, Bundled, FilePlaces, MaybeFile,
   LinkStates, Wishes, AtPush, files

\* A certificate is installed.
LEMMA InstallIs ==
    ASSUME FileTypes, NEW h \in Hosts, Install(h)
    PROVE  /\ pushed' \in PushSet /\ pushed.pc = "install" /\ pushed'.pc = "install" /\ h \in pushed.todo
           /\ pushed'.todo = pushed.todo \ {h}
           /\ UNCHANGED <<pushed.set, pushed.art, pushed.certsOK, pushed.clean, pushed.staged, pushed.prior,
                          pushed.before, pushed.touched, pushed.pure>>
           /\ pem' = [pem EXCEPT ![h] = Installed(h, 3)]
           /\ UNCHANGED <<vhost, link, copied, loaded, last, setup>>
BY DEF FileTypes, Install, PushSet, AtPush, files

\* Installing fails part way.
LEMMA InstallFailsIs ==
    ASSUME FileTypes, NEW h \in Hosts, InstallFails(h)
    PROVE  /\ pushed' \in PushSet /\ pushed.pc = "install" /\ pushed'.pc = "install" /\ h \in pushed.todo
           /\ pushed'.todo = {} /\ ~pushed'.certsOK /\ ~pushed'.pure
           /\ UNCHANGED <<pushed.set, pushed.art, pushed.clean, pushed.staged, pushed.prior,
                          pushed.before, pushed.touched>>
           /\ \E n \in 0..2 : pem' = [pem EXCEPT ![h] = Installed(h, n)]
           /\ UNCHANGED <<vhost, link, copied, loaded, last, setup>>
BY DEF FileTypes, InstallFails, PushSet, AtPush, files

\* Certificates nobody wants go.
LEMMA ScrubIs ==
    ASSUME FileTypes, Scrub
    PROVE  /\ pushed' \in PushSet /\ pushed.pc = "install" /\ pushed'.pc = "render" /\ pushed.todo = {}
           /\ pushed'.todo = {h \in Hosts : Pushable(h, pushed.set)}
           /\ UNCHANGED <<pushed.set, pushed.art, pushed.certsOK, pushed.clean, pushed.staged, pushed.prior,
                          pushed.before, pushed.touched, pushed.pure>>
           /\ pem' = [h \in Hosts |-> IF h \in CertKept(pushed.set) \/ pem[h].crt = 0 THEN pem[h] ELSE NoPem]
           /\ UNCHANGED <<vhost, link, copied, loaded, last, setup>>
BY DEF FileTypes, Scrub, PushSet, PushPcs, AtPush, To, files

\* A vhost is drawn.
LEMMA RenderIs ==
    ASSUME FileTypes, NEW h \in Hosts, Render(h), Pushable(h, pushed.set)
    PROVE  LET tls == pem[h].crt # 0 /\ pem[h].key # 0 IN
           /\ pushed' \in PushSet /\ pushed.pc = "render" /\ pushed'.pc = "render" /\ h \in pushed.todo
           /\ pushed'.todo = pushed.todo \ {h}
           /\ \A g \in Hosts : g # h => pushed'.art[g] = pushed.art[g]
           /\ pushed'.art[h] \in Vhosts /\ pushed'.art[h].marked /\ pushed'.art[h].use = pushed.set[h].use
           /\ pushed'.art[h].tls <=> IF pushed.set[h].use = "raw" THEN pushed.set[h].cert # 0 ELSE tls
           /\ UNCHANGED <<pushed.set, pushed.certsOK, pushed.clean, pushed.staged, pushed.prior,
                          pushed.before, pushed.touched, pushed.pure>>
           /\ pem' = IF pushed.set[h].use = "rendered" /\ tls THEN [pem EXCEPT ![h].plain = pem[h].key] ELSE pem
           /\ UNCHANGED <<vhost, link, copied, loaded, last, setup>>
<1> DEFINE tls == pem[h].crt # 0 /\ pem[h].key # 0
           b == IF pushed.set[h].use = "raw" THEN pushed.set[h].cert # 0 ELSE tls
           d == Drawn(h, b)
           a == [pushed.art EXCEPT ![h] = d]
<1>1. d \in Vhosts /\ d.marked /\ d.use = pushed.set[h].use /\ d.tls = b
    BY DEF Drawn, Vhosts, Pushable
<1>2. a \in [Hosts -> MaybeFile] /\ a[h] = d /\ \A g \in Hosts : g # h => a[g] = pushed.art[g]
    BY <1>1 DEF FileTypes, PushSet, MaybeFile
<1>3. pushed' = [pushed EXCEPT !.todo = pushed.todo \ {h}, !.art = a]
    BY DEF Render, FileTypes, PushSet
<1> HIDE DEF a, d
<1>4. /\ pushed' \in PushSet /\ pushed'.todo = pushed.todo \ {h} /\ pushed'.art = a /\ pushed'.pc = pushed.pc
      /\ UNCHANGED <<pushed.set, pushed.certsOK, pushed.clean, pushed.staged, pushed.prior,
                     pushed.before, pushed.touched, pushed.pure>>
    BY <1>2, <1>3 DEF FileTypes, PushSet
<1>5. /\ pushed.pc = "render" /\ h \in pushed.todo /\ UNCHANGED <<vhost, link, copied, loaded, last, setup>>
      /\ pem' = IF pushed.set[h].use = "rendered" /\ tls THEN [pem EXCEPT ![h].plain = pem[h].key] ELSE pem
    BY DEF Render, AtPush, files
<1> QED
    BY <1>1, <1>2, <1>4, <1>5

\* A vhost is drawn without TLS.
LEMMA RenderDegradesIs ==
    ASSUME FileTypes, NEW h \in Hosts, RenderDegrades(h)
    PROVE  /\ pushed' \in PushSet /\ pushed.pc = "render" /\ pushed'.pc = "render" /\ h \in pushed.todo
           /\ pushed'.todo = pushed.todo \ {h} /\ ~pushed'.pure
           /\ \A g \in Hosts : g # h => pushed'.art[g] = pushed.art[g]
           /\ pushed'.art[h] \in Vhosts /\ pushed'.art[h].marked /\ pushed'.art[h].use = pushed.set[h].use
           /\ ~pushed'.art[h].tls
           /\ UNCHANGED <<pushed.set, pushed.certsOK, pushed.clean, pushed.staged, pushed.prior,
                          pushed.before, pushed.touched>>
           /\ UNCHANGED <<vhost, link, copied, pem, loaded, last, setup>>
<1> DEFINE d == Drawn(h, FALSE)
           a == [pushed.art EXCEPT ![h] = d]
<1>0. pushed.set[h].use = "rendered"
    BY DEF RenderDegrades
<1>1. d \in Vhosts /\ d.marked /\ d.use = pushed.set[h].use /\ ~d.tls
    BY <1>0 DEF Drawn, Vhosts
<1>2. a \in [Hosts -> MaybeFile] /\ a[h] = d /\ \A g \in Hosts : g # h => a[g] = pushed.art[g]
    BY <1>1 DEF FileTypes, PushSet, MaybeFile
<1>3. pushed' = [pushed EXCEPT !.todo = pushed.todo \ {h}, !.art = a, !.pure = FALSE]
    BY DEF RenderDegrades, FileTypes, PushSet
<1> HIDE DEF a, d
<1>4. /\ pushed' \in PushSet /\ pushed'.todo = pushed.todo \ {h} /\ pushed'.art = a /\ pushed'.pc = pushed.pc
      /\ ~pushed'.pure
      /\ UNCHANGED <<pushed.set, pushed.certsOK, pushed.clean, pushed.staged, pushed.prior,
                     pushed.before, pushed.touched>>
    BY <1>2, <1>3 DEF FileTypes, PushSet
<1>5. pushed.pc = "render" /\ h \in pushed.todo /\ UNCHANGED <<vhost, link, copied, pem, loaded, last, setup>>
    BY DEF RenderDegrades, AtPush, files
<1> QED
    BY <1>1, <1>2, <1>4, <1>5

\* The push is not suppressed.
LEMMA ProceedsIs ==
    ASSUME FileTypes, Proceeds
    PROVE  /\ pushed' \in PushSet /\ pushed.pc = "render" /\ pushed.todo = {} /\ pushed'.pc = "prune"
           /\ pushed'.todo = Hosts /\ pushed'.clean = pushed.certsOK
           /\ UNCHANGED <<pushed.set, pushed.art, pushed.certsOK, pushed.staged, pushed.prior,
                          pushed.before, pushed.touched, pushed.pure>>
           /\ UNCHANGED <<vhost, link, copied, pem, loaded, last, setup>>
<1> DEFINE c == pushed.certsOK
<1>1. pushed' = [pushed EXCEPT !.pc = "prune", !.todo = Hosts, !.clean = c]
    BY DEF Proceeds, AfterGate, To, FileTypes, PushSet
<1>2. c \in BOOLEAN /\ Hosts \subseteq Hosts /\ c = pushed.certsOK
    BY DEF FileTypes, PushSet
<1> HIDE DEF c
<1>3. /\ pushed' \in PushSet /\ pushed'.pc = "prune" /\ pushed'.todo = Hosts /\ pushed'.clean = c
      /\ UNCHANGED <<pushed.set, pushed.art, pushed.certsOK, pushed.staged, pushed.prior,
                     pushed.before, pushed.touched, pushed.pure>>
    BY <1>1, <1>2 DEF FileTypes, PushSet, PushPcs
<1> QED
    BY <1>2, <1>3 DEF Proceeds, AtPush, files

\* An orphan goes.
LEMMA PruneOrphanIs ==
    ASSUME FileTypes, NEW h \in Hosts, PruneOrphan(h)
    PROVE  /\ pushed' \in PushSet /\ pushed.pc = "prune" /\ pushed'.pc = "prune" /\ Orphan(h)
           /\ pushed'.todo = pushed.todo \ {h}
           /\ UNCHANGED <<pushed.set, pushed.art, pushed.certsOK, pushed.clean, pushed.staged, pushed.prior,
                          pushed.before, pushed.touched, pushed.pure>>
           /\ vhost' = [vhost EXCEPT ![h] = NoFile] /\ link' = Unlinked(h) /\ pem' = [pem EXCEPT ![h] = NoPem]
           /\ UNCHANGED <<copied, loaded, last, setup>>
BY DEF FileTypes, PruneOrphan, PushSet, AtPush

\* Removing one fails.
LEMMA PruneFailsIs ==
    ASSUME FileTypes, NEW h \in Hosts, PruneFails(h)
    PROVE  /\ pushed' \in PushSet /\ pushed.pc = "prune" /\ pushed'.pc = (IF Artifacts = {} THEN "end" ELSE "stage")
           /\ Orphan(h) /\ pushed'.todo = Artifacts /\ ~pushed'.pure /\ ~pushed'.clean
           /\ UNCHANGED <<pushed.set, pushed.art, pushed.certsOK, pushed.staged, pushed.prior, pushed.touched>>
           /\ pushed'.before[h] = OnDisk(h)' /\ \A g \in Hosts : g # h => pushed'.before[g] = OnDisk(g)
           /\ link' \in {link, Unlinked(h)} /\ vhost' \in {vhost, [vhost EXCEPT ![h] = NoFile]}
           /\ pem' = pem \/ \E p \in Parts(pem[h]) \cup {pem[h]} : pem' = [pem EXCEPT ![h] = p]
           /\ UNCHANGED <<copied, loaded, last, setup>>
<1> DEFINE o == [g \in Hosts |-> OnDisk(g)]
           b == [o EXCEPT ![h] = OnDisk(h)']
           pc == IF Artifacts = {} THEN "end" ELSE "stage"
<1>0. /\ link' \in {link, Unlinked(h)} /\ vhost' \in {vhost, [vhost EXCEPT ![h] = NoFile]}
      /\ pem' = pem \/ \E p \in Parts(pem[h]) \cup {pem[h]} : pem' = [pem EXCEPT ![h] = p]
      /\ pushed.pc = "prune" /\ Orphan(h) /\ UNCHANGED <<copied, loaded, last, setup>>
    BY DEF PruneFails, AtPush
<1>1. vhost' \in [Hosts -> MaybeFile] /\ link' \in [Hosts -> LinkStates]
    BY <1>0 DEF Unlinked, FileTypes, MaybeFile, LinkStates
<1>2. o \in [Hosts -> FilePlaces] /\ OnDisk(h)' \in FilePlaces
    BY <1>1 DEF FileTypes, OnDisk, FilePlaces
<1>3. b \in [Hosts -> FilePlaces] /\ b[h] = OnDisk(h)' /\ \A g \in Hosts : g # h => b[g] = OnDisk(g)
    BY <1>2
<1>4. pushed' = [pushed EXCEPT !.pc = pc, !.todo = Artifacts, !.before = b, !.clean = FALSE, !.pure = FALSE]
    BY DEF PruneFails, AfterPrune, To, FileTypes, PushSet, OnDisk
<1>5. pc \in PushPcs /\ Artifacts \subseteq Hosts
    BY DEF Artifacts, PushPcs
<1> HIDE DEF b, pc
<1>6. /\ pushed' \in PushSet /\ pushed'.pc = pc /\ pushed'.todo = Artifacts /\ ~pushed'.pure /\ ~pushed'.clean
      /\ UNCHANGED <<pushed.set, pushed.art, pushed.certsOK, pushed.staged, pushed.prior, pushed.touched>>
      /\ pushed'.before = b
    BY <1>3, <1>4, <1>5 DEF FileTypes, PushSet
<1> QED
    BY <1>0, <1>3, <1>6 DEF pc

\* The pruning ends.
LEMMA EndPruneIs ==
    ASSUME FileTypes, EndPrune
    PROVE  /\ pushed' \in PushSet /\ pushed.pc = "prune" /\ pushed'.pc = (IF Artifacts = {} THEN "end" ELSE "stage")
           /\ pushed'.todo = Artifacts /\ \A h \in pushed.todo : ~Orphan(h)
           /\ UNCHANGED <<pushed.set, pushed.art, pushed.certsOK, pushed.staged, pushed.prior, pushed.touched>>
           /\ \A g \in Hosts : pushed'.before[g] = OnDisk(g)
           /\ pushed'.pure => pushed.pure
           /\ pushed'.clean => pushed.clean
           /\ loaded' \in {loaded, Load}
           /\ UNCHANGED <<vhost, link, copied, pem, last, setup>>
<1> DEFINE o == [g \in Hosts |-> OnDisk(g)]
           pc == IF Artifacts = {} THEN "end" ELSE "stage"
<1>1. o \in [Hosts -> FilePlaces] /\ \A g \in Hosts : o[g] = OnDisk(g)
    BY DEF FileTypes, OnDisk, FilePlaces
<1>2. pc \in PushPcs /\ Artifacts \subseteq Hosts
    BY DEF Artifacts, PushPcs
<1>3. \/ pushed' = [pushed EXCEPT !.pc = pc, !.todo = Artifacts, !.before = o]
      \/ pushed' = [pushed EXCEPT !.pc = pc, !.todo = Artifacts, !.before = o, !.clean = FALSE]
      \/ pushed' = [pushed EXCEPT !.pc = pc, !.todo = Artifacts, !.before = o, !.clean = FALSE, !.pure = FALSE]
    BY DEF EndPrune, AfterPrune, To, FileTypes, PushSet
<1> HIDE DEF o, pc
<1>4. /\ pushed' \in PushSet /\ pushed'.pc = pc /\ pushed'.todo = Artifacts
      /\ UNCHANGED <<pushed.set, pushed.art, pushed.certsOK, pushed.staged, pushed.prior, pushed.touched>>
      /\ pushed'.before = o /\ (pushed'.pure => pushed.pure) /\ (pushed'.clean => pushed.clean)
  <2>1. CASE pushed' = [pushed EXCEPT !.pc = pc, !.todo = Artifacts, !.before = o]
      BY <1>1, <1>2, <2>1 DEF FileTypes, PushSet
  <2>2. CASE pushed' = [pushed EXCEPT !.pc = pc, !.todo = Artifacts, !.before = o, !.clean = FALSE]
      BY <1>1, <1>2, <2>2 DEF FileTypes, PushSet
  <2>3. CASE pushed' = [pushed EXCEPT !.pc = pc, !.todo = Artifacts, !.before = o, !.clean = FALSE, !.pure = FALSE]
      BY <1>1, <1>2, <2>3 DEF FileTypes, PushSet
  <2> QED BY <1>3, <2>1, <2>2, <2>3
<1>5. /\ pushed.pc = "prune" /\ \A h \in pushed.todo : ~Orphan(h)
      /\ loaded' \in {loaded, Load} /\ UNCHANGED <<vhost, link, copied, pem, last, setup>>
    BY DEF EndPrune, AtPush, files
<1> QED
    BY <1>1, <1>4, <1>5 DEF pc

\* A file is written and activated, or its link refused.
LEMMA StageIs ==
    ASSUME FileTypes, NEW h \in Hosts, Stage(h)
    PROVE  /\ pushed' \in PushSet /\ pushed.pc = "stage" /\ h \in pushed.todo
           /\ UNCHANGED <<pushed.set, pushed.art, pushed.certsOK, pushed.clean, pushed.before, pushed.touched, pushed.pure>>
           /\ pushed'.prior[h] = OnDisk(h) /\ \A g \in Hosts : g # h => pushed'.prior[g] = pushed.prior[g]
           /\ pushed'.staged = pushed.staged \cup {h} /\ pushed'.todo = pushed.todo \ {h}
           /\ Refused(h) => pushed'.pc = "rollback" /\ link' = link
           /\ ~Refused(h) => pushed'.pc = "stage"
           /\ vhost' = [vhost EXCEPT ![h] = pushed.art[h]]
           /\ link' = IF HasLinks /\ ~Refused(h) THEN [link EXCEPT ![h] = "ours"] ELSE link
           /\ UNCHANGED <<copied, refusals, pem, loaded, last, setup>>
<1> DEFINE p == [pushed.prior EXCEPT ![h] = OnDisk(h)]
<1>1. OnDisk(h) \in FilePlaces
    BY DEF FileTypes, OnDisk, FilePlaces
<1>2. p \in [Hosts -> FilePlaces] /\ p[h] = OnDisk(h) /\ \A g \in Hosts : g # h => p[g] = pushed.prior[g]
    BY <1>1 DEF FileTypes, PushSet
<1>3. pushed' = IF Refused(h)
                THEN [pushed EXCEPT !.prior = p, !.pc = "rollback", !.todo = pushed.todo \ {h}, !.staged = pushed.staged \cup {h}]
                ELSE [pushed EXCEPT !.prior = p, !.todo = pushed.todo \ {h}, !.staged = pushed.staged \cup {h}]
    BY DEF Stage, Snapshot, Registered, FileTypes, PushSet
<1> HIDE DEF p
<1>4. /\ pushed.pc = "stage" /\ h \in pushed.todo
      /\ vhost' = [vhost EXCEPT ![h] = pushed.art[h]]
      /\ link' = IF HasLinks /\ ~Refused(h) THEN [link EXCEPT ![h] = "ours"] ELSE link
      /\ UNCHANGED <<copied, refusals, pem, loaded, last, setup>>
    BY DEF Stage, Holds, AtPush
<1>5. /\ pushed' \in PushSet /\ pushed'.prior = p /\ pushed'.staged = pushed.staged \cup {h}
      /\ pushed'.todo = pushed.todo \ {h}
      /\ UNCHANGED <<pushed.set, pushed.art, pushed.certsOK, pushed.clean, pushed.before, pushed.touched, pushed.pure>>
      /\ Refused(h) => pushed'.pc = "rollback"
      /\ ~Refused(h) => pushed'.pc = "stage"
  <2>1. CASE Refused(h)
      BY <1>2, <1>3, <2>1 DEF FileTypes, PushSet, PushPcs
  <2>2. CASE ~Refused(h)
      BY <1>2, <1>3, <1>4, <2>2 DEF FileTypes, PushSet, PushPcs
  <2> QED BY <2>1, <2>2
<1> QED
    BY <1>2, <1>4, <1>5

\* What a write leaves, and where it leaves it.
LEMMA ScrapsAre ==
    ASSUME NEW f \in MaybeFile
    PROVE  Scraps(f) \subseteq MaybeFile
<1>1. CASE f = NoFile
    BY <1>1 DEF Scraps
<1>2. CASE f # NoFile
  <2> DEFINE e1 == [marked |-> FALSE, use |-> "edited", tls |-> FALSE]
             e2 == [marked |-> f.marked, use |-> "broken", tls |-> FALSE]
  <2>1. f.marked \in BOOLEAN
      BY <1>2 DEF MaybeFile, Vhosts
  <2>2. e1 \in Vhosts /\ e2 \in Vhosts
      BY <2>1 DEF Vhosts
  <2>3. Scraps(f) = {e1, e2}
      BY <1>2 DEF Scraps
  <2> HIDE DEF e1, e2
  <2> QED BY <2>2, <2>3 DEF MaybeFile
<1> QED BY <1>1, <1>2

\* A file of a host is written.
LEMMA HoldsIs ==
    ASSUME vhost \in [Hosts -> MaybeFile], NEW h \in Hosts, NEW f \in MaybeFile
    PROVE  /\ Holds(h, f) \in [Hosts -> MaybeFile] /\ Holds(h, f)[h] = f
           /\ \A g \in Hosts : g # h => Holds(h, f)[g] = vhost[g]
BY DEF Holds

\* A link goes.
LEMMA BareIs ==
    ASSUME link \in [Hosts -> LinkStates], NEW h \in Hosts
    PROVE  /\ Bare(h) \in [Hosts -> LinkStates] /\ Bare(h)[h] = "none"
           /\ \A g \in Hosts : g # h => Bare(h)[g] = link[g]
BY DEF Bare, LinkStates

\* What a rollback does with a link.
LEMMA InactiveIs ==
    ASSUME FileTypes, NEW h \in Hosts
    PROVE  /\ Inactive(h) \in [Hosts -> LinkStates]
           /\ \A g \in Hosts : g # h => Inactive(h)[g] = link[g]
           /\ Inactive(h)[h] = IF h \notin pushed.todo /\ pushed.prior[h].link \in {"none", "copy"} THEN "none" ELSE link[h]
<1>1. link \in [Hosts -> LinkStates]
    BY DEF FileTypes
<1>2. CASE h \notin pushed.todo /\ pushed.prior[h].link \in {"none", "copy"}
    BY <1>1, <1>2, BareIs DEF Inactive
<1>3. CASE ~(h \notin pushed.todo /\ pushed.prior[h].link \in {"none", "copy"})
    BY <1>1, <1>3 DEF Inactive
<1> QED BY <1>2, <1>3

\* A file cannot be read or written, or its link not made.
LEMMA StageFailsIs ==
    ASSUME FileTypes, NEW h \in Hosts, StageFails(h)
    PROVE  /\ pushed' \in PushSet /\ pushed.pc = "stage" /\ pushed'.pc = "rollback" /\ h \in pushed.todo
           /\ UNCHANGED <<pushed.set, pushed.art, pushed.certsOK, pushed.clean, pushed.before, pushed.touched>>
           /\ ~pushed'.pure
           /\ \/ UNCHANGED <<pushed.prior, pushed.staged, pushed.todo, vhost, link, refusals>>
              \/ /\ pushed'.prior[h] = OnDisk(h) /\ \A g \in Hosts : g # h => pushed'.prior[g] = pushed.prior[g]
                 /\ pushed'.staged = pushed.staged \cup {h}
                 /\ \/ UNCHANGED <<pushed.todo, link, refusals>>
                    \/ pushed'.todo = pushed.todo \ {h} /\ UNCHANGED <<link, refusals>>
                    \/ /\ pushed'.todo = pushed.todo \ {h} /\ link' = Bare(h)
                       /\ refusals' = IF link[h] = "none" THEN refusals ELSE refusals \cup {<<h, "link">>}
           /\ vhost' \in [Hosts -> MaybeFile] /\ \A g \in Hosts : g # h => vhost'[g] = vhost[g]
           /\ link' \in [Hosts -> LinkStates] /\ \A g \in Hosts : g # h => link'[g] = link[g]
           /\ link'[h] \in {link[h], "none"}
           /\ UNCHANGED <<copied, pem, loaded, last, setup>>
<1> DEFINE p == [pushed.prior EXCEPT ![h] = OnDisk(h)]
           st == pushed.staged \cup {h}
           td == pushed.todo \ {h}
<1>1. OnDisk(h) \in FilePlaces
    BY DEF FileTypes, OnDisk, FilePlaces
<1>2. /\ p \in [Hosts -> FilePlaces] /\ p[h] = OnDisk(h) /\ \A g \in Hosts : g # h => p[g] = pushed.prior[g]
      /\ st \subseteq Hosts /\ td \subseteq Hosts
    BY <1>1 DEF FileTypes, PushSet
<1>3. /\ pushed.pc = "stage" /\ h \in pushed.todo /\ UNCHANGED <<copied, pem, loaded, last, setup>>
      /\ \/ /\ pushed' = [pushed EXCEPT !.pc = "rollback", !.pure = FALSE] /\ UNCHANGED <<vhost, link, refusals>>
         \/ /\ pushed' = [pushed EXCEPT !.prior = p, !.staged = st, !.pc = "rollback", !.pure = FALSE]
            /\ UNCHANGED <<link, refusals>> /\ vhost' \in {vhost} \cup {Holds(h, f) : f \in Scraps(pushed.art[h])}
         \/ /\ pushed' = [pushed EXCEPT !.prior = p, !.staged = st, !.todo = td, !.pc = "rollback", !.pure = FALSE]
            /\ vhost' = Holds(h, pushed.art[h])
            /\ \/ UNCHANGED <<link, refusals>>
               \/ link' = Bare(h) /\ refusals' = IF link[h] = "none" THEN refusals ELSE refusals \cup {<<h, "link">>}
    BY DEF StageFails, Snapshot, Registered, AtPush, FileTypes, PushSet
<1>4. /\ vhost \in [Hosts -> MaybeFile] /\ link \in [Hosts -> LinkStates] /\ pushed.art[h] \in MaybeFile
      /\ pushed \in PushSet
    BY DEF FileTypes, PushSet
<1>5. /\ Bare(h) \in [Hosts -> LinkStates] /\ Bare(h)[h] = "none"
      /\ \A g \in Hosts : g # h => Bare(h)[g] = link[g]
    BY <1>4, BareIs
<1>6. vhost' \in [Hosts -> MaybeFile] /\ \A g \in Hosts : g # h => vhost'[g] = vhost[g]
  <2>1. Scraps(pushed.art[h]) \subseteq MaybeFile
      BY <1>4, ScrapsAre
  <2>2. \A f \in MaybeFile : /\ Holds(h, f) \in [Hosts -> MaybeFile]
                             /\ \A g \in Hosts : g # h => Holds(h, f)[g] = vhost[g]
      BY <1>4, HoldsIs
  <2> QED BY <1>3, <1>4, <2>1, <2>2
<1> HIDE DEF p, st, td
<1>7. /\ link' \in [Hosts -> LinkStates] /\ \A g \in Hosts : g # h => link'[g] = link[g]
      /\ link'[h] \in {link[h], "none"}
    BY <1>3, <1>4, <1>5
<1>8. CASE pushed' = [pushed EXCEPT !.pc = "rollback", !.pure = FALSE] /\ UNCHANGED <<vhost, link, refusals>>
  <2>1. /\ pushed' \in PushSet /\ pushed'.pc = "rollback" /\ ~pushed'.pure
        /\ UNCHANGED <<pushed.set, pushed.art, pushed.certsOK, pushed.clean, pushed.before, pushed.touched,
                       pushed.prior, pushed.staged, pushed.todo>>
      BY <1>4, <1>8 DEF PushSet, PushPcs
  <2> QED BY <1>3, <1>6, <1>7, <1>8, <2>1
<1>9. CASE /\ pushed' = [pushed EXCEPT !.prior = p, !.staged = st, !.pc = "rollback", !.pure = FALSE]
           /\ UNCHANGED <<link, refusals>>
  <2>1. /\ pushed' \in PushSet /\ pushed'.pc = "rollback" /\ ~pushed'.pure /\ pushed'.prior = p /\ pushed'.staged = st
        /\ UNCHANGED <<pushed.set, pushed.art, pushed.certsOK, pushed.clean, pushed.before, pushed.touched, pushed.todo>>
      BY <1>2, <1>4, <1>9 DEF PushSet, PushPcs
  <2> QED BY <1>2, <1>3, <1>6, <1>7, <1>9, <2>1 DEF st
<1>10. CASE /\ pushed' = [pushed EXCEPT !.prior = p, !.staged = st, !.todo = td, !.pc = "rollback", !.pure = FALSE]
            /\ \/ UNCHANGED <<link, refusals>>
               \/ link' = Bare(h) /\ refusals' = IF link[h] = "none" THEN refusals ELSE refusals \cup {<<h, "link">>}
  <2>1. /\ pushed' \in PushSet /\ pushed'.pc = "rollback" /\ ~pushed'.pure /\ pushed'.prior = p /\ pushed'.staged = st
        /\ pushed'.todo = td
        /\ UNCHANGED <<pushed.set, pushed.art, pushed.certsOK, pushed.clean, pushed.before, pushed.touched>>
      BY <1>2, <1>4, <1>10 DEF PushSet, PushPcs
  <2> QED BY <1>2, <1>3, <1>6, <1>7, <1>10, <2>1 DEF st, td
<1> QED
    BY <1>3, <1>8, <1>9, <1>10

\* The configuration is tested.
LEMMA TestIs ==
    ASSUME FileTypes, Test
    PROVE  /\ pushed' \in PushSet /\ pushed.pc = "stage" /\ pushed.todo = {}
           /\ pushed'.pc \in {"reload", "rollback"}
           /\ UNCHANGED <<pushed.set, pushed.art, pushed.certsOK, pushed.clean, pushed.before, pushed.touched,
                          pushed.todo, pushed.staged, pushed.prior>>
           /\ pushed'.pure => pushed.pure
           /\ pushed'.pc = "rollback" /\ pushed'.pure => ~TestPasses
           /\ UNCHANGED <<vhost, link, copied, refusals, pem, loaded, last, setup>>
BY DEF FileTypes, Test, PushSet, PushPcs, AtPush, To, files

\* The proxy is reloaded.
LEMMA ReloadIs ==
    ASSUME FileTypes, ReloadProxy
    PROVE  /\ pushed' \in PushSet /\ pushed.pc = "reload"
           /\ pushed'.pc \in {"end", "rollback"}
           /\ UNCHANGED <<pushed.set, pushed.art, pushed.certsOK, pushed.clean, pushed.before, pushed.touched,
                          pushed.todo, pushed.staged, pushed.prior>>
           /\ pushed'.pure => pushed.pure
           /\ pushed'.pc = "rollback" /\ pushed'.pure => ~TestPasses
           /\ pushed'.pc = "end" => TestPasses /\ loaded' = Load
           /\ pushed'.pc = "rollback" => loaded' = loaded
           /\ UNCHANGED <<vhost, link, copied, refusals, pem, last, setup>>
BY DEF FileTypes, ReloadProxy, PushSet, PushPcs, AtPush, To, files

\* A file is rolled back.
LEMMA RollBackIs ==
    ASSUME FileTypes, NEW h \in Hosts, RollBack(h)
    PROVE  /\ pushed' \in PushSet /\ pushed.pc = "rollback" /\ pushed'.pc = "rollback" /\ h \in pushed.staged
           /\ pushed'.staged = pushed.staged \ {h}
           /\ UNCHANGED <<pushed.set, pushed.art, pushed.certsOK, pushed.clean, pushed.before, pushed.touched,
                          pushed.todo, pushed.prior, pushed.pure>>
           /\ vhost' \in [Hosts -> MaybeFile] /\ vhost'[h] = pushed.prior[h].file
           /\ \A g \in Hosts : g # h => vhost'[g] = vhost[g]
           /\ link' = Inactive(h)
           /\ link' \in [Hosts -> LinkStates] /\ \A g \in Hosts : g # h => link'[g] = link[g]
           /\ link'[h] \in {link[h], "none"}
           /\ UNCHANGED <<copied, refusals, pem, loaded, last, setup>>
<1>1. /\ pushed' \in PushSet /\ pushed.pc = "rollback" /\ pushed'.pc = "rollback" /\ h \in pushed.staged
      /\ pushed'.staged = pushed.staged \ {h}
      /\ UNCHANGED <<pushed.set, pushed.art, pushed.certsOK, pushed.clean, pushed.before, pushed.touched,
                     pushed.todo, pushed.prior, pushed.pure>>
      /\ vhost' = Holds(h, pushed.prior[h].file) /\ link' = Inactive(h)
      /\ UNCHANGED <<copied, refusals, pem, loaded, last, setup>>
    BY DEF FileTypes, RollBack, PushSet, AtPush
<1>2. pushed.prior[h].file \in MaybeFile /\ vhost \in [Hosts -> MaybeFile]
    BY DEF FileTypes, PushSet, FilePlaces
<1> QED BY <1>1, <1>2, HoldsIs, InactiveIs

\* The disk refuses to put a file back, or to remove its link.
LEMMA RollBackFailsIs ==
    ASSUME FileTypes, NEW h \in Hosts, RollBackFails(h)
    PROVE  /\ pushed' \in PushSet /\ pushed.pc = "rollback" /\ pushed'.pc = "rollback" /\ h \in pushed.staged
           /\ pushed'.staged = pushed.staged \ {h} /\ ~pushed'.pure
           /\ UNCHANGED <<pushed.set, pushed.art, pushed.certsOK, pushed.clean, pushed.before, pushed.touched,
                          pushed.todo, pushed.prior>>
           /\ vhost' \in [Hosts -> MaybeFile] /\ \A g \in Hosts : g # h => vhost'[g] = vhost[g]
           /\ link' \in [Hosts -> LinkStates] /\ \A g \in Hosts : g # h => link'[g] = link[g]
           /\ link'[h] \in {link[h], "none"}
           /\ vhost'[h] = pushed.prior[h].file \/ <<h, "file">> \in refusals'
           /\ link'[h] = Inactive(h)[h] \/ <<h, "link">> \in refusals'
           /\ refusals \subseteq refusals'
           /\ UNCHANGED <<copied, pem, loaded, last, setup>>
<1>1. /\ pushed' \in PushSet /\ pushed.pc = "rollback" /\ pushed'.pc = "rollback" /\ h \in pushed.staged
      /\ pushed'.staged = pushed.staged \ {h} /\ ~pushed'.pure
      /\ UNCHANGED <<pushed.set, pushed.art, pushed.certsOK, pushed.clean, pushed.before, pushed.touched,
                     pushed.todo, pushed.prior>>
      /\ UNCHANGED <<copied, pem, loaded, last, setup>>
    BY DEF FileTypes, RollBackFails, PushSet, AtPush
<1>2. /\ vhost' \in {vhost} \cup {Holds(h, f) : f \in Scraps(pushed.prior[h].file) \cup {pushed.prior[h].file}}
      /\ link' \in {link, Inactive(h)} /\ refusals \subseteq refusals'
      /\ vhost' = Holds(h, pushed.prior[h].file) \/ <<h, "file">> \in refusals'
      /\ link' = Inactive(h) \/ <<h, "link">> \in refusals'
    BY DEF RollBackFails
<1>3. pushed.prior[h].file \in MaybeFile /\ vhost \in [Hosts -> MaybeFile] /\ link \in [Hosts -> LinkStates]
    BY DEF FileTypes, PushSet, FilePlaces
<1>4. Scraps(pushed.prior[h].file) \cup {pushed.prior[h].file} \subseteq MaybeFile
    BY <1>3, ScrapsAre
<1>5. \A f \in MaybeFile : /\ Holds(h, f) \in [Hosts -> MaybeFile] /\ Holds(h, f)[h] = f
                           /\ \A g \in Hosts : g # h => Holds(h, f)[g] = vhost[g]
    BY <1>3, HoldsIs
<1>6. vhost' \in [Hosts -> MaybeFile] /\ \A g \in Hosts : g # h => vhost'[g] = vhost[g]
    BY <1>2, <1>3, <1>4, <1>5
<1> QED BY <1>1, <1>2, <1>3, <1>5, <1>6, InactiveIs

\* The rollback ends.
LEMMA RolledBackIs ==
    ASSUME FileTypes, RolledBack
    PROVE  /\ pushed' \in PushSet /\ pushed.pc = "rollback" /\ pushed'.pc = "end" /\ pushed.staged = {}
           /\ ~pushed'.clean
           /\ UNCHANGED <<pushed.set, pushed.art, pushed.certsOK, pushed.before, pushed.touched,
                          pushed.todo, pushed.staged, pushed.prior, pushed.pure>>
           /\ UNCHANGED <<vhost, link, copied, pem, loaded, last, setup>>
BY DEF FileTypes, RolledBack, PushSet, PushPcs, AtPush, To, files

\* An operator acts.
LEMMA OperatorIs ==
    ASSUME FileTypes, NEW h \in Hosts, OperatorActs(h)
    PROVE  /\ pushed' \in PushSet /\ pushed'.pc = pushed.pc /\ last'.since
           /\ UNCHANGED <<pushed.set, pushed.art, pushed.certsOK, pushed.clean, pushed.before,
                          pushed.todo, pushed.staged, pushed.prior>>
           /\ pushed.pc = "resting" => pushed' = pushed
           /\ pushed.pc # "resting" => ~pushed'.pure /\ pushed'.touched = pushed.touched \cup {h}
           /\ \A g \in Hosts : g # h => vhost'[g] = vhost[g] /\ link'[g] = link[g]
           /\ vhost'[h] = vhost[h] \/ (vhost'[h] \in Vhosts /\ vhost'[h].use = "edited" /\ ~vhost'[h].tls)
           /\ link'[h] = "copy" => link[h] = "copy" \/ HasLinks
           /\ vhost' \in [Hosts -> MaybeFile] /\ link' \in [Hosts -> LinkStates] /\ copied' \in [Hosts -> MaybeFile]
           /\ last' \in LastSet
           /\ UNCHANGED <<pem, refusals, loaded, setup>>
<1>1. /\ pushed' \in PushSet /\ pushed'.pc = pushed.pc
      /\ UNCHANGED <<pushed.set, pushed.art, pushed.certsOK, pushed.clean, pushed.before,
                     pushed.todo, pushed.staged, pushed.prior>>
      /\ pushed.pc = "resting" => pushed' = pushed
      /\ pushed.pc # "resting" => ~pushed'.pure /\ pushed'.touched = pushed.touched \cup {h}
  <2>1. CASE pushed.pc = "resting"
      BY <2>1 DEF FileTypes, OperatorActs, PushSet, AtPush
  <2>2. CASE pushed.pc # "resting"
      BY <2>2 DEF FileTypes, OperatorActs, PushSet, AtPush
  <2> QED BY <2>1, <2>2
<1>2. /\ last'.since /\ UNCHANGED <<pem, refusals, loaded, setup>>
      /\ last' \in LastSet
    BY DEF FileTypes, OperatorActs, LastSet
<1>3. /\ \A g \in Hosts : g # h => vhost'[g] = vhost[g] /\ link'[g] = link[g]
      /\ vhost'[h] = vhost[h] \/ (vhost'[h] \in Vhosts /\ vhost'[h].use = "edited" /\ ~vhost'[h].tls)
      /\ link'[h] = "copy" => link[h] = "copy" \/ HasLinks
      /\ vhost' \in [Hosts -> MaybeFile] /\ link' \in [Hosts -> LinkStates] /\ copied' \in [Hosts -> MaybeFile]
  <2>1. /\ vhost \in [Hosts -> MaybeFile] /\ link \in [Hosts -> LinkStates] /\ copied \in [Hosts -> MaybeFile]
      BY DEF FileTypes
  <2>2. ASSUME NEW m \in BOOLEAN, vhost' = [vhost EXCEPT ![h] = [marked |-> m, use |-> "edited", tls |-> FALSE]],
               UNCHANGED <<link, copied>>
        PROVE  /\ \A g \in Hosts : g # h => vhost'[g] = vhost[g] /\ link'[g] = link[g]
               /\ vhost'[h] = vhost[h] \/ (vhost'[h] \in Vhosts /\ vhost'[h].use = "edited" /\ ~vhost'[h].tls)
               /\ link'[h] = "copy" => link[h] = "copy" \/ HasLinks
               /\ vhost' \in [Hosts -> MaybeFile] /\ link' \in [Hosts -> LinkStates] /\ copied' \in [Hosts -> MaybeFile]
    <3> DEFINE e == [marked |-> m, use |-> "edited", tls |-> FALSE]
    <3>1. e \in Vhosts /\ e.use = "edited" /\ ~e.tls
        BY DEF Vhosts
    <3>2. vhost' = [vhost EXCEPT ![h] = e]
        BY <2>2
    <3> HIDE DEF e
    <3> QED BY <2>1, <2>2, <3>1, <3>2 DEF MaybeFile
  <2>3. ASSUME vhost' = vhost, link[h] = "ours", HasLinks, link' = [link EXCEPT ![h] = "copy"],
               copied' = [copied EXCEPT ![h] = vhost[h]]
        PROVE  /\ \A g \in Hosts : g # h => vhost'[g] = vhost[g] /\ link'[g] = link[g]
               /\ vhost'[h] = vhost[h] \/ (vhost'[h] \in Vhosts /\ vhost'[h].use = "edited" /\ ~vhost'[h].tls)
               /\ link'[h] = "copy" => link[h] = "copy" \/ HasLinks
               /\ vhost' \in [Hosts -> MaybeFile] /\ link' \in [Hosts -> LinkStates] /\ copied' \in [Hosts -> MaybeFile]
      BY <2>1, <2>3 DEF LinkStates
  <2>4. ASSUME vhost' = vhost, copied' = copied, NEW l \in {"none", "elsewhere"}, link' = [link EXCEPT ![h] = l]
        PROVE  /\ \A g \in Hosts : g # h => vhost'[g] = vhost[g] /\ link'[g] = link[g]
               /\ vhost'[h] = vhost[h] \/ (vhost'[h] \in Vhosts /\ vhost'[h].use = "edited" /\ ~vhost'[h].tls)
               /\ link'[h] = "copy" => link[h] = "copy" \/ HasLinks
               /\ vhost' \in [Hosts -> MaybeFile] /\ link' \in [Hosts -> LinkStates] /\ copied' \in [Hosts -> MaybeFile]
      BY <2>1, <2>4 DEF LinkStates
  <2> QED BY <2>2, <2>3, <2>4 DEF OperatorActs
<1> QED
    BY <1>1, <1>2, <1>3

\* At rest, nothing applied, and the pems that are installed.
LEMMA RestIs == NoPush \in PushSet /\ NeverApplied \in LastSet
BY FilesAssumptions DEF NoPush, NeverApplied, PushSet, LastSet, PushPcs, FilePlaces, MaybeFile, LinkStates,
   Wishes

\* What is installed of a bundle.
LEMMA InstalledIs ==
    ASSUME FileTypes, NEW h \in Hosts
    PROVE  LET c == pushed.set[h].cert IN
           /\ c \in Certs \cup {0}
           /\ \A n \in 0..3 : Installed(h, n) \in Pems
           /\ Installed(h, 3).crt = c /\ Installed(h, 3).key = c
           /\ pushed.set[h].use = "raw" => Installed(h, 3).plain = c
<1> DEFINE c == pushed.set[h].cert
           p == pem[h]
<1>1. c \in Certs \cup {0} /\ p \in Pems
    BY DEF FileTypes, PushSet, Wishes
<1> DEFINE p1 == [p EXCEPT !.crt = c]
           p2 == [p1 EXCEPT !.key = c]
           p3 == WithPlain(p2, h, c)
<1>2. p1 \in Pems /\ p1.crt = c
    BY <1>1 DEF Pems
<1> HIDE DEF p1
<1>3. p2 \in Pems /\ p2.crt = c /\ p2.key = c
    BY <1>1, <1>2 DEF Pems
<1> HIDE DEF p2
<1>4. p3 \in Pems /\ p3.crt = c /\ p3.key = c /\ (pushed.set[h].use = "raw" => p3.plain = c)
  <2>1. CASE Hand(h) \/ p2.plain # 0
      BY <1>1, <1>3, <2>1 DEF Pems, WithPlain
  <2>2. CASE ~(Hand(h) \/ p2.plain # 0)
      BY <1>1, <1>3, <2>2 DEF Pems, WithPlain, Hand
  <2> QED BY <2>1, <2>2
<1>5. Installed(h, 0) = p /\ Installed(h, 1) = p1 /\ Installed(h, 2) = p2 /\ Installed(h, 3) = p3
    BY DEF Installed, p1, p2
<1> HIDE DEF p3
<1> QED
    BY <1>1, <1>2, <1>3, <1>4, <1>5

\* What a reload loads.
LEMMA LoadIs ==
    ASSUME FileTypes
    PROVE  /\ Load \in [Hosts -> {NoFile} \cup [file : Vhosts, crt : Certs \cup {0}]]
           /\ \A h \in Hosts : Served(h) \in MaybeFile
           /\ \A h \in Hosts : Served(h) = NoFile => Load[h] = NoFile
           /\ \A h \in Hosts : Served(h) # NoFile =>
                 /\ Load[h] # NoFile /\ Load[h].file = Served(h)
                 /\ Load[h].crt = IF Served(h).tls THEN pem[h].crt ELSE 0
<1>1. \A h \in Hosts : Served(h) \in MaybeFile
    BY DEF Served, FileTypes, MaybeFile
<1>2. \A h \in Hosts : pem[h].crt \in Certs \cup {0}
    BY DEF FileTypes, Pems
<1>3. ASSUME NEW h \in Hosts, Served(h) # NoFile
      PROVE  LET l == [file |-> Served(h), crt |-> IF Served(h).tls THEN pem[h].crt ELSE 0] IN
             /\ Load[h] = l /\ l \in [file : Vhosts, crt : Certs \cup {0}] /\ l # NoFile
    BY <1>1, <1>2, <1>3, FilesAssumptions DEF Load, MaybeFile
<1>4. \A h \in Hosts : Served(h) = NoFile => Load[h] = NoFile
    BY DEF Load
<1>5. \A h \in Hosts : Load[h] \in {NoFile} \cup [file : Vhosts, crt : Certs \cup {0}]
    BY <1>3, <1>4
<1>6. Load = [h \in Hosts |-> Load[h]]
    BY DEF Load
<1> QED
    BY <1>1, <1>3, <1>4, <1>5, <1>6

\* What a removal that failed leaves.
LEMMA PartsAre == \A p \in Pems : Parts(p) \subseteq Pems /\ NoPem \in Pems
<1>1. NoPem \in Pems
    BY DEF NoPem, Pems
<1>2. \A p \in Pems : [p EXCEPT !.crt = 0] \in Pems /\ [p EXCEPT !.crt = 0, !.key = 0] \in Pems
    BY DEF Pems
<1> QED
    BY <1>1, <1>2 DEF Parts

\* Every step keeps the types.
LEMMA TypesMove ==
    ASSUME FileTypes, PushFacts, [FilesNext]_fileVars
    PROVE  FileTypes'
<1>1. ASSUME NEW w \in setup.sets, Push(w) PROVE FileTypes'
    BY <1>1, PushIs, RestIs DEF FileTypes
<1>2. ASSUME NEW h \in Hosts, Install(h) PROVE FileTypes'
    BY <1>2, InstallIs, RestIs, InstalledIs DEF FileTypes
<1>3. ASSUME NEW h \in Hosts, InstallFails(h) PROVE FileTypes'
    BY <1>3, InstallFailsIs, RestIs, InstalledIs DEF FileTypes
<1>4. CASE Scrub
    BY <1>4, ScrubIs, RestIs, PartsAre DEF FileTypes
<1>5. ASSUME NEW h \in Hosts, Render(h) PROVE FileTypes'
  <2>1. Pushable(h, pushed.set)
      BY <1>5 DEF PushFacts, Render, AtPush
  <2>2. pem' \in [Hosts -> Pems]
      BY <1>5, <2>1, RenderIs DEF FileTypes, Pems
  <2> QED BY <1>5, <2>1, <2>2, RenderIs DEF FileTypes
<1>6. ASSUME NEW h \in Hosts, RenderDegrades(h) PROVE FileTypes'
    BY <1>6, RenderDegradesIs, RestIs DEF FileTypes
<1>7. CASE Suppress
    BY <1>7, RestIs DEF FileTypes, Suppress, files
<1>8. CASE Proceeds
    BY <1>8, ProceedsIs, RestIs DEF FileTypes
<1>9. ASSUME NEW h \in Hosts, PruneOrphan(h) PROVE FileTypes'
    BY <1>9, PruneOrphanIs, RestIs, PartsAre DEF FileTypes, Unlinked, LinkStates, MaybeFile
<1>10. ASSUME NEW h \in Hosts, PruneFails(h) PROVE FileTypes'
    BY <1>10, PruneFailsIs, RestIs, PartsAre DEF FileTypes, Unlinked, LinkStates, MaybeFile
<1>11. CASE EndPrune
    BY <1>11, EndPruneIs, RestIs, LoadIs DEF FileTypes
<1>12. ASSUME NEW h \in Hosts, Stage(h) PROVE FileTypes'
    BY <1>12, StageIs, RestIs DEF FileTypes, LinkStates, PushSet
<1>13. ASSUME NEW h \in Hosts, StageFails(h) PROVE FileTypes'
    BY <1>13, StageFailsIs DEF FileTypes
<1>14. CASE Test
    BY <1>14, TestIs, RestIs DEF FileTypes
<1>15. CASE ReloadProxy
    BY <1>15, ReloadIs, RestIs, LoadIs DEF FileTypes
<1>16. ASSUME NEW h \in Hosts, RollBack(h) PROVE FileTypes'
    BY <1>16, RollBackIs DEF FileTypes
<1>17. CASE RolledBack
    BY <1>17, RolledBackIs, RestIs DEF FileTypes
<1>18. CASE EndPush
    BY <1>18, RestIs DEF FileTypes, PushSet, LastSet, EndPush, files
<1>19. CASE AgentCrash
  <2>1. /\ vhost \in [Hosts -> MaybeFile] /\ link \in [Hosts -> LinkStates] /\ NoFile \in MaybeFile
        /\ \A g \in Hosts : pushed.art[g] \in MaybeFile /\ pushed.prior[g].file \in MaybeFile
      BY DEF FileTypes, PushSet, FilePlaces, MaybeFile
  <2>2. \A g \in Hosts, f \in MaybeFile : Holds(g, f) \in [Hosts -> MaybeFile]
      BY <2>1, HoldsIs
  <2>3. \A g \in Hosts : Unlinked(g) \in [Hosts -> LinkStates] /\ Bare(g) \in [Hosts -> LinkStates]
      BY <2>1, BareIs DEF Unlinked, LinkStates
  <2>4. \A g \in Hosts, p \in Pems : [pem EXCEPT ![g] = p] \in [Hosts -> Pems]
      BY DEF FileTypes
  <2>5. /\ vhost' = vhost \/ \E g \in Hosts :
              vhost' \in {Holds(g, f) : f \in Scraps(pushed.art[g]) \cup Scraps(pushed.prior[g].file)
                                             \cup {pushed.art[g], pushed.prior[g].file, NoFile}}
        /\ link' = link \/ \E g \in Hosts : link' \in {Unlinked(g), Bare(g)}
        /\ \/ pem' = pem
           \/ \E g \in Hosts, n \in 1..2 : pem' = [pem EXCEPT ![g] = Installed(g, n)]
           \/ \E g \in Hosts : \E p \in Parts(pem[g]) : pem' = [pem EXCEPT ![g] = p]
        /\ pushed' = NoPush /\ last' = NeverApplied /\ UNCHANGED <<copied, loaded, setup>>
    <3>1. pushed.todo \subseteq Hosts /\ pushed.staged \subseteq Hosts
        BY DEF FileTypes, PushSet
    <3>2. \A g \in Hosts : [vhost EXCEPT ![g] = NoFile] = Holds(g, NoFile)
        BY DEF Holds
    <3> QED BY <1>19, <3>1, <3>2 DEF AgentCrash
  <2>6. \A g \in Hosts : Scraps(pushed.art[g]) \subseteq MaybeFile /\ Scraps(pushed.prior[g].file) \subseteq MaybeFile
      BY <2>1, ScrapsAre
  <2>7. vhost' \in [Hosts -> MaybeFile] /\ link' \in [Hosts -> LinkStates]
      BY <2>1, <2>2, <2>3, <2>5, <2>6
  <2>8. pem' \in [Hosts -> Pems]
    <3>1. \A g \in Hosts : pem[g] \in Pems
        BY DEF FileTypes
    <3>2. \A g \in Hosts, n \in 1..2 : Installed(g, n) \in Pems
        BY InstalledIs
    <3>3. \A g \in Hosts : Parts(pem[g]) \subseteq Pems
        BY <3>1, PartsAre
    <3> QED BY <2>4, <2>5, <3>2, <3>3 DEF FileTypes
  <2> QED BY <2>5, <2>7, <2>8, RestIs DEF FileTypes
<1>20. ASSUME NEW h \in Hosts, OperatorActs(h) PROVE FileTypes'
    BY <1>20, OperatorIs, RestIs DEF FileTypes
<1>21. CASE UNCHANGED fileVars
    BY <1>21, RestIs DEF FileTypes, fileVars, files
<1>22. ASSUME NEW h \in Hosts, RollBackFails(h) PROVE FileTypes'
    BY <1>22, RollBackFailsIs DEF FileTypes
<1> QED
    BY <1>1, <1>2, <1>3, <1>4, <1>5, <1>6, <1>7, <1>8, <1>9, <1>10, <1>11, <1>12, <1>13, <1>14, <1>15, <1>16,
       <1>17, <1>18, <1>19, <1>20, <1>21, <1>22 DEF FilesNext

\* What is left of a certificate once a removal failed.
LEMMA PartsKept ==
    ASSUME NEW p \in Pems, NEW q \in Parts(p) \cup {p}, AnyPem(q)
    PROVE  AnyPem(p)
BY DEF Parts, NoPem, Pems, AnyPem

\* Installing for a host that has a bundle.
LEMMA InstalledKept ==
    ASSUME FileTypes, NEW h \in Hosts, NEW n \in 0..3, AnyPem(Installed(h, n)), ~AnyPem(pem[h])
    PROVE  pushed.set[h].cert # 0
<1>1. pem[h] \in Pems /\ pushed.set[h].cert \in Certs \cup {0}
    BY InstalledIs DEF FileTypes
<1> DEFINE c == pushed.set[h].cert
           p1 == [pem[h] EXCEPT !.crt = c]
           p2 == [p1 EXCEPT !.key = c]
           p3 == WithPlain(p2, h, c)
<1> SUFFICES ASSUME c = 0 PROVE FALSE
    OBVIOUS
<1>2. p1 \in Pems /\ ~AnyPem(p1)
    BY <1>1 DEF Pems, AnyPem
<1> HIDE DEF p1
<1>3. p2 \in Pems /\ ~AnyPem(p2)
    BY <1>1, <1>2 DEF Pems, AnyPem
<1> HIDE DEF p2
<1>4. ~AnyPem(p3)
    BY <1>3 DEF Pems, AnyPem, WithPlain
<1>5. Installed(h, 0) = pem[h] /\ Installed(h, 1) = p1 /\ Installed(h, 2) = p2 /\ Installed(h, 3) = p3
    BY DEF Installed, p1, p2
<1>6. n = 0 \/ n = 1 \/ n = 2 \/ n = 3
    OBVIOUS
<1> HIDE DEF p3
<1> QED
    BY <1>2, <1>3, <1>4, <1>5, <1>6

\* Certificates are on the host only where one was sent.
LEMMA GroundMoves ==
    ASSUME FileTypes, PushFacts, PemsGrounded, [FilesNext]_fileVars
    PROVE  PemsGrounded'
<1>1. ASSUME NEW w \in setup.sets, Push(w) PROVE PemsGrounded'
    BY <1>1, PushIs DEF PemsGrounded
<1>2. ASSUME NEW h \in Hosts, Install(h) PROVE PemsGrounded'
  <2>1. h \in Bundled(pushed.set) /\ pushed.set \in setup.sets
      BY <1>2, InstallIs DEF PushFacts, Pushing
  <2>2. \A g \in Hosts : g # h => pem'[g] = pem[g]
      BY <1>2, InstallIs DEF FileTypes
  <2> QED BY <1>2, <2>1, <2>2, InstalledKept, InstallIs DEF FileTypes, PemsGrounded, Bundled
<1>3. ASSUME NEW h \in Hosts, InstallFails(h) PROVE PemsGrounded'
  <2>1. h \in Bundled(pushed.set) /\ pushed.set \in setup.sets
      BY <1>3, InstallFailsIs DEF PushFacts, Pushing
  <2>2. \A g \in Hosts : g # h => pem'[g] = pem[g]
      BY <1>3, InstallFailsIs DEF FileTypes
  <2> QED BY <1>3, <2>1, <2>2, InstalledKept, InstallFailsIs DEF FileTypes, PemsGrounded, Bundled
<1>4. CASE Scrub
    BY <1>4, ScrubIs DEF PemsGrounded, FileTypes, NoPem, AnyPem
<1>5. ASSUME NEW h \in Hosts, Render(h) PROVE PemsGrounded'
  <2>1. Pushable(h, pushed.set)
      BY <1>5 DEF PushFacts, Render, AtPush
  <2> QED BY <1>5, <2>1, RenderIs DEF FileTypes, PemsGrounded, AnyPem, Pems
<1>6. ASSUME NEW h \in Hosts, RenderDegrades(h) PROVE PemsGrounded'
    BY <1>6, RenderDegradesIs DEF PemsGrounded
<1>7. CASE Suppress
    BY <1>7 DEF PemsGrounded, Suppress, files
<1>8. CASE Proceeds
    BY <1>8, ProceedsIs DEF PemsGrounded
<1>9. ASSUME NEW h \in Hosts, PruneOrphan(h) PROVE PemsGrounded'
    BY <1>9, PruneOrphanIs DEF PemsGrounded, FileTypes, NoPem, AnyPem
<1>10. ASSUME NEW h \in Hosts, PruneFails(h) PROVE PemsGrounded'
  <2>1. \E p \in Parts(pem[h]) \cup {pem[h]} : pem' = [pem EXCEPT ![h] = p]
      BY <1>10, PruneFailsIs DEF FileTypes
  <2>2. PICK p \in Parts(pem[h]) \cup {pem[h]} : pem' = [pem EXCEPT ![h] = p]
      BY <2>1
  <2>3. pem[h] \in Pems
      BY DEF FileTypes
  <2>4. AnyPem(p) => AnyPem(pem[h])
      BY <2>3, PartsKept
  <2>5. \A g \in Hosts : AnyPem(pem'[g]) => AnyPem(pem[g])
      BY <2>2, <2>4 DEF FileTypes
  <2> QED BY <1>10, <2>5, PruneFailsIs DEF PemsGrounded
<1>11. CASE EndPrune
    BY <1>11, EndPruneIs DEF PemsGrounded
<1>12. ASSUME NEW h \in Hosts, Stage(h) PROVE PemsGrounded'
    BY <1>12, StageIs DEF PemsGrounded
<1>13. ASSUME NEW h \in Hosts, StageFails(h) PROVE PemsGrounded'
    BY <1>13, StageFailsIs DEF PemsGrounded
<1>14. CASE Test
    BY <1>14, TestIs DEF PemsGrounded
<1>15. CASE ReloadProxy
    BY <1>15, ReloadIs DEF PemsGrounded
<1>16. ASSUME NEW h \in Hosts, RollBack(h) PROVE PemsGrounded'
    BY <1>16, RollBackIs DEF PemsGrounded
<1>17. CASE RolledBack
    BY <1>17, RolledBackIs DEF PemsGrounded
<1>18. CASE EndPush
    BY <1>18 DEF PemsGrounded, EndPush, files
<1>19. CASE AgentCrash
  <2>1. \/ pem' = pem
        \/ \E g \in Hosts, n \in 1..2 : /\ pushed.pc = "install" /\ g \in pushed.todo
                                       /\ pem' = [pem EXCEPT ![g] = Installed(g, n)]
        \/ \E g \in Hosts : \E p \in Parts(pem[g]) : pem' = [pem EXCEPT ![g] = p]
      BY <1>19 DEF AgentCrash, FileTypes, PushSet, AtPush
  <2>2. setup' = setup
      BY <1>19 DEF AgentCrash
  <2>3. ASSUME NEW g \in Hosts, NEW n \in 1..2, pushed.pc = "install", g \in pushed.todo,
               pem' = [pem EXCEPT ![g] = Installed(g, n)]
        PROVE  PemsGrounded'
    <3>1. g \in Bundled(pushed.set) /\ pushed.set \in setup.sets
        BY <2>3 DEF PushFacts, Pushing
    <3> QED BY <2>2, <2>3, <3>1, InstalledKept DEF FileTypes, PemsGrounded, Bundled
  <2>4. ASSUME NEW g \in Hosts, NEW p \in Parts(pem[g]), pem' = [pem EXCEPT ![g] = p]
        PROVE  PemsGrounded'
    <3>1. pem[g] \in Pems
        BY DEF FileTypes
    <3>2. AnyPem(p) => AnyPem(pem[g])
        BY <3>1, PartsKept
    <3>3. \A k \in Hosts : AnyPem(pem'[k]) => AnyPem(pem[k])
        BY <2>4, <3>2 DEF FileTypes
    <3> QED BY <2>2, <3>3 DEF PemsGrounded
  <2> QED BY <2>1, <2>2, <2>3, <2>4 DEF PemsGrounded
<1>20. ASSUME NEW h \in Hosts, OperatorActs(h) PROVE PemsGrounded'
    BY <1>20, OperatorIs DEF PemsGrounded
<1>21. CASE UNCHANGED fileVars
    BY <1>21 DEF PemsGrounded, fileVars, files
<1>22. ASSUME NEW h \in Hosts, RollBackFails(h) PROVE PemsGrounded'
    BY <1>22, RollBackFailsIs DEF PemsGrounded
<1> QED
    BY <1>1, <1>2, <1>3, <1>4, <1>5, <1>6, <1>7, <1>8, <1>9, <1>10, <1>11, <1>12, <1>13, <1>14, <1>15, <1>16,
       <1>17, <1>18, <1>19, <1>20, <1>21, <1>22 DEF FilesNext

\* Where there are no links none is an operator's copy.
LEMMA LinksMove ==
    ASSUME FileTypes, PushFacts, LinksOnly, [FilesNext]_fileVars
    PROVE  LinksOnly'
<1>1. ASSUME NEW w \in setup.sets, Push(w) PROVE LinksOnly'
    BY <1>1, PushIs DEF LinksOnly, HasLinks
<1>2. ASSUME NEW h \in Hosts, Install(h) PROVE LinksOnly'
    BY <1>2, InstallIs DEF LinksOnly, HasLinks
<1>3. ASSUME NEW h \in Hosts, InstallFails(h) PROVE LinksOnly'
    BY <1>3, InstallFailsIs DEF LinksOnly, HasLinks
<1>4. CASE Scrub
    BY <1>4, ScrubIs DEF LinksOnly, HasLinks
<1>5. ASSUME NEW h \in Hosts, Render(h) PROVE LinksOnly'
  <2>1. Pushable(h, pushed.set)
      BY <1>5 DEF PushFacts, Render, AtPush
  <2> QED BY <1>5, <2>1, RenderIs DEF LinksOnly, HasLinks
<1>6. ASSUME NEW h \in Hosts, RenderDegrades(h) PROVE LinksOnly'
    BY <1>6, RenderDegradesIs DEF LinksOnly, HasLinks
<1>7. CASE Suppress
    BY <1>7 DEF LinksOnly, HasLinks, Suppress, files
<1>8. CASE Proceeds
    BY <1>8, ProceedsIs DEF LinksOnly, HasLinks
<1>9. ASSUME NEW h \in Hosts, PruneOrphan(h) PROVE LinksOnly'
    BY <1>9, PruneOrphanIs DEF LinksOnly, HasLinks, FileTypes, Unlinked
<1>10. ASSUME NEW h \in Hosts, PruneFails(h) PROVE LinksOnly'
    BY <1>10, PruneFailsIs DEF LinksOnly, HasLinks, FileTypes, Unlinked
<1>11. CASE EndPrune
    BY <1>11, EndPruneIs DEF LinksOnly, HasLinks
<1>12. ASSUME NEW h \in Hosts, Stage(h) PROVE LinksOnly'
    BY <1>12, StageIs DEF LinksOnly, HasLinks, FileTypes
<1>13. ASSUME NEW h \in Hosts, StageFails(h) PROVE LinksOnly'
    BY <1>13, StageFailsIs DEF LinksOnly, HasLinks
<1>14. CASE Test
    BY <1>14, TestIs DEF LinksOnly, HasLinks
<1>15. CASE ReloadProxy
    BY <1>15, ReloadIs DEF LinksOnly, HasLinks
<1>16. ASSUME NEW h \in Hosts, RollBack(h) PROVE LinksOnly'
    BY <1>16, RollBackIs DEF LinksOnly, HasLinks, FileTypes
<1>17. CASE RolledBack
    BY <1>17, RolledBackIs DEF LinksOnly, HasLinks
<1>18. CASE EndPush
    BY <1>18 DEF LinksOnly, HasLinks, EndPush, files
<1>19. CASE AgentCrash
    BY <1>19 DEF LinksOnly, HasLinks, FileTypes, Unlinked, AgentCrash
<1>20. ASSUME NEW h \in Hosts, OperatorActs(h) PROVE LinksOnly'
    BY <1>20, OperatorIs DEF LinksOnly, HasLinks
<1>21. CASE UNCHANGED fileVars
    BY <1>21 DEF LinksOnly, HasLinks, fileVars, files
<1>22. ASSUME NEW h \in Hosts, RollBackFails(h) PROVE LinksOnly'
    BY <1>22, RollBackFailsIs DEF LinksOnly, HasLinks, FileTypes
<1> QED
    BY <1>1, <1>2, <1>3, <1>4, <1>5, <1>6, <1>7, <1>8, <1>9, <1>10, <1>11, <1>12, <1>13, <1>14, <1>15, <1>16,
       <1>17, <1>18, <1>19, <1>20, <1>21, <1>22 DEF FilesNext

\* The facts of a push.
LEMMA FactsMove ==
    ASSUME FileTypes, PushFacts, ArtIs, [FilesNext]_fileVars
    PROVE  PushFacts'
<1>1. ASSUME NEW w \in setup.sets, Push(w) PROVE PushFacts'
    BY <1>1, PushIs DEF FileTypes, PushFacts, Pushing, Writing, Bundled, Pushable, Artifacts
<1>2. ASSUME NEW h \in Hosts, Install(h) PROVE PushFacts'
    BY <1>2, InstallIs DEF FileTypes, PushFacts, Pushing, Writing, Bundled, Pushable, Artifacts
<1>3. ASSUME NEW h \in Hosts, InstallFails(h) PROVE PushFacts'
    BY <1>3, InstallFailsIs DEF FileTypes, PushFacts, Pushing, Writing, Bundled, Pushable, Artifacts
<1>4. CASE Scrub
    BY <1>4, ScrubIs DEF FileTypes, PushFacts, Pushing, Writing, Bundled, Pushable, Artifacts
<1>5. ASSUME NEW h \in Hosts, Render(h) PROVE PushFacts'
  <2>1. Pushable(h, pushed.set)
      BY <1>5 DEF PushFacts, Render, AtPush
  <2> QED BY <1>5, <2>1, RenderIs DEF FileTypes, PushFacts, Pushing, Writing, Bundled, Pushable, Artifacts
<1>6. ASSUME NEW h \in Hosts, RenderDegrades(h) PROVE PushFacts'
    BY <1>6, RenderDegradesIs DEF FileTypes, PushFacts, Pushing, Writing, Bundled, Pushable, Artifacts
<1>7. CASE Suppress
    BY <1>7 DEF FileTypes, PushFacts, Pushing, Writing, Bundled, Pushable, Artifacts, NoPush, Suppress, files
<1>8. CASE Proceeds
    BY <1>8, ProceedsIs DEF FileTypes, PushFacts, Pushing, Writing, Bundled, Pushable, Artifacts
<1>9. ASSUME NEW h \in Hosts, PruneOrphan(h) PROVE PushFacts'
    BY <1>9, PruneOrphanIs DEF FileTypes, PushFacts, Pushing, Writing, Bundled, Pushable, Artifacts
<1>10. ASSUME NEW h \in Hosts, PruneFails(h) PROVE PushFacts'
    BY <1>10, PruneFailsIs DEF FileTypes, PushFacts, Pushing, Writing, Bundled, Pushable, Artifacts
<1>11. CASE EndPrune
    BY <1>11, EndPruneIs DEF FileTypes, PushFacts, Pushing, Writing, Bundled, Pushable, Artifacts
<1>12. ASSUME NEW h \in Hosts, Stage(h) PROVE PushFacts'
    BY <1>12, StageIs DEF FileTypes, PushFacts, Pushing, Writing, Bundled, Pushable, Artifacts
<1>13. ASSUME NEW h \in Hosts, StageFails(h) PROVE PushFacts'
    BY <1>13, StageFailsIs DEF FileTypes, PushFacts, Pushing, Writing, Bundled, Pushable, Artifacts
<1>14. CASE Test
    BY <1>14, TestIs DEF FileTypes, PushFacts, Pushing, Writing, Bundled, Pushable, Artifacts
<1>15. CASE ReloadProxy
    BY <1>15, ReloadIs DEF FileTypes, PushFacts, Pushing, Writing, Bundled, Pushable, Artifacts
<1>16. ASSUME NEW h \in Hosts, RollBack(h) PROVE PushFacts'
    BY <1>16, RollBackIs DEF FileTypes, PushFacts, Pushing, Writing, Bundled, Pushable, Artifacts
<1>17. CASE RolledBack
    BY <1>17, RolledBackIs DEF FileTypes, PushFacts, Pushing, Writing, Bundled, Pushable, Artifacts
<1>18. CASE EndPush
    BY <1>18 DEF FileTypes, PushFacts, Pushing, Writing, Bundled, Pushable, Artifacts, NoPush, EndPush, files
<1>19. CASE AgentCrash
    BY <1>19 DEF FileTypes, PushFacts, Pushing, Writing, Bundled, Pushable, Artifacts, NoPush, AgentCrash
<1>20. ASSUME NEW h \in Hosts, OperatorActs(h) PROVE PushFacts'
    BY <1>20, OperatorIs DEF FileTypes, PushFacts, Pushing, Writing, Bundled, Pushable, Artifacts
<1>21. CASE UNCHANGED fileVars
    BY <1>21 DEF FileTypes, PushFacts, Pushing, Writing, Bundled, Pushable, Artifacts, fileVars, files
<1>22. ASSUME NEW h \in Hosts, RollBackFails(h) PROVE PushFacts'
  <2>1. /\ pushed.pc = "rollback" /\ pushed'.pc = "rollback" /\ h \in pushed.staged
        /\ pushed'.staged = pushed.staged \ {h} /\ ~pushed'.pure
        /\ UNCHANGED <<pushed.set, pushed.art, pushed.certsOK, pushed.clean, setup>>
    BY <1>22, RollBackFailsIs
  <2>2. /\ Pushing /\ Writing /\ pushed.set \in setup.sets /\ pushed.staged \subseteq Artifacts
        /\ pushed.clean => pushed.certsOK
    BY <2>1 DEF PushFacts, Pushing, Writing
  <2>3. Artifacts' = Artifacts
    BY <2>1 DEF Artifacts, Pushable
  <2> QED
    BY <2>1, <2>2, <2>3 DEF PushFacts, Pushing, Writing
<1> QED
    BY <1>1, <1>2, <1>3, <1>4, <1>5, <1>6, <1>7, <1>8, <1>9, <1>10, <1>11, <1>12, <1>13, <1>14, <1>15, <1>16,
       <1>17, <1>18, <1>19, <1>20, <1>21, <1>22 DEF FilesNext

\* Where a rollback leads, for the files nobody else touched.
LEMMA UndoMoves ==
    ASSUME FileTypes, PushFacts, ArtIs, UndoFiles, [FilesNext]_fileVars
    PROVE  UndoFiles'
<1>1. ASSUME NEW w \in setup.sets, Push(w) PROVE UndoFiles'
    BY <1>1, PushIs DEF FileTypes, PushFacts, UndoFiles, Returns, LinkedAsBefore, OnDisk
<1>2. ASSUME NEW h \in Hosts, Install(h) PROVE UndoFiles'
    BY <1>2, InstallIs DEF FileTypes, PushFacts, UndoFiles, Returns, LinkedAsBefore, OnDisk
<1>3. ASSUME NEW h \in Hosts, InstallFails(h) PROVE UndoFiles'
    BY <1>3, InstallFailsIs DEF FileTypes, PushFacts, UndoFiles, Returns, LinkedAsBefore, OnDisk
<1>4. CASE Scrub
    BY <1>4, ScrubIs DEF FileTypes, PushFacts, UndoFiles, Returns, LinkedAsBefore, OnDisk
<1>5. ASSUME NEW h \in Hosts, Render(h) PROVE UndoFiles'
  <2>1. Pushable(h, pushed.set)
      BY <1>5 DEF PushFacts, Render, AtPush
  <2> QED BY <1>5, <2>1, RenderIs DEF FileTypes, PushFacts, UndoFiles, Returns, LinkedAsBefore, OnDisk
<1>6. ASSUME NEW h \in Hosts, RenderDegrades(h) PROVE UndoFiles'
    BY <1>6, RenderDegradesIs DEF FileTypes, PushFacts, UndoFiles, Returns, LinkedAsBefore, OnDisk
<1>7. CASE Suppress
    BY <1>7 DEF FileTypes, PushFacts, UndoFiles, Returns, LinkedAsBefore, OnDisk, NoPush, Suppress, files
<1>8. CASE Proceeds
    BY <1>8, ProceedsIs DEF FileTypes, PushFacts, UndoFiles, Returns, LinkedAsBefore, OnDisk
<1>9. ASSUME NEW h \in Hosts, PruneOrphan(h) PROVE UndoFiles'
    BY <1>9, PruneOrphanIs DEF FileTypes, PushFacts, UndoFiles, Returns, LinkedAsBefore, OnDisk, Artifacts
<1>10. ASSUME NEW h \in Hosts, PruneFails(h) PROVE UndoFiles'
  <2>1. \A g \in Hosts : pushed'.before[g] = OnDisk(g)'
    <3>1. pushed'.before[h] = OnDisk(h)' /\ \A g \in Hosts : g # h => pushed'.before[g] = OnDisk(g)
        BY <1>10, PruneFailsIs
    <3>2. \A g \in Hosts : g # h => OnDisk(g)' = OnDisk(g)
      <4>1. \A g \in Hosts : g # h => vhost'[g] = vhost[g] /\ link'[g] = link[g]
          BY <1>10, PruneFailsIs DEF FileTypes, Unlinked
      <4> QED BY <4>1 DEF OnDisk
    <3> QED BY <3>1, <3>2
  <2>2. /\ pushed'.staged = {} /\ pushed'.pc \in {"end", "stage"} /\ pushed'.todo \subseteq Hosts
      BY <1>10, PruneFailsIs DEF PushFacts, PushSet
  <2>3. \A g \in Hosts : pushed'.before[g].file = vhost'[g] /\ pushed'.before[g].link = link'[g]
    <3> SUFFICES ASSUME NEW g \in Hosts PROVE pushed'.before[g].file = vhost'[g] /\ pushed'.before[g].link = link'[g]
        OBVIOUS
    <3>1. pushed'.before[g] = [file |-> vhost'[g], link |-> link'[g]]
        BY <2>1 DEF OnDisk
    <3> QED BY <3>1
  <2>4. \A g \in Hosts : Returns(g)'
      BY <2>2, <2>3 DEF Returns, LinkedAsBefore
  <2> QED BY <2>1, <2>2, <2>4 DEF UndoFiles
<1>11. CASE EndPrune
  <2>1. \A g \in Hosts : pushed'.before[g] = OnDisk(g)'
    <3>1. \A g \in Hosts : pushed'.before[g] = OnDisk(g)
        BY <1>11, EndPruneIs
    <3>2. \A g \in Hosts : OnDisk(g)' = OnDisk(g)
        BY <1>11, EndPruneIs DEF OnDisk
    <3> QED BY <3>1, <3>2
  <2>2. /\ pushed'.staged = {} /\ pushed'.pc \in {"end", "stage"} /\ pushed'.todo \subseteq Hosts
      BY <1>11, EndPruneIs DEF PushFacts, PushSet
  <2>3. \A g \in Hosts : pushed'.before[g].file = vhost'[g] /\ pushed'.before[g].link = link'[g]
    <3> SUFFICES ASSUME NEW g \in Hosts PROVE pushed'.before[g].file = vhost'[g] /\ pushed'.before[g].link = link'[g]
        OBVIOUS
    <3>1. pushed'.before[g] = [file |-> vhost'[g], link |-> link'[g]]
        BY <2>1 DEF OnDisk
    <3> QED BY <3>1
  <2>4. \A g \in Hosts : Returns(g)'
      BY <2>2, <2>3 DEF Returns, LinkedAsBefore
  <2> QED BY <2>1, <2>2, <2>4 DEF UndoFiles
<1>12. ASSUME NEW h \in Hosts, Stage(h) PROVE UndoFiles'
  <2>1. /\ pushed'.prior[h] = OnDisk(h) /\ \A g \in Hosts : g # h => pushed'.prior[g] = pushed.prior[g]
        /\ pushed.pc = "stage" /\ h \in pushed.todo /\ pushed'.staged = pushed.staged \cup {h}
        /\ pushed'.before = pushed.before /\ pushed'.touched = pushed.touched
        /\ pushed'.todo = pushed.todo \ {h} /\ pushed'.pc \in {"rollback", "stage"} /\ refusals' = refusals
    <3>1. CASE Refused(h)
        BY <1>12, <3>1, StageIs
    <3>2. CASE ~Refused(h)
        BY <1>12, <3>2, StageIs
    <3> QED BY <3>1, <3>2
  <2>2. /\ \A g \in Hosts : g # h => vhost'[g] = vhost[g] /\ link'[g] = link[g]
        /\ link'[h] = link[h] \/ (link'[h] = "ours" /\ link[h] # "copy")
      BY <1>12, StageIs DEF FileTypes, Refused
  <2>3. \A g \in Hosts : g # h => OnDisk(g)' = OnDisk(g)
      BY <2>2 DEF OnDisk
  <2>4. ASSUME NEW g \in Hosts \ pushed.touched PROVE Returns(g)'
    <3>1. Returns(g)
        BY <2>1, <2>4 DEF UndoFiles
    <3>2. CASE g = h
      <4>1. pushed'.prior[h] = pushed.before[h] /\ link[h] = pushed.before[h].link
          BY <2>1, <2>4, <3>2 DEF UndoFiles, OnDisk
      <4>2. link[h] \in LinkStates
          BY DEF FileTypes
      <4> QED BY <2>1, <2>2, <3>2, <4>1, <4>2 DEF Returns, LinkedAsBefore, LinkStates
    <3>3. CASE g # h
        BY <2>1, <2>2, <3>1, <3>3 DEF Returns, LinkedAsBefore
    <3> QED BY <3>2, <3>3
  <2>5. ASSUME pushed'.pc = "stage"
        PROVE  /\ pushed'.staged \cap pushed'.todo = {}
               /\ \A g \in pushed'.todo \ pushed'.touched : OnDisk(g)' = pushed'.before[g]
    <3>1. pushed.todo \subseteq Hosts
        BY DEF FileTypes, PushSet
    <3> QED BY <2>1, <2>3, <2>5, <3>1 DEF UndoFiles
  <2> QED BY <2>1, <2>4, <2>5 DEF UndoFiles
<1>13. ASSUME NEW h \in Hosts, StageFails(h) PROVE UndoFiles'
  <2>1. /\ pushed.pc = "stage" /\ h \in pushed.todo /\ pushed'.pc = "rollback"
        /\ pushed'.before = pushed.before /\ pushed'.touched = pushed.touched
        /\ pushed.staged \cap pushed.todo = {}
      BY <1>13, StageFailsIs DEF UndoFiles
  <2>2. \A g \in Hosts : g # h => vhost'[g] = vhost[g] /\ link'[g] = link[g]
      BY <1>13, StageFailsIs
  <2>3. ASSUME NEW g \in Hosts \ pushed.touched PROVE Returns(g)'
    <3>1. Returns(g)
        BY <2>1, <2>3 DEF UndoFiles
    <3>2. CASE UNCHANGED <<pushed.prior, pushed.staged, pushed.todo, vhost, link, refusals>>
        BY <2>1, <3>1, <3>2 DEF Returns, LinkedAsBefore
    <3>3. CASE /\ pushed'.prior[h] = OnDisk(h) /\ \A k \in Hosts : k # h => pushed'.prior[k] = pushed.prior[k]
               /\ pushed'.staged = pushed.staged \cup {h}
               /\ \/ UNCHANGED <<pushed.todo, link, refusals>>
                  \/ pushed'.todo = pushed.todo \ {h} /\ UNCHANGED <<link, refusals>>
                  \/ /\ pushed'.todo = pushed.todo \ {h} /\ link' = Bare(h)
                     /\ refusals' = IF link[h] = "none" THEN refusals ELSE refusals \cup {<<h, "link">>}
      <4>1. CASE g = h
        <5>1. pushed'.prior[h] = pushed.before[h] /\ link[h] = pushed.before[h].link
            BY <2>1, <2>3, <3>3, <4>1 DEF UndoFiles, OnDisk
        <5>2. Bare(h)[h] = "none"
            BY BareIs DEF FileTypes
        <5> QED BY <2>1, <3>3, <4>1, <5>1, <5>2 DEF Returns, LinkedAsBefore
      <4>2. CASE g # h
        <5>1. refusals \subseteq refusals' /\ (g \notin pushed.todo => g \notin pushed'.todo)
            BY <3>3
        <5>2. g \in pushed'.staged <=> g \in pushed.staged
            BY <3>3, <4>2
        <5> QED BY <2>1, <2>2, <3>1, <3>3, <4>2, <5>1, <5>2 DEF Returns, LinkedAsBefore
      <4> QED BY <4>1, <4>2
    <3> QED BY <1>13, <3>2, <3>3, StageFailsIs
  <2> QED BY <2>1, <2>3 DEF UndoFiles
<1>14. CASE Test
    BY <1>14, TestIs DEF FileTypes, PushFacts, UndoFiles, Returns, LinkedAsBefore, OnDisk
<1>15. CASE ReloadProxy
    BY <1>15, ReloadIs DEF FileTypes, PushFacts, UndoFiles, Returns, LinkedAsBefore, OnDisk
<1>16. ASSUME NEW h \in Hosts, RollBack(h) PROVE UndoFiles'
  <2>1. /\ pushed.pc = "rollback" /\ pushed'.pc = "rollback" /\ h \in pushed.staged /\ pushed'.staged = pushed.staged \ {h}
        /\ UNCHANGED <<pushed.before, pushed.touched, pushed.prior, pushed.todo, refusals>>
      BY <1>16, RollBackIs
  <2>2. /\ \A g \in Hosts : g # h => vhost'[g] = vhost[g] /\ link'[g] = link[g]
        /\ vhost'[h] = pushed.prior[h].file /\ link'[h] = Inactive(h)[h]
      BY <1>16, RollBackIs
  <2>3. ASSUME NEW g \in Hosts \ pushed.touched PROVE Returns(g)'
    <3>1. Returns(g)
        BY <2>1, <2>3 DEF UndoFiles
    <3>2. CASE g = h
        BY <2>1, <2>2, <3>1, <3>2, InactiveIs DEF Returns, LinkedAsBefore
    <3>3. CASE g # h
        BY <2>1, <2>2, <3>1, <3>3 DEF Returns, LinkedAsBefore
    <3> QED BY <3>2, <3>3
  <2> QED BY <2>1, <2>3 DEF UndoFiles
<1>17. CASE RolledBack
    BY <1>17, RolledBackIs DEF FileTypes, PushFacts, UndoFiles, Returns, LinkedAsBefore, OnDisk
<1>18. CASE EndPush
    BY <1>18 DEF FileTypes, PushFacts, UndoFiles, Returns, LinkedAsBefore, OnDisk, NoPush, EndPush, files
<1>19. CASE AgentCrash
    BY <1>19 DEF FileTypes, PushFacts, UndoFiles, Returns, LinkedAsBefore, OnDisk, NoPush, AgentCrash
<1>20. ASSUME NEW h \in Hosts, OperatorActs(h) PROVE UndoFiles'
  <2>1. CASE pushed.pc = "resting"
      BY <1>20, <2>1, OperatorIs DEF UndoFiles
  <2>2. CASE pushed.pc # "resting"
    <3>1. /\ pushed'.pc = pushed.pc /\ pushed'.touched = pushed.touched \cup {h}
          /\ UNCHANGED <<pushed.before, pushed.todo, pushed.staged, pushed.prior, refusals>>
          /\ \A g \in Hosts : g # h => vhost'[g] = vhost[g] /\ link'[g] = link[g]
        BY <1>20, <2>2, OperatorIs
    <3>2. \A g \in Hosts : g # h => OnDisk(g)' = OnDisk(g) /\ Returns(g)' = Returns(g)
        BY <3>1 DEF OnDisk, Returns, LinkedAsBefore
    <3>3. pushed.todo \subseteq Hosts
        BY DEF FileTypes, PushSet
    <3> QED BY <3>1, <3>2, <3>3 DEF UndoFiles
  <2> QED BY <2>1, <2>2
<1>21. CASE UNCHANGED fileVars
    BY <1>21 DEF FileTypes, PushFacts, UndoFiles, Returns, LinkedAsBefore, OnDisk, fileVars, files
<1>22. ASSUME NEW h \in Hosts, RollBackFails(h) PROVE UndoFiles'
  <2>1. /\ pushed.pc = "rollback" /\ pushed'.pc = "rollback" /\ h \in pushed.staged /\ pushed'.staged = pushed.staged \ {h}
        /\ UNCHANGED <<pushed.before, pushed.touched, pushed.prior, pushed.todo>>
      BY <1>22, RollBackFailsIs
  <2>2. /\ \A g \in Hosts : g # h => vhost'[g] = vhost[g] /\ link'[g] = link[g]
        /\ vhost'[h] = pushed.prior[h].file \/ <<h, "file">> \in refusals'
        /\ link'[h] = Inactive(h)[h] \/ <<h, "link">> \in refusals'
        /\ refusals \subseteq refusals'
      BY <1>22, RollBackFailsIs
  <2>3. ASSUME NEW g \in Hosts \ pushed.touched PROVE Returns(g)'
    <3>1. Returns(g)
        BY <2>1, <2>3 DEF UndoFiles
    <3>2. CASE g = h
        BY <2>1, <2>2, <3>1, <3>2, InactiveIs DEF Returns, LinkedAsBefore
    <3>3. CASE g # h
        BY <2>1, <2>2, <3>1, <3>3 DEF Returns, LinkedAsBefore
    <3> QED BY <3>2, <3>3
  <2> QED BY <2>1, <2>3 DEF UndoFiles
<1> QED
    BY <1>1, <1>2, <1>3, <1>4, <1>5, <1>6, <1>7, <1>8, <1>9, <1>10, <1>11, <1>12, <1>13, <1>14, <1>15, <1>16,
       <1>17, <1>18, <1>19, <1>20, <1>21, <1>22 DEF FilesNext

\* The certificates of a push stay where they were installed.
LEMMA CertsMove ==
    ASSUME FileTypes, PushFacts, ArtIs, CertsIn, [FilesNext]_fileVars
    PROVE  CertsIn'
<1>1. ASSUME NEW w \in setup.sets, Push(w) PROVE CertsIn'
    BY <1>1, PushIs DEF FileTypes, PushFacts, CertsIn, CertIn, Pushable, Pushing, Bundled
<1>2. ASSUME NEW h \in Hosts, Install(h) PROVE CertsIn'
  <2>1. \A g \in Hosts : g # h => pem'[g] = pem[g]
      BY <1>2, InstallIs DEF FileTypes
  <2>2. pem'[h] = Installed(h, 3)
      BY <1>2, InstallIs DEF FileTypes
  <2>3. /\ pem'[h].crt = pushed.set[h].cert /\ pem'[h].key = pushed.set[h].cert
        /\ pushed.set[h].use = "raw" => pem'[h].plain = pushed.set[h].cert
      BY <2>2, InstalledIs
  <2>4. /\ pushed'.pc = "install" /\ pushed.pc = "install" /\ pushed'.todo = pushed.todo \ {h}
        /\ UNCHANGED <<pushed.set, pushed.certsOK>>
      BY <1>2, InstallIs
  <2> QED BY <2>1, <2>3, <2>4 DEF CertsIn, CertIn, Pushable, Pushing
<1>3. ASSUME NEW h \in Hosts, InstallFails(h) PROVE CertsIn'
    BY <1>3, InstallFailsIs DEF FileTypes, PushFacts, CertsIn, CertIn, Pushable, Pushing
<1>4. CASE Scrub
  <2>1. /\ UNCHANGED <<pushed.set, pushed.certsOK>> /\ pushed.pc = "install" /\ pushed'.pc # "install" /\ pushed.todo = {}
        /\ \A g \in Hosts : Pushable(g, pushed.set) => pem'[g] = pem[g]
      BY <1>4, ScrubIs DEF CertKept, Pushable
  <2> QED BY <2>1 DEF CertsIn, CertIn, Pushable, Pushing
<1>5. ASSUME NEW h \in Hosts, Render(h) PROVE CertsIn'
  <2>1. Pushable(h, pushed.set)
      BY <1>5 DEF PushFacts, Render, AtPush
  <2>2. /\ UNCHANGED <<pushed.set, pushed.certsOK>> /\ pushed.pc = "render" /\ pushed'.pc = "render"
        /\ pem' = IF pushed.set[h].use = "rendered" /\ pem[h].crt # 0 /\ pem[h].key # 0 THEN [pem EXCEPT ![h].plain = pem[h].key] ELSE pem
      BY <1>5, <2>1, RenderIs
  <2>3. \A g \in Hosts : pem'[g].crt = pem[g].crt /\ pem'[g].key = pem[g].key /\ (pushed.set[g].use # "rendered" => pem'[g].plain = pem[g].plain)
      BY <2>2 DEF FileTypes, Pems
  <2> QED BY <2>2, <2>3 DEF CertsIn, CertIn, Pushable, Pushing
<1>6. ASSUME NEW h \in Hosts, RenderDegrades(h) PROVE CertsIn'
  <2>1. UNCHANGED <<pushed.set, pushed.certsOK, pem>> /\ pushed'.pc # "install"
      BY <1>6, RenderDegradesIs
  <2>2. Pushing
      BY <1>6, RenderDegradesIs DEF Pushing
  <2>3. pushed.pc # "install"
      BY <1>6, RenderDegradesIs
  <2> QED BY <2>1, <2>2, <2>3 DEF CertsIn, CertIn, Pushable, Pushing
<1>7. CASE Suppress
    BY <1>7 DEF FileTypes, PushFacts, CertsIn, CertIn, Pushable, Pushing, NoPush, Suppress, files
<1>8. CASE Proceeds
  <2>1. UNCHANGED <<pushed.set, pushed.certsOK, pem>> /\ pushed'.pc # "install"
      BY <1>8, ProceedsIs
  <2>2. Pushing
      BY <1>8, ProceedsIs DEF Pushing
  <2>3. pushed.pc # "install"
      BY <1>8, ProceedsIs
  <2> QED BY <2>1, <2>2, <2>3 DEF CertsIn, CertIn, Pushable, Pushing
<1>9. ASSUME NEW h \in Hosts, PruneOrphan(h) PROVE CertsIn'
  <2>1. \A g \in Hosts : g # h => pem'[g] = pem[g]
      BY <1>9, PruneOrphanIs DEF FileTypes
  <2>2. Orphan(h) /\ pushed.pc = "prune" /\ pushed'.pc # "install" /\ UNCHANGED <<pushed.set, pushed.certsOK>>
      BY <1>9, PruneOrphanIs
  <2>3. ~Pushable(h, pushed.set)
      BY <2>2 DEF Orphan, Artifacts, ArtIs, Drawing
  <2> QED BY <2>1, <2>2, <2>3 DEF CertsIn, CertIn, Pushable, Pushing
<1>10. ASSUME NEW h \in Hosts, PruneFails(h) PROVE CertsIn'
  <2>1. \A g \in Hosts : g # h => pem'[g] = pem[g]
    <3>1. \E p \in Parts(pem[h]) \cup {pem[h]} : pem' = [pem EXCEPT ![h] = p]
        BY <1>10, PruneFailsIs DEF FileTypes
    <3> QED BY <3>1 DEF FileTypes
  <2>2. Orphan(h) /\ pushed.pc = "prune" /\ pushed'.pc # "install" /\ UNCHANGED <<pushed.set, pushed.certsOK>>
      BY <1>10, PruneFailsIs
  <2>3. ~Pushable(h, pushed.set)
      BY <2>2 DEF Orphan, Artifacts, ArtIs, Drawing
  <2> QED BY <2>1, <2>2, <2>3 DEF CertsIn, CertIn, Pushable, Pushing
<1>11. CASE EndPrune
  <2>1. UNCHANGED <<pushed.set, pushed.certsOK, pem>> /\ pushed'.pc # "install"
      BY <1>11, EndPruneIs
  <2>2. Pushing
      BY <1>11, EndPruneIs DEF Pushing
  <2>3. pushed.pc # "install"
      BY <1>11, EndPruneIs
  <2> QED BY <2>1, <2>2, <2>3 DEF CertsIn, CertIn, Pushable, Pushing
<1>12. ASSUME NEW h \in Hosts, Stage(h) PROVE CertsIn'
  <2>1. UNCHANGED <<pushed.set, pushed.certsOK, pem>> /\ pushed'.pc # "install"
      BY <1>12, StageIs
  <2>2. Pushing
      BY <1>12, StageIs DEF Pushing
  <2>3. pushed.pc # "install"
      BY <1>12, StageIs
  <2> QED BY <2>1, <2>2, <2>3 DEF CertsIn, CertIn, Pushable, Pushing
<1>13. ASSUME NEW h \in Hosts, StageFails(h) PROVE CertsIn'
  <2>1. UNCHANGED <<pushed.set, pushed.certsOK, pem>> /\ pushed'.pc # "install"
      BY <1>13, StageFailsIs
  <2>2. Pushing
      BY <1>13, StageFailsIs DEF Pushing
  <2>3. pushed.pc # "install"
      BY <1>13, StageFailsIs
  <2> QED BY <2>1, <2>2, <2>3 DEF CertsIn, CertIn, Pushable, Pushing
<1>14. CASE Test
  <2>1. UNCHANGED <<pushed.set, pushed.certsOK, pem>> /\ pushed'.pc # "install"
      BY <1>14, TestIs
  <2>2. Pushing
      BY <1>14, TestIs DEF Pushing
  <2>3. pushed.pc # "install"
      BY <1>14, TestIs
  <2> QED BY <2>1, <2>2, <2>3 DEF CertsIn, CertIn, Pushable, Pushing
<1>15. CASE ReloadProxy
  <2>1. UNCHANGED <<pushed.set, pushed.certsOK, pem>> /\ pushed'.pc # "install"
      BY <1>15, ReloadIs
  <2>2. Pushing
      BY <1>15, ReloadIs DEF Pushing
  <2>3. pushed.pc # "install"
      BY <1>15, ReloadIs
  <2> QED BY <2>1, <2>2, <2>3 DEF CertsIn, CertIn, Pushable, Pushing
<1>16. ASSUME NEW h \in Hosts, RollBack(h) PROVE CertsIn'
  <2>1. UNCHANGED <<pushed.set, pushed.certsOK, pem>> /\ pushed'.pc # "install"
      BY <1>16, RollBackIs
  <2>2. Pushing
      BY <1>16, RollBackIs DEF Pushing
  <2>3. pushed.pc # "install"
      BY <1>16, RollBackIs
  <2> QED BY <2>1, <2>2, <2>3 DEF CertsIn, CertIn, Pushable, Pushing
<1>17. CASE RolledBack
  <2>1. UNCHANGED <<pushed.set, pushed.certsOK, pem>> /\ pushed'.pc # "install"
      BY <1>17, RolledBackIs
  <2>2. Pushing
      BY <1>17, RolledBackIs DEF Pushing
  <2>3. pushed.pc # "install"
      BY <1>17, RolledBackIs
  <2> QED BY <2>1, <2>2, <2>3 DEF CertsIn, CertIn, Pushable, Pushing
<1>18. CASE EndPush
    BY <1>18 DEF FileTypes, PushFacts, CertsIn, CertIn, Pushable, Pushing, NoPush, EndPush, files
<1>19. CASE AgentCrash
    BY <1>19 DEF FileTypes, PushFacts, CertsIn, CertIn, Pushable, Pushing, NoPush, AgentCrash
<1>20. ASSUME NEW h \in Hosts, OperatorActs(h) PROVE CertsIn'
  <2>1. UNCHANGED <<pushed.set, pushed.certsOK, pem, pushed.pc, pushed.todo>>
      BY <1>20, OperatorIs
  <2> QED BY <2>1 DEF CertsIn, CertIn, Pushable, Pushing
<1>21. CASE UNCHANGED fileVars
    BY <1>21 DEF FileTypes, PushFacts, CertsIn, CertIn, Pushable, Pushing, fileVars, files
<1>22. ASSUME NEW h \in Hosts, RollBackFails(h) PROVE CertsIn'
  <2>1. UNCHANGED <<pushed.set, pushed.certsOK, pem>> /\ pushed'.pc # "install"
      BY <1>22, RollBackFailsIs
  <2>2. Pushing
      BY <1>22, RollBackFailsIs DEF Pushing
  <2>3. pushed.pc # "install"
      BY <1>22, RollBackFailsIs
  <2> QED BY <2>1, <2>2, <2>3 DEF CertsIn, CertIn, Pushable, Pushing
<1> QED
    BY <1>1, <1>2, <1>3, <1>4, <1>5, <1>6, <1>7, <1>8, <1>9, <1>10, <1>11, <1>12, <1>13, <1>14, <1>15, <1>16,
       <1>17, <1>18, <1>19, <1>20, <1>21, <1>22 DEF FilesNext

\* What is drawn, and for which hosts.
LEMMA ArtMoves ==
    ASSUME FileTypes, PushFacts, ArtIs, [FilesNext]_fileVars
    PROVE  ArtIs'
<1>1. ASSUME NEW w \in setup.sets, Push(w) PROVE ArtIs'
    BY <1>1, PushIs DEF ArtIs, Drawing, Pushable, FileTypes, PushFacts
<1>2. ASSUME NEW h \in Hosts, Install(h) PROVE ArtIs'
    BY <1>2, InstallIs DEF ArtIs, Drawing, Pushable, FileTypes, PushFacts
<1>3. ASSUME NEW h \in Hosts, InstallFails(h) PROVE ArtIs'
    BY <1>3, InstallFailsIs DEF ArtIs, Drawing, Pushable, FileTypes, PushFacts
<1>4. CASE Scrub
    BY <1>4, ScrubIs DEF ArtIs, Drawing, Pushable, FileTypes, PushFacts, NoPush
<1>5. ASSUME NEW h \in Hosts, Render(h) PROVE ArtIs'
  <2>1. Pushable(h, pushed.set)
      BY <1>5 DEF PushFacts, Render, RenderDegrades, Pushable, AtPush
  <2>2. /\ pushed.pc = "render" /\ pushed'.pc = "render" /\ h \in pushed.todo /\ pushed'.todo = pushed.todo \ {h}
        /\ UNCHANGED <<pushed.set, pushed.certsOK>>
        /\ \A g \in Hosts : g # h => pushed'.art[g] = pushed.art[g]
        /\ pushed'.art[h] \in Vhosts /\ pushed'.art[h].marked /\ pushed'.art[h].use = pushed.set[h].use
      BY <1>5, <2>1, RenderIs
  <2>3. pushed'.art[h] # NoFile
      BY <2>2, FilesAssumptions
  <2> QED BY <2>1, <2>2, <2>3 DEF ArtIs, Drawing, Pushable
<1>6. ASSUME NEW h \in Hosts, RenderDegrades(h) PROVE ArtIs'
  <2>1. Pushable(h, pushed.set)
      BY <1>6 DEF PushFacts, Render, RenderDegrades, Pushable, AtPush
  <2>2. /\ pushed.pc = "render" /\ pushed'.pc = "render" /\ h \in pushed.todo /\ pushed'.todo = pushed.todo \ {h}
        /\ UNCHANGED <<pushed.set, pushed.certsOK>>
        /\ \A g \in Hosts : g # h => pushed'.art[g] = pushed.art[g]
        /\ pushed'.art[h] \in Vhosts /\ pushed'.art[h].marked /\ pushed'.art[h].use = pushed.set[h].use
      BY <1>6, <2>1, RenderDegradesIs
  <2>3. pushed'.art[h] # NoFile
      BY <2>2, FilesAssumptions
  <2> QED BY <2>1, <2>2, <2>3 DEF ArtIs, Drawing, Pushable
<1>7. CASE Suppress
    BY <1>7 DEF ArtIs, Drawing, Pushable, FileTypes, PushFacts, NoPush, Suppress, files
<1>8. CASE Proceeds
    BY <1>8, ProceedsIs DEF ArtIs, Drawing, Pushable, FileTypes, PushFacts
<1>9. ASSUME NEW h \in Hosts, PruneOrphan(h) PROVE ArtIs'
    BY <1>9, PruneOrphanIs DEF ArtIs, Drawing, Pushable, FileTypes, PushFacts
<1>10. ASSUME NEW h \in Hosts, PruneFails(h) PROVE ArtIs'
    BY <1>10, PruneFailsIs DEF ArtIs, Drawing, Pushable, FileTypes, PushFacts
<1>11. CASE EndPrune
    BY <1>11, EndPruneIs DEF ArtIs, Drawing, Pushable, FileTypes, PushFacts
<1>12. ASSUME NEW h \in Hosts, Stage(h) PROVE ArtIs'
    BY <1>12, StageIs DEF ArtIs, Drawing, Pushable, FileTypes, PushFacts
<1>13. ASSUME NEW h \in Hosts, StageFails(h) PROVE ArtIs'
    BY <1>13, StageFailsIs DEF ArtIs, Drawing, Pushable, FileTypes, PushFacts
<1>14. CASE Test
    BY <1>14, TestIs DEF ArtIs, Drawing, Pushable, FileTypes, PushFacts
<1>15. CASE ReloadProxy
    BY <1>15, ReloadIs DEF ArtIs, Drawing, Pushable, FileTypes, PushFacts
<1>16. ASSUME NEW h \in Hosts, RollBack(h) PROVE ArtIs'
    BY <1>16, RollBackIs DEF ArtIs, Drawing, Pushable, FileTypes, PushFacts
<1>17. CASE RolledBack
    BY <1>17, RolledBackIs DEF ArtIs, Drawing, Pushable, FileTypes, PushFacts
<1>18. CASE EndPush
    BY <1>18 DEF ArtIs, Drawing, Pushable, FileTypes, PushFacts, NoPush, EndPush, files
<1>19. CASE AgentCrash
    BY <1>19 DEF ArtIs, Drawing, Pushable, FileTypes, PushFacts, NoPush, AgentCrash
<1>20. ASSUME NEW h \in Hosts, OperatorActs(h) PROVE ArtIs'
    BY <1>20, OperatorIs DEF ArtIs, Drawing, Pushable, FileTypes, PushFacts
<1>21. CASE UNCHANGED fileVars
    BY <1>21 DEF ArtIs, Drawing, Pushable, FileTypes, PushFacts, fileVars, files
<1>22. ASSUME NEW h \in Hosts, RollBackFails(h) PROVE ArtIs'
  <2>1. /\ pushed.pc = "rollback" /\ pushed'.pc = "rollback"
        /\ UNCHANGED <<pushed.set, pushed.art>>
    BY <1>22, RollBackFailsIs
  <2> QED
    BY <2>1 DEF ArtIs, Drawing, Pushable
<1> QED
    BY <1>1, <1>2, <1>3, <1>4, <1>5, <1>6, <1>7, <1>8, <1>9, <1>10, <1>11, <1>12, <1>13, <1>14, <1>15, <1>16,
       <1>17, <1>18, <1>19, <1>20, <1>21, <1>22 DEF FilesNext

\* The TLS of what is drawn has its certificate: installed with the push, and nothing
\* was on the disk before that the set is silent of.
LEMMA TlsMoves ==
    ASSUME FileTypes, Steady, PushFacts, PemsGrounded, CertsIn, ArtIs, SecureIs, [FilesNext]_fileVars
    PROVE  SecureIs'
<1>1. ASSUME NEW w \in setup.sets, Push(w) PROVE SecureIs'
  <2>1. Artifacts' = {}
      BY <1>1, PushIs DEF ArtIs, Artifacts, NoPush, Pushing
  <2> QED BY <2>1 DEF SecureIs
<1>2. ASSUME NEW h \in Hosts, Install(h) PROVE SecureIs'
  <2>1. Artifacts' = {}
      BY <1>2, InstallIs DEF ArtIs, Artifacts, NoPush, Pushing
  <2> QED BY <2>1 DEF SecureIs
<1>3. ASSUME NEW h \in Hosts, InstallFails(h) PROVE SecureIs'
  <2>1. Artifacts' = {}
      BY <1>3, InstallFailsIs DEF ArtIs, Artifacts, NoPush, Pushing
  <2> QED BY <2>1 DEF SecureIs
<1>4. CASE Scrub
  <2>1. Artifacts' = {}
      BY <1>4, ScrubIs DEF ArtIs, Artifacts, NoPush, Pushing
  <2> QED BY <2>1 DEF SecureIs
<1>5. ASSUME NEW h \in Hosts, Render(h) PROVE SecureIs'
  <2>1. Pushable(h, pushed.set)
      BY <1>5 DEF PushFacts, Render, AtPush
  <2>2. /\ pushed.pc = "render" /\ pushed'.pc = "render" /\ h \in pushed.todo /\ pushed'.todo = pushed.todo \ {h}
        /\ UNCHANGED <<pushed.set, pushed.certsOK, pushed.pure>>
        /\ \A g \in Hosts : g # h => pushed'.art[g] = pushed.art[g]
        /\ pushed'.art[h] \in Vhosts /\ pushed'.art[h].marked /\ pushed'.art[h].use = pushed.set[h].use
      BY <1>5, <2>1, RenderIs
  <2>3. pushed'.art[h] # NoFile
      BY <2>2, FilesAssumptions
  <2>4. \A g \in Hosts : g # h => pem'[g] = pem[g]
      BY <1>5, <2>1, RenderIs DEF FileTypes
  <2>5. pem[h] \in Pems /\ pushed.set \in setup.sets /\ setup \in Setups
      BY <2>2 DEF FileTypes, PushFacts, Pushing
  <2>6. pushed.set[h].use = "rendered" /\ pem[h].crt # 0 => pushed.set[h].cert # 0
      BY <2>5 DEF PemsGrounded, AnyPem, Steady
  <2>7. pushed.certsOK /\ pushed.set[h].cert # 0 => CertIn(h)
      BY <2>1, <2>2 DEF CertsIn, Pushing
  <2>8. pushed.pure => pushed.certsOK
      BY DEF PushFacts
  <2>9. pushed.set[h].use = "raw" \/ pushed.set[h].use = "rendered"
      BY <2>1 DEF Pushable
  <2>10. pushed'.art[h].tls <=> IF pushed.set[h].use = "raw" THEN pushed.set[h].cert # 0
                               ELSE pem[h].crt # 0 /\ pem[h].key # 0
      BY <1>5, <2>1, RenderIs
  <2>11. pushed'.art[h].tls => pushed.set[h].cert # 0
      BY <2>6, <2>9, <2>10
  <2>12. pushed'.art[h].tls /\ pushed.certsOK => pem'[h].plain = pushed.set[h].cert
    <3>1. CASE pushed.set[h].use = "raw"
      <4>1. pem' = pem
          BY <1>5, <2>1, <3>1, RenderIs
      <4> QED BY <2>7, <2>11, <3>1, <4>1 DEF CertIn
    <3>2. CASE pushed.set[h].use = "rendered" /\ pushed'.art[h].tls
      <4>1. pem' = [pem EXCEPT ![h].plain = pem[h].key]
          BY <1>5, <2>1, <2>10, <3>2, RenderIs
      <4>2. pem'[h].plain = pem[h].key
          BY <2>5, <4>1 DEF FileTypes, Pems
      <4> QED BY <2>7, <2>11, <3>2, <4>2 DEF CertIn
    <3> QED BY <2>9, <3>1, <3>2
  <2>13. pushed.pure /\ pushed.set[h].cert # 0 => pushed'.art[h].tls
      BY <2>7, <2>8, <2>9, <2>10 DEF CertIn
  <2> QED BY <2>2, <2>4, <2>11, <2>12, <2>13 DEF SecureIs, Artifacts
<1>6. ASSUME NEW h \in Hosts, RenderDegrades(h) PROVE SecureIs'
  <2>1. Pushable(h, pushed.set)
      BY <1>6 DEF RenderDegrades, Pushable
  <2>2. /\ pushed.pc = "render" /\ pushed'.pc = "render" /\ h \in pushed.todo /\ pushed'.todo = pushed.todo \ {h}
        /\ UNCHANGED <<pushed.set, pushed.certsOK>>
        /\ \A g \in Hosts : g # h => pushed'.art[g] = pushed.art[g]
        /\ pushed'.art[h] \in Vhosts /\ pushed'.art[h].marked /\ pushed'.art[h].use = pushed.set[h].use
      BY <1>6, <2>1, RenderDegradesIs
  <2>3. pushed'.art[h] # NoFile
      BY <2>2, FilesAssumptions
  <2>4. ~pushed'.art[h].tls /\ ~pushed'.pure /\ pem' = pem
      BY <1>6, RenderDegradesIs
  <2> QED BY <2>2, <2>4 DEF SecureIs, Artifacts
<1>7. CASE Suppress
  <2>1. Artifacts' = {}
      BY <1>7 DEF Suppress, Artifacts, NoPush
  <2> QED BY <2>1 DEF SecureIs
<1>8. CASE Proceeds
  <2>1. /\ UNCHANGED <<pem, pushed.set, pushed.art, pushed.certsOK>> /\ (pushed'.pure => pushed.pure)
      BY <1>8, ProceedsIs
  <2> QED BY <2>1 DEF SecureIs, Artifacts
<1>9. ASSUME NEW h \in Hosts, PruneOrphan(h) PROVE SecureIs'
  <2>1. \A g \in Hosts : g # h => pem'[g] = pem[g]
      BY <1>9, PruneOrphanIs DEF FileTypes
  <2>2. Orphan(h) /\ UNCHANGED <<pushed.set, pushed.art, pushed.certsOK, pushed.pure>>
      BY <1>9, PruneOrphanIs
  <2>3. h \notin Artifacts
      BY <2>2 DEF Orphan
  <2> QED BY <2>1, <2>2, <2>3 DEF SecureIs, Artifacts
<1>10. ASSUME NEW h \in Hosts, PruneFails(h) PROVE SecureIs'
  <2>1. \A g \in Hosts : g # h => pem'[g] = pem[g]
    <3>1. \E p \in Parts(pem[h]) \cup {pem[h]} : pem' = [pem EXCEPT ![h] = p]
        BY <1>10, PruneFailsIs DEF FileTypes
    <3> QED BY <3>1 DEF FileTypes
  <2>2. Orphan(h) /\ ~pushed'.pure /\ UNCHANGED <<pushed.set, pushed.art, pushed.certsOK>>
      BY <1>10, PruneFailsIs
  <2>3. h \notin Artifacts
      BY <2>2 DEF Orphan
  <2> QED BY <2>1, <2>2, <2>3 DEF SecureIs, Artifacts
<1>11. CASE EndPrune
  <2>1. /\ UNCHANGED <<pem, pushed.set, pushed.art, pushed.certsOK>> /\ (pushed'.pure => pushed.pure)
      BY <1>11, EndPruneIs
  <2> QED BY <2>1 DEF SecureIs, Artifacts
<1>12. ASSUME NEW h \in Hosts, Stage(h) PROVE SecureIs'
  <2>1. /\ UNCHANGED <<pem, pushed.set, pushed.art, pushed.certsOK>> /\ (pushed'.pure => pushed.pure)
      BY <1>12, StageIs
  <2> QED BY <2>1 DEF SecureIs, Artifacts
<1>13. ASSUME NEW h \in Hosts, StageFails(h) PROVE SecureIs'
  <2>1. /\ UNCHANGED <<pem, pushed.set, pushed.art, pushed.certsOK>> /\ (pushed'.pure => pushed.pure)
      BY <1>13, StageFailsIs
  <2> QED BY <2>1 DEF SecureIs, Artifacts
<1>14. CASE Test
  <2>1. /\ UNCHANGED <<pem, pushed.set, pushed.art, pushed.certsOK>> /\ (pushed'.pure => pushed.pure)
      BY <1>14, TestIs
  <2> QED BY <2>1 DEF SecureIs, Artifacts
<1>15. CASE ReloadProxy
  <2>1. /\ UNCHANGED <<pem, pushed.set, pushed.art, pushed.certsOK>> /\ (pushed'.pure => pushed.pure)
      BY <1>15, ReloadIs
  <2> QED BY <2>1 DEF SecureIs, Artifacts
<1>16. ASSUME NEW h \in Hosts, RollBack(h) PROVE SecureIs'
  <2>1. /\ UNCHANGED <<pem, pushed.set, pushed.art, pushed.certsOK>> /\ (pushed'.pure => pushed.pure)
      BY <1>16, RollBackIs
  <2> QED BY <2>1 DEF SecureIs, Artifacts
<1>17. CASE RolledBack
  <2>1. /\ UNCHANGED <<pem, pushed.set, pushed.art, pushed.certsOK>> /\ (pushed'.pure => pushed.pure)
      BY <1>17, RolledBackIs
  <2> QED BY <2>1 DEF SecureIs, Artifacts
<1>18. CASE EndPush
  <2>1. Artifacts' = {}
      BY <1>18 DEF EndPush, Artifacts, NoPush
  <2> QED BY <2>1 DEF SecureIs
<1>19. CASE AgentCrash
  <2>1. Artifacts' = {}
      BY <1>19 DEF AgentCrash, Artifacts, NoPush
  <2> QED BY <2>1 DEF SecureIs
<1>20. ASSUME NEW h \in Hosts, OperatorActs(h) PROVE SecureIs'
  <2>1. /\ UNCHANGED <<pem, pushed.set, pushed.art, pushed.certsOK>> /\ (pushed'.pure => pushed.pure)
    <3>1. CASE pushed.pc = "resting"
        BY <1>20, <3>1, OperatorIs
    <3>2. CASE pushed.pc # "resting"
        BY <1>20, <3>2, OperatorIs
    <3> QED BY <3>1, <3>2
  <2> QED BY <2>1 DEF SecureIs, Artifacts
<1>21. CASE UNCHANGED fileVars
    BY <1>21 DEF SecureIs, Artifacts, fileVars, files
<1>22. ASSUME NEW h \in Hosts, RollBackFails(h) PROVE SecureIs'
  <2>1. /\ UNCHANGED <<pem, pushed.set, pushed.art, pushed.certsOK>> /\ (pushed'.pure => pushed.pure)
      BY <1>22, RollBackFailsIs
  <2> QED BY <2>1 DEF SecureIs, Artifacts
<1> QED
    BY <1>1, <1>2, <1>3, <1>4, <1>5, <1>6, <1>7, <1>8, <1>9, <1>10, <1>11, <1>12, <1>13, <1>14, <1>15, <1>16,
       <1>17, <1>18, <1>19, <1>20, <1>21, <1>22 DEF FilesNext

\* An orphan by its file alone, and never a host that something is drawn for.
LEMMA OrphanIs ==
    /\ \A g \in Hosts : UNCHANGED <<vhost[g], pushed.art, pushed.set, setup>> => (Orphan(g)' <=> Orphan(g))
    /\ \A g \in Artifacts : ~Orphan(g)
BY DEF Orphan, Proven, Artifacts, KeepFile

\* After the pruning of a push that met with nothing no orphan is left, and none comes
\* back.
LEMMA OrphansMove ==
    ASSUME FileTypes, PushFacts, OrphansGone, [FilesNext]_fileVars
    PROVE  OrphansGone'
<1>1. ASSUME NEW w \in setup.sets, Push(w) PROVE OrphansGone'
    BY <1>1, PushIs DEF OrphansGone, Writing
<1>2. ASSUME NEW h \in Hosts, Install(h) PROVE OrphansGone'
    BY <1>2, InstallIs DEF OrphansGone, Writing
<1>3. ASSUME NEW h \in Hosts, InstallFails(h) PROVE OrphansGone'
    BY <1>3, InstallFailsIs DEF OrphansGone, Writing
<1>4. CASE Scrub
    BY <1>4, ScrubIs DEF OrphansGone, Writing
<1>5. ASSUME NEW h \in Hosts, Render(h) PROVE OrphansGone'
  <2>1. pushed'.pc = "render"
      BY <1>5 DEF FileTypes, PushSet, Render, AtPush
  <2> QED BY <2>1 DEF OrphansGone, Writing
<1>6. ASSUME NEW h \in Hosts, RenderDegrades(h) PROVE OrphansGone'
    BY <1>6, RenderDegradesIs DEF OrphansGone, Writing
<1>7. CASE Suppress
    BY <1>7 DEF OrphansGone, Writing, NoPush, Suppress, files
<1>8. CASE Proceeds
    BY <1>8, ProceedsIs DEF OrphansGone, Writing
<1>9. ASSUME NEW h \in Hosts, PruneOrphan(h) PROVE OrphansGone'
  <2>1. /\ UNCHANGED <<pushed.art, pushed.set, pushed.touched, setup>> /\ \A g \in Hosts : g # h => vhost'[g] = vhost[g]
        /\ vhost'[h] = NoFile /\ pushed.pc = "prune" /\ pushed'.pc = "prune" /\ pushed'.todo = pushed.todo \ {h}
      BY <1>9, PruneOrphanIs DEF FileTypes
  <2>2. \A g \in Hosts : g # h => (Orphan(g)' <=> Orphan(g))
      BY <2>1, OrphanIs
  <2>3. ~Orphan(h)'
      BY <2>1 DEF Orphan, Proven
  <2> QED BY <2>1, <2>2, <2>3 DEF OrphansGone, Writing
<1>10. ASSUME NEW h \in Hosts, PruneFails(h) PROVE OrphansGone'
    BY <1>10, PruneFailsIs DEF OrphansGone, Writing
<1>11. CASE EndPrune
  <2>1. /\ UNCHANGED <<vhost, pushed.art, pushed.set, pushed.touched, setup>> /\ pushed.pc = "prune" /\ pushed'.pc # "prune"
        /\ \A g \in pushed.todo : ~Orphan(g)
      BY <1>11, EndPruneIs
  <2>2. \A g \in Hosts : Orphan(g)' <=> Orphan(g)
      BY <2>1, OrphanIs
  <2> QED BY <2>1, <2>2 DEF OrphansGone, Writing
<1>12. ASSUME NEW h \in Hosts, Stage(h) PROVE OrphansGone'
  <2>1. /\ UNCHANGED <<pushed.art, pushed.set, pushed.touched, setup>> /\ \A g \in Hosts : g # h => vhost'[g] = vhost[g]
        /\ h \in Artifacts /\ pushed.staged \subseteq Hosts /\ pushed.pc \in {"stage"} /\ pushed'.pc # "prune"
        /\ (pushed'.pure => pushed.pure) /\ UNCHANGED pushed.clean
      BY <1>12, StageIs DEF FileTypes, PushSet, PushFacts, Writing
  <2>2. Artifacts' = Artifacts
      BY <2>1 DEF Artifacts
  <2>3. \A g \in Hosts : g # h => (Orphan(g)' <=> Orphan(g))
      BY <2>1, OrphanIs
  <2>4. ~Orphan(h)'
      BY <2>1, <2>2 DEF Orphan
  <2> QED BY <2>1, <2>3, <2>4 DEF OrphansGone, Writing
<1>13. ASSUME NEW h \in Hosts, StageFails(h) PROVE OrphansGone'
  <2>1. /\ UNCHANGED <<pushed.art, pushed.set, pushed.touched, setup>> /\ \A g \in Hosts : g # h => vhost'[g] = vhost[g]
        /\ h \in Artifacts /\ pushed.staged \subseteq Hosts /\ pushed.pc \in {"stage"} /\ pushed'.pc # "prune"
        /\ (pushed'.pure => pushed.pure) /\ UNCHANGED pushed.clean
      BY <1>13, StageFailsIs DEF FileTypes, PushSet, PushFacts, Writing
  <2>2. Artifacts' = Artifacts
      BY <2>1 DEF Artifacts
  <2>3. \A g \in Hosts : g # h => (Orphan(g)' <=> Orphan(g))
      BY <2>1, OrphanIs
  <2>4. ~Orphan(h)'
      BY <2>1, <2>2 DEF Orphan
  <2> QED BY <2>1, <2>3, <2>4 DEF OrphansGone, Writing
<1>14. CASE Test
  <2>1. /\ UNCHANGED <<vhost, pushed.art, pushed.set, pushed.touched, setup>> /\ pushed.pc \in {"stage"} /\ pushed'.pc # "prune"
        /\ (pushed'.pure => pushed.pure) /\ (pushed'.clean => pushed.clean)
      BY <1>14, TestIs
  <2>2. \A g \in Hosts : Orphan(g)' <=> Orphan(g)
      BY <2>1, OrphanIs
  <2> QED BY <2>1, <2>2 DEF OrphansGone, Writing
<1>15. CASE ReloadProxy
  <2>1. /\ UNCHANGED <<vhost, pushed.art, pushed.set, pushed.touched, setup>> /\ pushed.pc \in {"reload"} /\ pushed'.pc # "prune"
        /\ (pushed'.pure => pushed.pure) /\ (pushed'.clean => pushed.clean)
      BY <1>15, ReloadIs
  <2>2. \A g \in Hosts : Orphan(g)' <=> Orphan(g)
      BY <2>1, OrphanIs
  <2> QED BY <2>1, <2>2 DEF OrphansGone, Writing
<1>16. ASSUME NEW h \in Hosts, RollBack(h) PROVE OrphansGone'
  <2>1. /\ UNCHANGED <<pushed.art, pushed.set, pushed.touched, setup>> /\ \A g \in Hosts : g # h => vhost'[g] = vhost[g]
        /\ h \in Artifacts /\ pushed.staged \subseteq Hosts /\ pushed.pc \in {"rollback"} /\ pushed'.pc # "prune"
        /\ (pushed'.pure => pushed.pure) /\ UNCHANGED pushed.clean
      BY <1>16, RollBackIs DEF FileTypes, PushSet, PushFacts, Writing
  <2>2. Artifacts' = Artifacts
      BY <2>1 DEF Artifacts
  <2>3. \A g \in Hosts : g # h => (Orphan(g)' <=> Orphan(g))
      BY <2>1, OrphanIs
  <2>4. ~Orphan(h)'
      BY <2>1, <2>2 DEF Orphan
  <2> QED BY <2>1, <2>3, <2>4 DEF OrphansGone, Writing
<1>17. CASE RolledBack
  <2>1. /\ UNCHANGED <<vhost, pushed.art, pushed.set, pushed.touched, setup>> /\ pushed.pc \in {"rollback"} /\ pushed'.pc # "prune"
        /\ (pushed'.pure => pushed.pure) /\ (pushed'.clean => pushed.clean)
      BY <1>17, RolledBackIs
  <2>2. \A g \in Hosts : Orphan(g)' <=> Orphan(g)
      BY <2>1, OrphanIs
  <2> QED BY <2>1, <2>2 DEF OrphansGone, Writing
<1>18. CASE EndPush
    BY <1>18 DEF OrphansGone, Writing, NoPush, EndPush, files
<1>19. CASE AgentCrash
    BY <1>19 DEF OrphansGone, Writing, NoPush, AgentCrash
<1>20. ASSUME NEW h \in Hosts, OperatorActs(h) PROVE OrphansGone'
  <2>1. pushed'.touched = {} => pushed'.pc = "resting"
      BY <1>20, OperatorIs
  <2> QED BY <2>1 DEF OrphansGone, Writing
<1>21. CASE UNCHANGED fileVars
  <2>1. UNCHANGED <<vhost, pushed, setup>>
      BY <1>21 DEF fileVars, files
  <2>2. \A g \in Hosts : Orphan(g)' <=> Orphan(g)
      BY <2>1, OrphanIs
  <2> QED BY <2>1, <2>2 DEF OrphansGone, Writing
<1>22. ASSUME NEW h \in Hosts, RollBackFails(h) PROVE OrphansGone'
  <2>1. /\ UNCHANGED <<pushed.art, pushed.set, pushed.touched, setup>> /\ \A g \in Hosts : g # h => vhost'[g] = vhost[g]
        /\ h \in Artifacts /\ pushed.staged \subseteq Hosts /\ pushed.pc \in {"rollback"} /\ pushed'.pc # "prune"
        /\ (pushed'.pure => pushed.pure) /\ UNCHANGED pushed.clean
      BY <1>22, RollBackFailsIs DEF FileTypes, PushSet, PushFacts, Writing
  <2>2. Artifacts' = Artifacts
      BY <2>1 DEF Artifacts
  <2>3. \A g \in Hosts : g # h => (Orphan(g)' <=> Orphan(g))
      BY <2>1, OrphanIs
  <2>4. ~Orphan(h)'
      BY <2>1, <2>2 DEF Orphan
  <2> QED BY <2>1, <2>3, <2>4 DEF OrphansGone, Writing
<1> QED
    BY <1>1, <1>2, <1>3, <1>4, <1>5, <1>6, <1>7, <1>8, <1>9, <1>10, <1>11, <1>12, <1>13, <1>14, <1>15, <1>16,
       <1>17, <1>18, <1>19, <1>20, <1>21, <1>22 DEF FilesNext

\* What is staged is on the disk, and activated.
LEMMA StagingMoves ==
    ASSUME FileTypes, PushFacts, Staging, [FilesNext]_fileVars
    PROVE  Staging'
<1>1. ASSUME NEW w \in setup.sets, Push(w) PROVE Staging'
  <2>1. pushed'.pc \notin {"stage", "reload"}
      BY <1>1, PushIs
  <2> QED BY <2>1 DEF Staging
<1>2. ASSUME NEW h \in Hosts, Install(h) PROVE Staging'
  <2>1. pushed'.pc \notin {"stage", "reload"}
      BY <1>2, InstallIs
  <2> QED BY <2>1 DEF Staging
<1>3. ASSUME NEW h \in Hosts, InstallFails(h) PROVE Staging'
  <2>1. pushed'.pc \notin {"stage", "reload"}
      BY <1>3, InstallFailsIs
  <2> QED BY <2>1 DEF Staging
<1>4. CASE Scrub
  <2>1. pushed'.pc \notin {"stage", "reload"}
      BY <1>4, ScrubIs
  <2> QED BY <2>1 DEF Staging
<1>5. ASSUME NEW h \in Hosts, Render(h) PROVE Staging'
  <2>1. pushed'.pc = "render"
      BY <1>5 DEF FileTypes, PushSet, Render, AtPush
  <2> QED BY <2>1 DEF Staging
<1>6. ASSUME NEW h \in Hosts, RenderDegrades(h) PROVE Staging'
  <2>1. pushed'.pc \notin {"stage", "reload"}
      BY <1>6, RenderDegradesIs
  <2> QED BY <2>1 DEF Staging
<1>7. CASE Suppress
  <2>1. pushed'.pc = "resting"
      BY <1>7 DEF Suppress, NoPush
  <2> QED BY <2>1 DEF Staging
<1>8. CASE Proceeds
  <2>1. pushed'.pc \notin {"stage", "reload"}
      BY <1>8, ProceedsIs
  <2> QED BY <2>1 DEF Staging
<1>9. ASSUME NEW h \in Hosts, PruneOrphan(h) PROVE Staging'
  <2>1. pushed'.pc \notin {"stage", "reload"}
      BY <1>9, PruneOrphanIs
  <2> QED BY <2>1 DEF Staging
<1>10. ASSUME NEW h \in Hosts, PruneFails(h) PROVE Staging'
  <2>1. pushed'.todo = Artifacts /\ UNCHANGED pushed.art
      BY <1>10, PruneFailsIs
  <2> QED BY <2>1 DEF Staging, Artifacts
<1>11. CASE EndPrune
  <2>1. pushed'.todo = Artifacts /\ UNCHANGED pushed.art
      BY <1>11, EndPruneIs
  <2> QED BY <2>1 DEF Staging, Artifacts
<1>12. ASSUME NEW h \in Hosts, Stage(h) PROVE Staging'
  <2>1. CASE Refused(h)
    <3>1. pushed'.pc = "rollback"
        BY <1>12, <2>1, StageIs
    <3> QED BY <3>1 DEF Staging
  <2>2. CASE ~Refused(h)
    <3>1. /\ pushed'.pc = "stage" /\ pushed.pc = "stage" /\ pushed'.todo = pushed.todo \ {h}
          /\ UNCHANGED <<pushed.art, pushed.touched, setup>>
          /\ \A g \in Hosts : g # h => vhost'[g] = vhost[g] /\ link'[g] = link[g]
          /\ vhost'[h] = pushed.art[h] /\ (HasLinks => link'[h] = "ours")
        BY <1>12, <2>2, StageIs DEF FileTypes
    <3> QED BY <3>1 DEF Staging, Artifacts, HasLinks
  <2> QED BY <2>1, <2>2
<1>13. ASSUME NEW h \in Hosts, StageFails(h) PROVE Staging'
  <2>1. pushed'.pc \notin {"stage", "reload"}
      BY <1>13, StageFailsIs
  <2> QED BY <2>1 DEF Staging
<1>14. CASE Test
  <2>1. /\ UNCHANGED <<vhost, link, pushed.art, pushed.touched, pushed.todo, setup>> /\ pushed.pc \in {"stage", "reload"}
      BY <1>14, TestIs
  <2> QED BY <2>1 DEF Staging, Artifacts, HasLinks
<1>15. CASE ReloadProxy
  <2>1. /\ UNCHANGED <<vhost, link, pushed.art, pushed.touched, pushed.todo, setup>> /\ pushed.pc \in {"stage", "reload"}
      BY <1>15, ReloadIs
  <2> QED BY <2>1 DEF Staging, Artifacts, HasLinks
<1>16. ASSUME NEW h \in Hosts, RollBack(h) PROVE Staging'
  <2>1. pushed'.pc \notin {"stage", "reload"}
      BY <1>16, RollBackIs
  <2> QED BY <2>1 DEF Staging
<1>17. CASE RolledBack
  <2>1. pushed'.pc \notin {"stage", "reload"}
      BY <1>17, RolledBackIs
  <2> QED BY <2>1 DEF Staging
<1>18. CASE EndPush
  <2>1. pushed'.pc = "resting"
      BY <1>18 DEF EndPush, NoPush
  <2> QED BY <2>1 DEF Staging
<1>19. CASE AgentCrash
  <2>1. pushed'.pc = "resting"
      BY <1>19 DEF AgentCrash, NoPush
  <2> QED BY <2>1 DEF Staging
<1>20. ASSUME NEW h \in Hosts, OperatorActs(h) PROVE Staging'
  <2>1. pushed'.touched = {} => pushed'.pc = "resting"
      BY <1>20, OperatorIs
  <2> QED BY <2>1 DEF Staging
<1>21. CASE UNCHANGED fileVars
    BY <1>21 DEF Staging, Artifacts, HasLinks, fileVars, files
<1>22. ASSUME NEW h \in Hosts, RollBackFails(h) PROVE Staging'
  <2>1. pushed'.pc \notin {"stage", "reload"}
      BY <1>22, RollBackFailsIs
  <2> QED BY <2>1 DEF Staging
<1> QED
    BY <1>1, <1>2, <1>3, <1>4, <1>5, <1>6, <1>7, <1>8, <1>9, <1>10, <1>11, <1>12, <1>13, <1>14, <1>15, <1>16,
       <1>17, <1>18, <1>19, <1>20, <1>21, <1>22 DEF FilesNext

\* An operator's copy that a push came upon is there to stay.
LEMMA CopiesMove ==
    ASSUME FileTypes, PushFacts, CopiesStay, [FilesNext]_fileVars
    PROVE  CopiesStay'
<1>1. ASSUME NEW w \in setup.sets, Push(w) PROVE CopiesStay'
  <2>1. pushed'.pc \in {"install", "render", "prune"}
      BY <1>1, PushIs
  <2> QED BY <2>1 DEF CopiesStay, Writing
<1>2. ASSUME NEW h \in Hosts, Install(h) PROVE CopiesStay'
  <2>1. pushed'.pc \in {"install", "render", "prune"}
      BY <1>2, InstallIs
  <2> QED BY <2>1 DEF CopiesStay, Writing
<1>3. ASSUME NEW h \in Hosts, InstallFails(h) PROVE CopiesStay'
  <2>1. pushed'.pc \in {"install", "render", "prune"}
      BY <1>3, InstallFailsIs
  <2> QED BY <2>1 DEF CopiesStay, Writing
<1>4. CASE Scrub
  <2>1. pushed'.pc \in {"install", "render", "prune"}
      BY <1>4, ScrubIs
  <2> QED BY <2>1 DEF CopiesStay, Writing
<1>5. ASSUME NEW h \in Hosts, Render(h) PROVE CopiesStay'
  <2>1. pushed'.pc = "render"
      BY <1>5 DEF FileTypes, PushSet, Render, AtPush
  <2> QED BY <2>1 DEF CopiesStay, Writing
<1>6. ASSUME NEW h \in Hosts, RenderDegrades(h) PROVE CopiesStay'
  <2>1. pushed'.pc \in {"install", "render", "prune"}
      BY <1>6, RenderDegradesIs
  <2> QED BY <2>1 DEF CopiesStay, Writing
<1>7. CASE Suppress
  <2>1. pushed'.pc = "resting"
      BY <1>7 DEF Suppress, NoPush
  <2> QED BY <2>1 DEF CopiesStay, Writing
<1>8. CASE Proceeds
  <2>1. pushed'.pc \in {"install", "render", "prune"}
      BY <1>8, ProceedsIs
  <2> QED BY <2>1 DEF CopiesStay, Writing
<1>9. ASSUME NEW h \in Hosts, PruneOrphan(h) PROVE CopiesStay'
  <2>1. pushed'.pc \in {"install", "render", "prune"}
      BY <1>9, PruneOrphanIs
  <2> QED BY <2>1 DEF CopiesStay, Writing
<1>10. ASSUME NEW h \in Hosts, PruneFails(h) PROVE CopiesStay'
  <2>1. ~pushed'.pure
      BY <1>10, PruneFailsIs
  <2> QED BY <2>1 DEF CopiesStay
<1>11. CASE EndPrune
  <2>1. \A g \in Hosts : pushed'.before[g] = OnDisk(g) /\ OnDisk(g).link = link[g] /\ link' = link
      BY <1>11, EndPruneIs DEF OnDisk
  <2> QED BY <2>1 DEF CopiesStay
<1>12. ASSUME NEW h \in Hosts, Stage(h) PROVE CopiesStay'
  <2>1. /\ pushed.pc = "stage" /\ UNCHANGED <<pushed.pure, pushed.before>>
        /\ \A g \in Hosts : g # h => link'[g] = link[g]
        /\ link'[h] = (IF HasLinks /\ ~Refused(h) THEN "ours" ELSE link[h])
      BY <1>12, StageIs DEF FileTypes
  <2> QED BY <2>1 DEF CopiesStay, Writing
<1>13. ASSUME NEW h \in Hosts, StageFails(h) PROVE CopiesStay'
  <2>1. ~pushed'.pure
      BY <1>13, StageFailsIs
  <2> QED BY <2>1 DEF CopiesStay
<1>14. CASE Test
  <2>1. pushed.pc \in {"stage", "reload", "rollback"} /\ UNCHANGED <<link, pushed.before>> /\ (pushed'.pure => pushed.pure)
      BY <1>14, TestIs
  <2> QED BY <2>1 DEF CopiesStay, Writing
<1>15. CASE ReloadProxy
  <2>1. pushed.pc \in {"stage", "reload", "rollback"} /\ UNCHANGED <<link, pushed.before>> /\ (pushed'.pure => pushed.pure)
      BY <1>15, ReloadIs
  <2> QED BY <2>1 DEF CopiesStay, Writing
<1>16. ASSUME NEW h \in Hosts, RollBack(h) PROVE CopiesStay'
  <2>1. /\ pushed.pc = "rollback" /\ UNCHANGED <<pushed.pure, pushed.before>>
        /\ \A g \in Hosts : g # h => link'[g] = link[g]
        /\ link'[h] \in {link[h], "none"}
      BY <1>16, RollBackIs
  <2> QED BY <2>1 DEF CopiesStay, Writing
<1>17. CASE RolledBack
  <2>1. pushed.pc \in {"stage", "reload", "rollback"} /\ UNCHANGED <<link, pushed.before>> /\ (pushed'.pure => pushed.pure)
      BY <1>17, RolledBackIs
  <2> QED BY <2>1 DEF CopiesStay, Writing
<1>18. CASE EndPush
  <2>1. pushed'.pc = "resting"
      BY <1>18 DEF EndPush, NoPush
  <2> QED BY <2>1 DEF CopiesStay, Writing
<1>19. CASE AgentCrash
  <2>1. pushed'.pc = "resting"
      BY <1>19 DEF AgentCrash, NoPush
  <2> QED BY <2>1 DEF CopiesStay, Writing
<1>20. ASSUME NEW h \in Hosts, OperatorActs(h) PROVE CopiesStay'
  <2>1. pushed'.pc = pushed.pc /\ (pushed.pc # "resting" => ~pushed'.pure)
      BY <1>20, OperatorIs
  <2> QED BY <2>1 DEF CopiesStay, Writing
<1>21. CASE UNCHANGED fileVars
    BY <1>21 DEF CopiesStay, Writing, fileVars, files
<1>22. ASSUME NEW h \in Hosts, RollBackFails(h) PROVE CopiesStay'
  <2>1. ~pushed'.pure
      BY <1>22, RollBackFailsIs
  <2> QED BY <2>1 DEF CopiesStay
<1> QED
    BY <1>1, <1>2, <1>3, <1>4, <1>5, <1>6, <1>7, <1>8, <1>9, <1>10, <1>11, <1>12, <1>13, <1>14, <1>15, <1>16,
       <1>17, <1>18, <1>19, <1>20, <1>21, <1>22 DEF FilesNext

\* What the proxy reads of a host whose link is no operator's copy.
LEMMA ServedIs ==
    ASSUME NEW g \in Hosts, link[g] # "copy"
    PROVE  /\ Served(g) \in {vhost[g], NoFile}
           /\ (HasLinks => link[g] = "ours") => Served(g) = vhost[g]
BY DEF Served

\* A push that met with nothing, and with nothing in its way, passes its test.
LEMMA FreePasses ==
    ASSUME FileTypes, PushFacts, ArtIs, CertsIn, SecureIs, OrphansGone, Staging,
           pushed.pure, pushed.pc \in {"stage", "reload"}, pushed.todo = {}, ~InTheWay
    PROVE  TestPasses
<1> SUFFICES ASSUME NEW h \in Hosts PROVE Fits(h)
    BY DEF TestPasses
<1>1. link[h] # "copy" /\ (NotOurs(h) => Fits(h))
    BY DEF InTheWay
<1>2. pushed.touched = {} /\ pushed.certsOK
    BY DEF PushFacts
<1>3. CASE h \in Artifacts
  <2>1. vhost[h] = pushed.art[h] /\ (HasLinks => link[h] = "ours")
      BY <1>2, <1>3 DEF Staging
  <2>2. Served(h) = pushed.art[h]
      BY <1>1, <2>1, ServedIs
  <2>3. Pushable(h, pushed.set) /\ pushed.art[h].use = pushed.set[h].use
      BY <1>3 DEF ArtIs, Artifacts
  <2>4. pushed.art[h].use # "broken"
      BY <2>3 DEF Pushable
  <2>5. ASSUME pushed.art[h].tls PROVE Matches(h)
    <3>1. pushed.set[h].cert # 0 /\ pem[h].plain = pushed.set[h].cert
        BY <1>2, <1>3, <2>5 DEF SecureIs
    <3>2. pem[h].crt = pushed.set[h].cert
        BY <1>2, <2>3, <3>1 DEF CertsIn, CertIn, Pushing
    <3> QED BY <3>1, <3>2 DEF Matches
  <2> QED BY <2>2, <2>4, <2>5 DEF Fits
<1>4. CASE h \notin Artifacts /\ ~NotOurs(h)
  <2>1. ~Orphan(h) /\ h \notin KeepFile(pushed.set) /\ Proven(vhost[h])
      BY <1>2, <1>4 DEF OrphansGone, Writing, NotOurs
  <2> QED BY <1>4, <2>1 DEF Orphan
<1> QED
    BY <1>1, <1>3, <1>4

\* A push that met with nothing rolls back only when something is in its way.
LEMMA BlockedMoves ==
    ASSUME FileTypes, PushFacts, ArtIs, CertsIn, SecureIs, OrphansGone, Staging, CopiesStay,
           OnlyBlocked, [FilesNext]_fileVars
    PROVE  OnlyBlocked'
<1>1. ASSUME NEW w \in setup.sets, Push(w) PROVE OnlyBlocked'
  <2>1. pushed'.pc # "rollback"
      BY <1>1, PushIs
  <2> QED BY <2>1 DEF OnlyBlocked
<1>2. ASSUME NEW h \in Hosts, Install(h) PROVE OnlyBlocked'
  <2>1. pushed'.pc # "rollback"
      BY <1>2, InstallIs
  <2> QED BY <2>1 DEF OnlyBlocked
<1>3. ASSUME NEW h \in Hosts, InstallFails(h) PROVE OnlyBlocked'
  <2>1. pushed'.pc # "rollback"
      BY <1>3, InstallFailsIs
  <2> QED BY <2>1 DEF OnlyBlocked
<1>4. CASE Scrub
  <2>1. pushed'.pc # "rollback"
      BY <1>4, ScrubIs
  <2> QED BY <2>1 DEF OnlyBlocked
<1>5. ASSUME NEW h \in Hosts, Render(h) PROVE OnlyBlocked'
  <2>1. pushed'.pc = "render"
      BY <1>5 DEF FileTypes, PushSet, Render, AtPush
  <2> QED BY <2>1 DEF OnlyBlocked
<1>6. ASSUME NEW h \in Hosts, RenderDegrades(h) PROVE OnlyBlocked'
  <2>1. pushed'.pc # "rollback"
      BY <1>6, RenderDegradesIs
  <2> QED BY <2>1 DEF OnlyBlocked
<1>7. CASE Suppress
  <2>1. pushed'.pc = "resting"
      BY <1>7 DEF Suppress, NoPush
  <2> QED BY <2>1 DEF OnlyBlocked
<1>8. CASE Proceeds
  <2>1. pushed'.pc # "rollback"
      BY <1>8, ProceedsIs
  <2> QED BY <2>1 DEF OnlyBlocked
<1>9. ASSUME NEW h \in Hosts, PruneOrphan(h) PROVE OnlyBlocked'
  <2>1. pushed'.pc # "rollback"
      BY <1>9, PruneOrphanIs
  <2> QED BY <2>1 DEF OnlyBlocked
<1>10. ASSUME NEW h \in Hosts, PruneFails(h) PROVE OnlyBlocked'
  <2>1. pushed'.pc # "rollback"
      BY <1>10, PruneFailsIs
  <2> QED BY <2>1 DEF OnlyBlocked
<1>11. CASE EndPrune
  <2>1. pushed'.pc # "rollback"
      BY <1>11, EndPruneIs
  <2> QED BY <2>1 DEF OnlyBlocked
<1>12. ASSUME NEW h \in Hosts, Stage(h) PROVE OnlyBlocked'
  <2>1. CASE Refused(h)
    <3>1. link' = link
        BY <1>12, <2>1, StageIs
    <3> QED BY <2>1, <3>1 DEF Refused, OnlyBlocked, InTheWay
  <2>2. CASE ~Refused(h)
    <3>1. pushed'.pc = "stage"
        BY <1>12, <2>2, StageIs
    <3> QED BY <3>1 DEF OnlyBlocked
  <2> QED BY <2>1, <2>2
<1>13. ASSUME NEW h \in Hosts, StageFails(h) PROVE OnlyBlocked'
  <2>1. ~pushed'.pure
      BY <1>13, StageFailsIs
  <2> QED BY <2>1 DEF OnlyBlocked
<1>14. CASE Test
  <2> SUFFICES ASSUME pushed'.pure, pushed'.pc = "rollback", ~InTheWay' PROVE FALSE
      BY DEF OnlyBlocked
  <2>1. /\ pushed.pc \in {"stage", "reload"} /\ pushed.todo = {} /\ pushed.pure /\ ~TestPasses
        /\ UNCHANGED <<vhost, link, copied, pem, setup, pushed.set, pushed.art, pushed.before>>
      BY <1>14, TestIs DEF PushFacts
  <2>2. ~InTheWay
      BY <2>1 DEF InTheWay, NotOurs, Artifacts, Proven, KeepFile, Fits, Served, HasLinks, Matches
  <2> QED BY <2>1, <2>2, FreePasses
<1>15. CASE ReloadProxy
  <2> SUFFICES ASSUME pushed'.pure, pushed'.pc = "rollback", ~InTheWay' PROVE FALSE
      BY DEF OnlyBlocked
  <2>1. /\ pushed.pc \in {"stage", "reload"} /\ pushed.todo = {} /\ pushed.pure /\ ~TestPasses
        /\ UNCHANGED <<vhost, link, copied, pem, setup, pushed.set, pushed.art, pushed.before>>
      BY <1>15, ReloadIs DEF PushFacts
  <2>2. ~InTheWay
      BY <2>1 DEF InTheWay, NotOurs, Artifacts, Proven, KeepFile, Fits, Served, HasLinks, Matches
  <2> QED BY <2>1, <2>2, FreePasses
<1>16. ASSUME NEW h \in Hosts, RollBack(h) PROVE OnlyBlocked'
  <2>1. /\ pushed.pc = "rollback" /\ h \in pushed.staged
        /\ UNCHANGED <<pushed.set, pushed.art, pushed.before, pushed.pure, copied, pem, setup>>
        /\ \A g \in Hosts : g # h => vhost'[g] = vhost[g] /\ link'[g] = link[g]
      BY <1>16, RollBackIs
  <2> SUFFICES ASSUME pushed.pure PROVE InTheWay'
      BY <2>1 DEF OnlyBlocked
  <2>2. InTheWay
      BY <2>1 DEF OnlyBlocked
  <2>3. ~NotOurs(h)
      BY <2>1 DEF PushFacts, Writing, Artifacts, ArtIs, Pushable, KeepFile, NotOurs
  <2>4. PICK g \in Hosts : link[g] = "copy" \/ pushed.before[g].link = "copy" \/ (NotOurs(g) /\ ~Fits(g))
      BY <2>2 DEF InTheWay
  <2>5. CASE link[g] = "copy" \/ pushed.before[g].link = "copy"
    <3>1. pushed.before[g].link = "copy"
        BY <2>1, <2>5 DEF CopiesStay, Writing
    <3> QED BY <2>1, <3>1 DEF InTheWay
  <2>6. CASE NotOurs(g) /\ ~Fits(g)
    <3>1. g # h
        BY <2>3, <2>6
    <3>2. (Fits(g)' <=> Fits(g)) /\ (NotOurs(g)' <=> NotOurs(g))
        BY <2>1, <3>1 DEF Fits, Served, HasLinks, Matches, NotOurs, KeepFile, Artifacts, Proven
    <3> QED BY <2>6, <3>2 DEF InTheWay
  <2> QED BY <2>4, <2>5, <2>6
<1>17. CASE RolledBack
  <2>1. pushed'.pc # "rollback"
      BY <1>17, RolledBackIs
  <2> QED BY <2>1 DEF OnlyBlocked
<1>18. CASE EndPush
  <2>1. pushed'.pc = "resting"
      BY <1>18 DEF EndPush, NoPush
  <2> QED BY <2>1 DEF OnlyBlocked
<1>19. CASE AgentCrash
  <2>1. pushed'.pc = "resting"
      BY <1>19 DEF AgentCrash, NoPush
  <2> QED BY <2>1 DEF OnlyBlocked
<1>20. ASSUME NEW h \in Hosts, OperatorActs(h) PROVE OnlyBlocked'
  <2>1. pushed'.pc = pushed.pc /\ (pushed.pc # "resting" => ~pushed'.pure)
      BY <1>20, OperatorIs
  <2> QED BY <2>1 DEF OnlyBlocked
<1>21. CASE UNCHANGED fileVars
    BY <1>21 DEF OnlyBlocked, InTheWay, NotOurs, Artifacts, Proven, KeepFile, Fits, Served, HasLinks, Matches, fileVars, files
<1>22. ASSUME NEW h \in Hosts, RollBackFails(h) PROVE OnlyBlocked'
  <2>1. ~pushed'.pure
      BY <1>22, RollBackFailsIs
  <2> QED BY <2>1 DEF OnlyBlocked
<1> QED
    BY <1>1, <1>2, <1>3, <1>4, <1>5, <1>6, <1>7, <1>8, <1>9, <1>10, <1>11, <1>12, <1>13, <1>14, <1>15, <1>16,
       <1>17, <1>18, <1>19, <1>20, <1>21, <1>22 DEF FilesNext

\* The workers serve what was drawn at the end of a push that was clean, or that met
\* with nothing and with nothing in its way.
LEMMA EndsMove ==
    ASSUME FileTypes, PushFacts, ArtIs, CertsIn, SecureIs, OrphansGone, Staging, LinksOnly,
           OnlyBlocked, EndsLive, [FilesNext]_fileVars
    PROVE  EndsLive'
<1>1. ASSUME NEW w \in setup.sets, Push(w) PROVE EndsLive'
  <2>1. pushed'.pc # "end"
      BY <1>1, PushIs
  <2> QED BY <2>1 DEF EndsLive
<1>2. ASSUME NEW h \in Hosts, Install(h) PROVE EndsLive'
  <2>1. pushed'.pc # "end"
      BY <1>2, InstallIs
  <2> QED BY <2>1 DEF EndsLive
<1>3. ASSUME NEW h \in Hosts, InstallFails(h) PROVE EndsLive'
  <2>1. pushed'.pc # "end"
      BY <1>3, InstallFailsIs
  <2> QED BY <2>1 DEF EndsLive
<1>4. CASE Scrub
  <2>1. pushed'.pc # "end"
      BY <1>4, ScrubIs
  <2> QED BY <2>1 DEF EndsLive
<1>5. ASSUME NEW h \in Hosts, Render(h) PROVE EndsLive'
  <2>1. pushed'.pc = "render"
      BY <1>5 DEF FileTypes, PushSet, Render, AtPush
  <2> QED BY <2>1 DEF EndsLive
<1>6. ASSUME NEW h \in Hosts, RenderDegrades(h) PROVE EndsLive'
  <2>1. pushed'.pc # "end"
      BY <1>6, RenderDegradesIs
  <2> QED BY <2>1 DEF EndsLive
<1>7. CASE Suppress
  <2>1. pushed'.pc = "resting"
      BY <1>7 DEF Suppress, NoPush
  <2> QED BY <2>1 DEF EndsLive
<1>8. CASE Proceeds
  <2>1. pushed'.pc # "end"
      BY <1>8, ProceedsIs
  <2> QED BY <2>1 DEF EndsLive
<1>9. ASSUME NEW h \in Hosts, PruneOrphan(h) PROVE EndsLive'
  <2>1. pushed'.pc # "end"
      BY <1>9, PruneOrphanIs
  <2> QED BY <2>1 DEF EndsLive
<1>10. ASSUME NEW h \in Hosts, PruneFails(h) PROVE EndsLive'
  <2>1. pushed'.pc = (IF Artifacts = {} THEN "end" ELSE "stage") /\ UNCHANGED pushed.art
      BY <1>10, PruneFailsIs
  <2>2. pushed'.pc = "end" => \A g \in Hosts : pushed'.art[g] = NoFile
      BY <2>1 DEF Artifacts
  <2> QED BY <2>2 DEF EndsLive, Serving
<1>11. CASE EndPrune
  <2>1. pushed'.pc = (IF Artifacts = {} THEN "end" ELSE "stage") /\ UNCHANGED pushed.art
      BY <1>11, EndPruneIs
  <2>2. pushed'.pc = "end" => \A g \in Hosts : pushed'.art[g] = NoFile
      BY <2>1 DEF Artifacts
  <2> QED BY <2>2 DEF EndsLive, Serving
<1>12. ASSUME NEW h \in Hosts, Stage(h) PROVE EndsLive'
  <2>1. pushed'.pc # "end"
    <3>1. CASE Refused(h)
        BY <1>12, <3>1, StageIs
    <3>2. CASE ~Refused(h)
        BY <1>12, <3>2, StageIs
    <3> QED BY <3>1, <3>2
  <2> QED BY <2>1 DEF EndsLive
<1>13. ASSUME NEW h \in Hosts, StageFails(h) PROVE EndsLive'
  <2>1. pushed'.pc # "end"
      BY <1>13, StageFailsIs
  <2> QED BY <2>1 DEF EndsLive
<1>14. CASE Test
  <2>1. pushed'.pc # "end"
      BY <1>14, TestIs
  <2> QED BY <2>1 DEF EndsLive
<1>15. CASE ReloadProxy
  <2> SUFFICES ASSUME pushed'.pc = "end", pushed'.touched = {}, pushed'.clean \/ pushed'.pure
               PROVE  Serving(pushed.set, pushed.art)'
      BY DEF EndsLive
  <2>1. /\ pushed.pc = "reload" /\ pushed.todo = {} /\ loaded' = Load /\ pushed.touched = {} /\ (pushed.clean \/ pushed.pure)
        /\ UNCHANGED <<vhost, link, copied, pem, setup, pushed.set, pushed.art>>
      BY <1>15, ReloadIs DEF PushFacts
  <2>2. pushed.certsOK
      BY <2>1 DEF PushFacts
  <2>3. ASSUME NEW g \in Hosts, pushed.art[g] # NoFile
        PROVE  loaded'[g] # NoFile /\ loaded'[g].file = pushed.art[g] /\ loaded'[g].crt = IF pushed.art[g].tls THEN pushed.set[g].cert ELSE 0
    <3>1. vhost[g] = pushed.art[g] /\ (HasLinks => link[g] = "ours")
        BY <2>1, <2>3 DEF Staging, Artifacts
    <3>2. Served(g) = pushed.art[g]
      <4>1. CASE HasLinks
          BY <3>1, <4>1, ServedIs
      <4>2. CASE ~HasLinks
          BY <3>1, <4>2, ServedIs DEF LinksOnly
      <4> QED BY <4>1, <4>2
    <3>3. pushed.art[g].tls => pem[g].crt = pushed.set[g].cert
        BY <2>1, <2>2, <2>3 DEF SecureIs, Artifacts, ArtIs, CertsIn, CertIn, Pushing
    <3>4. Load[g] # NoFile /\ Load[g].file = pushed.art[g] /\ Load[g].crt = IF pushed.art[g].tls THEN pem[g].crt ELSE 0
        BY <2>3, <3>2, LoadIs
    <3> QED BY <2>1, <3>3, <3>4
  <2>4. ASSUME NEW g \in Hosts, pushed.set[g].use = "none", link[g] # "copy"
        PROVE  loaded'[g] = NoFile \/ ~loaded'[g].file.marked
    <3>1. ~Orphan(g)
        BY <2>1 DEF OrphansGone, Writing
    <3>2. g \notin Artifacts /\ g \notin KeepFile(pushed.set)
        BY <2>1, <2>4 DEF ArtIs, Pushable, Artifacts, KeepFile
    <3>3. vhost[g] = NoFile \/ ~vhost[g].marked
        BY <3>1, <3>2 DEF Orphan, Proven
    <3>4. Served(g) \in {vhost[g], NoFile}
        BY <2>4, ServedIs
    <3>5. Load[g] = NoFile \/ Load[g].file = Served(g)
        BY LoadIs
    <3>6. Served(g) = NoFile => Load[g] = NoFile
        BY LoadIs
    <3> QED BY <2>1, <3>3, <3>4, <3>5, <3>6
  <2> QED BY <2>1, <2>3, <2>4 DEF Serving
<1>16. ASSUME NEW h \in Hosts, RollBack(h) PROVE EndsLive'
  <2>1. pushed'.pc # "end"
      BY <1>16, RollBackIs
  <2> QED BY <2>1 DEF EndsLive
<1>17. CASE RolledBack
  <2>1. /\ pushed.pc = "rollback" /\ ~pushed'.clean
        /\ UNCHANGED <<vhost, link, copied, pem, setup, pushed.set, pushed.art, pushed.before, pushed.pure>>
      BY <1>17, RolledBackIs
  <2>2. pushed'.pure => InTheWay'
      BY <2>1 DEF OnlyBlocked, InTheWay, NotOurs, Artifacts, Proven, KeepFile, Fits, Served, HasLinks, Matches
  <2> QED BY <2>1, <2>2 DEF EndsLive
<1>18. CASE EndPush
  <2>1. pushed'.pc = "resting"
      BY <1>18 DEF EndPush, NoPush
  <2> QED BY <2>1 DEF EndsLive
<1>19. CASE AgentCrash
  <2>1. pushed'.pc = "resting"
      BY <1>19 DEF AgentCrash, NoPush
  <2> QED BY <2>1 DEF EndsLive
<1>20. ASSUME NEW h \in Hosts, OperatorActs(h) PROVE EndsLive'
  <2>1. pushed'.touched = {} => pushed'.pc = "resting"
      BY <1>20, OperatorIs
  <2> QED BY <2>1 DEF EndsLive
<1>21. CASE UNCHANGED fileVars
    BY <1>21 DEF EndsLive, Serving, InTheWay, NotOurs, Artifacts, Proven, KeepFile, Fits, Served, HasLinks, Matches, fileVars, files
<1>22. ASSUME NEW h \in Hosts, RollBackFails(h) PROVE EndsLive'
  <2>1. pushed'.pc # "end"
      BY <1>22, RollBackFailsIs
  <2> QED BY <2>1 DEF EndsLive
<1> QED
    BY <1>1, <1>2, <1>3, <1>4, <1>5, <1>6, <1>7, <1>8, <1>9, <1>10, <1>11, <1>12, <1>13, <1>14, <1>15, <1>16,
       <1>17, <1>18, <1>19, <1>20, <1>21, <1>22 DEF FilesNext

\* Until something is pruned the workers serve what the last clean apply drew, unless
\* an operator acted.
LEMMA LastMoves ==
    ASSUME FileTypes, EndsLive, LastLive, [FilesNext]_fileVars
    PROVE  LastLive'
<1>1. ASSUME NEW w \in setup.sets, Push(w) PROVE LastLive'
  <2>1. UNCHANGED <<last, loaded, link>> /\ pushed.pc = "resting"
      BY <1>1, PushIs
  <2> QED BY <2>1 DEF LastLive, Serving
<1>2. ASSUME NEW h \in Hosts, Install(h) PROVE LastLive'
  <2>1. UNCHANGED <<last, loaded, link>> /\ pushed.pc = "install"
      BY <1>2, InstallIs
  <2> QED BY <2>1 DEF LastLive, Serving
<1>3. ASSUME NEW h \in Hosts, InstallFails(h) PROVE LastLive'
  <2>1. UNCHANGED <<last, loaded, link>> /\ pushed.pc = "install"
      BY <1>3, InstallFailsIs
  <2> QED BY <2>1 DEF LastLive, Serving
<1>4. CASE Scrub
  <2>1. UNCHANGED <<last, loaded, link>> /\ pushed.pc = "install"
      BY <1>4, ScrubIs
  <2> QED BY <2>1 DEF LastLive, Serving
<1>5. ASSUME NEW h \in Hosts, Render(h) PROVE LastLive'
  <2>1. UNCHANGED <<last, loaded, link>> /\ pushed.pc = "render"
      BY <1>5 DEF Render, AtPush, files
  <2> QED BY <2>1 DEF LastLive, Serving
<1>6. ASSUME NEW h \in Hosts, RenderDegrades(h) PROVE LastLive'
  <2>1. UNCHANGED <<last, loaded, link>> /\ pushed.pc = "render"
      BY <1>6, RenderDegradesIs
  <2> QED BY <2>1 DEF LastLive, Serving
<1>7. CASE Suppress
  <2>1. UNCHANGED <<last, loaded, link>> /\ pushed.pc = "render"
      BY <1>7 DEF Suppress, AtPush, files
  <2> QED BY <2>1 DEF LastLive, Serving
<1>8. CASE Proceeds
  <2>1. pushed'.pc \notin {"resting", "install", "render"}
      BY <1>8, ProceedsIs
  <2> QED BY <2>1 DEF LastLive
<1>9. ASSUME NEW h \in Hosts, PruneOrphan(h) PROVE LastLive'
  <2>1. pushed'.pc \notin {"resting", "install", "render"}
      BY <1>9, PruneOrphanIs
  <2> QED BY <2>1 DEF LastLive
<1>10. ASSUME NEW h \in Hosts, PruneFails(h) PROVE LastLive'
  <2>1. pushed'.pc \notin {"resting", "install", "render"}
      BY <1>10, PruneFailsIs
  <2> QED BY <2>1 DEF LastLive
<1>11. CASE EndPrune
  <2>1. pushed'.pc \notin {"resting", "install", "render"}
      BY <1>11, EndPruneIs
  <2> QED BY <2>1 DEF LastLive
<1>12. ASSUME NEW h \in Hosts, Stage(h) PROVE LastLive'
  <2>1. pushed'.pc \notin {"resting", "install", "render"}
    <3>1. CASE Refused(h)
        BY <1>12, <3>1, StageIs
    <3>2. CASE ~Refused(h)
        BY <1>12, <3>2, StageIs
    <3> QED BY <3>1, <3>2
  <2> QED BY <2>1 DEF LastLive
<1>13. ASSUME NEW h \in Hosts, StageFails(h) PROVE LastLive'
  <2>1. pushed'.pc \notin {"resting", "install", "render"}
      BY <1>13, StageFailsIs
  <2> QED BY <2>1 DEF LastLive
<1>14. CASE Test
  <2>1. pushed'.pc \notin {"resting", "install", "render"}
      BY <1>14, TestIs
  <2> QED BY <2>1 DEF LastLive
<1>15. CASE ReloadProxy
  <2>1. pushed'.pc \notin {"resting", "install", "render"}
      BY <1>15, ReloadIs
  <2> QED BY <2>1 DEF LastLive
<1>16. ASSUME NEW h \in Hosts, RollBack(h) PROVE LastLive'
  <2>1. pushed'.pc \notin {"resting", "install", "render"}
      BY <1>16, RollBackIs
  <2> QED BY <2>1 DEF LastLive
<1>17. CASE RolledBack
  <2>1. pushed'.pc \notin {"resting", "install", "render"}
      BY <1>17, RolledBackIs
  <2> QED BY <2>1 DEF LastLive
<1>18. CASE EndPush
  <2>1. /\ pushed.pc = "end" /\ UNCHANGED <<loaded, link>>
        /\ last'.set = pushed.set /\ last'.art = pushed.art /\ last'.clean = pushed.clean /\ last'.since = (pushed.touched # {})
      BY <1>18 DEF EndPush, AtPush, files
  <2> SUFFICES ASSUME pushed.clean, pushed.touched = {} PROVE Serving(last.set, last.art)'
      BY <2>1 DEF LastLive
  <2>2. Serving(pushed.set, pushed.art)
      BY <2>1 DEF EndsLive
  <2> QED BY <2>1, <2>2 DEF Serving
<1>19. CASE AgentCrash
  <2>1. ~last'.clean
      BY <1>19 DEF AgentCrash, NeverApplied
  <2> QED BY <2>1 DEF LastLive
<1>20. ASSUME NEW h \in Hosts, OperatorActs(h) PROVE LastLive'
  <2>1. last'.since
      BY <1>20, OperatorIs
  <2> QED BY <2>1 DEF LastLive
<1>21. CASE UNCHANGED fileVars
    BY <1>21 DEF LastLive, Serving, fileVars, files
<1>22. ASSUME NEW h \in Hosts, RollBackFails(h) PROVE LastLive'
  <2>1. pushed'.pc \notin {"resting", "install", "render"}
      BY <1>22, RollBackFailsIs
  <2> QED BY <2>1 DEF LastLive
<1> QED
    BY <1>1, <1>2, <1>3, <1>4, <1>5, <1>6, <1>7, <1>8, <1>9, <1>10, <1>11, <1>12, <1>13, <1>14, <1>15, <1>16,
       <1>17, <1>18, <1>19, <1>20, <1>21, <1>22 DEF FilesNext

\* The invariants of the files hold at the start.
LEMMA FilesStart ==
    ASSUME FilesInit
    PROVE  FilesInv
<1>1. NoPush \in PushSet /\ NeverApplied \in LastSet
    BY RestIs
<1>2. NoPem \in Pems
    BY DEF NoPem, Pems
<1>3. FileTypes
    BY <1>1, <1>2 DEF FilesInit, FileTypes, MaybeFile, LinkStates
<1>4. pushed = NoPush /\ pushed.pc = "resting" /\ ~last.clean
    BY DEF FilesInit, NoPush, NeverApplied
<1>5. UndoFiles /\ CertsIn /\ OrphansGone /\ Staging /\ CopiesStay /\ OnlyBlocked /\ EndsLive /\ LastLive
    BY <1>4 DEF UndoFiles, CertsIn, Pushing, OrphansGone, Staging, CopiesStay, Writing, OnlyBlocked,
       EndsLive, LastLive
<1>6. PemsGrounded /\ LinksOnly
    BY DEF FilesInit, PemsGrounded, AnyPem, NoPem, LinksOnly
<1>7. ArtIs /\ SecureIs
    BY <1>4 DEF ArtIs, SecureIs, Artifacts, NoPush
<1>8. NoPush.certsOK /\ NoPush.touched = {}
    BY DEF NoPush
<1>9. PushFacts
    BY <1>4, <1>8 DEF PushFacts, Pushing, Writing
<1> QED
    BY <1>3, <1>5, <1>6, <1>7, <1>9 DEF FilesInv, UndoneInv

\* Every step keeps what a rollback needs, whatever the sets.
LEMMA UndoSteps ==
    ASSUME UndoneInv, [FilesNext]_fileVars
    PROVE  UndoneInv'
BY TypesMove, FactsMove, ArtMoves, UndoMoves DEF UndoneInv

\* Every step keeps the invariant, where the certificates are steady.
LEMMA FilesSteps ==
    ASSUME Steady, FilesInv, [FilesNext]_fileVars
    PROVE  FilesInv'
<1>1. FileTypes /\ PushFacts /\ ArtIs /\ UndoneInv
    BY DEF FilesInv, UndoneInv
<1>2. UndoneInv' /\ PemsGrounded' /\ LinksOnly' /\ CertsIn'
    BY <1>1, UndoSteps, GroundMoves, LinksMove, CertsMove DEF FilesInv
<1>3. SecureIs' /\ OrphansGone' /\ Staging' /\ CopiesStay'
    BY <1>1, TlsMoves, OrphansMove, StagingMoves, CopiesMove DEF FilesInv
<1>4. OnlyBlocked' /\ EndsLive' /\ LastLive'
    BY <1>1, BlockedMoves, EndsMove, LastMoves DEF FilesInv
<1> QED
    BY <1>2, <1>3, <1>4 DEF FilesInv

(* A failed apply is undone: what the rollback of a push leaves is what was there *)
(* before it, for every file that no operator touched meanwhile, but for the very   *)
\* files and links that the disk kept from being put back.
THEOREM RollsBackCorrect == FilesSpec => Undone
<1> DEFINE Ends == AtPush("rollback") /\ pushed'.pc = "end" =>
               \A h \in Artifacts \ pushed.touched :
                   /\ vhost[h] = pushed.before[h].file \/ <<h, "file">> \in refusals
                   /\ LinkedAsBefore(h)
<1>1. ASSUME UndoneInv, [FilesNext]_fileVars PROVE Ends
  <2> SUFFICES ASSUME pushed.pc = "rollback", pushed'.pc = "end", NEW h \in Artifacts \ pushed.touched
               PROVE  /\ vhost[h] = pushed.before[h].file \/ <<h, "file">> \in refusals
                      /\ LinkedAsBefore(h)
      BY DEF AtPush
  <2>1. FileTypes
      BY <1>1 DEF UndoneInv
  <2>2. pushed.staged = {}
    <3>1. \A g \in Hosts : ~RollBack(g) /\ ~RollBackFails(g) /\ ~OperatorActs(g)
        BY <2>1, RollBackIs, RollBackFailsIs, OperatorIs
    <3>2. RolledBack
        BY <1>1, <3>1 DEF FilesNext, fileVars, AtPush, Push, Install, InstallFails, Render, RenderDegrades,
           PruneOrphan,
              PruneFails, Stage, StageFails, Scrub, Suppress, Proceeds, EndPrune, Test, ReloadProxy, EndPush, AgentCrash, NoPush
    <3> QED BY <3>2 DEF RolledBack
  <2>3. h \in Hosts \ pushed.touched /\ h \notin pushed.staged
      BY <2>2 DEF Artifacts
  <2>4. Returns(h)
      BY <1>1, <2>3 DEF UndoneInv, UndoFiles
  <2> QED BY <2>3, <2>4 DEF Returns
<1>2. FilesInit => UndoneInv
    BY FilesStart DEF FilesInv
<1> HIDE DEF Ends
<1>3. FilesSpec => [][Ends]_fileVars
    BY <1>1, <1>2, UndoSteps, PTL DEF FilesSpec
<1> QED
    BY <1>3 DEF Ends, Undone

(* Nothing is in the way of a push: where a host that is ever sent a certificate is *)
(* sent one in every set that renders it, a push that meets with nothing leaves the  *)
\* workers serving every host that is wanted, with the certificate that came with it.
THEOREM UnblockedCorrect ==
    ASSUME Steady
    PROVE  FilesSpec => NeverBlocked
<1> DEFINE Serves1 == pushed.pc \in {"end", "render"} /\ pushed'.pc = "resting" /\ last' # NeverApplied
                      /\ pushed.pure /\ ~InTheWay /\ (AtPush("render") => ~last.since) =>
                          \A h \in Hosts : Right(h)
<1>1. ASSUME FilesInv, [FilesNext]_fileVars PROVE Serves1
  <2> SUFFICES ASSUME pushed.pc \in {"end", "render"}, pushed'.pc = "resting", last' # NeverApplied,
                      pushed.pure, ~InTheWay, pushed.pc = "render" => ~last.since, NEW h \in Hosts
               PROVE  Right(h)
      BY DEF AtPush
  <2>1. FileTypes /\ PushFacts /\ ArtIs
      BY <1>1 DEF FilesInv, UndoneInv
  <2>2. pushed.touched = {} /\ pushed.certsOK
      BY <2>1 DEF PushFacts
  <2>3. Serving(pushed.set, pushed.art) /\ Drawing = {}
    <3>1. CASE pushed.pc = "end"
        BY <1>1, <2>2, <3>1 DEF FilesInv, EndsLive, Drawing
    <3>2. CASE pushed.pc = "render"
      <4>1. \A g \in Hosts : ~Render(g) /\ ~RenderDegrades(g) /\ ~OperatorActs(g)
        <5>1. \A g \in Hosts : ~RenderDegrades(g) /\ ~OperatorActs(g)
            BY <2>1, <3>2, RenderDegradesIs, OperatorIs
        <5>2. \A g \in Hosts : ~Render(g)
            BY <2>1, <3>2 DEF Render, FileTypes, PushSet
        <5> QED BY <5>1, <5>2
      <4>2. ~Proceeds /\ ~Scrub /\ ~EndPrune /\ ~Test /\ ~ReloadProxy /\ ~RolledBack /\ ~EndPush /\ ~AgentCrash
            /\ pushed' # pushed
          BY <2>1, <3>2, ProceedsIs DEF Scrub, EndPrune, Test, ReloadProxy, RolledBack, EndPush, AgentCrash,
             AtPush
      <4>3. \A g \in Hosts : ~Install(g) /\ ~InstallFails(g) /\ ~PruneOrphan(g) /\ ~PruneFails(g) /\ ~Stage(g)
                             /\ ~StageFails(g) /\ ~RollBack(g) /\ ~RollBackFails(g)
          BY <3>2 DEF AtPush, Install, InstallFails, PruneOrphan, PruneFails, Stage, StageFails, RollBack, RollBackFails
      <4>4. \A w \in setup.sets : ~Push(w)
          BY <3>2 DEF AtPush, Push
      <4>5. Suppress
          BY <1>1, <4>1, <4>2, <4>3, <4>4 DEF FilesNext, fileVars
      <4>6. last.clean /\ ~last.since /\ pushed.art = last.art /\ pushed.set = last.set /\ pushed.todo = {}
          BY <3>2, <4>5 DEF Suppress, Suppressed, SameAsLast
      <4> QED BY <1>1, <3>2, <4>6 DEF FilesInv, LastLive, Drawing
    <3> QED BY <3>1, <3>2
  <2>4. ASSUME Pushable(h, pushed.set)
        PROVE  loaded[h] # NoFile /\ loaded[h].file = pushed.art[h] /\ loaded[h].crt = pushed.set[h].cert
    <3>1. pushed.art[h] # NoFile /\ h \in Artifacts
        BY <2>1, <2>3, <2>4 DEF ArtIs, Artifacts
    <3>2. pushed.art[h].tls <=> pushed.set[h].cert # 0
        BY <1>1, <3>1 DEF FilesInv, SecureIs
    <3> QED BY <2>3, <3>1, <3>2 DEF Serving
  <2>5. ASSUME pushed.set[h].use = "none", Artifacts # {}
        PROVE  loaded[h] = NoFile \/ ~loaded[h].file.marked
    <3>1. link[h] # "copy"
        BY DEF InTheWay
    <3>2. \E g \in Hosts : pushed.art[g] # NoFile
        BY <2>5 DEF Artifacts
    <3> QED BY <2>3, <2>5, <3>1, <3>2 DEF Serving
  <2> QED BY <2>4, <2>5 DEF Right
<1> HIDE DEF Serves1
<1>2. FilesSpec => [][Serves1]_fileVars
    BY <1>1, FilesStart, FilesSteps, PTL DEF FilesSpec
<1> QED
    BY <1>2 DEF Serves1, NeverBlocked
-----------------------------------------------------------------------------
(* ManagedApply.  What an apply may take away: what a tombstone, an unused file   *)
(* of a route or the pruning names.                                                *)
Disposable ==
    Tombs \cup {p \in Of({"auth", "legacy"}, Routed) : p \notin Installs /\ p[1] \notin Text(p[2]).uses}
        \cup {p \in Of({"cert"}, SiteNames \ intent.keep) \cup Of({"auth", "legacy"}, SiteNames \ Routed) : ~Referenced(p)}

\* An apply that goes forward; one that has begun to.
Forward == apply.pc \notin {"restore", "rolled_back", "rollback_failed"}
AtWork == apply.pc \in {"commit", "reload", "reloaded", "done"}

\* A host whose virtual host and link the apply leaves as they are.
LeftAlone(h) == IF h \in Routed THEN Preserved(h) ELSE h \notin Tombstoned

\* The values of every variable.
Shaped(a) == a = [pc |-> a.pc, plan |-> a.plan, snap |-> a.snap, todo |-> a.todo, files |-> a.files, mutated |-> a.mutated]
HostTypes ==
    /\ placed \in [Paths -> Contents]
    /\ \E c \in Situations : intent = c.intent /\ other = c.other
    /\ Shaped(apply) /\ apply.pc \in Pcs /\ apply.mutated \in BOOLEAN
    /\ AtWork \/ apply.pc \in {"prepared", "restore"} =>
          DOMAIN apply.snap \subseteq Paths /\ apply.snap \in [DOMAIN apply.snap -> Contents]

\* Before the first step the workers serve what is enabled, and the snapshot is of the
\* files as they are.
EarlyInv ==
    /\ apply.pc \in {"idle", "planned", "prepared"} => inUse = Enabled
    /\ apply.pc = "prepared" => apply.snap = [p \in Installs \cup Deletions |-> placed[p]] /\ ~apply.mutated
    /\ apply.pc \in {"idle", "planned"} => ~apply.mutated

\* The intent still compiles, on the host as the apply has made it so far, to what it
\* was compiled to before the first step: to what is left to do, and to what is done.
Compiles ==
    /\ apply.files = Installs /\ apply.todo \subseteq DOMAIN apply.snap
    /\ DOMAIN apply.snap \subseteq Installs \cup Disposable
    /\ \A h \in Routed : ~ApplyRefused(h)
    /\ \A p \in Preserves : Kept(p)
    /\ \A p \in Installs \ apply.todo : placed[p] = Compiled(p)
    /\ \A p \in Deletions : Exists(p) => p \in apply.todo

\* Nothing is left but what goes after the reload.
Last == \A p \in apply.todo : Rank(p) = AfterReload

\* What holds while the apply is at work.  Until the reload, the workers serve what is
\* enabled wherever it leaves the host alone.
WorkInv ==
    /\ AtWork => Compiles
    /\ apply.pc \in {"reload", "reloaded"} => Last
    /\ apply.pc = "done" => apply.todo = {}
    /\ apply.pc \in {"reloaded", "done"} => inUse = Enabled
    /\ apply.pc \in {"commit", "reload"} => \A h \in SiteNames : LeftAlone(h) => inUse[h] = Enabled[h]
    /\ apply.pc = "commit" /\ ~apply.mutated => inUse = Enabled
    /\ apply.pc = "reload" => apply.mutated

\* What is put back is as it was.
UndoInv ==
    /\ apply.pc = "restore" =>
          apply.todo \subseteq DOMAIN apply.snap /\ \A p \in DOMAIN apply.snap \ apply.todo : placed[p] = apply.snap[p]
    /\ RestoredExactly

\* The invariant, of an apply no operator interferes with.
HostCore == HostTypes /\ EarlyInv /\ WorkInv /\ UndoInv
HostInv == ~edited => HostCore

\* Nothing is missing to the workers that run when the apply begins: an enabled virtual
\* host finds the auth files it refers to.
Sound == \A c \in Situations : \A h \in SiteNames :
           c.disk[Link(h)] # Absent /\ c.disk[Vhost(h)] # Absent =>
              \A k \in c.disk[Vhost(h)].text.uses \cap {"auth", "legacy"} : c.disk[<<k, h>>] # Absent

\* A path is a kind of file of a site.
LEMMA PathsAre ==
    /\ \A p \in Paths : p[1] \in Kinds /\ p[2] \in SiteNames /\ p = <<p[1], p[2]>>
    /\ \A k \in Kinds, h \in SiteNames : <<k, h>> \in Paths /\ <<k, h>>[1] = k /\ <<k, h>>[2] = h
BY DEF Paths

\* A route that is routed, and nothing of its text is absent.
LEMMA TextsAre ==
    ASSUME HostTypes
    PROVE  /\ intent \in Intents /\ intent.staged \subseteq intent.keep
           /\ \A h \in Routed : h \in SiteNames /\ h \notin Deleted
           /\ \A h \in Routed : Text(h) \in Texts /\ Marked(Text(h)) \in Files /\ Marked(Text(h)).text = Text(h)
           /\ \A f \in Files : f # Absent
           /\ OurLink # Absent /\ NewSecret # Absent
<1>1. intent \in Intents /\ intent.staged \subseteq intent.keep
    BY ManagedAssumptions DEF HostTypes
<1>2. \A h \in Routed : h \in SiteNames /\ h \notin Deleted
    BY DEF Routed, Deleted
<1>3. ASSUME NEW h \in Routed PROVE Text(h) \in Texts
  <2>1. intent.route[h] \in Routes
      BY <1>1, <1>2, <1>3 DEF Intents, Routed
  <2>2. Raw(h) \in Texts \cup {Absent}
      BY <2>1 DEF Raw, Routes
  <2>3. \A a \in {"auth", "legacy"} : Rendered(h, a) \in Texts
      BY DEF Rendered, Texts
  <2>4. Wanted(h) \in Texts
      BY <2>2, <2>3 DEF Wanted, IsRaw
  <2> QED BY <2>3, <2>4 DEF Text
<1>4. \A t \in Texts : Marked(t) \in Files /\ Marked(t).text = t
    BY DEF Marked, Files
<1>5. (\A f \in Files : f # Absent) /\ OurLink # Absent /\ NewSecret # Absent
    BY ManagedAssumptions
<1> QED
    BY <1>1, <1>2, <1>3, <1>4, <1>5

\* What depends on the intent alone.
LEMMA IntentOnly ==
    ASSUME intent' = intent
    PROVE  /\ Routed' = Routed /\ Deleted' = Deleted
           /\ \A h \in SiteNames : /\ (PolicyForeign(h)' <=> PolicyForeign(h)) /\ (ApplyRefused(h)' <=> ApplyRefused(h))
                                   /\ Wanted(h)' = Wanted(h) /\ (IsRaw(h)' <=> IsRaw(h)) /\ (Basic(h)' <=> Basic(h))
                                   /\ Basic(h)' = Basic(h)
                                   /\ \A a \in {"auth", "legacy"} : Rendered(h, a)' = Rendered(h, a)
<1>1. Routed' = Routed /\ Deleted' = Deleted
    BY DEF Routed, Deleted
<1>2. ASSUME NEW h \in SiteNames
      PROVE  /\ (IsRaw(h)' <=> IsRaw(h)) /\ Basic(h)' = Basic(h) /\ Raw(h)' = Raw(h)
             /\ (PolicyAllows(h)' <=> PolicyAllows(h)) /\ Rendered(h, "auth")' = Rendered(h, "auth")
             /\ Rendered(h, "legacy")' = Rendered(h, "legacy")
    BY DEF IsRaw, Basic, Raw, PolicyAllows, Rendered
<1>3. \A h \in SiteNames : (Rerendered(h)' <=> Rerendered(h)) /\ (PolicyForeign(h)' <=> PolicyForeign(h))
                           /\ (ApplyRefused(h)' <=> ApplyRefused(h))
    BY <1>2 DEF Rerendered, PolicyForeign, ApplyRefused
<1>4. \A h \in SiteNames : Wanted(h)' = Wanted(h)
    BY <1>2, <1>3 DEF Wanted
<1> QED
    BY <1>1, <1>2, <1>3, <1>4

\* The virtual hosts as an apply may leave them while it goes forward.
Goes ==
    /\ UNCHANGED <<intent, other>>
    /\ \A h \in Routed : placed'[Vhost(h)] = placed[Vhost(h)] \/ (~Preserved(h) /\ placed'[Vhost(h)] = Marked(Text(h)))
    /\ \A h \in SiteNames \ Routed : placed'[Vhost(h)] = placed[Vhost(h)] \/ (h \in Tombstoned /\ placed'[Vhost(h)] = Absent)

\* The same intent compiles to the same, on what an apply leaves on its way.
LEMMA SameTexts ==
    ASSUME Goes
    PROVE  \A h \in Routed : (Preserved(h)' <=> Preserved(h)) /\ Text(h)' = Text(h)
<1> SUFFICES ASSUME NEW h \in Routed PROVE (Preserved(h)' <=> Preserved(h)) /\ Text(h)' = Text(h)
    OBVIOUS
<1>1. intent' = intent /\ h \in SiteNames
    BY DEF Goes, Routed
<1>2. /\ (PolicyForeign(h)' <=> PolicyForeign(h)) /\ Wanted(h)' = Wanted(h) /\ (IsRaw(h)' <=> IsRaw(h)) /\ (Basic(h)' <=> Basic(h))
      /\ Rendered(h, "legacy")' = Rendered(h, "legacy")
    BY <1>1, IntentOnly
<1>3. CASE placed'[Vhost(h)] = placed[Vhost(h)]
  <2>1. \A t, u : u = t => (ExactUnmarked(h, u)' <=> ExactUnmarked(h, t))
      BY <1>3 DEF ExactUnmarked, Vhost
  <2>2. KeepsLegacy(h)' <=> KeepsLegacy(h)
      BY <1>2, <1>3 DEF KeepsLegacy, ExactUnmarked, Vhost
  <2>3. ExactUnmarked(h, Wanted(h))' <=> ExactUnmarked(h, Wanted(h))
      BY <1>2, <1>3 DEF ExactUnmarked, Vhost
  <2> QED BY <1>2, <2>2, <2>3 DEF Preserved, Text
<1>4. CASE ~Preserved(h) /\ placed'[Vhost(h)] = Marked(Text(h))
  <2>1. \A t, u : Marked(t) # Plain(u)
      BY DEF Marked, Plain
  <2>2. ~ExactUnmarked(h, Wanted(h))' /\ ~KeepsLegacy(h)'
      BY <1>4, <2>1 DEF ExactUnmarked, KeepsLegacy, Vhost
  <2> QED BY <1>2, <1>4, <2>2 DEF Preserved, Text
<1> QED
    BY <1>3, <1>4 DEF Goes

\* and has the same paths to install, to remove and to leave.
LEMMA SameCompiled ==
    ASSUME Goes
    PROVE  /\ Routed' = Routed /\ Deleted' = Deleted /\ Installs' = Installs /\ Tombstoned' = Tombstoned /\ Tombs' = Tombs
           /\ Preserves' = Preserves /\ Disposable' = Disposable
           /\ \A h \in Routed : (ApplyRefused(h)' <=> ApplyRefused(h))
           /\ \A p \in Paths : Referenced(p)' <=> Referenced(p)
           /\ \A p \in Installs : Compiled(p)' = Compiled(p)
           /\ \A h \in SiteNames : LeftAlone(h)' <=> LeftAlone(h)
<1>0. intent' = intent /\ other' = other /\ Routed \subseteq SiteNames /\ Deleted \subseteq SiteNames /\ Routed \cap Deleted = {}
    BY DEF Goes, Routed, Deleted
<1>1. Routed' = Routed /\ Deleted' = Deleted /\ \A h \in Routed : (ApplyRefused(h)' <=> ApplyRefused(h)) /\ Basic(h)' = Basic(h)
    BY <1>0, IntentOnly
<1>2. \A h \in Routed : (Preserved(h)' <=> Preserved(h)) /\ Text(h)' = Text(h) /\ (NeedsAuth(h)' <=> NeedsAuth(h))
    BY <1>1, SameTexts DEF NeedsAuth
<1>3. Installs' = Installs /\ Preserves' = Preserves
  <2>1. {h \in Routed : NeedsAuth(h)}' = {h \in Routed : NeedsAuth(h)}
      BY <1>1, <1>2
  <2>2. {h \in Routed : ~Preserved(h)}' = {h \in Routed : ~Preserved(h)}
      BY <1>1, <1>2
  <2>3. {h \in Routed : Preserved(h)}' = {h \in Routed : Preserved(h)}
      BY <1>1, <1>2
  <2> QED BY <1>0, <2>1, <2>2, <2>3 DEF Installs, Preserves, Of
<1>4. \A h \in Deleted : Unmarked(h)' <=> Unmarked(h)
  <2> SUFFICES ASSUME NEW h \in Deleted PROVE Unmarked(h)' <=> Unmarked(h)
      OBVIOUS
  <2>1. h \in SiteNames \ Routed
      BY <1>0
  <2>2. CASE placed'[Vhost(h)] = placed[Vhost(h)]
      BY <2>2 DEF Unmarked, Exists, Vhost
  <2>3. CASE h \in Tombstoned /\ placed'[Vhost(h)] = Absent
      BY <2>3 DEF Tombstoned, Unmarked, Exists, Vhost
  <2> QED BY <2>1, <2>2, <2>3 DEF Goes
<1>5. Tombstoned' = Tombstoned /\ Tombs' = Tombs
    BY <1>1, <1>4 DEF Tombstoned, Tombs, Of
<1>6. Untouched' = Untouched /\ \A h \in Untouched : placed'[Vhost(h)] = placed[Vhost(h)]
    BY <1>1, <1>5 DEF Untouched, Goes, Exists, Vhost
<1>7. \A h \in SiteNames : SurvivingUses(h)' = SurvivingUses(h)
  <2> SUFFICES ASSUME NEW h \in SiteNames PROVE SurvivingUses(h)' = SurvivingUses(h)
      OBVIOUS
  <2>1. CASE h \in Routed
      BY <1>0, <1>1, <1>2, <2>1 DEF SurvivingUses
  <2>2. CASE h \notin Routed /\ h \in Untouched
      BY <1>0, <1>1, <1>6, <2>2 DEF SurvivingUses, Vhost
  <2>3. CASE h \notin Routed /\ h \notin Untouched
      BY <1>0, <1>1, <1>6, <2>3 DEF SurvivingUses
  <2> QED BY <2>1, <2>2, <2>3
<1>8. \A p \in Paths : Referenced(p)' <=> Referenced(p)
    BY <1>0, <1>7, PathsAre DEF Referenced
<1>9. \A p \in Installs : Compiled(p)' = Compiled(p)
  <2> SUFFICES ASSUME NEW p \in Installs PROVE Compiled(p)' = Compiled(p)
      OBVIOUS
  <2>1. p[1] = "vhost" => p[2] \in Routed
      BY DEF Installs, Of
  <2>2. p[1] = "vhost" => Text(p[2])' = Text(p[2])
      BY <1>2, <2>1
  <2> QED BY <2>2 DEF Compiled, Marked
<1>10. Disposable' = Disposable
  <2> DEFINE A == {p \in Of({"auth", "legacy"}, Routed) : p \notin Installs /\ p[1] \notin Text(p[2]).uses}
             B == {p \in Of({"cert"}, SiteNames \ intent.keep) \cup Of({"auth", "legacy"}, SiteNames \ Routed) : ~Referenced(p)}
  <2>1. A' = A
    <3>1. \A p \in Of({"auth", "legacy"}, Routed) : Text(p[2])' = Text(p[2])
        BY <1>2 DEF Of
    <3> QED BY <1>1, <1>3, <3>1 DEF Of
  <2>2. B' = B
    <3>1. Of({"cert"}, SiteNames \ intent.keep) \cup Of({"auth", "legacy"}, SiteNames \ Routed) \subseteq Paths
        BY DEF Of, Paths, Kinds
    <3> QED BY <1>0, <1>1, <1>8, <3>1 DEF Of
  <2> HIDE DEF A, B
  <2>3. Disposable = Tombs \cup A \cup B /\ Disposable' = Tombs' \cup A' \cup B'
      BY DEF Disposable, A, B
  <2> QED BY <1>5, <2>1, <2>2, <2>3
<1>11. \A h \in SiteNames : LeftAlone(h)' <=> LeftAlone(h)
    BY <1>1, <1>2, <1>5 DEF LeftAlone
<1> QED
    BY <1>1, <1>3, <1>5, <1>8, <1>9, <1>10, <1>11

\* What is installed, and what is removed.
LEMMA Disjoint ==
    ASSUME HostTypes
    PROVE  /\ Installs \subseteq Paths /\ Disposable \subseteq Paths /\ Installs \cap Disposable = {}
           /\ Deletions \subseteq Disposable
           /\ \A p \in Installs : p[1] # "legacy"
           /\ \A p \in Installs \cup Disposable : p[1] \in {"vhost", "link"} => ~LeftAlone(p[2])
           /\ \A p \in Installs : p[1] = "vhost" => p[2] \in Routed /\ ~Preserved(p[2])
           /\ \A p \in Disposable : p[1] \in {"vhost", "link"} => p \in Tombs /\ p[2] \in Tombstoned
<1>1. /\ intent.staged \subseteq intent.keep /\ intent.staged \subseteq SiteNames /\ Routed \subseteq SiteNames
      /\ Tombstoned \subseteq Deleted /\ Deleted \subseteq SiteNames /\ Routed \cap Deleted = {}
    BY TextsAre DEF Intents, Routed, Deleted, Tombstoned
<1>2. ASSUME NEW p \in Installs
      PROVE  /\ p \in Paths /\ p[1] # "legacy"
             /\ p[1] = "cert" => p[2] \in intent.staged
             /\ p[1] = "auth" => p[2] \in Routed
             /\ p[1] \in {"vhost", "link"} => p[2] \in Routed /\ ~Preserved(p[2])
    BY <1>1 DEF Installs, Of, Paths, Kinds
<1>3. ASSUME NEW p \in Tombs PROVE p \in Paths /\ p[2] \in Tombstoned /\ p[1] # "cert"
    BY <1>1 DEF Tombs, Of, Paths, Kinds
<1>4. ASSUME NEW p \in Disposable \ Tombs
      PROVE  /\ p \in Paths /\ p[1] \in {"cert", "auth", "legacy"} /\ p \notin Installs
  <2>1. CASE p \in Of({"auth", "legacy"}, Routed) /\ p \notin Installs
      BY <1>1, <2>1 DEF Of, Paths, Kinds
  <2>2. CASE p \in Of({"cert"}, SiteNames \ intent.keep)
    <3>1. p[1] = "cert" /\ p[2] \notin intent.keep /\ p \in Paths
        BY <2>2 DEF Of, Paths, Kinds
    <3> QED BY <1>1, <1>2, <3>1
  <2>3. CASE p \in Of({"auth", "legacy"}, SiteNames \ Routed)
    <3>1. p[1] \in {"auth", "legacy"} /\ p[2] \notin Routed /\ p \in Paths
        BY <2>3 DEF Of, Paths, Kinds
    <3> QED BY <1>2, <3>1
  <2> QED BY <1>4, <2>1, <2>2, <2>3 DEF Disposable
<1>5. Tombs \cap Installs = {}
    BY <1>1, <1>2, <1>3, PathsAre DEF Kinds
<1>6. Deletions \subseteq Disposable
    BY DEF Deletions, StaleFiles, Pruned, Candidates, Disposable
<1>7. \A p \in Disposable : p[1] \in {"vhost", "link"} => p \in Tombs /\ p[2] \in Tombstoned
    BY <1>3, <1>4
<1>8. \A p \in Installs \cup Disposable : p[1] \in {"vhost", "link"} => ~LeftAlone(p[2])
    BY <1>1, <1>2, <1>7 DEF LeftAlone
<1> QED
    BY <1>2, <1>3, <1>4, <1>5, <1>6, <1>7, <1>8

\* What comes of a path that is left to do.
LEMMA OutcomeIs ==
    ASSUME HostTypes, Compiles, NEW p \in apply.todo
    PROVE  /\ p \in Paths /\ p \in Installs \cup Disposable /\ Outcome(p) \in Contents
           /\ p \in Installs => Outcome(p) = Compiled(p) /\ Compiled(p) # Absent
           /\ p \notin Installs => p \in Disposable /\ Outcome(p) = Absent
           /\ p \in Installs /\ p[1] = "vhost" => Outcome(p) = Marked(Text(p[2]))
           /\ p \in Installs /\ p[1] = "link" => Outcome(p) = OurLink
<1>1. p \in Installs \cup Disposable /\ apply.files = Installs /\ p \in Paths
    BY Disjoint DEF Compiles
<1>2. ASSUME p \in Installs PROVE Outcome(p) = Compiled(p) /\ Compiled(p) # Absent /\ Compiled(p) \in Contents
  <2>1. Outcome(p) = Compiled(p)
      BY <1>1, <1>2 DEF Outcome
  <2>2. CASE p[1] = "vhost"
    <3>1. p[2] \in Routed /\ Compiled(p) = Marked(Text(p[2]))
        BY <1>2, <2>2, Disjoint DEF Compiled
    <3> QED BY <2>1, <3>1, TextsAre DEF Contents
  <2>3. CASE p[1] = "link"
      BY <2>1, <2>3, TextsAre DEF Contents, Compiled
  <2>4. CASE p[1] # "vhost" /\ p[1] # "link"
      BY <2>1, <2>4, TextsAre DEF Contents, Compiled
  <2> QED BY <2>2, <2>3, <2>4
<1>3. ASSUME p \notin Installs PROVE p \in Disposable /\ Outcome(p) = Absent
    BY <1>1, <1>3 DEF Outcome
<1>4. /\ p[1] = "vhost" => Compiled(p) = Marked(Text(p[2]))
      /\ p[1] = "link" => Compiled(p) = OurLink
    BY DEF Compiled
<1> QED
    BY <1>1, <1>2, <1>3, <1>4 DEF Contents

\* A step on a path that is left to do, which may find it done.
LEMMA StepGoes ==
    ASSUME HostTypes, Compiles, NEW p \in apply.todo, placed' = [placed EXCEPT ![p] = Outcome(p)],
           UNCHANGED <<intent, other>>
    PROVE  /\ Goes /\ placed' \in [Paths -> Contents]
           /\ \A q \in Paths : q # p => placed'[q] = placed[q]
           /\ placed'[p] = Outcome(p)
<1>1. /\ placed' \in [Paths -> Contents] /\ placed'[p] = Outcome(p)
      /\ \A q \in Paths : q # p => placed'[q] = placed[q]
    BY OutcomeIs DEF HostTypes
<1>2. \A h \in SiteNames : Vhost(h) \in Paths /\ Vhost(h)[1] = "vhost" /\ Vhost(h)[2] = h
    BY PathsAre DEF Vhost, Kinds
<1>3. ASSUME NEW h \in Routed
      PROVE  placed'[Vhost(h)] = placed[Vhost(h)] \/ (~Preserved(h) /\ placed'[Vhost(h)] = Marked(Text(h)))
  <2>1. h \in SiteNames /\ h \notin Tombstoned
      BY TextsAre DEF Tombstoned
  <2>2. CASE p = Vhost(h)
      BY <1>1, <1>2, <2>1, <2>2, OutcomeIs, Disjoint
  <2>3. CASE p # Vhost(h)
      BY <1>1, <1>2, <2>1, <2>3
  <2> QED BY <2>2, <2>3
<1>4. ASSUME NEW h \in SiteNames \ Routed
      PROVE  placed'[Vhost(h)] = placed[Vhost(h)] \/ (h \in Tombstoned /\ placed'[Vhost(h)] = Absent)
  <2>1. CASE p = Vhost(h)
      BY <1>1, <1>2, <2>1, OutcomeIs, Disjoint
  <2>2. CASE p # Vhost(h)
      BY <1>1, <1>2, <2>2
  <2> QED BY <2>1, <2>2
<1> QED
    BY <1>1, <1>3, <1>4 DEF Goes

\* It keeps what the apply compiled to and what it has done of it.
LEMMA StepCompiles ==
    ASSUME HostTypes, Compiles, NEW p \in apply.todo, placed' = [placed EXCEPT ![p] = Outcome(p)],
           UNCHANGED <<intent, other, apply.files, apply.snap>>, apply'.todo = apply.todo \ {p}
    PROVE  Compiles'
<1>1. /\ Goes /\ placed' \in [Paths -> Contents] /\ \A q \in Paths : q # p => placed'[q] = placed[q]
      /\ placed'[p] = Outcome(p)
    BY StepGoes
<1>2. /\ Routed' = Routed /\ Installs' = Installs /\ Tombs' = Tombs /\ Preserves' = Preserves /\ Disposable' = Disposable
      /\ \A h \in Routed : (ApplyRefused(h)' <=> ApplyRefused(h))
      /\ \A q \in Paths : Referenced(q)' <=> Referenced(q)
      /\ \A q \in Installs : Compiled(q)' = Compiled(q)
      /\ \A h \in Routed : Text(h)' = Text(h)
    BY <1>1, SameCompiled, SameTexts
<1>3. p \in Paths /\ p \in Installs \cup Disposable
    BY OutcomeIs
<1>4. \A q \in Preserves : Kept(q)'
  <2> SUFFICES ASSUME NEW q \in Preserves PROVE Kept(q)'
      OBVIOUS
  <2>1. q \in Paths /\ q[1] \in {"vhost", "link"} /\ q[2] \in Routed /\ Preserved(q[2])
      BY TextsAre DEF Preserves, Of, Paths, Kinds
  <2>2. q # p
      BY <1>3, <2>1, Disjoint DEF LeftAlone
  <2>3. placed'[q] = placed[q] /\ Text(q[2])' = Text(q[2])
      BY <1>1, <1>2, <2>1, <2>2
  <2> QED BY <2>3 DEF Compiles, Kept, Plain, Marked
<1>5. \A q \in Installs \ apply'.todo : placed'[q] = Compiled(q)'
  <2> SUFFICES ASSUME NEW q \in Installs \ apply'.todo PROVE placed'[q] = Compiled(q)
      BY <1>2
  <2>1. q \in Paths
      BY Disjoint
  <2>2. CASE q = p
      BY <1>1, <2>2, OutcomeIs
  <2>3. CASE q # p
      BY <1>1, <2>1, <2>3 DEF Compiles
  <2> QED BY <2>2, <2>3
<1>6. \A q \in Deletions' : Exists(q)' => q \in apply'.todo
  <2> SUFFICES ASSUME NEW q \in Deletions', Exists(q)' PROVE q \in Deletions /\ Exists(q) /\ q # p
      BY DEF Compiles
  <2>1. q \in Disposable /\ q \in Paths /\ q \notin Installs
    <3>1. q \in Disposable'
        BY DEF Deletions, StaleFiles, Pruned, Candidates, Disposable
    <3> QED BY <1>2, <3>1, Disjoint
  <2>2. q # p
      BY <1>1, <2>1, OutcomeIs DEF Exists
  <2>3. Exists(q)
      BY <1>1, <2>1, <2>2 DEF Exists
  <2>4. CASE q \in Tombs'
      BY <1>2, <2>2, <2>3, <2>4 DEF Deletions
  <2>5. CASE q \in StaleFiles'
    <3>1. q \in Of({"auth", "legacy"}, Routed) /\ q[1] \notin Text(q[2]).uses
      <4>1. q \in Of({"auth", "legacy"}, Routed) /\ q[1] \notin Text(q[2])'.uses
          BY <1>2, <2>5 DEF StaleFiles, Of
      <4> QED BY <1>2, <4>1 DEF Of
    <3> QED BY <2>1, <2>2, <2>3, <3>1 DEF Deletions, StaleFiles
  <2>6. CASE q \in Pruned'
    <3>1. intent.prune /\ ~Referenced(q) /\ q \in Candidates
        BY <1>1, <1>2, <2>1, <2>3, <2>6 DEF Pruned, Candidates, Goes
    <3> QED BY <2>2, <2>3, <3>1 DEF Deletions, Pruned
  <2> QED BY <2>4, <2>5, <2>6 DEF Deletions
<1> QED
    BY <1>2, <1>4, <1>5, <1>6 DEF Compiles

\* When a path comes, by its kind.
LEMMA RankIs ==
    ASSUME HostTypes, Compiles, NEW p \in Paths
    PROVE  Rank(p) = AfterReload <=> p \notin Installs /\ p[1] \in {"auth", "legacy"}
<1>1. apply.files = Installs /\ p[1] \in Kinds /\ (p \in Installs => p[1] # "legacy")
    BY PathsAre, Disjoint DEF Compiles
<1>2. CASE p \in Installs
  <2>1. CASE p[1] = "vhost"
      BY <1>1, <1>2, <2>1 DEF Rank, AfterReload
  <2>2. CASE p[1] = "link"
      BY <1>1, <1>2, <2>2 DEF Rank, AfterReload
  <2>3. CASE p[1] = "cert"
      BY <1>1, <1>2, <2>3 DEF Rank, AfterReload
  <2>4. CASE p[1] = "auth"
      BY <1>1, <1>2, <2>4 DEF Rank, AfterReload
  <2> QED BY <1>1, <1>2, <2>1, <2>2, <2>3, <2>4 DEF Kinds
<1>3. CASE p \notin Installs
  <2>1. CASE p[1] = "vhost"
      BY <1>1, <1>3, <2>1 DEF Rank, AfterReload
  <2>2. CASE p[1] = "link"
      BY <1>1, <1>3, <2>2 DEF Rank, AfterReload
  <2>3. CASE p[1] = "cert"
      BY <1>1, <1>3, <2>3 DEF Rank, AfterReload
  <2>4. CASE p[1] \in {"auth", "legacy"}
      BY <1>1, <1>3, <2>4 DEF Rank, AfterReload
  <2> QED BY <1>1, <2>1, <2>2, <2>3, <2>4 DEF Kinds
<1> QED
    BY <1>2, <1>3

\* Once only what goes after the reload is left: a virtual host that is there says
\* what was compiled for it, or survives as it was.
LEMMA PlacedText ==
    ASSUME HostTypes, Compiles, Last, NEW h \in SiteNames, Exists(Vhost(h))
    PROVE  /\ h \in Routed => placed[Vhost(h)].text = Text(h)
           /\ h \notin Routed => h \in Untouched
           /\ placed[Vhost(h)].text.uses \subseteq SurvivingUses(h)
<1>1. Vhost(h) \in Paths /\ Vhost(h)[1] = "vhost" /\ Vhost(h)[2] = h
    BY PathsAre DEF Vhost, Kinds
<1>2. Vhost(h) \notin apply.todo
    BY <1>1, RankIs DEF Last
<1>3. ASSUME h \in Routed PROVE placed[Vhost(h)].text = Text(h)
  <2>1. CASE Preserved(h)
    <3>1. Vhost(h) \in Preserves
        BY <1>3, <2>1 DEF Preserves, Of, Vhost
    <3>2. placed[Vhost(h)] \in {Plain(Text(h)), Marked(Text(h))}
        BY <1>1, <3>1 DEF Compiles, Kept
    <3> QED BY <3>2 DEF Plain, Marked
  <2>2. CASE ~Preserved(h)
    <3>1. Vhost(h) \in Installs
        BY <1>3, <2>2 DEF Installs, Of, Vhost
    <3>2. placed[Vhost(h)] = Compiled(Vhost(h))
        BY <1>2, <3>1 DEF Compiles
    <3>3. Compiled(Vhost(h)) = Marked(Text(h))
        BY <1>1 DEF Compiled
    <3> QED BY <3>2, <3>3 DEF Marked
  <2> QED BY <2>1, <2>2
<1>4. ASSUME h \notin Routed PROVE h \in Untouched
  <2>1. h \notin Tombstoned
    <3>1. h \in Tombstoned => Vhost(h) \in Deletions
        BY DEF Deletions, Tombs, Of, Vhost
    <3> QED BY <1>2, <3>1 DEF Compiles
  <2> QED BY <1>4, <2>1 DEF Untouched
<1> QED
    BY <1>3, <1>4 DEF SurvivingUses

\* and does not refer to what is removed.
LEMMA Unreferenced ==
    ASSUME HostTypes, Compiles, Last, NEW p \in Disposable, Exists(Vhost(p[2]))
    PROVE  p[1] \in {"cert", "auth", "legacy"} => p[1] \notin placed[Vhost(p[2])].text.uses
<1>1. p \in Paths /\ p[2] \in SiteNames
    BY Disjoint, PathsAre
<1>2. CASE p \in Tombs
  <2>1. p[2] \in Tombstoned /\ p[2] \notin Routed
      BY <1>2, TextsAre DEF Tombs, Of, Tombstoned
  <2> QED BY <1>1, <2>1, PlacedText DEF Untouched
<1>3. CASE p \in Of({"auth", "legacy"}, Routed) /\ p[1] \notin Text(p[2]).uses
  <2>1. p[2] \in Routed
      BY <1>3 DEF Of
  <2> QED BY <1>1, <1>3, <2>1, PlacedText
<1>4. CASE ~Referenced(p)
  <2>1. p[1] \in {"cert", "auth", "legacy"} => p[1] \notin SurvivingUses(p[2])
      BY <1>4 DEF Referenced
  <2> QED BY <1>1, <2>1, PlacedText
<1> QED
    BY <1>2, <1>3, <1>4 DEF Disposable

\* What the apply renders itself refers to the auth file it installs with it.
LEMMA AuthWith ==
    ASSUME HostTypes, NEW h \in Routed, ~Preserved(h), ~ApplyRefused(h)
    PROVE  "legacy" \notin Text(h).uses /\ ("auth" \in Text(h).uses => Auth(h) \in Installs)
<1>1. ~PolicyForeign(h) /\ ~KeepsLegacy(h) /\ Text(h) = Wanted(h)
    BY DEF Preserved, Text
<1>2. CASE ~IsRaw(h) \/ (~PolicyAllows(h) /\ Rerendered(h))
  <2>1. Text(h) = Rendered(h, "auth")
      BY <1>1, <1>2 DEF Wanted
  <2>2. "legacy" \notin Text(h).uses /\ ("auth" \in Text(h).uses => Basic(h))
      BY <2>1 DEF Rendered
  <2> QED BY <2>2 DEF NeedsAuth, Installs, Of, Auth
<1>3. CASE ~(~IsRaw(h) \/ (~PolicyAllows(h) /\ Rerendered(h)))
  <2>1. Text(h) = Raw(h)
      BY <1>1, <1>3 DEF Wanted
  <2>2. PolicyAllows(h)
      BY <1>1, <1>3 DEF PolicyForeign, ApplyRefused
  <2> QED BY <2>1, <2>2 DEF PolicyAllows
<1> QED
    BY <1>2, <1>3

\* The workers that are loaded when everything else is in place have their auth files.
LEMMA ReloadServes ==
    ASSUME HostTypes, Compiles, Last, StillServed, \A h \in SiteNames : LeftAlone(h) => inUse[h] = Enabled[h],
           NEW h \in SiteNames, Enabled[h] # Absent, NEW k \in Enabled[h].uses \cap {"auth", "legacy"}
    PROVE  Exists(<<k, h>>)
<1>1. CASE LeftAlone(h)
    BY <1>1 DEF StillServed
<1>2. CASE ~LeftAlone(h)
  <2>1. Exists(Vhost(h)) /\ Enabled[h] = placed[Vhost(h)].text
      BY DEF Enabled
  <2>2. h \in Routed /\ ~Preserved(h) /\ Enabled[h] = Text(h)
      BY <1>2, <2>1, PlacedText DEF LeftAlone, Untouched
  <2>3. k = "auth" /\ Auth(h) \in Installs
      BY <2>2, AuthWith DEF Compiles
  <2>4. Auth(h) \notin apply.todo
      BY <2>3, Disjoint, RankIs DEF Last
  <2>5. placed[Auth(h)] = Compiled(Auth(h)) /\ Compiled(Auth(h)) = NewSecret
      BY <2>3, <2>4 DEF Compiles, Compiled, Auth
  <2> QED BY <2>3, <2>5, TextsAre DEF Exists, Auth
<1> QED
    BY <1>1, <1>2

\* A step on a path takes no auth file from a worker.
LEMMA StepServes ==
    ASSUME HostTypes, WorkInv, StillServed, NEW p \in Paths, Committing(p), placed' = [placed EXCEPT ![p] = Outcome(p)],
           UNCHANGED <<intent, other, inUse>>
    PROVE  StillServed'
<1>1. Compiles /\ p \in apply.todo /\ (IF Rank(p) = AfterReload THEN apply.pc = "reloaded" ELSE apply.pc = "commit")
    BY DEF Committing, ApplyNext1, ApplyAt, WorkInv, AtWork
<1>2. /\ \A q \in Paths : q # p => placed'[q] = placed[q]
      /\ placed'[p] = Outcome(p)
    BY <1>1, StepGoes
<1>3. SUFFICES ASSUME NEW h \in SiteNames, inUse[h] # Absent, NEW k \in inUse[h].uses \cap {"auth", "legacy"}
               PROVE  Exists(<<k, h>>)'
    BY DEF StillServed
<1>4. Exists(<<k, h>>) /\ <<k, h>> \in Paths
    BY <1>3, PathsAre DEF StillServed, Kinds
<1>5. CASE <<k, h>> # p
    BY <1>2, <1>4, <1>5 DEF Exists
<1>6. CASE <<k, h>> = p /\ p \in Installs
    BY <1>1, <1>2, <1>6, OutcomeIs DEF Exists
<1>7. CASE <<k, h>> = p /\ p \notin Installs
  <2>1. p[1] = k /\ p[2] = h
      BY <1>7
  <2>2. Rank(p) = AfterReload /\ p \in Disposable
      BY <1>1, <1>7, <2>1, RankIs, OutcomeIs
  <2>3. apply.pc = "reloaded" /\ Last /\ inUse = Enabled
      BY <1>1, <2>2 DEF WorkInv
  <2>4. Exists(Vhost(h)) /\ inUse[h] = placed[Vhost(h)].text
      BY <1>3, <2>3 DEF Enabled
  <2> QED BY <1>1, <1>3, <2>1, <2>2, <2>3, <2>4, Unreferenced
<1> QED
    BY <1>5, <1>6, <1>7

\* The apply's record, field by field.
LEMMA ApplyFields ==
    ASSUME Shaped(apply)
    PROVE  /\ \A x : ToPc(x) = [pc |-> x, plan |-> apply.plan, snap |-> apply.snap, todo |-> apply.todo,
                                files |-> apply.files, mutated |-> apply.mutated]
           /\ \A p : Done1(p) = [pc |-> apply.pc, plan |-> apply.plan, snap |-> apply.snap, todo |-> apply.todo \ {p},
                                 files |-> apply.files, mutated |-> apply.mutated]
           /\ ~apply.mutated => Fail = ToPc("failed")
           /\ apply.mutated => Fail = [pc |-> "restore", plan |-> apply.plan, snap |-> apply.snap, todo |-> DOMAIN apply.snap,
                                       files |-> apply.files, mutated |-> apply.mutated]
<1>1. \A x : ToPc(x) = [pc |-> x, plan |-> apply.plan, snap |-> apply.snap, todo |-> apply.todo,
                          files |-> apply.files, mutated |-> apply.mutated]
    BY DEF Shaped, ToPc
<1>2. \A p : Done1(p) = [pc |-> apply.pc, plan |-> apply.plan, snap |-> apply.snap, todo |-> apply.todo \ {p},
                          files |-> apply.files, mutated |-> apply.mutated]
    BY DEF Shaped, Done1
<1>3. ASSUME apply.mutated
      PROVE  Fail = [pc |-> "restore", plan |-> apply.plan, snap |-> apply.snap, todo |-> DOMAIN apply.snap,
                     files |-> apply.files, mutated |-> apply.mutated]
  <2>1. Fail = [ToPc("restore") EXCEPT !.todo = DOMAIN apply.snap]
      BY <1>3 DEF Fail
  <2> QED BY <1>1, <2>1
<1>4. ~apply.mutated => Fail = ToPc("failed")
    BY DEF Fail
<1> QED
    BY <1>1, <1>2, <1>3, <1>4

\* While the files stay, so does all that is computed from them.
LEMMA SameDisk ==
    ASSUME UNCHANGED <<placed, intent, other>>
    PROVE  /\ Goes /\ Enabled' = Enabled /\ Deletions' = Deletions
           /\ \A h \in SiteNames : LeftAlone(h)' <=> LeftAlone(h)
<1>1. Goes /\ placed' = placed /\ intent' = intent /\ other' = other
    BY DEF Goes
<1>2. Enabled' = Enabled
    BY <1>1 DEF Enabled, Exists
<1>3. /\ Installs' = Installs /\ Tombs' = Tombs /\ Routed' = Routed /\ \A h \in Routed : Text(h)' = Text(h)
      /\ \A p \in Paths : Referenced(p)' <=> Referenced(p)
      /\ \A h \in SiteNames : LeftAlone(h)' <=> LeftAlone(h)
    BY <1>1, SameCompiled, SameTexts
<1>4. StaleFiles' = StaleFiles
  <2>1. \A p \in Of({"auth", "legacy"}, Routed) : Text(p[2])' = Text(p[2])
      BY <1>3 DEF Of
  <2> QED BY <1>1, <1>3, <2>1 DEF StaleFiles, Exists, Of
<1>5. Candidates' = Candidates /\ Candidates \subseteq Paths
    BY <1>1, <1>3 DEF Candidates, Exists, Of, Paths, Kinds, Routed
<1>6. Pruned' = Pruned
    BY <1>1, <1>3, <1>5 DEF Pruned
<1> QED
    BY <1>1, <1>2, <1>3, <1>4, <1>6 DEF Deletions

\* So does what the apply compiled to.
LEMMA StillCompiles ==
    ASSUME HostTypes, Compiles, UNCHANGED <<placed, intent, other>>,
           apply'.files = apply.files, apply'.snap = apply.snap, apply'.todo = apply.todo
    PROVE  Compiles'
<1>1. Goes /\ Deletions' = Deletions /\ placed' = placed
    BY SameDisk
<1>2. /\ Routed' = Routed /\ Installs' = Installs /\ Preserves' = Preserves /\ Disposable' = Disposable
      /\ \A h \in Routed : (ApplyRefused(h)' <=> ApplyRefused(h)) /\ Text(h)' = Text(h)
      /\ \A q \in Installs : Compiled(q)' = Compiled(q)
    BY <1>1, SameCompiled, SameTexts
<1>3. \A q \in Preserves : Kept(q)'
  <2> SUFFICES ASSUME NEW q \in Preserves PROVE Kept(q)'
      OBVIOUS
  <2>1. Text(q[2])' = Text(q[2])
      BY <1>2 DEF Preserves, Of
  <2> QED BY <1>1, <2>1 DEF Compiles, Kept, Plain, Marked
<1>4. \A q \in Deletions' : Exists(q)' => q \in apply'.todo
    BY <1>1 DEF Compiles, Exists
<1> QED
    BY <1>1, <1>2, <1>3, <1>4 DEF Compiles

\* An apply that stops here promises nothing more.
LEMMA Ended ==
    ASSUME HostTypes, placed' \in [Paths -> Contents], UNCHANGED <<intent, other>>,
           apply' = ToPc("failed") \/ apply' = ToPc("rollback_failed")
    PROVE  HostCore'
<1>1. /\ Shaped(apply)' /\ apply'.pc \in {"failed", "rollback_failed"} /\ apply'.mutated \in BOOLEAN
    BY ApplyFields DEF HostTypes, Shaped
<1>2. HostTypes'
    BY <1>1 DEF HostTypes, AtWork, Pcs
<1> QED
    BY <1>1, <1>2 DEF HostCore, EarlyInv, WorkInv, AtWork, UndoInv, RestoredExactly, ApplyAt

\* One that fails at work turns to undo all of it.
LEMMA Undoes ==
    ASSUME HostTypes, AtWork, placed' \in [Paths -> Contents], UNCHANGED <<intent, other>>, apply' = Fail
    PROVE  HostCore'
<1>1. CASE ~apply.mutated
    BY <1>1, Ended, ApplyFields DEF HostTypes
<1>2. CASE apply.mutated
  <2>1. /\ Shaped(apply)' /\ apply'.pc = "restore" /\ apply'.mutated \in BOOLEAN
        /\ apply'.snap = apply.snap /\ apply'.todo = DOMAIN apply.snap
    <3>1. apply' = [pc |-> "restore", plan |-> apply.plan, snap |-> apply.snap, todo |-> DOMAIN apply.snap,
                    files |-> apply.files, mutated |-> apply.mutated]
        BY <1>2, ApplyFields DEF HostTypes
    <3> QED BY <3>1 DEF HostTypes, Shaped
  <2>2. HostTypes'
      BY <2>1 DEF HostTypes, AtWork, Pcs
  <2> QED
      BY <2>1, <2>2 DEF HostCore, EarlyInv, WorkInv, AtWork, UndoInv, RestoredExactly, ApplyAt
<1> QED
    BY <1>1, <1>2 DEF HostTypes
\* and so does whether it is admitted.
LEMMA SameAdmissible ==
    ASSUME UNCHANGED <<placed, intent, other>>
    PROVE  Admissible' <=> Admissible
<1>1. Goes /\ Deletions' = Deletions /\ placed' = placed
    BY SameDisk
<1>2. /\ Routed' = Routed /\ Installs' = Installs /\ Preserves' = Preserves
      /\ \A h \in Routed : (ApplyRefused(h)' <=> ApplyRefused(h)) /\ Text(h)' = Text(h)
    BY <1>1, SameCompiled, SameTexts
<1>3. ASSUME NEW q \in Preserves PROVE Kept(q)' <=> Kept(q)
  <2>1. Text(q[2])' = Text(q[2])
      BY <1>2, <1>3 DEF Preserves, Of
  <2> QED BY <1>1, <2>1 DEF Kept, Plain, Marked
<1>4. \A q : Ours(q)' <=> Ours(q)
    BY <1>1 DEF Ours, Exists
<1> QED
    BY <1>1, <1>2, <1>3, <1>4 DEF Admissible

\* A record of that shape with other fields.
LEMMA WithFields ==
    ASSUME NEW a, Shaped(a)
    PROVE  /\ \A t, f : [a EXCEPT !.todo = t, !.files = f] =
                  [pc |-> a.pc, plan |-> a.plan, snap |-> a.snap, todo |-> t, files |-> f, mutated |-> a.mutated]
           /\ \A m : [a EXCEPT !.mutated = m] =
                  [pc |-> a.pc, plan |-> a.plan, snap |-> a.snap, todo |-> a.todo, files |-> a.files, mutated |-> m]
<1>1. ASSUME NEW t, NEW f
      PROVE  [a EXCEPT !.todo = t, !.files = f] =
                  [pc |-> a.pc, plan |-> a.plan, snap |-> a.snap, todo |-> t, files |-> f, mutated |-> a.mutated]
  <2> DEFINE b == [a EXCEPT !.todo = t]
  <2>1. [a EXCEPT !.todo = t, !.files = f] = [b EXCEPT !.files = f]
      BY DEF Shaped
  <2>2. b = [pc |-> a.pc, plan |-> a.plan, snap |-> a.snap, todo |-> t, files |-> a.files, mutated |-> a.mutated]
      BY DEF Shaped
  <2> HIDE DEF b
  <2>3. [b EXCEPT !.files = f] = [pc |-> a.pc, plan |-> a.plan, snap |-> a.snap, todo |-> t, files |-> f, mutated |-> a.mutated]
      BY <2>2
  <2> QED BY <2>1, <2>3
<1>2. ASSUME NEW m
      PROVE  [a EXCEPT !.mutated = m] =
                  [pc |-> a.pc, plan |-> a.plan, snap |-> a.snap, todo |-> a.todo, files |-> a.files, mutated |-> m]
    BY DEF Shaped
<1> QED
    BY <1>1, <1>2

\* Planning, preparing and the last look before the first write.
LEMMA EarlySteps ==
    ASSUME HostCore, Plan \/ Prepare \/ Begin
    PROVE  HostCore'
<1>1. HostTypes /\ EarlyInv /\ UNCHANGED <<placed, intent, other, inUse>> /\ placed' \in [Paths -> Contents]
    BY DEF HostCore, HostTypes, Plan, Prepare, Begin, Fixed
<1>2. Goes /\ Enabled' = Enabled /\ Deletions' = Deletions /\ Installs' = Installs /\ (\A h \in SiteNames : LeftAlone(h)' <=> LeftAlone(h))
    BY <1>1, SameDisk, SameCompiled
<1>3. apply.mutated \in BOOLEAN /\ Shaped(apply)
    BY <1>1 DEF HostTypes
<1> DEFINE Begun == [ToPc("commit") EXCEPT !.todo = Installs \cup Deletions, !.files = Installs]
<1> HIDE DEF Begun
<1>4. CASE apply' = ToPc("failed")
    BY <1>1, <1>4, Ended DEF HostCore
<1>5. CASE Plan /\ apply' = [ToPc("planned") EXCEPT !.plan = <<Compilation, Facts>>]
  <2>1. apply' = [pc |-> "planned", plan |-> <<Compilation, Facts>>, snap |-> apply.snap, todo |-> apply.todo,
                  files |-> apply.files, mutated |-> apply.mutated]
      BY <1>3, <1>5, ApplyFields
  <2>2. apply.pc = "idle" /\ ~apply.mutated /\ inUse = Enabled
      BY <1>1, <1>5 DEF Plan, ApplyAt, EarlyInv
  <2>3. Shaped(apply)' /\ apply'.pc = "planned" /\ ~apply'.mutated /\ apply'.mutated \in BOOLEAN
      BY <1>3, <2>1, <2>2 DEF Shaped
  <2>4. HostTypes'
      BY <1>1, <2>3 DEF HostTypes, AtWork, Pcs
  <2> QED
      BY <1>1, <1>2, <2>2, <2>3, <2>4 DEF HostCore, EarlyInv, WorkInv, AtWork, UndoInv, RestoredExactly, ApplyAt
<1>6. CASE Prepare /\ apply' = [ToPc("prepared") EXCEPT !.snap = [p \in Installs \cup Deletions |-> placed[p]]]
  <2> DEFINE S == [p \in Installs \cup Deletions |-> placed[p]]
  <2>1. apply' = [pc |-> "prepared", plan |-> apply.plan, snap |-> S, todo |-> apply.todo,
                  files |-> apply.files, mutated |-> apply.mutated]
      BY <1>3, <1>6, ApplyFields
  <2>2. apply.pc = "planned" /\ ~apply.mutated /\ inUse = Enabled
      BY <1>1, <1>6 DEF Prepare, ApplyAt, EarlyInv
  <2>3. DOMAIN S = Installs \cup Deletions /\ DOMAIN S \subseteq Paths /\ S \in [DOMAIN S -> Contents]
      BY <1>1, Disjoint DEF HostTypes
  <2>4. S' = S
      BY <1>1, <1>2
  <2> HIDE DEF S
  <2>5. Shaped(apply)' /\ apply'.pc = "prepared" /\ ~apply'.mutated /\ apply'.snap = S /\ apply'.mutated \in BOOLEAN
      BY <1>3, <2>1, <2>2 DEF Shaped
  <2>6. HostTypes'
      BY <1>1, <2>3, <2>5 DEF HostTypes, AtWork, Pcs
  <2>7. EarlyInv'
      BY <1>1, <1>2, <2>2, <2>4, <2>5 DEF EarlyInv, S
  <2> QED
      BY <2>5, <2>6, <2>7 DEF HostCore, WorkInv, AtWork, UndoInv, RestoredExactly, ApplyAt
<1>7. CASE Begin /\ AsPlanned /\ apply' = Begun
  <2>1. apply' = [pc |-> "commit", plan |-> apply.plan, snap |-> apply.snap, todo |-> Installs \cup Deletions,
                  files |-> Installs, mutated |-> apply.mutated]
    <3> DEFINE C == ToPc("commit")
    <3>1. C = [pc |-> "commit", plan |-> apply.plan, snap |-> apply.snap, todo |-> apply.todo,
               files |-> apply.files, mutated |-> apply.mutated]
        BY <1>3, ApplyFields
    <3>2. Begun = [C EXCEPT !.todo = Installs \cup Deletions, !.files = Installs]
        BY Zenon DEF Begun
    <3> HIDE DEF C
    <3>3. Shaped(C) /\ C.pc = "commit" /\ C.plan = apply.plan /\ C.snap = apply.snap /\ C.mutated = apply.mutated
        BY <3>1 DEF Shaped
    <3>4. [C EXCEPT !.todo = Installs \cup Deletions, !.files = Installs]
             = [pc |-> C.pc, plan |-> C.plan, snap |-> C.snap, todo |-> Installs \cup Deletions,
                files |-> Installs, mutated |-> C.mutated]
      <4>1. \A t, f : [C EXCEPT !.todo = t, !.files = f] =
                  [pc |-> C.pc, plan |-> C.plan, snap |-> C.snap, todo |-> t, files |-> f, mutated |-> C.mutated]
          BY <3>3, WithFields
      <4> QED BY <4>1, Zenon
    <3> QED BY <1>7, <3>2, <3>3, <3>4
  <2>2. apply.pc = "prepared" /\ ~apply.mutated /\ inUse = Enabled /\ apply.snap = [p \in Installs \cup Deletions |-> placed[p]]
      BY <1>1, <1>7 DEF Begin, ApplyAt, EarlyInv
  <2>3. /\ DOMAIN apply.snap = Installs \cup Deletions /\ DOMAIN apply.snap \subseteq Paths
        /\ apply.snap \in [DOMAIN apply.snap -> Contents]
      BY <1>1, <2>2 DEF HostTypes
  <2>4. /\ Shaped(apply)' /\ apply'.pc = "commit" /\ ~apply'.mutated /\ apply'.snap = apply.snap /\ apply'.mutated \in BOOLEAN
        /\ apply'.todo = Installs \cup Deletions /\ apply'.files = Installs
      BY <1>3, <2>1, <2>2 DEF Shaped
  <2>5. HostTypes'
      BY <1>1, <2>3, <2>4 DEF HostTypes, Pcs
  <2>6. Compiles'
    <3>1. /\ \A h \in Routed' : ~ApplyRefused(h)'
          /\ \A p \in Preserves' : Kept(p)'
      <4>1. Admissible
          BY <1>7 DEF AsPlanned
      <4>2. Admissible'
          BY <1>1, <4>1, SameAdmissible
      <4> QED BY <4>2 DEF Admissible
    <3>2. Disposable' = Disposable /\ Deletions \subseteq Disposable
        BY <1>1, <1>2, SameCompiled, Disjoint
    <3> QED BY <1>2, <2>3, <2>4, <3>1, <3>2 DEF Compiles
  <2>7. WorkInv'
      BY <1>1, <1>2, <2>2, <2>4, <2>6 DEF WorkInv
  <2> QED
      BY <2>4, <2>5, <2>7 DEF HostCore, EarlyInv, UndoInv, RestoredExactly, ApplyAt
<1>8. Plan => apply' \in {ToPc("failed"), [ToPc("planned") EXCEPT !.plan = <<Compilation, Facts>>]}
    BY DEF Plan
<1>9. Prepare => apply' \in {ToPc("failed"), [ToPc("prepared") EXCEPT !.snap = [p \in Installs \cup Deletions |-> placed[p]]]}
    BY DEF Prepare
<1>10. Begin => apply' = ToPc("failed") \/ (AsPlanned /\ apply' = Begun)
    BY Zenon DEF Begin, Begun
<1> QED
    BY <1>4, <1>5, <1>6, <1>7, <1>8, <1>9, <1>10

\* A step on one path, done or found done.
LEMMA OneStep ==
    ASSUME HostCore, NEW p \in Paths, Committing(p), placed' = [placed EXCEPT ![p] = Outcome(p)],
           UNCHANGED <<intent, other, inUse>>,
           Shaped(apply)', apply'.pc = apply.pc, apply'.snap = apply.snap, apply'.files = apply.files,
           apply'.todo = apply.todo \ {p}, apply'.mutated \in BOOLEAN,
           apply'.mutated \/ (placed' = placed /\ apply'.mutated = apply.mutated)
    PROVE  HostCore'
<1>1. /\ HostTypes /\ WorkInv /\ Compiles /\ p \in apply.todo /\ apply.pc \in {"commit", "reloaded"}
      /\ apply.pc = "reloaded" => Rank(p) = AfterReload
    BY DEF HostCore, Committing, ApplyNext1, ApplyAt, WorkInv, AtWork
<1>2. /\ Goes /\ placed' \in [Paths -> Contents] /\ \A q \in Paths : q # p => placed'[q] = placed[q]
      /\ placed'[p] = Outcome(p)
    BY <1>1, StepGoes
<1>3. Compiles'
    BY <1>1, StepCompiles
<1>4. HostTypes'
    BY <1>1, <1>2 DEF HostTypes, AtWork, Pcs
<1>5. ASSUME NEW h \in SiteNames, p # Vhost(h), p # Link(h) PROVE Enabled'[h] = Enabled[h]
  <2>1. Vhost(h) \in Paths /\ Link(h) \in Paths
      BY PathsAre DEF Vhost, Link, Kinds
  <2> QED BY <1>2, <1>5, <2>1 DEF Enabled, Exists, Vhost, Link
<1>6. ASSUME apply.pc = "reloaded" PROVE Last' /\ inUse' = Enabled'
  <2>1. Last /\ inUse = Enabled /\ p[1] \in {"auth", "legacy"}
      BY <1>1, <1>6, RankIs DEF WorkInv
  <2>2. \A q : Rank(q)' = Rank(q)
      BY DEF Rank
  <2>3. \A h \in SiteNames : p # Vhost(h) /\ p # Link(h)
      BY <2>1 DEF Vhost, Link
  <2>4. \A h \in SiteNames : Enabled'[h] = Enabled[h]
      BY <1>5, <2>3
  <2>5. Enabled' = Enabled
      BY <2>4 DEF Enabled
  <2> QED BY <2>1, <2>2, <2>5 DEF Last
<1>7. ASSUME apply.pc = "commit", NEW h \in SiteNames, LeftAlone(h)' PROVE inUse'[h] = Enabled'[h]
  <2>1. LeftAlone(h) /\ p \in Installs \cup Disposable
      BY <1>1, <1>2, <1>7, SameCompiled, OutcomeIs
  <2>2. p # Vhost(h) /\ p # Link(h)
      BY <1>1, <2>1, Disjoint DEF Vhost, Link
  <2> QED BY <1>1, <1>5, <1>7, <2>1, <2>2 DEF WorkInv
<1>8. ASSUME apply.pc = "commit", ~apply'.mutated PROVE inUse' = Enabled'
  <2>1. placed' = placed /\ inUse = Enabled /\ inUse' = inUse
      BY <1>1, <1>8 DEF WorkInv
  <2> QED BY <2>1, SameDisk
<1>9. WorkInv'
    BY <1>1, <1>3, <1>6, <1>7, <1>8 DEF WorkInv
<1> QED
    BY <1>1, <1>4, <1>9 DEF HostCore, EarlyInv, UndoInv, RestoredExactly, ApplyAt

\* Whatever comes of a path while the apply is at work.
LEMMA PathSteps ==
    ASSUME HostCore, NEW p \in Paths, SkipStep(p) \/ Write(p) \/ WriteFails(p) \/ SyncFails(p)
    PROVE  HostCore'
<1>1. /\ HostTypes /\ Shaped(apply) /\ apply.mutated \in BOOLEAN /\ Committing(p) /\ AtWork
      /\ UNCHANGED <<intent, other, inUse>>
    BY DEF HostCore, HostTypes, SkipStep, Write, WriteFails, SyncFails, LookedAt, Fixed, Committing, ApplyAt, AtWork
<1>2. Compiles /\ p \in apply.todo
    BY <1>1 DEF HostCore, WorkInv, Committing, ApplyNext1
<1>3. CASE SkipStep(p)
  <2>1. placed' = placed /\ placed' = [placed EXCEPT ![p] = Outcome(p)]
    <3>1. placed[p] = Outcome(p)
        BY <1>3 DEF SkipStep, Pending, Outcome, Exists
    <3> QED BY <1>1, <1>3, <3>1 DEF SkipStep, HostTypes
  <2>2. apply' = [pc |-> apply.pc, plan |-> apply.plan, snap |-> apply.snap, todo |-> apply.todo \ {p},
                  files |-> apply.files, mutated |-> apply.mutated]
      BY <1>1, <1>3, ApplyFields DEF SkipStep
  <2>3. Shaped(apply)'
      BY <2>2 DEF Shaped
  <2> QED BY <1>1, <2>1, <2>2, <2>3, OneStep
<1>4. CASE Write(p)
  <2>1. apply' = [Done1(p) EXCEPT !.mutated = TRUE] /\ placed' = [placed EXCEPT ![p] = Outcome(p)]
      BY <1>4 DEF Write
  <2>2. apply' = [pc |-> apply.pc, plan |-> apply.plan, snap |-> apply.snap, todo |-> apply.todo \ {p},
                  files |-> apply.files, mutated |-> TRUE]
    <3> DEFINE D == Done1(p)
    <3>1. D = [pc |-> apply.pc, plan |-> apply.plan, snap |-> apply.snap, todo |-> apply.todo \ {p},
               files |-> apply.files, mutated |-> apply.mutated]
        BY <1>1, ApplyFields
    <3>2. apply' = [D EXCEPT !.mutated = TRUE]
        BY <2>1
    <3> HIDE DEF D
    <3>3. Shaped(D) /\ D.pc = apply.pc /\ D.plan = apply.plan /\ D.snap = apply.snap /\ D.todo = apply.todo \ {p}
          /\ D.files = apply.files
        BY <3>1 DEF Shaped
    <3>4. [D EXCEPT !.mutated = TRUE]
             = [pc |-> D.pc, plan |-> D.plan, snap |-> D.snap, todo |-> D.todo, files |-> D.files, mutated |-> TRUE]
        BY <3>3, WithFields, Zenon
    <3> QED BY <3>2, <3>3, <3>4
  <2>3. /\ Shaped(apply)' /\ apply'.pc = apply.pc /\ apply'.snap = apply.snap /\ apply'.files = apply.files
        /\ apply'.todo = apply.todo \ {p} /\ apply'.mutated \in BOOLEAN /\ apply'.mutated
      BY <2>2 DEF Shaped
  <2> QED BY <1>1, <2>1, <2>3, OneStep
<1>5. CASE WriteFails(p)
  <2>1. apply' = Fail /\ placed' = placed
      BY <1>5 DEF WriteFails
  <2> QED BY <1>1, <2>1, Undoes DEF HostTypes
<1>6. CASE SyncFails(p)
  <2>1. apply' = Fail /\ placed' = [placed EXCEPT ![p] = Outcome(p)]
      BY <1>6 DEF SyncFails
  <2>2. placed' \in [Paths -> Contents]
      BY <1>1, <1>2, <2>1, StepGoes
  <2> QED BY <1>1, <2>1, <2>2, Undoes
<1> QED
    BY <1>3, <1>4, <1>5, <1>6

\* The steps that move the whole apply on: validation, reload, attestation.
LEMMA TurnSteps ==
    ASSUME HostCore, ValidateCommit \/ Reload \/ Attest
    PROVE  HostCore'
<1>1. /\ HostTypes /\ WorkInv /\ Shaped(apply) /\ apply.mutated \in BOOLEAN /\ AtWork /\ Compiles
      /\ UNCHANGED <<placed, intent, other>> /\ placed' \in [Paths -> Contents]
    BY DEF HostCore, HostTypes, WorkInv, ValidateCommit, Written, Reload, Attest, Cleaned, ApplyAt, AtWork, Fixed
<1>2. Enabled' = Enabled /\ \A h \in SiteNames : LeftAlone(h)' <=> LeftAlone(h)
    BY <1>1, SameDisk
<1>3. CASE apply' = Fail
    BY <1>1, <1>3, Undoes
<1>4. ASSUME NEW x \in {"reload", "reloaded", "done"}, apply' = ToPc(x),
             x \in {"reload", "reloaded"} => Last,
             x = "done" => apply.todo = {},
             x \in {"reloaded", "done"} => inUse' = Enabled,
             x = "reload" => apply.mutated /\ \A h \in SiteNames : LeftAlone(h) => inUse'[h] = Enabled[h]
      PROVE  HostCore'
  <2>1. apply' = [pc |-> x, plan |-> apply.plan, snap |-> apply.snap, todo |-> apply.todo,
                  files |-> apply.files, mutated |-> apply.mutated]
      BY <1>1, <1>4, ApplyFields
  <2>2. /\ Shaped(apply)' /\ apply'.pc = x /\ apply'.snap = apply.snap /\ apply'.todo = apply.todo
        /\ apply'.files = apply.files /\ apply'.mutated = apply.mutated
      BY <2>1 DEF Shaped
  <2>3. HostTypes'
      BY <1>1, <2>2 DEF HostTypes, AtWork, Pcs
  <2>4. Compiles'
      BY <1>1, <2>2, StillCompiles
  <2>5. Last => Last'
      BY <2>2 DEF Last, Rank
  <2>6. WorkInv'
      BY <1>2, <1>4, <2>2, <2>4, <2>5 DEF WorkInv
  <2> QED
      BY <1>4, <2>2, <2>3, <2>6 DEF HostCore, EarlyInv, UndoInv, RestoredExactly, ApplyAt
<1>5. CASE ValidateCommit
  <2>1. apply.pc = "commit" /\ Last /\ inUse' = inUse
      BY <1>5 DEF ValidateCommit, Written, ApplyAt, Last, Fixed
  <2>2. \/ apply' = Fail
        \/ ~apply.mutated /\ apply' = ToPc("reloaded")
        \/ apply.mutated /\ apply' = ToPc("reload")
      BY <1>5 DEF ValidateCommit
  <2>3. CASE ~apply.mutated /\ apply' = ToPc("reloaded")
      BY <1>1, <1>4, <2>1, <2>3 DEF WorkInv
  <2>4. CASE apply.mutated /\ apply' = ToPc("reload")
      BY <1>1, <1>4, <2>1, <2>4 DEF WorkInv
  <2> QED BY <1>3, <2>2, <2>3, <2>4
<1>6. CASE Reload
  <2>1. apply.pc = "reload" /\ Last
      BY <1>1, <1>6 DEF Reload, ApplyAt, WorkInv
  <2>2. apply' = Fail \/ (inUse' = Enabled /\ apply' = ToPc("reloaded"))
      BY <1>6 DEF Reload
  <2> QED BY <1>3, <1>4, <2>1, <2>2
<1>7. CASE Attest
  <2>1. apply.pc = "reloaded" /\ apply.todo = {} /\ inUse' = Enabled
      BY <1>1, <1>7 DEF Attest, Cleaned, ApplyAt, WorkInv, Fixed
  <2>2. apply' = Fail \/ apply' = ToPc("done")
      BY <1>7 DEF Attest
  <2> QED BY <1>3, <1>4, <2>1, <2>2
<1> QED
    BY <1>5, <1>6, <1>7

\* The rollback puts back path after path.
LEMMA BackSteps ==
    ASSUME HostCore, (\E p \in Paths : Restore(p) \/ RestoreFails(p)) \/ RestoreEnds
    PROVE  HostCore'
<1>1. /\ HostTypes /\ UndoInv /\ Shaped(apply) /\ apply.mutated \in BOOLEAN /\ apply.pc = "restore"
      /\ UNCHANGED <<intent, other>> /\ placed \in [Paths -> Contents]
      /\ DOMAIN apply.snap \subseteq Paths /\ apply.snap \in [DOMAIN apply.snap -> Contents]
    BY DEF HostCore, HostTypes, Restore, RestoreFails, RestoreEnds, Restoring, ApplyAt, Fixed
<1>2. ASSUME NEW p \in Paths, Restore(p) PROVE HostCore'
  <2>1. p \in apply.todo /\ placed' = [placed EXCEPT ![p] = apply.snap[p]] /\ apply' = Done1(p)
      BY <1>2 DEF Restore, Restoring
  <2>2. apply' = [pc |-> apply.pc, plan |-> apply.plan, snap |-> apply.snap, todo |-> apply.todo \ {p},
                  files |-> apply.files, mutated |-> apply.mutated]
      BY <1>1, <2>1, ApplyFields
  <2>3. /\ Shaped(apply)' /\ apply'.pc = "restore" /\ apply'.snap = apply.snap /\ apply'.todo = apply.todo \ {p}
        /\ apply'.mutated = apply.mutated
      BY <1>1, <2>2 DEF Shaped
  <2>4. /\ apply.todo \subseteq DOMAIN apply.snap
        /\ \A q \in DOMAIN apply.snap \ apply.todo : placed[q] = apply.snap[q]
      BY <1>1 DEF UndoInv
  <2>5. /\ placed' \in [Paths -> Contents] /\ placed'[p] = apply.snap[p]
        /\ \A q \in Paths : q # p => placed'[q] = placed[q]
    <3>1. apply.snap[p] \in Contents
        BY <1>1, <2>1, <2>4
    <3> QED BY <1>1, <2>1, <3>1
  <2>6. HostTypes'
      BY <1>1, <2>3, <2>5 DEF HostTypes, AtWork
  <2>7. apply'.todo \subseteq DOMAIN apply'.snap /\ \A q \in DOMAIN apply'.snap \ apply'.todo : placed'[q] = apply'.snap[q]
      BY <1>1, <2>3, <2>4, <2>5
  <2> QED
      BY <2>3, <2>6, <2>7 DEF HostCore, EarlyInv, WorkInv, AtWork, UndoInv, RestoredExactly, ApplyAt
<1>3. ASSUME NEW p \in Paths, RestoreFails(p) PROVE HostCore'
  <2>1. apply' = ToPc("rollback_failed") /\ placed' = placed
      BY <1>3 DEF RestoreFails
  <2> QED BY <1>1, <2>1, Ended
<1>4. CASE RestoreEnds
  <2>1. placed' = placed /\ apply.todo = {}
      BY <1>4 DEF RestoreEnds
  <2>2. apply' = ToPc("rollback_failed") \/ (ConfigValid /\ inUse' = Enabled /\ apply' = ToPc("rolled_back"))
      BY <1>4 DEF RestoreEnds
  <2>3. CASE apply' = ToPc("rollback_failed")
      BY <1>1, <2>1, <2>3, Ended
  <2>4. CASE ConfigValid /\ inUse' = Enabled /\ apply' = ToPc("rolled_back")
    <3>1. apply' = [pc |-> "rolled_back", plan |-> apply.plan, snap |-> apply.snap, todo |-> apply.todo,
                    files |-> apply.files, mutated |-> apply.mutated]
        BY <1>1, <2>4, ApplyFields
    <3>2. Shaped(apply)' /\ apply'.pc = "rolled_back" /\ apply'.snap = apply.snap /\ apply'.mutated = apply.mutated
        BY <3>1 DEF Shaped
    <3>3. HostTypes'
        BY <1>1, <2>1, <3>2 DEF HostTypes, AtWork, Pcs
    <3>4. \A q \in DOMAIN apply'.snap : placed'[q] = apply'.snap[q]
        BY <1>1, <2>1, <3>2 DEF UndoInv
    <3>5. ConfigValid' /\ inUse' = Enabled'
      <4>1. Enabled' = Enabled
          BY <1>1, <2>1, SameDisk
      <4>2. ConfigValid'
          BY <1>1, <2>1, <2>4 DEF ConfigValid, Exists
      <4> QED BY <2>4, <4>1, <4>2
    <3> QED
        BY <3>2, <3>3, <3>4, <3>5 DEF HostCore, EarlyInv, WorkInv, AtWork, UndoInv, RestoredExactly
  <2> QED BY <2>2, <2>3, <2>4
<1> QED
    BY <1>2, <1>3, <1>4

\* A step that changes none of the files, nor the apply, changes nothing of it.
LEMMA StillCore ==
    ASSUME HostCore, UNCHANGED <<placed, intent, other, inUse, apply, edited>>
    PROVE  HostCore'
<1>1. HostCore /\ UNCHANGED <<placed, intent, other, inUse, apply>>
    OBVIOUS
<1>2. Enabled' = Enabled /\ (\A h \in SiteNames : LeftAlone(h)' <=> LeftAlone(h)) /\ Installs' = Installs /\ Deletions' = Deletions
    BY <1>1, SameDisk, SameCompiled
<1>3. HostTypes'
    BY <1>1 DEF HostCore, HostTypes, AtWork
<1>4. EarlyInv'
    BY <1>1, <1>2 DEF HostCore, EarlyInv
<1>5. WorkInv'
  <2>1. Compiles => Compiles'
      BY <1>1, StillCompiles DEF HostCore
  <2>2. Last => Last'
      BY <1>1 DEF Last, Rank
  <2> QED BY <1>1, <1>2, <2>1, <2>2 DEF HostCore, WorkInv, AtWork
<1>6. UndoInv'
    BY <1>1, <1>2 DEF HostCore, UndoInv, RestoredExactly, ApplyAt, ConfigValid, Exists
<1> QED BY <1>3, <1>4, <1>5, <1>6 DEF HostCore

\* The invariant is inductive.
LEMMA HostInvariant == ApplySpec => []HostInv
<1>1. ApplyInit => HostInv
  <2> SUFFICES ASSUME ApplyInit PROVE HostCore
      BY DEF HostInv
  <2>1. PICK c \in Situations : placed = c.disk /\ other = c.other /\ intent = c.intent
      BY DEF ApplyInit
  <2>2. placed \in [Paths -> Contents]
      BY <2>1, ManagedAssumptions
  <2>3. apply = AtRest /\ inUse = Enabled
      BY DEF ApplyInit
  <2>4. Shaped(apply) /\ apply.pc = "idle" /\ ~apply.mutated /\ apply.mutated \in BOOLEAN
      BY <2>3 DEF AtRest, Shaped
  <2>5. HostTypes
      BY <2>1, <2>2, <2>4 DEF HostTypes, AtWork, Pcs
  <2> QED
      BY <2>3, <2>4, <2>5 DEF HostCore, EarlyInv, WorkInv, AtWork, UndoInv, RestoredExactly, ApplyAt
<1>2. HostInv /\ [ApplyNext]_applyVars => HostInv'
  <2> SUFFICES ASSUME HostInv, [ApplyNext]_applyVars, ~edited' PROVE HostCore'
      BY DEF HostInv
  <2>1. ASSUME ~edited PROVE HostCore
      BY <2>1 DEF HostInv
  <2>2. CASE Plan \/ Prepare \/ Begin
      BY <2>1, <2>2, EarlySteps DEF Plan, Prepare, Begin, Fixed
  <2>3. ASSUME NEW p \in Paths, SkipStep(p) \/ Write(p) \/ WriteFails(p) \/ SyncFails(p) PROVE HostCore'
      BY <2>1, <2>3, PathSteps DEF SkipStep, Write, WriteFails, SyncFails, Fixed
  <2>4. CASE ValidateCommit \/ Reload \/ Attest
      BY <2>1, <2>4, TurnSteps DEF ValidateCommit, Reload, Attest, Fixed
  <2>5. CASE RollsBack
    <3>1. ~edited
        BY <2>5 DEF RollsBack, Restore, RestoreFails, RestoreEnds, Fixed
    <3> QED BY <2>1, <2>5, <3>1, BackSteps DEF RollsBack
  <2>6. CASE Edit
      BY <2>6 DEF Edit
  <2>7. CASE UNCHANGED applyVars \/ \E p \in Paths : Inspects(p)
    <3>1. UNCHANGED <<placed, intent, other, inUse, apply, edited>>
        BY <2>7 DEF applyVars, Inspects, Fixed
    <3> QED BY <2>1, <3>1, StillCore
  <2> QED
      BY <2>2, <2>3, <2>4, <2>5, <2>6, <2>7 DEF ApplyNext, Executes
<1> QED
    BY <1>1, <1>2, PTL DEF ApplySpec

\* A step of an apply that goes forward takes no auth file from a worker.
LEMMA ServedSteps ==
    ASSUME HostInv, WorkersServed, [ApplyNext]_applyVars
    PROVE  WorkersServed'
<1> SUFFICES ASSUME ~edited', Forward' PROVE StillServed'
    BY DEF WorkersServed, Forward
<1>1. ASSUME ~edited, Forward PROVE HostCore /\ StillServed
    BY <1>1 DEF HostInv, WorkersServed, Forward
<1>2. ASSUME ~edited, Forward, UNCHANGED <<placed, inUse>> PROVE StillServed'
    BY <1>1, <1>2 DEF StillServed, Exists
<1>3. ASSUME NEW p \in Paths, SkipStep(p) \/ Write(p) \/ WriteFails(p) \/ SyncFails(p) PROVE StillServed'
  <2>1. ~edited /\ Forward /\ Committing(p) /\ UNCHANGED <<intent, other, inUse>>
      BY <1>3 DEF SkipStep, Write, WriteFails, SyncFails, LookedAt, Fixed, Committing, ApplyAt, Forward
  <2>2. placed' = placed \/ placed' = [placed EXCEPT ![p] = Outcome(p)]
      BY <1>3 DEF SkipStep, Write, WriteFails, SyncFails
  <2>3. HostTypes /\ WorkInv /\ StillServed
      BY <1>1, <2>1 DEF HostCore
  <2> QED BY <1>2, <2>1, <2>2, <2>3, StepServes
<1>4. CASE Reload
  <2>1. ~edited /\ Forward /\ apply.pc = "reload" /\ placed' = placed
      BY <1>4 DEF Reload, ApplyAt, Forward
  <2>2. HostTypes /\ Compiles /\ Last /\ StillServed /\ \A h \in SiteNames : LeftAlone(h) => inUse[h] = Enabled[h]
      BY <1>1, <2>1 DEF HostCore, WorkInv, AtWork
  <2>3. inUse' = Enabled \/ inUse' = inUse
      BY <1>4 DEF Reload
  <2>4. CASE inUse' = Enabled
    <3>1. \A h \in SiteNames : Enabled[h] # Absent => \A k \in Enabled[h].uses \cap {"auth", "legacy"} : Exists(<<k, h>>)
        BY <2>2, ReloadServes
    <3>2. \A p : Exists(p)' <=> Exists(p)
        BY <2>1 DEF Exists
    <3> QED BY <2>4, <3>1, <3>2 DEF StillServed
  <2> QED BY <1>2, <2>1, <2>3, <2>4
<1>5. CASE Plan \/ Prepare \/ Begin \/ ValidateCommit \/ Attest
  <2>1. ~edited /\ Forward /\ UNCHANGED <<placed, inUse>>
      BY <1>5 DEF Plan, Prepare, Begin, ValidateCommit, Written, Attest, Cleaned, Fixed, ApplyAt, Forward
  <2> QED BY <1>2, <2>1
<1>6. CASE RollsBack
  <2>1. ~Forward'
    <3>1. ASSUME NEW p \in Paths, Restore(p) PROVE apply'.pc = "restore"
      <4>1. apply.pc = "restore" /\ ~edited /\ apply' = Done1(p)
          BY <3>1 DEF Restore, Restoring, ApplyAt, Fixed
      <4> QED BY <4>1 DEF Done1
    <3>2. ASSUME NEW x, apply' = ToPc(x), apply.pc = "restore", x \in {"rolled_back", "rollback_failed"} PROVE ~Forward'
      <4>1. ~edited
          BY <1>6 DEF RollsBack, Restore, RestoreFails, RestoreEnds, Fixed
      <4>2. Shaped(apply)
          BY <4>1 DEF HostInv, HostCore, HostTypes
      <4> QED BY <3>2, <4>2, ApplyFields DEF Forward
    <3>3. \/ \E p \in Paths : Restore(p)
          \/ \E x \in {"rolled_back", "rollback_failed"} : apply' = ToPc(x) /\ apply.pc = "restore"
        BY <1>6 DEF RollsBack, RestoreFails, RestoreEnds, Restoring, ApplyAt
    <3> QED BY <3>1, <3>2, <3>3 DEF Forward
  <2> QED BY <2>1
<1>7. CASE Edit
    BY <1>7 DEF Edit
<1>8. CASE UNCHANGED applyVars \/ \E p \in Paths : Inspects(p)
    BY <1>2, <1>8 DEF applyVars, Inspects, Fixed, Forward
<1> QED
    BY <1>3, <1>4, <1>5, <1>6, <1>7, <1>8 DEF ApplyNext, Executes

\* No running worker looks for an auth file that the apply took away.
THEOREM WorkersServedCorrect == ASSUME Sound PROVE ApplySpec => []WorkersServed
<1>1. ApplyInit => WorkersServed
  <2> SUFFICES ASSUME ApplyInit PROVE StillServed
      BY DEF WorkersServed
  <2>1. PICK c \in Situations : placed = c.disk
      BY DEF ApplyInit
  <2>2. inUse = Enabled
      BY DEF ApplyInit
  <2>3. ASSUME NEW h \in SiteNames, Enabled[h] # Absent
        PROVE  c.disk[Link(h)] # Absent /\ c.disk[Vhost(h)] # Absent /\ Enabled[h] = c.disk[Vhost(h)].text
      BY <2>1, <2>3 DEF Enabled, Exists
  <2> QED BY <2>1, <2>2, <2>3 DEF Sound, StillServed, Exists
<1>2. HostInv /\ WorkersServed /\ [ApplyNext]_applyVars => WorkersServed'
    BY ServedSteps
<1> QED
    BY <1>1, <1>2, HostInvariant, PTL DEF ApplySpec

\* What an apply that succeeded leaves.
LEMMA AllInPlaceHolds ==
    ASSUME HostCore, apply.pc = "done"
    PROVE  /\ inUse = Enabled /\ Admissible
           /\ \A p \in Installs : placed[p] = Compiled(p)
           /\ \A p \in Deletions : ~Exists(p)
           /\ \A p \in DOMAIN apply.snap : Prunable(p) /\ apply.snap[p] # Absent /\ ~Exists(p) =>
                  p \notin other.uses /\ (Exists(Vhost(p[2])) => p[1] \notin placed[Vhost(p[2])].text.uses)
<1>1. HostTypes /\ Compiles /\ Last /\ apply.todo = {} /\ inUse = Enabled
    BY DEF HostCore, WorkInv, AtWork, Last
<1>2. /\ \A p \in Installs : placed[p] = Compiled(p)
      /\ \A p \in Deletions : ~Exists(p)
    BY <1>1 DEF Compiles
<1>3. \A p \in Installs \cup Deletions : Ours(p)
  <2>1. ASSUME NEW p \in Installs PROVE Ours(p)
    <3>1. CASE p[1] = "vhost"
      <4>1. placed[p] = [text |-> Text(p[2]), marked |-> TRUE]
          BY <1>2, <2>1, <3>1 DEF Compiled, Marked
      <4>2. placed[p].marked
          BY <4>1
      <4> QED BY <3>1, <4>2 DEF Ours
    <3>2. CASE p[1] = "link"
        BY <1>2, <2>1, <3>2 DEF Ours, Compiled
    <3> QED BY <3>1, <3>2 DEF Ours
  <2> QED BY <1>2, <2>1 DEF Ours
<1>4. Admissible
    BY <1>1, <1>3 DEF Admissible, Compiles
<1>5. ASSUME NEW p \in DOMAIN apply.snap, Prunable(p), ~Exists(p)
      PROVE  p \notin other.uses /\ (Exists(Vhost(p[2])) => p[1] \notin placed[Vhost(p[2])].text.uses)
  <2>1. p \in Installs \cup Disposable /\ p \in Paths
      BY <1>1, Disjoint DEF Compiles
  <2>2. p \notin Installs
    <3>1. ASSUME p \in Installs PROVE placed[p] # Absent
      <4>1. CASE p[1] = "vhost"
        <5>1. p[2] \in Routed /\ placed[p] = Marked(Text(p[2]))
            BY <1>1, <1>2, <3>1, <4>1, Disjoint DEF Compiled
        <5> QED BY <1>1, <5>1, TextsAre
      <4>2. CASE p[1] # "vhost"
          BY <1>1, <1>2, <3>1, <4>2, TextsAre DEF Compiled
      <4> QED BY <4>1, <4>2
    <3> QED BY <1>5, <3>1 DEF Exists
  <2>3. p \in Disposable /\ p \notin Tombs /\ (p[1] = "cert" \/ p[2] \notin Routed)
      BY <1>5, <2>1, <2>2 DEF Prunable
  <2>4. p[1] \in {"cert", "auth", "legacy"} /\ ~Referenced(p)
    <3>1. p \notin Of({"auth", "legacy"}, Routed)
        BY <2>3 DEF Of
    <3>2. p \in Of({"cert"}, SiteNames \ intent.keep) \cup Of({"auth", "legacy"}, SiteNames \ Routed) /\ ~Referenced(p)
        BY <2>3, <3>1 DEF Disposable
    <3> QED BY <3>2 DEF Of
  <2>5. p \notin other.uses
    <3>1. p = <<p[1], p[2]>> /\ p[1] \in Kinds
        BY <2>1, PathsAre
    <3>2. p \in other.uses => p[1] \in SurvivingUses(p[2])
        BY <3>1 DEF SurvivingUses
    <3> QED BY <2>4, <3>2 DEF Referenced
  <2> QED BY <1>1, <2>3, <2>4, <2>5, Unreferenced
<1> QED
    BY <1>1, <1>2, <1>4, <1>5

\* An apply ends with all of its intent in place or with none of it.
THEOREM EndsWholeCorrect == ApplySpec => []EndsWhole
<1>1. HostInv => EndsWhole
  <2> SUFFICES ASSUME HostInv PROVE EndsWhole
      OBVIOUS
  <2>1. ASSUME ~edited PROVE RestoredExactly
      BY <2>1 DEF HostInv, HostCore, UndoInv
  <2>2. ASSUME ~edited, ApplyAt("done") PROVE HostCore /\ apply.pc = "done"
      BY <2>2 DEF HostInv, ApplyAt
  <2>3. AllInPlace
      BY <2>2, AllInPlaceHolds DEF AllInPlace
  <2> QED BY <2>1, <2>3 DEF EndsWhole, RestoredExactly
<1> QED
    BY <1>1, HostInvariant, PTL

\* Until it must undo, the apply leaves an operator's configurations and links, but for
\* one put where it had just looked.  What it looked at was not an operator's.
THEOREM OperatorsKeptCorrect == ApplySpec => OperatorsKept
<1> DEFINE Whole == placed = [p \in Paths |-> placed[p]] /\ \A l \in looked : ~TheirsIs(l.path, l.seen)
           Keeps == \A p \in Paths : Theirs(p) => placed'[p] = placed[p] \/ Raced(p)
<1>1. ApplyInit => Whole
  <2> SUFFICES ASSUME ApplyInit PROVE Whole
      OBVIOUS
  <2>1. PICK c \in Situations : placed = c.disk /\ looked = {}
      BY DEF ApplyInit
  <2> QED BY <2>1, ManagedAssumptions
<1>2. ASSUME Whole, [ApplyNext]_applyVars
      PROVE  Whole' /\ (apply' # apply /\ ~ApplyAt("restore") => Keeps)
  <2>1. ASSUME NEW p \in Paths, NEW c, placed' = [placed EXCEPT ![p] = c]
        PROVE  placed' = [q \in Paths |-> placed'[q]] /\ \A q \in Paths : q # p => placed'[q] = placed[q]
      BY <1>2, <2>1
  <2>2. ASSUME NEW p \in Paths, Write(p) \/ SyncFails(p)
        PROVE  Whole' /\ Keeps
    <3>1. LookedAt(p) /\ looked' = {} /\ placed' = [placed EXCEPT ![p] = Outcome(p)]
        BY <2>2 DEF Write, SyncFails
    <3>2. PICK l \in looked : l.path = p
        BY <3>1 DEF LookedAt
    <3>3. l.seen = placed[p] => ~Theirs(p)
        BY <1>2, <3>2 DEF Theirs
    <3>4. Theirs(p) => Raced(p)
        BY <3>2, <3>3 DEF Raced
    <3> QED BY <2>1, <3>1, <3>4
  <2>3. ASSUME NEW p \in Paths, Restore(p) PROVE Whole' /\ ApplyAt("restore")
      BY <1>2, <2>1, <2>3 DEF Restore, Restoring
  <2>4. CASE Edit
      BY <1>2, <2>1, <2>4 DEF Edit, Of, Paths, Kinds
  <2>5. ASSUME NEW p \in Paths, Inspects(p) PROVE Whole' /\ placed' = placed
    <3>1. Ours(p) /\ placed' = placed /\ looked' = {[path |-> p, seen |-> placed[p]]}
        BY <2>5 DEF Inspects
    <3>2. ~TheirsIs(p, placed[p])
      <4>1. CASE p[1] = "vhost"
          BY <3>1, <4>1 DEF Ours, Exists, TheirsIs
      <4>2. CASE p[1] = "link"
          BY <3>1, <4>2 DEF Ours, Exists, TheirsIs
      <4>3. CASE p[1] # "vhost" /\ p[1] # "link"
          BY <4>3 DEF TheirsIs
      <4> QED BY <4>1, <4>2, <4>3
    <3> QED BY <1>2, <3>1, <3>2
  <2>6. CASE placed' = placed /\ (looked' = looked \/ looked' = {})
      BY <1>2, <2>6
  <2>7. \/ Edit \/ (placed' = placed /\ (looked' = looked \/ looked' = {}))
        \/ \E p \in Paths : Write(p) \/ SyncFails(p) \/ Restore(p) \/ Inspects(p)
      BY <1>2 DEF ApplyNext, Executes, RollsBack, Plan, Prepare, Begin, SkipStep, WriteFails, ValidateCommit, Reload, Attest,
                  RestoreFails, RestoreEnds, applyVars
  <2> QED
      BY <2>2, <2>3, <2>4, <2>5, <2>6, <2>7
<1> HIDE DEF Whole
<1>3. Whole /\ [ApplyNext]_applyVars
        => [apply' # apply /\ ~ApplyAt("restore") => \A p \in Paths : Theirs(p) => placed'[p] = placed[p] \/ Raced(p)]_applyVars
    BY <1>2
<1>4. Whole /\ [ApplyNext]_applyVars => Whole'
    BY <1>2
<1> QED
    BY <1>1, <1>3, <1>4, PTL DEF ApplySpec, OperatorsKept
================================================================================
