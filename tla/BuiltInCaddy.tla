------------------------------ MODULE BuiltInCaddy ------------------------------
(***************************************************************************)
(* A push to an agent that serves with its own Caddy (stream.go applyIntents,   *)
(* proxy/caddy, agent/caddy): the server, its TLS strategy, its routes and the    *)
(* certificates are set one call to Caddy's admin API after the other, while        *)
(* calls fail, Caddy exits, the agent restarts, its local API changes routes and      *)
(* the holder is switched to the host's own proxy and back.                            *)
(***************************************************************************)
EXTENDS Naturals, FiniteSets

CONSTANTS
    Sites,
    Issues,         \* certificates, in the order they were issued
    Demands         \* what to consider: the sets to push, how many, what may go wrong how often

Policies == {"central", "self-acme", "off", "raw"}
Demanded == [policy : Policies \cup {"none"}, cert : Issues \cup {0}]
Upsets   == {"call", "disk", "exit", "restart", "api", "switch"}

ASSUME CaddyAssumptions ==
    /\ IsFiniteSet(Sites) /\ Issues \subseteq Nat \ {0}
    /\ Demands \subseteq [sets : SUBSET [Sites -> Demanded], pushes : Nat, upsets : SUBSET Upsets, count : Nat]

VARIABLES
    caddy,      \* Caddy's configuration: srv0, its routes, its TLS strategy
    stored,     \* stored[s]: the certificate in the agent's store
    applying,   \* the push under way
    memo,       \* the last full apply: its set, whether it was clean
    table,      \* the routes the local API knows of
    call,       \* a call of the local API
    holder,     \* the backend held, and whether it is about to be replaced
    tampered,   \* history: others have changed Caddy since the last full apply began
    demand, chances

caddyVars == <<caddy, stored, applying, memo, table, call, holder, tampered, demand, chances>>

NoRoutes == [s \in Sites |-> "none"]
Nowt     == [s \in Sites |-> [policy |-> "none", cert |-> 0]]
Blank    == [up |-> TRUE, srv |-> "ready", live |-> NoRoutes, auto |-> TRUE, skip |-> {},
             policies |-> FALSE, loads |-> [s \in Sites |-> 0]]
NoApply  == [pc |-> "none", set |-> Nowt, todo |-> {}, kept |-> {}, clean |-> TRUE, pure |-> TRUE]
NoCall   == [op |-> "none", pc |-> "none", sites |-> {}, todo |-> {}]

CaddyInit ==
    /\ demand \in Demands
    /\ caddy = Blank /\ stored = [s \in Sites |-> 0]
    /\ applying = NoApply /\ memo = [set |-> Nowt, clean |-> FALSE]
    /\ table = {} /\ call = NoCall
    /\ holder = [backend |-> "caddy", leaving |-> FALSE]
    /\ tampered = FALSE
    /\ chances = [pushes |-> demand.pushes, count |-> demand.count]

Upset(u) == u \in demand.upsets /\ chances.count > 0 /\ chances' = [chances EXCEPT !.count = @ - 1]
Phase(p) == applying.pc = p
Tainted  == tampered' = TRUE /\ applying' = [applying EXCEPT !.pure = FALSE]
-----------------------------------------------------------------------------
(* The admin API.  A holder that holds a file backend makes every call a no-op.  *)

Reaches   == holder.backend = "caddy" /\ caddy.up
Fine(can) == holder.backend # "caddy" \/ (caddy.up /\ can)
Effect(can, after) == IF Reaches /\ can THEN after ELSE caddy

(* EnsureServer, as if nobody came between its reading and its writing.        *)
Ensured(c) == IF c.srv = "ready" THEN c ELSE [c EXCEPT !.srv = "ready", !.live = NoRoutes]

(* ClearRoutes removes the array, not its elements.                           *)
CanClear   == caddy.srv = "ready"
Cleared(c) == [c EXCEPT !.srv = "bare", !.live = NoRoutes]

(* AddRoute: without an array there is nothing to append to; ids are unique.    *)
CanAdd(s)      == caddy.srv = "ready" /\ caddy.live[s] = "none"
Added(c, s, p) == [c EXCEPT !.live[s] = p]
Removed(c, s)  == [c EXCEPT !.live[s] = "none"]

(* The strategy: what is loaded, and whom Caddy leaves alone.                  *)
Structured(set) == {s \in Sites : set[s].policy \in Policies \ {"raw"}}
AnyACME(set)    == \E s \in Sites : set[s].policy = "self-acme"
LoadFiles(set)  == [s \in Sites |-> IF set[s].policy = "central" THEN stored[s] ELSE 0]
Skip(set)       == IF AnyACME(set) THEN {s \in Structured(set) : set[s].policy # "self-acme"} ELSE {}

(* ApplyTLS: automatic_https and the connection policies, then the certificates. *)
Https(c, set)  == [c EXCEPT !.auto = AnyACME(set), !.skip = Skip(set),
                            !.policies = @ \/ (~AnyACME(set) /\ \E s \in Sites : LoadFiles(set)[s] # 0)]
ApplyTLS(c, set) == [Https(c, set) EXCEPT !.loads = LoadFiles(set)]

(* Mutant: EnsureServerTLS trusts that srv0 still has its routes.              *)
MutEnsureServerTLS(c, set) == ApplyTLS(c, set)
EnsureServerTLS(c, set) == ApplyTLS(Ensured(c), set)
-----------------------------------------------------------------------------
(* A push.                                                                   *)

Receive(w) ==
    /\ Phase("none") /\ holder.backend = "caddy" /\ chances.pushes > 0
    /\ chances' = [chances EXCEPT !.pushes = @ - 1]
    /\ applying' = [NoApply EXCEPT !.pc = "install", !.set = w]
    /\ UNCHANGED <<caddy, stored, memo, table, call, holder, tampered, demand>>

BundlesOf(w) == {s \in Sites : w[s].cert # 0}
KeptCerts(w) == {s \in Sites : w[s].policy # "none"}

(* The bundles are written, one may fail and the rest is left out; certificates   *)
(* of hosts that are gone are scrubbed in any case.                                *)
InstallCerts ==
    /\ Phase("install")
    /\ \E done \in SUBSET BundlesOf(applying.set) :
          /\ IF done = BundlesOf(applying.set)
             THEN applying' = [applying EXCEPT !.pc = "gate"] /\ UNCHANGED chances
             ELSE applying' = [applying EXCEPT !.pc = "gate", !.clean = FALSE, !.pure = FALSE] /\ Upset("disk")
          /\ stored' = [s \in Sites |-> IF s \in done THEN applying.set[s].cert
                                        ELSE IF s \in KeptCerts(applying.set) THEN stored[s] ELSE 0]
    /\ UNCHANGED <<caddy, memo, table, call, holder, tampered, demand>>

(* The same set again within ten minutes of a clean apply.                     *)
Suppressible == applying.clean /\ memo.clean /\ memo.set = applying.set
SkipPush ==
    /\ Phase("gate") /\ Suppressible /\ holder.backend = "caddy"
    /\ applying' = NoApply
    /\ UNCHANGED <<caddy, stored, memo, table, call, holder, tampered, demand, chances>>

(* Rendered for the backend held now: routes for Caddy, or files, and no more    *)
(* of this model's concern.                                                       *)
BeginApply ==
    /\ Phase("gate")
    /\ IF holder.backend = "caddy"
       THEN LET alone == caddy.up /\ call = NoCall /\ ~holder.leaving IN
            /\ applying' = [applying EXCEPT !.pc = "ensure", !.pure = @ /\ alone,
                                            !.todo = KeptCerts(applying.set)]
            /\ tampered' = ~(applying.pure /\ alone)
            /\ UNCHANGED memo
       ELSE /\ applying' = NoApply /\ memo' = [set |-> Nowt, clean |-> FALSE]
            /\ UNCHANGED tampered
    /\ UNCHANGED <<caddy, stored, table, call, holder, demand, chances>>

(* One call of the push: it succeeds, or it fails with or without effect; either   *)
(* way the push goes on.                                                            *)
Calls(can, after, onward(_)) ==
    /\ \/ /\ caddy' = Effect(can, after)
          /\ applying' = [onward(Fine(can)) EXCEPT !.clean = @ /\ Fine(can)]
          /\ UNCHANGED chances
       \/ /\ Reaches /\ can /\ Upset("call")
          /\ caddy' \in {caddy, after}
          /\ applying' = [onward(FALSE) EXCEPT !.clean = FALSE, !.pure = FALSE]
    /\ UNCHANGED <<memo, table, call, holder, tampered, demand>>

EnsureServer ==
    /\ Phase("ensure")
    /\ LET onward(ok) == [applying EXCEPT !.pc = "clear"] IN Calls(TRUE, Ensured(caddy), onward)
    /\ UNCHANGED stored

ClearRoutes ==
    /\ Phase("clear")
    /\ LET onward(ok) == [applying EXCEPT !.pc = "tls"] IN Calls(CanClear, Cleared(caddy), onward)
    /\ UNCHANGED stored

ApplyServerTLS ==
    /\ Phase("tls")
    /\ LET onward(ok) == [applying EXCEPT !.pc = "add"] IN
       \/ Calls(TRUE, EnsureServerTLS(caddy, applying.set), onward)
       \/ \* only its first calls took effect
          /\ Reaches /\ Upset("call")
          /\ caddy' \in {Ensured(caddy), Https(Ensured(caddy), applying.set)}
          /\ applying' = [onward(FALSE) EXCEPT !.clean = FALSE, !.pure = FALSE]
          /\ UNCHANGED <<memo, table, call, holder, tampered, demand>>
    /\ UNCHANGED stored

AddRoute(s) ==
    /\ Phase("add") /\ s \in applying.todo
    /\ LET onward(ok) == [applying EXCEPT !.todo = @ \ {s}, !.kept = IF ok THEN @ \cup {s} ELSE @]
       IN  Calls(CanAdd(s), Added(caddy, s, applying.set[s].policy), onward)
    /\ UNCHANGED stored

(* The routes that are live and were not added by this push.                   *)
Orphans(kept) == {s \in Sites : caddy.live[s] # "none" /\ s \notin kept}

Prune ==
    /\ Phase("add") /\ applying.todo = {}
    /\ LET onward(ok) == [applying EXCEPT !.pc = "end"] IN Calls(caddy.srv = "ready", caddy, onward)
    /\ stored' = IF ~Reaches \/ (applying'.clean # applying.clean) THEN stored
                 ELSE [s \in Sites |-> IF s \in Orphans(applying.kept) THEN 0 ELSE stored[s]]

EndApply ==
    /\ Phase("end")
    /\ memo' = [set |-> applying.set, clean |-> applying.clean]
    /\ applying' = NoApply
    /\ UNCHANGED <<caddy, stored, table, call, holder, tampered, demand, chances>>
-----------------------------------------------------------------------------
(* The agent's local API: one call, step by step, beside the push.              *)

OpenCall ==
    /\ call = NoCall /\ Upset("api")
    /\ \/ \E w \in SUBSET Sites : call' = [op |-> "sync", pc |-> "clear", sites |-> w, todo |-> w]
       \/ \E s \in Sites : call' = [op |-> "add", pc |-> "ensure", sites |-> {s}, todo |-> {s}]
       \/ \E s \in table : call' = [op |-> "delete", pc |-> "remove", sites |-> {s}, todo |-> {}]
    /\ Tainted
    /\ UNCHANGED <<caddy, stored, memo, table, holder, demand>>

Step(can, after, onward) ==
    /\ caddy' = Effect(can, after)
    /\ call' = onward
    /\ UNCHANGED <<memo, holder, demand, chances>>
    /\ Tainted

ApiClears ==
    /\ call.pc = "clear"
    /\ Step(CanClear, Cleared(caddy), [call EXCEPT !.pc = "ensure"])
    /\ UNCHANGED <<stored, table>>

ApiEnsures ==
    /\ call.pc = "ensure"
    /\ Step(TRUE, Ensured(caddy), [call EXCEPT !.pc = IF call.op = "add" /\ call.sites \subseteq table
                                                     THEN "remove" ELSE "add"])
    /\ UNCHANGED <<stored, table>>

(* RemoveRoute: the certificate of the route's host is scrubbed first, also when the *)
(* route is only to be replaced; a deletion that fails is reported and forgotten.      *)
ApiRemoves(s) ==
    /\ call.pc = "remove" /\ s \in call.sites
    /\ LET live == caddy.live[s] # "none" IN
       /\ Step(live, Removed(caddy, s), IF call.op = "add" THEN [call EXCEPT !.pc = "add"] ELSE NoCall)
       /\ stored' = IF Reaches /\ live THEN [stored EXCEPT ![s] = 0] ELSE stored
       /\ table' = IF call.op = "delete" /\ Fine(live) THEN table \ {s} ELSE table

ApiAdds(s) ==
    /\ call.pc = "add" /\ s \in call.todo
    /\ Step(CanAdd(s), Added(caddy, s, "raw"),
            IF call.op = "add" THEN NoCall ELSE [call EXCEPT !.todo = @ \ {s}])
    /\ table' = IF call.op = "add" /\ Fine(CanAdd(s)) THEN table \cup {s} ELSE table
    /\ UNCHANGED stored

ApiSynced ==
    /\ call.op = "sync" /\ call.pc = "add" /\ call.todo = {}
    /\ table' = call.sites /\ call' = NoCall
    /\ UNCHANGED <<caddy, stored, applying, memo, holder, tampered, demand, chances>>
-----------------------------------------------------------------------------
(* The holder, Caddy and the agent.                                           *)

(* To the host's own proxy: Caddy is stopped, then the backend replaced.        *)
StopCaddy ==
    /\ holder.backend = "caddy" /\ ~holder.leaving /\ Upset("switch")
    /\ caddy' = [Blank EXCEPT !.up = FALSE]
    /\ holder' = [holder EXCEPT !.leaving = TRUE]
    /\ Tainted
    /\ UNCHANGED <<stored, memo, table, call, demand>>

SwapExisting ==
    /\ holder.leaving
    /\ holder' = [backend |-> "files", leaving |-> FALSE]
    /\ UNCHANGED <<caddy, stored, applying, memo, table, call, tampered, demand, chances>>

(* Back: the holder cannot start Caddy.                                        *)
SwapBuiltIn ==
    /\ holder.backend = "files" /\ Upset("switch")
    /\ holder' = [backend |-> "caddy", leaving |-> FALSE]
    /\ UNCHANGED <<caddy, stored, applying, memo, table, call, tampered, demand>>

CaddyExits ==
    /\ caddy.up /\ Upset("exit")
    /\ caddy' = [Blank EXCEPT !.up = FALSE]
    /\ Tainted
    /\ UNCHANGED <<stored, memo, table, call, holder, demand>>

(* The agent starts Caddy with an empty configuration; its store is kept.       *)
AgentRestarts ==
    /\ Upset("restart")
    /\ caddy' = Blank /\ applying' = NoApply /\ memo' = [set |-> Nowt, clean |-> FALSE]
    /\ table' = {} /\ call' = NoCall /\ holder' = [backend |-> "caddy", leaving |-> FALSE]
    /\ tampered' = FALSE
    /\ UNCHANGED <<stored, demand>>

PushNext == (\E w \in demand.sets : Receive(w)) \/ InstallCerts \/ SkipPush \/ BeginApply \/ EnsureServer
            \/ ClearRoutes \/ ApplyServerTLS \/ (\E s \in Sites : AddRoute(s)) \/ Prune \/ EndApply
ApiNext  == OpenCall \/ ApiClears \/ ApiEnsures \/ (\E s \in Sites : ApiRemoves(s) \/ ApiAdds(s)) \/ ApiSynced
CaddyNext == PushNext \/ ApiNext \/ StopCaddy \/ SwapExisting \/ SwapBuiltIn \/ CaddyExits \/ AgentRestarts
CaddySpec == CaddyInit /\ [][CaddyNext]_caddyVars
-----------------------------------------------------------------------------
(* The certificate a host is served with is the one of the push, and Caddy does not  *)
(* ask for one of its own; a host that manages its own is left to Caddy.               *)
ServedRight(s, w) ==
    /\ caddy.live[s] = w.policy
    /\ w.policy = "central" =>
          /\ caddy.loads[s] = stored[s] /\ (w.cert # 0 => stored[s] = w.cert)
          /\ caddy.auto => s \in caddy.skip
          /\ stored[s] # 0 => caddy.auto \/ caddy.policies
    /\ w.policy = "self-acme" => caddy.auto /\ s \notin caddy.skip
    /\ w.policy = "off" => ~caddy.auto \/ s \in caddy.skip

(* Whatever state others, failed calls and restarts have left Caddy and the store in, *)
(* a push that meets with nothing itself ends clean, with every host of the set live    *)
(* and served as it asks, its certificate still in the store, and with no other; and      *)
(* one that is skipped leaves that so, unless others have changed Caddy since.              *)
Concluded == Phase("end") /\ applying' = NoApply /\ holder' = holder /\ memo'.set = applying.set
Skipped   == Phase("gate") /\ applying' = NoApply /\ holder.backend = "caddy" /\ memo' = memo /\ memo.clean
CaddyServes ==
    [][(Concluded /\ applying.pure) \/ (Skipped /\ ~tampered)
        => applying.clean /\ \A s \in Sites : ServedRight(s, applying.set[s])]_caddyVars
================================================================================
