---------------------------- MODULE MCOrchestrator ----------------------------
(* The orchestrator's handlers and periodic tasks: domains and their DNS records, *)
(* the rows of agents, certificates, the data directory, and the routes a helper  *)
(* applies.  In each behaviour one of these, and the others have nothing to do.   *)
EXTENDS MCDomainDns, AgentLifecycle, MCCertificates, MCDataDir, MCManagedRoutes
CONSTANTS i1, i2, f1, f2

Life(adopted, events, count, news) ==
    [id |-> i1, fqdn |-> f1, adopted |-> adopted, events |-> events, count |-> count, news |-> news]
\* An agent that runs: what operators do, silence, restarts and lost calls.  A new agent:
\* whether it is adopted, and a data directory that is lost.
MCLives ==
    {Life(TRUE, {"update", "silence"}, 3, 1), Life(TRUE, {"policy", "unreachable", "connect"}, 2, 1),
     Life(TRUE, {"restart", "update", "silence"}, 2, 2),
     Life(FALSE, {"adopt", "update", "silence"}, 3, 1), Life(FALSE, {"adopt", "reject", "delete", "unreachable"}, 3, 1),
     Life(FALSE, {"adopt", "lost"}, 3, 2)}

NoLife == Life(FALSE, {}, 0, 1)
LifecycleRests ==
    /\ spare = NoLife /\ global = "unset"
    /\ host = [pc |-> "absent", id |-> i1, fqdn |-> f1, facts |-> 1, policy |-> "unknown"]
    /\ listed = [i \in Ids |-> Unlisted]
    /\ line = Silent /\ beat = NoBeat /\ sweep = NoSweep
    /\ asked = [s \in Slots |-> NoRequest]
    /\ said = [i \in Ids |-> [fqdn |-> f1, pending |-> TRUE, override |-> "inherit"]]
NoPlan == Plan("none", "none", {n1}, {}, 0)
CertsRest ==
    /\ plan = NoPlan /\ site = plan.site /\ crt = [h \in Sites |-> "none"]
    /\ hold = [h \in Sites |-> NoHold] /\ job = [w \in Workers |-> NoJob]
    /\ round = NoRound /\ clean = NoClean /\ contact = FALSE
DnsRests ==
    /\ ZoneInit /\ row = [d \in Doms |-> Blank] /\ rc = RcIdle
    /\ upd = [d \in Doms |-> Blank] /\ tak = [d \in Doms |-> TakIdle]
    /\ ack = {} /\ left = Once({})

OrchestratorInit ==
    \/ Init /\ LifecycleRests /\ CertsRest /\ DataRests /\ RoutesRest
    \/ DnsRests /\ LifecycleInit /\ CertsRest /\ DataRests /\ RoutesRest
    \/ DnsRests /\ LifecycleRests /\ CertInit /\ DataRests /\ RoutesRest
    \/ DnsRests /\ LifecycleRests /\ CertsRest /\ DataInit /\ RoutesRest
    \/ DnsRests /\ LifecycleRests /\ CertsRest /\ DataRests /\ ManagedRoutesInit
OrchestratorNext ==
    \/ /\ spare = NoLife /\ plan = NoPlan /\ affair = NoAffair /\ tour = NoTour
       /\ Next /\ UNCHANGED <<lifeVars, certVars, dataVars, routeVars>>
    \/ spare # NoLife /\ LifecycleNext /\ UNCHANGED <<vars, certVars, dataVars, routeVars>>
    \/ plan # NoPlan /\ CertNext /\ UNCHANGED <<vars, lifeVars, dataVars, routeVars>>
    \/ affair # NoAffair /\ DataNext /\ UNCHANGED <<vars, lifeVars, certVars, routeVars>>
    \/ tour # NoTour /\ ManagedRoutesNext /\ UNCHANGED <<vars, lifeVars, certVars, dataVars>>
OrchestratorSpec ==
    OrchestratorInit /\ [][OrchestratorNext]_<<vars, lifeVars, certVars, dataVars, routeVars>>
===============================================================================
