----------------------------- MODULE MCComponents -----------------------------
(* Components that share no state: in each behaviour one of them, the others      *)
(* have nothing to do.                                                             *)
EXTENDS Breaker, MCAgentAnchors, ProxyFiles, BuiltInCaddy, MCHelperActions,
        RepairFiles, MCVirtualHosts, MCDiagnosis, TLC
CONSTANTS h1, h2, s1, s2

-------------------------------------------------------------------------------
(* Instances of ProxyFiles.                                                    *)
Wish(u, c)    == [use |-> u, cert |-> c]
Both(w1, w2)  == (h1 :> w1) @@ (h2 :> w2)
Nothing       == Wish("none", 0)
(* A rendered host with its first or its renewed certificate, next to another.  *)
MCSets == {Both(Wish("rendered", 1), Wish("rendered", 0)), Both(Wish("rendered", 2), Wish("rendered", 0)),
           Both(Nothing, Wish("rendered", 0)), Both(Wish("raw", 1), Nothing), Both(Wish("raw", 2), Nothing),
           Both(Wish("held", 0), Wish("rendered", 0)), Both(Wish("only", 1), Nothing), Both(Nothing, Nothing)}
AllMishaps == {"disk", "command", "crash", "operator"}
Setting(layouts, n) == [layout : layouts, sets : {MCSets}, pushes : {3}, mishaps : {AllMishaps}, count : {n}]
MCSetups == Setting({"sites"}, 2) \cup Setting({"confd", "custom"}, 1)

-------------------------------------------------------------------------------
(* Instances of BuiltInCaddy.                                                  *)
Pair(p1, c1, p2, c2) == (s1 :> [policy |-> p1, cert |-> c1]) @@ (s2 :> [policy |-> p2, cert |-> c2])
(* A host that is deleted, whose certificate is renewed or pending, next to one    *)
(* that is Caddy's own affair, or is not.                                            *)
MCDemandSets == {Pair("central", 1, "self-acme", 0), Pair("central", 2, "off", 0),
                 Pair("none", 0, "central", 1), Pair("central", 0, "raw", 0)}
Pushes(n, u, k) == [sets |-> MCDemandSets, pushes |-> n, upsets |-> u, count |-> k]
MCDemands == {Pushes(3, {"call", "disk", "exit", "restart"}, 2), Pushes(2, {"api", "switch", "restart"}, 2),
              Pushes(3, {"api"}, 1)}

-------------------------------------------------------------------------------
(* Small instances of RepairFiles: an orphan of three files, a stale temporary   *)
(* file, and certificates with a file missing or out of step.                    *)
Holding(content) == [p \in Roles |-> IF p \in DOMAIN content THEN content[p] ELSE 0]
OnHost(content, wanted, materialize, edits, count, crashes) ==
    [files |-> Holding(content), wanted |-> wanted, materialize |-> materialize, edits |-> edits,
     count |-> count, crashes |-> crashes]
SiteFiles == ("vhost" :> 1) @@ ("link" :> 1) @@ ("crt" :> 1)
MCRepairCases ==
    {OnHost(SiteFiles, FALSE, FALSE, Disturbances, 1, 1), OnHost(("temp" :> 1), FALSE, FALSE, Disturbances, 2, 1),
     OnHost(("key" :> 1), TRUE, TRUE, {"write", "replace"}, 1, 1), OnHost(("crt" :> 2) @@ ("key" :> 1) @@ ("plain" :> 1), TRUE, FALSE, {"write", "replace"}, 1, 1),
     OnHost(("crt" :> 1) @@ ("key" :> 1), TRUE, FALSE, {"write", "replace"}, 1, 2),
     OnHost(("crt" :> 1) @@ ("key" :> 1), TRUE, FALSE, {"replace", "remove"}, 2, 0)}
-------------------------------------------------------------------------------

\* The breakers: a window of 2 ticks and an open time of 4 (in the cfg) stand for a quarter of
\* an hour and an hour.  Without a fault, long enough for a breaker to open and close and open
\* again; with every fault, for a shorter time.
Case(faults, horizon, failures) == [faults |-> faults, horizon |-> horizon, failures |-> failures]
MCCases == {Case({}, 8, 4), Case({"disk", "slip", "crash"}, 5, 3)}

breakerVars == vars
helperVars  == <<applyVars, taskVars>>

BreakerRests ==
    /\ now = 1 /\ states = [k \in Keys |-> Fresh] /\ disk = states
    /\ available = TRUE /\ attempt = Idle
    /\ manifests = [k \in Keys |-> <<>>] /\ pending = {}
    /\ seen = [k \in Keys |-> Clear] /\ lost = {} /\ case = Case({}, 0, 0)
AnchorsRest ==
    /\ agent = [a \in Agents |-> NoRow] /\ record = <<>>
    /\ domain = [a \in Agents |-> [state |-> "none", target |-> Nowhere]]
    /\ cleanups = {} /\ doomed = {} /\ cycle = Off /\ request = NoOne
    /\ ddns = FALSE /\ events = {} /\ allowance = 0 /\ astray = {}
FilesRest ==
    /\ setup = [layout |-> "sites", sets |-> {}, pushes |-> 0, mishaps |-> {}, count |-> 0]
    /\ vhost = [h \in Hosts |-> NoFile] /\ link = [h \in Hosts |-> "none"] /\ copied = [h \in Hosts |-> NoFile]
    /\ pem = [h \in Hosts |-> NoPem] /\ loaded = [h \in Hosts |-> NoFile]
    /\ pushed = NoPush /\ last = NeverApplied /\ refusals = {} /\ left = [pushes |-> 0, count |-> 0]

CaddyRests ==
    /\ demand = Pushes(0, {}, 0) /\ caddy = Blank /\ stored = [s \in Sites |-> 0]
    /\ applying = NoApply /\ memo = [set |-> Nowt, clean |-> FALSE]
    /\ table = {} /\ call = NoCall /\ holder = [backend |-> "caddy", leaving |-> FALSE]
    /\ tampered = FALSE /\ chances = [pushes |-> 0, count |-> 0]

RepairRests ==
    /\ given = OnHost(<<>>, TRUE, FALSE, {}, 0, 0)
    /\ onDisk = [p \in Roles |-> Vacant] /\ inode = 1 /\ job = [JobIdle EXCEPT !.at = "done"]
    /\ candidate = <<>> /\ guarded = <<>> /\ prepared = <<>> /\ manifest = NoManifestYet
    /\ theirs = [p \in Roles |-> NotEdited] /\ disturbed = {} /\ aimed = {} /\ late = {}
VhostsRest ==
    sheet = [phase |-> "none", proxy |-> "nginx", out |-> NotRendered, mask |-> NoMask, in |-> << >>]

DiagnosisRests ==
    /\ supply = Host("nginx", "confd", <<>>, FALSE, {}, 0, 0, {}, 0)
    /\ inSites = [p \in FilePlaces |-> NoEntry] /\ unused = 1 /\ want = "none"
    /\ turn = [at |-> "rests", left |-> {}, report |-> NoReport]
    /\ notes = <<>> /\ offers = <<>> /\ latches = {} /\ incidents = {}
    /\ finding = NoFinding /\ aged = {} /\ cleared = {}

ComponentsInit ==
    \/ Init /\ AnchorsRest /\ FilesRest /\ CaddyRests /\ HelperRests /\ RepairRests /\ VhostsRest /\ DiagnosisRests
    \/ BreakerRests /\ AnchorInit /\ FilesRest /\ CaddyRests /\ HelperRests /\ RepairRests /\ VhostsRest /\ DiagnosisRests
    \/ BreakerRests /\ AnchorsRest /\ FilesInit /\ CaddyRests /\ HelperRests /\ RepairRests /\ VhostsRest /\ DiagnosisRests
    \/ BreakerRests /\ AnchorsRest /\ FilesRest /\ CaddyInit /\ HelperRests /\ RepairRests /\ VhostsRest /\ DiagnosisRests
    \/ BreakerRests /\ AnchorsRest /\ FilesRest /\ CaddyRests /\ HelperInit /\ RepairRests /\ VhostsRest /\ DiagnosisRests
    \/ BreakerRests /\ AnchorsRest /\ FilesRest /\ CaddyRests /\ HelperRests /\ RepairInit /\ VhostsRest /\ DiagnosisRests
    \/ BreakerRests /\ AnchorsRest /\ FilesRest /\ CaddyRests /\ HelperRests /\ RepairRests /\ VhostInit /\ DiagnosisRests
    \/ BreakerRests /\ AnchorsRest /\ FilesRest /\ CaddyRests /\ HelperRests /\ RepairRests /\ VhostsRest /\ DiagnosisInit
ComponentsNext ==
    \/ case.horizon > 0 /\ Next /\ UNCHANGED <<anchorVars, fileVars, caddyVars, helperVars, repairVars, sheet, diagnosisVars>>
    \/ record # <<>> /\ AnchorNext /\ UNCHANGED <<breakerVars, fileVars, caddyVars, helperVars, repairVars, sheet, diagnosisVars>>
    \/ setup.pushes > 0 /\ FilesNext /\ UNCHANGED <<breakerVars, anchorVars, caddyVars, helperVars, repairVars, sheet, diagnosisVars>>
    \/ demand.pushes > 0 /\ CaddyNext /\ UNCHANGED <<breakerVars, anchorVars, fileVars, helperVars, repairVars, sheet, diagnosisVars>>
    \/ HelperNext /\ UNCHANGED <<breakerVars, anchorVars, fileVars, caddyVars, repairVars, sheet, diagnosisVars>>
    \/ given.edits # {} /\ RepairNext /\ UNCHANGED <<breakerVars, anchorVars, fileVars, caddyVars, helperVars, sheet, diagnosisVars>>
    \/ sheet.phase # "none" /\ VhostNext /\ UNCHANGED <<breakerVars, anchorVars, fileVars, caddyVars, helperVars, repairVars, diagnosisVars>>
    \/ turn.at # "rests" /\ DiagnosisNext /\ UNCHANGED <<breakerVars, anchorVars, fileVars, caddyVars, helperVars, repairVars, sheet>>
ComponentsSpec ==
    ComponentsInit /\ [][ComponentsNext]_<<breakerVars, anchorVars, fileVars, caddyVars, helperVars, repairVars, sheet, diagnosisVars>>
===============================================================================
