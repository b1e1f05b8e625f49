-------------------------------- MODULE Diagnosis --------------------------------
(***************************************************************************)
(* What the agent makes of a failing proxy, and what it repairs by itself:  *)
(* the failure read off a command's output (proxy/failure.go and the        *)
(* backends' attribution.go), its diagnosis (recovery/classifier.go), and   *)
(* the coordinator that inspects the files at every push, offers repairs    *)
(* for what it finds, observes what fails, and repairs by itself or on a    *)
(* user's request (recovery/coordinator.go, driven by stream/stream.go).    *)
(*                                                                          *)
(* One host name.  Its generated file is "vhost" among the available files, *)
(* "link" activates it, "temp" is what an apply cut off leaves; "own" is an *)
(* operator's file beside it, "alias" an operator's link to the vhost, and  *)
(* "main" the proxy's main configuration, outside the managed roots.  The   *)
(* flat layout has no links.  How a repair touches its files one by one is  *)
(* RepairFiles.tla; here it takes them all or puts them back.               *)
(***************************************************************************)
EXTENDS Naturals, Sequences, FiniteSets

CONSTANT
    SickHosts   \* the layout, the files found, the repair policy, the failures that may be
                \* reported, and how many pushes, edits and mishaps of which kind there are

FilePlaces == {"vhost", "link", "temp", "own", "alias", "main"}
Wants == {"none", "route", "kept"}     \* not wanted, routed, or under review

VARIABLES
    inSites,     \* what is at each place: its kind, its inode and whose text or where it leads
    unused,     \* the next inode
    want,       \* what the last push wants of the host
    turn,       \* where the stream is in a push, what is left to repair, the failure to observe
    notes,      \* the coordinator's active diagnostics, by their identity
    offers,     \* its candidates, by the identity of their diagnostic
    latches,    \* the breaker: keys that a failed rollback latched
    incidents,  \* the diagnostics of operations that ended in a failed rollback
    finding,    \* history: the last failure observed, with its diagnosis
    aged,       \* history: the offers that stand and are not of the last inspection: it failed,
                \* or they are kept with the diagnostic of an incident
    cleared,    \* history: what the last repair removed
    supply      \* the case, with what is left of its bounds

diagnosisVars == <<inSites, unused, want, turn, notes, offers, latches, incidents, finding, aged, cleared, supply>>
-----------------------------------------------------------------------------
(* What a command's output says: proxy.NewFailure.  A report has the phase,    *)
(* how the command ended, and the lines it wrote; a line says one thing and    *)
(* may name a place.                                                           *)

Told(f, what) == \E i \in DOMAIN f.lines : f.lines[i].says \in what

\* permissionOutput, and the permission pattern of the attributions.
HostRefused(r) == r.cause = "eacces" \/ Told(r, {"denied", "sudo"})

\* isBinaryMissing: the proxy's own program, started by the agent or through sudo; never
\* the operator's override command.
ProgramMissing(r) == r.cause = "absent" \/ (r.cause = "sudo" /\ Told(r, {"no program"}))

\* classifyKnownOutput: Apache names the file only in the line after the syntax error's.
CertificateLines == {"no cert", "no key", "mismatch"}
Recognised(backend, lines, i) ==
    /\ lines[i].says \in CertificateLines
    /\ backend = "apache" /\ lines[i].says # "mismatch" => i > 1 /\ lines[i - 1].says = "error"
CertificateFlags(backend, lines) == {lines[i].says : i \in {j \in DOMAIN lines : Recognised(backend, lines, j)}}

\* AttributeConfigtestError, AttributeNginxTestError: the last line that names a place; of
\* nginx' lines the warnings do not count.
ApacheNames(lines) == {i \in DOMAIN lines : lines[i].at # "none"}
NginxNames(lines) == {i \in ApacheNames(lines) : lines[i].says # "warning"}
LastNamed(backend, lines) ==
    LET naming == IF backend = "nginx" THEN NginxNames(lines) ELSE ApacheNames(lines)
    IN  IF naming = {} THEN "none" ELSE lines[CHOOSE i \in naming : \A j \in naming : j <= i].at

\* validationFailure; only a failed test names a place.
FailureOf(backend, r) ==
    [phase |-> r.phase, lines |-> r.lines, missing |-> ProgramMissing(r), refused |-> HostRefused(r),
     certs |-> CertificateFlags(backend, r.lines),
     at |-> IF r.phase = "validate" THEN LastNamed(backend, r.lines) ELSE "none"]
-----------------------------------------------------------------------------
(* The files, as the path guard and the layout see them. *)

Entry(p) == inSites[p]
LeadsTo(p) == IF Entry(p).kind = "link" THEN Entry(p).text ELSE p

\* PathGuard.Resolve: within the managed roots, a link too.
WithinRoots(p) == p # "main" /\ LeadsTo(p) # "outside"

\* isManagedConfig, isManagedTemp: by name.
NamedManaged(p) == p \in {"vhost", "link"}
NamedTemp(p) == p = "temp"

\* markerInExactLayout: a file among the available ones, or its link of the same name.
InExactLayout(p) ==
    \/ p \in {"vhost", "temp", "own"} /\ Entry(p).kind = "file"
    \/ supply.layout = "sites" /\ p = "link" /\ Entry(p).kind = "link" /\ Entry(p).text = "vhost"

\* hasManagedArtifactProvenance: the generated marker stands in the file itself.
CarriesMarker(p) == LET q == LeadsTo(p) IN q # "outside" /\ Entry(q).kind = "file" /\ Entry(q).text = "ours"

\* applyIntents, desiredTarget: the stream's desired resources are always generated and
\* live, and name no certificate files.
DesiredResources ==
    IF want = "route"
    THEN {[target |-> "vhost", source |-> "generated", state |-> "live", drifted |-> FALSE,
           crt |-> "none", plain |-> "none"]}
    ELSE {}
KeepTargets == IF want \in {"route", "kept"} THEN {"vhost"} ELSE {}

\* resourceOwnership
OwnerOf(resource) ==
    CASE resource.source = "manual" \/ resource.drifted \/ resource.state = "drifted" -> "operator"
      [] resource.source = "generated" /\ resource.state \in {"live", "apply_failed"} -> "nurproxy"
      [] OTHER -> "unknown"

\* matchDesiredTarget: the file itself, or the link that activates it.
\* Mutant: the link is not known to be the file's.
MutDesiredAt(p) == {r \in DesiredResources : Entry(r.target).kind # "link" /\ p = r.target}
DesiredAt(p) ==
    {r \in DesiredResources :
        /\ Entry(r.target).kind # "link"
        /\ p = r.target \/ (InExactLayout(p) /\ Entry(p).kind = "link" /\ LeadsTo(p) = r.target)}
-----------------------------------------------------------------------------
(* The diagnosis. *)

Verdict(code, owner, action, scope, refusal, hard, eligible, places) ==
    [code |-> code, owner |-> owner, action |-> action, scope |-> scope, refusal |-> refusal,
     hard |-> hard, eligible |-> eligible, auto |-> eligible /\ ~hard, places |-> places]

UnknownFailure == Verdict("unknown_proxy_error", "unknown", "none", "ambiguous", "unknown_proxy_error", FALSE, FALSE, {})
HardSystem(code, scope, refusal) == Verdict(code, "system", "none", scope, refusal, TRUE, refusal = "none", {})
OfFile(code, owner, action, refusal, p) ==
    Verdict(code, owner, action, "exact_provenanced_file", refusal, FALSE, refusal = "none", {p})

\* permissionEnvironmentRefusal: the first that is told, in this order.
Environments == <<"read-only", "access control", "immutable", "acl">>
RefusedBy(f) ==
    LET told == {i \in DOMAIN Environments : Told(f, {Environments[i]})}
    IN  IF told = {} THEN "none" ELSE Environments[CHOOSE i \in told : \A j \in told : i <= j]

PermissionVerdict(f) ==
    CASE Told(f, {"staging"}) /\ Len(f.lines) = 1 -> HardSystem("permission_denied", "exclusive_managed_directory", "none")
      [] RefusedBy(f) # "none" -> HardSystem("permission_denied", "unsupported_environment", RefusedBy(f))
      [] OTHER -> HardSystem("permission_denied", "ambiguous", "permission_scope_ambiguous")

\* classifyReferencedFailure: a certificate failure belongs to the one resource whose files
\* it names.
RefersTo(f, resource) ==
    \E what \in f.certs : (IF what = "no cert" THEN "crt" ELSE "plain") \in {resource.crt, resource.plain}
ReferencedVerdict(f) ==
    LET matched == {r \in DesiredResources : RefersTo(f, r)}
    IN  IF Cardinality(matched) # 1 THEN UnknownFailure
        ELSE LET owner == OwnerOf(CHOOSE r \in matched : TRUE) IN
             IF owner = "unknown" THEN UnknownFailure
             ELSE OfFile("managed_certificate", owner, "rematerialize", IF owner = "nurproxy" THEN "none" ELSE "managed_bundle_unavailable", "vhost")

\* classifyLocatedFailure: first what is desired at the place, then what is marked there.
LocatedVerdict(p) ==
    IF p = "none" \/ ~WithinRoots(p) THEN UnknownFailure
    ELSE IF Cardinality(DesiredAt(p)) = 1
    THEN LET owner == OwnerOf(CHOOSE r \in DesiredAt(p) : TRUE) IN
         CASE owner = "unknown" -> UnknownFailure
           [] owner = "operator" -> OfFile("operator_config_invalid", owner, "none", "restore_needs_known_hash", p)
           [] OTHER -> OfFile("generated_config_invalid", owner, "none", "restore_needs_known_hash", p)
    ELSE CASE InExactLayout(p) /\ CarriesMarker(p) /\ NamedTemp(p) -> OfFile("managed_stale_temp", "nurproxy", "temp", "none", p)
           [] InExactLayout(p) /\ CarriesMarker(p) /\ NamedManaged(p) -> OfFile("managed_orphan_config", "nurproxy", "prune", "none", p)
           [] OTHER -> OfFile("operator_config_invalid", "operator", "none", "operator_owned_config", p)

\* validFailureMetadata: one thing at a time, and certificates only when a test fails.
OneThing(f) ==
    /\ (IF f.missing THEN 1 ELSE 0) + (IF f.refused THEN 1 ELSE 0) + Cardinality(f.certs) <= 1
    /\ f.certs # {} => f.phase = "validate"

SandboxDenied(f) == Told(f, {"namespace"})
PortTaken(f) == Told(f, {"port in use"})
NotRunning(f) == Told(f, {"no pid"})

\* classifyFailure, in its order.
Classify(f) ==
    CASE ~OneThing(f) -> UnknownFailure
      [] f.missing -> HardSystem("proxy_binary_missing", "supported_package", "none")
      [] SandboxDenied(f) -> HardSystem("systemd_sandbox_denied", "agent_sandbox", "none")
      [] f.refused -> PermissionVerdict(f)
      [] PortTaken(f) -> HardSystem("port_conflict", "unsupported_environment", "process_killing_unsupported")
      [] NotRunning(f) -> HardSystem("proxy_not_running", "detected_proxy_service", "none")
      [] f.phase = "reload" -> HardSystem("proxy_reload_failed", "detected_proxy_service", "none")
      [] f.certs # {} -> ReferencedVerdict(f)
      [] OTHER -> LocatedVerdict(f.at)

\* An error that is no proxy failure has no diagnosis but that.
Diagnose(r) == IF r.cause = "other error" THEN UnknownFailure ELSE Classify(FailureOf(supply.backend, r))

\* Diagnostic.Validate, of what a diagnosis decides.
ValidDiagnostic(d) ==
    /\ d.eligible => d.refusal = "none"
    /\ d.auto => d.owner = "nurproxy" /\ ~d.hard /\ d.action # "none"

\* HardDiagnosticFingerprint, with the places resolved; StableDiagnosticID.
ObservedId(d) == <<d.code, <<"observed", d.refusal, {LeadsTo(p) : p \in d.places}>> >>

\* HardActionForDiagnostic: what the orchestrator lets a helper plan do about it.
HardActions ==
    {<<"systemd_sandbox_denied", "agent_sandbox">>, <<"permission_denied", "exclusive_managed_directory">>,
     <<"proxy_reload_failed", "detected_proxy_service">>, <<"proxy_not_running", "detected_proxy_service">>,
     <<"proxy_binary_missing", "supported_package">>, <<"unknown_proxy_error", "local_firewall">>}
HasHardAction(d) == <<d.code, d.scope>> \in HardActions
-----------------------------------------------------------------------------
(* The coordinator. *)

\* InspectRecovery: a marked temp, and a marked vhost that is not to be kept, with the link
\* that leads to it.
OrphanPlaces == IF Entry("link").kind = "link" /\ Entry("link").text = "vhost" THEN {"vhost", "link"} ELSE {"vhost"}
IsMarkedFile(p) == Entry(p).kind = "file" /\ Entry(p).text = "ours"
CapturedAt(places) == [p \in places |-> Entry(p)]
OfferedRepairs ==
    (IF IsMarkedFile("temp") THEN {[does |-> "temp", was |-> CapturedAt({"temp"})]} ELSE {}) \cup
    (IF IsMarkedFile("vhost") /\ "vhost" \notin KeepTargets THEN {[does |-> "prune", was |-> CapturedAt(OrphanPlaces)]} ELSE {})

\* diagnosticForCandidate; its fingerprint is not the one an observation has for the file.
OfCandidate(c) ==
    [Verdict(IF c.does = "prune" THEN "managed_orphan_config" ELSE "managed_stale_temp", "nurproxy", c.does,
             "none", "none", FALSE, TRUE, DOMAIN c.was) EXCEPT !.eligible = FALSE]
CandidateId(c) == <<OfCandidate(c).code, <<"inspected", c.does, DOMAIN c.was>> >>

\* recordDiagnostic: an offer made before under that identity stands if there is none now.
Noted(set, id, d) == [i \in DOMAIN set \cup {id} |-> IF i = id THEN d ELSE set[i]]
Only(set, ids) == [i \in DOMAIN set \cap ids |-> set[i]]

\* inspectLocked: what was found replaces what stood, but for the diagnostics of incidents.
InspectedIds == {CandidateId(c) : c \in OfferedRepairs}
Inspected ==
    LET CandidateOf(id) == CHOOSE c \in OfferedRepairs : CandidateId(c) = id
        standing == InspectedIds \cup incidents
    IN  /\ notes' = [id \in InspectedIds \cup (DOMAIN notes \cap standing) |->
                        IF id \in InspectedIds THEN OfCandidate(CandidateOf(id)) ELSE notes[id]]
        /\ offers' = [id \in InspectedIds \cup (DOMAIN offers \cap standing) |->
                        IF id \in InspectedIds THEN CandidateOf(id) ELSE offers[id]]
        /\ aged' = {offers[id] : id \in (DOMAIN offers \cap incidents) \ InspectedIds} \ OfferedRepairs

\* Observe: the diagnosis, with an offer of the same action on a common path.
Matching(d) == {c \in {offers[id] : id \in DOMAIN offers} : c.does = d.action /\ DOMAIN c.was \cap d.places # {}}
Observed(r) ==
    LET d == Diagnose(r) IN
    /\ finding' = [report |-> r, verdict |-> d]
    /\ notes' = Noted(notes, ObservedId(d), d)
    /\ IF Matching(d) = {} THEN UNCHANGED offers
       ELSE \E c \in Matching(d) : offers' = Noted(offers, ObservedId(d), c)

\* repairLocked: the offer must be the diagnostic's, the diagnostic safe to act on, the
\* policy in favour unless a user asks, the breaker closed (Breaker.tla; here it opens after
\* so many failures and stays open), every path within the roots.
KeyOf(id) == <<notes[id].action, id[2]>>
Repairable(id, source) ==
    /\ id \in DOMAIN offers /\ offers[id].does = notes[id].action
    /\ notes[id].auto /\ ~notes[id].hard /\ notes[id].owner = "nurproxy"
    /\ source = "automatic" => supply.policy
    /\ KeyOf(id) \notin latches /\ supply.failures > 0
    /\ \A p \in DOMAIN offers[id].was : WithinRoots(p)

\* RemoveRecoveryCandidatePaths: every identity is rechecked before anything is removed.
\* Mutant: the files are removed by their names.
MutStillInspected(c) == TRUE
StillInspected(c) == \A p \in DOMAIN c.was : Entry(p) = c.was[p]

NoEntry == [kind |-> "absent", ino |-> 0, text |-> "none"]
Without(places) == [p \in FilePlaces |-> IF p \in places THEN NoEntry ELSE inSites[p]]
\* What is restored is a new file with the old content.
PutBackAll(places) ==
    [p \in FilePlaces |-> IF p \in places /\ Entry(p).kind # "absent" THEN [Entry(p) EXCEPT !.ino = unused] ELSE inSites[p]]

\* What a repair removed, with what was wanted of the host when it did.
Removal(c) == {[at |-> p, entry |-> Entry(p), wish |-> want, aged |-> c \in aged] : p \in DOMAIN c.was}

Strikes(kind) == supply.count > 0 /\ kind \in supply.mishaps /\ supply' = [supply EXCEPT !.count = @ - 1]

\* The repair succeeds.
Repaired(id) ==
    /\ inSites' = Without(DOMAIN offers[id].was) /\ cleared' = Removal(offers[id])
    /\ notes' = Only(notes, DOMAIN notes \ {id}) /\ offers' = Only(offers, DOMAIN offers \ {id})
    /\ UNCHANGED <<unused, latches, incidents, supply>>

\* rollbackLocked: the files changed, or the repaired files are refused; they are restored,
\* or not all of them, which latches the breaker for good.
RepairUndone(id) ==
    LET places == DOMAIN offers[id].was IN
    /\ StillInspected(offers[id]) => "refused" \in supply.mishaps
    /\ cleared' = IF StillInspected(offers[id]) THEN Removal(offers[id]) ELSE cleared
    /\ supply' = [supply EXCEPT !.failures = @ - 1]
    /\ unused' = unused + 1
    /\ \/ inSites' = PutBackAll(places) /\ UNCHANGED <<latches, incidents>>
       \/ /\ "broken" \in supply.mishaps
          /\ inSites' \in {PutBackAll(places), IF StillInspected(offers[id]) THEN Without(places) ELSE PutBackAll(places)}
          /\ latches' = latches \cup {KeyOf(id)} /\ incidents' = incidents \cup {id}
    /\ UNCHANGED <<notes, offers>>

Repair(id, source) ==
    IF ~Repairable(id, source)
    THEN UNCHANGED <<inSites, unused, notes, offers, latches, incidents, cleared, supply>>
    ELSE (StillInspected(offers[id]) /\ Repaired(id)) \/ RepairUndone(id)
-----------------------------------------------------------------------------
(* The stream: one event at a time. *)

NoReport == [phase |-> "none", cause |-> "none", lines |-> <<>>]
NoFinding == [report |-> NoReport, verdict |-> UnknownFailure]
TurnTo(at, todo) == turn' = [at |-> at, left |-> todo, report |-> NoReport]
Coordinator == <<notes, offers, latches, incidents>>
Past == <<finding, aged, cleared>>

\* applyIntents: SetDesired, then Inspect.
BeginPush(w) ==
    /\ turn.at = "idle" /\ supply.pushes > 0
    /\ want' = w /\ supply' = [supply EXCEPT !.pushes = @ - 1]
    /\ TurnTo("inspect", {}) /\ cleared' = {}
    /\ UNCHANGED <<inSites, unused, Coordinator, finding, aged>>

InspectPush ==
    /\ turn.at \in {"inspect", "confirm"}
    /\ Inspected
    /\ IF turn.at = "inspect" THEN TurnTo("repair", InspectedIds) ELSE TurnTo("idle", {})
    /\ UNCHANGED <<inSites, unused, want, latches, incidents, finding, cleared, supply>>

\* A directory that cannot be read: what stood stands.
InspectionFails ==
    /\ turn.at \in {"inspect", "confirm"} /\ Strikes("unreadable")
    /\ aged' = {offers[id] : id \in DOMAIN offers}
    /\ TurnTo(IF turn.at = "inspect" THEN "apply" ELSE "idle", {})
    /\ UNCHANGED <<inSites, unused, want, Coordinator, finding, cleared>>

RepairFound(id) ==
    /\ turn.at \in {"repair", "observed"} /\ id \in turn.left
    /\ Repair(id, "automatic")
    /\ turn' = [turn EXCEPT !.left = @ \ {id}]
    /\ UNCHANGED <<want, finding, aged>>
RepairsDone ==
    /\ turn.at \in {"repair", "observed"} /\ turn.left = {}
    /\ TurnTo(IF turn.at = "repair" THEN "apply" ELSE "idle", {})
    /\ finding' = NoFinding
    /\ UNCHANGED <<inSites, unused, want, Coordinator, aged, cleared, supply>>

\* The files of a route are written in place, those of an orphan removed; ProxyFiles.tla
\* has the steps of it.
InPlace(entry, kind, text) ==
    [kind |-> kind, ino |-> IF entry.kind = "absent" THEN unused ELSE entry.ino, text |-> text]
Staged ==
    [inSites EXCEPT !["vhost"] = InPlace(@, "file", "ours"),
                   !["temp"] = InPlace(@, "file", "ours"),
                   !["link"] = IF supply.layout = "sites" THEN InPlace(@, "link", "vhost") ELSE @]
Applied ==
    /\ turn.at = "apply"
    /\ inSites' = CASE want = "route" -> [Staged EXCEPT !["temp"] = NoEntry]
                   [] want = "none" /\ IsMarkedFile("vhost") -> Without(OrphanPlaces)
                   [] OTHER -> inSites
    /\ unused' = unused + 1
    /\ TurnTo("confirm", {})
    /\ UNCHANGED <<want, Coordinator, Past, supply>>

\* What the test reads: the files that are there, those just staged among them.
Tested == {p \in FilePlaces : Entry(p).kind # "absent" \/ (want = "route" /\ Staged[p].kind # "absent")}

\* The apply fails, and has put the files back before the failure is observed.
ApplyFails(r) ==
    /\ turn.at = "apply" /\ r \in supply.reports
    /\ \A i \in DOMAIN r.lines : r.lines[i].at \in {"none", "main"} \cup Tested
    /\ inSites' = IF want = "route" THEN Without({"temp"}) ELSE inSites
    /\ turn' = [at |-> "report", left |-> {}, report |-> r]
    /\ UNCHANGED <<unused, want, Coordinator, Past, supply>>

\* observeRecovery
ObserveFailure ==
    /\ turn.at = "report"
    /\ Observed(turn.report)
    /\ LET d == Diagnose(turn.report) IN TurnTo("observed", IF d.auto THEN {ObservedId(d)} ELSE {})
    /\ UNCHANGED <<inSites, unused, want, latches, incidents, aged, cleared, supply>>

\* handleRepair: what the orchestrator passes on to the agent; HandleRequest.
PassedOn(d) == d.owner = "nurproxy" /\ ~d.hard /\ d.auto /\ d.action # "none"
UserRequest(id) ==
    /\ turn.at = "idle" /\ id \in DOMAIN notes /\ PassedOn(notes[id])
    /\ Repair(id, "user")
    /\ UNCHANGED <<want, turn, finding, aged>>

\* The agent dies in an apply; of its diagnostics only those of incidents return, with no
\* offer.
AgentDies ==
    /\ turn.at = "apply" /\ Strikes("crash")
    /\ inSites' = IF want = "route" THEN Staged ELSE inSites
    /\ unused' = unused + 1
    /\ notes' = Only(notes, incidents) /\ offers' = <<>>
    /\ TurnTo("idle", {})
    /\ UNCHANGED <<want, latches, incidents, Past>>

\* The operator edits a file in place, puts another in its place, or removes it.
OperatorTouches(p) ==
    /\ Strikes("edit") /\ Entry(p).kind # "absent"
    /\ inSites' \in {[inSites EXCEPT ![p].text = IF Entry(p).kind = "link" THEN "outside" ELSE "theirs"],
                    [inSites EXCEPT ![p] = [kind |-> "file", ino |-> unused, text |-> "theirs"]],
                    Without({p})}
    /\ unused' = unused + 1
    /\ UNCHANGED <<want, turn, Coordinator, Past>>
-----------------------------------------------------------------------------
EntryFor(found, p) ==
    IF p \notin DOMAIN found THEN NoEntry
    ELSE [kind |-> IF p \in {"link", "alias"} THEN "link" ELSE "file", ino |-> 1, text |-> found[p]]

DiagnosisInit ==
    /\ supply \in SickHosts
    /\ inSites = [p \in FilePlaces |-> EntryFor(supply.files, p)]
    /\ unused = 2 /\ want = "none"
    /\ turn = [at |-> "idle", left |-> {}, report |-> NoReport]
    /\ notes = <<>> /\ offers = <<>> /\ latches = {} /\ incidents = {}
    /\ finding = NoFinding /\ aged = {} /\ cleared = {}

DiagnosisNext ==
    \/ \E w \in Wants : BeginPush(w)
    \/ InspectPush \/ InspectionFails \/ RepairsDone \/ Applied \/ ObserveFailure \/ AgentDies
    \/ \E id \in turn.left : RepairFound(id)
    \/ \E r \in supply.reports : ApplyFails(r)
    \/ \E id \in DOMAIN notes : UserRequest(id)
    \/ \E p \in {"vhost", "link", "temp"} : OperatorTouches(p)
DiagnosisSpec == DiagnosisInit /\ [][DiagnosisNext]_diagnosisVars
-----------------------------------------------------------------------------
(* Properties. *)

\* The place a verdict is about holds a file of NurProxy's: the vhost, its link, or a temp.
OfNurProxy(p) == CarriesMarker(p) /\ InExactLayout(p) /\ p # "own"

\* classifier.go: what may be repaired without asking is a marked file in its exact place
\* that no route wants; a file of NurProxy's is never called the operator's; a change of the
\* host is never automatic, is offered only with one action of the helper, and what the host
\* refused is not blamed on a file.
JustVerdict(r, d) ==
    /\ ValidDiagnostic(d)
    /\ d.auto => \A p \in d.places : OfNurProxy(p) /\ (p # "temp" => want # "route")
    /\ d.owner = "operator" => \A p \in d.places : ~OfNurProxy(p)
    /\ HasHardAction(d) <=> d.hard /\ d.eligible
    /\ HostRefused(r) => d.places = {}
DiagnosedAsIs == [][finding' \notin {finding, NoFinding} => JustVerdict(finding'.report, finding'.verdict)]_diagnosisVars

\* coordinator.go, proxy/recoverypath.go: what a repair removes is a marked file, or the link
\* that leads to it, of a host that is not wanted, however old the offer, whoever asks, and
\* whatever became of the file since.  The offer may be of a time when the host was not
\* wanted only if the last inspection failed, or if it is kept with an incident's diagnostic.
RepairsOnlyItsOwn ==
    \A c \in cleared :
        /\ c.entry.text = (IF c.at = "link" THEN "vhost" ELSE "ours")
        /\ c.at # "temp" => c.wish = "none" \/ c.aged
=============================================================================
