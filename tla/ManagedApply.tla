------------------------------ MODULE ManagedApply ------------------------------
(***************************************************************************)
(* What the root helper does to the host in one managed apply                *)
(* (internal/agent/helper/actions_managed_apply_linux.go, ..._converged_,     *)
(* managed_prune_safety_linux.go), for nginx with sites-available and          *)
(* sites-enabled.  HelperEngine has the transaction around it; here are the     *)
(* files: what a signed intent compiles to on the host as it is, in which       *)
(* order it is written, what the workers that run meanwhile refer to, and what   *)
(* a rollback puts back.                                                          *)
(*                                                                           *)
(* A virtual host refers to files of its own name; a configuration an operator   *)
(* wrote elsewhere in those directories (other) may refer to any of them.         *)
(***************************************************************************)
EXTENDS Naturals, FiniteSets

CONSTANTS
    SiteNames,
    Absent,
    OurLink, TheirLink,     \* where an activation link leads
    OldSecret, NewSecret,   \* contents of certificates, keys and auth files
    Unrouted, Tombstone,    \* a host that is not in the intent, one that is to be deleted
    Situations       \* what to consider: the host, the intent, the faults, how many of them

Kinds   == {"vhost", "link", "cert", "auth", "legacy"}
Paths   == Kinds \X SiteNames
Vhost(h) == <<"vhost", h>>
Link(h)  == <<"link", h>>
Cert(h)  == <<"cert", h>>      \* certificate and key: <base>.crt, .key.plain
Auth(h)  == <<"auth", h>>      \* auth/auth-<host>.htpasswd
Legacy(h) == <<"legacy", h>>   \* the same name in the certificate directory, before #147
Of(kinds, H) == kinds \X H

(* A configuration: the kinds of files it refers to, and whose wording it is.   *)
Texts     == [uses : SUBSET {"cert", "auth", "legacy"}, by : {"render", "earlier", "raw", "operator"}]
Files     == [text : Texts, marked : BOOLEAN]
Marked(t) == [text |-> t, marked |-> TRUE]
Plain(t)  == [text |-> t, marked |-> FALSE]

(* A route: raw is the user's own text, or Absent for one that is rendered.     *)
Routes  == [basic : BOOLEAN, raw : Texts \cup {Absent}]
Intents == [route : [SiteNames -> Routes \cup {Unrouted, Tombstone}],
            staged : SUBSET SiteNames, keep : SUBSET SiteNames, prune : BOOLEAN]

Contents == Files \cup {OurLink, TheirLink, OldSecret, NewSecret, Absent}
Faults   == {"write", "sync", "validate", "reload", "edit"}

ASSUME ManagedAssumptions ==
    /\ Absent \notin Files \cup Texts \cup Routes \cup {OurLink, TheirLink, OldSecret, NewSecret}
    /\ Situations \subseteq [disk : [Paths -> Contents], other : [uses : SUBSET Paths, scanned : BOOLEAN],
                        intent : Intents, faults : SUBSET Faults, budget : Nat]
    \* ApplyIntent.Validate: a certificate that is sent is also kept.
    /\ \A c \in Situations : c.intent.staged \subseteq c.intent.keep

VARIABLES
    placed,       \* disk[p]: what is at path p
    other,      \* the operator's configuration beside the managed ones
    inUse,     \* loaded[h]: the text the running workers serve h with
    intent,     \* what the orchestrator signed
    apply,      \* the apply: where it is, what it planned, what is left to do
    looked,     \* the path whose check has passed, if any, and what was there
    mayFail, remaining,
    edited      \* history: an operator changed something since the plan

applyVars == <<placed, other, inUse, intent, apply, looked, mayFail, remaining, edited>>

Exists(p)   == placed[p] # Absent
Enabled     == [h \in SiteNames |-> IF Exists(Link(h)) /\ Exists(Vhost(h)) THEN placed[Vhost(h)].text ELSE Absent]

Pcs == {"idle", "planned", "prepared", "commit", "reload", "reloaded", "attest",
        "restore", "revalidate", "done", "failed", "rolled_back", "rollback_failed"}
AtRest == [pc |-> "idle", plan |-> Absent, snap |-> Absent, todo |-> {}, files |-> {}, mutated |-> FALSE]
ApplyAt(pc) == apply.pc = pc
ToPc(pc) == [apply EXCEPT !.pc = pc]

ApplyInit ==
    \E c \in Situations :
        /\ placed = c.disk
        /\ other = c.other
        /\ inUse = Enabled
        /\ intent = c.intent
        /\ mayFail = c.faults /\ remaining = c.budget
        /\ apply = AtRest /\ looked = {}
        /\ edited = FALSE

Spend(f) == f \in mayFail /\ remaining > 0 /\ remaining' = remaining - 1
-----------------------------------------------------------------------------
(* compile: routes.                                                           *)

Deleted == {h \in SiteNames : intent.route[h] = Tombstone}
Routed  == {h \in SiteNames : intent.route[h] \notin {Unrouted, Tombstone}}
Basic(h) == intent.route[h].basic
Raw(h)   == intent.route[h].raw
IsRaw(h) == Raw(h) # Absent

(* The paths render is given: a certificate that was staged, an auth file.     *)
Rendered(h, auth) ==
    [uses |-> (IF h \in intent.staged THEN {"cert"} ELSE {}) \cup (IF Basic(h) THEN {auth} ELSE {}),
     by |-> "render"]

(* The policy admits nothing that carries auth_basic, and no other certificate. *)
PolicyAllows(h) == Raw(h).by = "raw" /\ Raw(h).uses \subseteq (IF h \in intent.staged THEN {"cert"} ELSE {})

(* A text saved before #147 that is the renderer's own is rendered anew; any    *)
(* other that refers to the old path is refused.                                 *)
Rerendered(h) == Basic(h) /\ Raw(h) = Rendered(h, "legacy")
ApplyRefused(h)    == IsRaw(h) /\ ~PolicyAllows(h) /\ "legacy" \in Raw(h).uses /\ ~Rerendered(h)
PolicyForeign(h) == IsRaw(h) /\ ~PolicyAllows(h) /\ "legacy" \notin Raw(h).uses

Wanted(h) ==
    IF ~IsRaw(h) \/ (~PolicyAllows(h) /\ Rerendered(h)) THEN Rendered(h, "auth") ELSE Raw(h)

(* A file that carries no marker and says exactly this is left as it is.        *)
ExactUnmarked(h, text) == placed[Vhost(h)] = Plain(text)
KeepsLegacy(h) == ~IsRaw(h) /\ Basic(h) /\ ExactUnmarked(h, Rendered(h, "legacy"))

Preserved(h) == PolicyForeign(h) \/ ExactUnmarked(h, Wanted(h)) \/ KeepsLegacy(h)
Text(h) == IF ~PolicyForeign(h) /\ KeepsLegacy(h) THEN Rendered(h, "legacy") ELSE Wanted(h)
NeedsAuth(h) == Basic(h) /\ "auth" \in Text(h).uses

Installs ==
    Of({"cert"}, intent.staged) \cup Of({"auth"}, {h \in Routed : NeedsAuth(h)})
        \cup Of({"vhost", "link"}, {h \in Routed : ~Preserved(h)})

Compiled(p) ==
    CASE p[1] = "vhost" -> Marked(Text(p[2]))
      [] p[1] = "link" -> OurLink
      [] OTHER -> NewSecret

(* Files of a routed host that its configuration does not mention.             *)
StaleFiles == {p \in Of({"auth", "legacy"}, Routed) :
            p \notin Installs /\ p[1] \notin Text(p[2]).uses /\ Exists(p)}
-----------------------------------------------------------------------------
(* compile: tombstones and pruning.                                           *)

Unmarked(h) == Exists(Vhost(h)) /\ ~placed[Vhost(h)].marked
Tombstoned  == {h \in Deleted : ~Unmarked(h)}
Tombs       == Of({"vhost", "link", "auth", "legacy"}, Tombstoned)

(* loadSurvivingConfig: what the apply writes or leaves; one file that is too   *)
(* large to be read may refer to anything.                                       *)
Untouched == {h \in SiteNames \ Routed : h \notin Tombstoned /\ Exists(Vhost(h))}
SurvivingUses(h) ==
    (IF h \in Routed THEN Text(h).uses ELSE IF h \in Untouched THEN placed[Vhost(h)].text.uses ELSE {})
        \cup {k \in Kinds : <<k, h>> \in other.uses}

(* By base name: the two places of an auth file are not told apart.            *)
Referenced(p) ==
    \/ ~other.scanned
    \/ p[1] = "cert" /\ "cert" \in SurvivingUses(p[2])
    \/ p[1] # "cert" /\ SurvivingUses(p[2]) \cap {"auth", "legacy"} # {}

Candidates ==
    {p \in Of({"cert"}, SiteNames \ intent.keep) \cup (Of({"auth", "legacy"}, SiteNames \ Routed) \ Tombs) : Exists(p)}
Pruned == IF intent.prune THEN {p \in Candidates : ~Referenced(p)} ELSE {}

Deletions   == StaleFiles \cup Tombs \cup Pruned
Preserves   == Of({"vhost", "link"}, {h \in Routed : Preserved(h)})
Compilation == [installs |-> {<<p, Compiled(p)>> : p \in Installs}, deletions |-> Deletions, preserves |-> Preserves]

(* fingerprint: the targets, and a digest of the whole configuration.           *)
Facts == [disk |-> [p \in Installs \cup Deletions \cup Of({"vhost", "link"}, SiteNames) |-> placed[p]], other |-> other]

(* Mutant: a virtual host is taken for NurProxy's by its name.                  *)
MutOurs(p) == Exists(p) /\ p[1] = "link" => placed[p] = OurLink

(* inspectManagedPath, inspectPreservedManagedFile: what stays untouchable.     *)
Ours(p) ==
    Exists(p) => CASE p[1] = "vhost" -> placed[p].marked
                   [] p[1] = "link" -> placed[p] = OurLink
                   [] OTHER -> TRUE
Kept(p) == IF p[1] = "link" THEN placed[p] = OurLink ELSE placed[p] \in {Plain(Text(p[2])), Marked(Text(p[2]))}

Admissible ==
    /\ \A h \in Routed : ~ApplyRefused(h)
    /\ \A p \in Installs \cup Deletions : Ours(p)
    /\ \A p \in Preserves : Kept(p)
AsPlanned == Admissible /\ apply.plan = <<Compilation, Facts>>

(* Mutant: a file that is there already is not compared.                        *)
MutPending(p) == IF p \in apply.files THEN ~Exists(p) ELSE Exists(p)

(* managedFileChangePending, managedLinkChangePending.                         *)
Pending(p) == IF p \in apply.files THEN placed[p] # Compiled(p) ELSE Exists(p)

(* nginx -t: what is enabled is there, and its certificates; auth files are    *)
(* opened per request.                                                          *)
ConfigValid ==
    /\ \A h \in SiteNames : Exists(Link(h)) =>
          Exists(Vhost(h)) /\ ("cert" \in placed[Vhost(h)].text.uses => Exists(Cert(h)))
    /\ \A p \in other.uses : p[1] = "cert" => Exists(p)
-----------------------------------------------------------------------------
(* Plan, Prepare and the checks of Execute.                                   *)

Fixed == <<other, inUse, intent, mayFail, edited>>

Plan ==
    /\ ApplyAt("idle")
    /\ apply' = IF Admissible THEN [ToPc("planned") EXCEPT !.plan = <<Compilation, Facts>>] ELSE ToPc("failed")
    /\ UNCHANGED <<placed, looked, Fixed, remaining>>

Prepare ==
    /\ ApplyAt("planned")
    /\ apply' = IF AsPlanned
                THEN [ToPc("prepared") EXCEPT !.snap = [p \in Installs \cup Deletions |-> placed[p]]]
                ELSE ToPc("failed")
    /\ UNCHANGED <<placed, looked, Fixed, remaining>>

(* A plan that deletes may be the cure of an invalid configuration: it is not  *)
(* validated before.                                                            *)
Begin ==
    /\ ApplyAt("prepared")
    /\ \/ /\ apply' = IF AsPlanned /\ (Deletions = {} => ConfigValid)
                      THEN [ToPc("commit") EXCEPT !.todo = Installs \cup Deletions, !.files = Installs]
                      ELSE ToPc("failed")
          /\ UNCHANGED remaining
       \/ AsPlanned /\ Deletions = {} /\ Spend("validate") /\ apply' = ToPc("failed")
    /\ UNCHANGED <<placed, looked, Fixed>>
-----------------------------------------------------------------------------
(* Execute.                                                                  *)

(* Mutant: auth files go with the other deletions, before the reload.          *)
MutRank(p) ==
    IF p \in apply.files
    THEN CASE p[1] = "cert" -> 4 [] p[1] = "auth" -> 5 [] p[1] = "vhost" -> 6 [] p[1] = "link" -> 7
    ELSE CASE p[1] = "link" -> 1 [] p[1] \in {"auth", "cert"} -> 2 [] p[1] = "vhost" -> 3 [] OTHER -> 8

(* Deletions of links, certificates and virtual hosts, then what is installed,  *)
(* referenced files first; auth files go last, after the reload.                *)
Rank(p) ==
    IF p \in apply.files
    THEN CASE p[1] = "cert" -> 4 [] p[1] = "auth" -> 5 [] p[1] = "vhost" -> 6 [] p[1] = "link" -> 7
    ELSE CASE p[1] = "link" -> 1 [] p[1] = "cert" -> 2 [] p[1] = "vhost" -> 3 [] OTHER -> 8
AfterReload == 8

ApplyNext1(p) == p \in apply.todo /\ \A q \in apply.todo : Rank(p) <= Rank(q)

(* The engine rolls back what it was told is mutated.                          *)
Fail == IF apply.mutated THEN [ToPc("restore") EXCEPT !.todo = DOMAIN apply.snap] ELSE ToPc("failed")

Outcome(p) == IF p \in apply.files THEN Compiled(p) ELSE Absent
Done1(p)   == [apply EXCEPT !.todo = @ \ {p}]
Committing(p) == ApplyNext1(p) /\ (IF Rank(p) = AfterReload THEN ApplyAt("reloaded") ELSE ApplyAt("commit"))

SkipStep(p) ==
    /\ Committing(p) /\ looked = {} /\ Ours(p) /\ ~Pending(p)
    /\ apply' = Done1(p)
    /\ UNCHANGED <<placed, looked, Fixed, remaining>>

(* The path is looked at once; what is to go there is then written beside it,   *)
(* and renamed to it, or the path removed, whatever is there by then.            *)
Inspects(p) ==
    /\ Committing(p) /\ looked = {} /\ Ours(p) /\ Pending(p)
    /\ looked' = {[path |-> p, seen |-> placed[p]]}
    /\ UNCHANGED <<placed, apply, Fixed, remaining>>

LookedAt(p)  == Committing(p) /\ \E l \in looked : l.path = p
Vanished(p) == p \notin apply.files /\ ~Exists(p)

Write(p) ==
    /\ LookedAt(p) /\ ~Vanished(p)
    /\ placed' = [placed EXCEPT ![p] = Outcome(p)]
    /\ apply' = [Done1(p) EXCEPT !.mutated = TRUE]
    /\ looked' = {}
    /\ UNCHANGED <<Fixed, remaining>>

(* The target is no longer one the helper may touch, or the write fails.       *)
WriteFails(p) ==
    /\ \/ Committing(p) /\ looked = {} /\ ~Ours(p) /\ UNCHANGED remaining
       \/ LookedAt(p) /\ (IF Vanished(p) THEN UNCHANGED remaining ELSE Spend("write"))
    /\ apply' = Fail
    /\ looked' = {}
    /\ UNCHANGED <<placed, Fixed>>

(* Written, but its directory cannot be synced: Execute returns what had been   *)
(* mutated before this file.                                                     *)
SyncFails(p) ==
    /\ LookedAt(p) /\ ~Vanished(p) /\ Spend("sync")
    /\ placed' = [placed EXCEPT ![p] = Outcome(p)]
    /\ apply' = Fail
    /\ looked' = {}
    /\ UNCHANGED Fixed

Written == ApplyAt("commit") /\ \A p \in apply.todo : Rank(p) = AfterReload

ValidateCommit ==
    /\ Written
    /\ \/ apply' = (IF ~apply.mutated THEN ToPc("reloaded") ELSE IF ConfigValid THEN ToPc("reload") ELSE Fail) /\ UNCHANGED remaining
       \/ apply.mutated /\ Spend("validate") /\ apply' = Fail
    /\ UNCHANGED <<placed, looked, Fixed>>

(* Reload, validate, inspect: an error after the reload leaves the new workers. *)
Reload ==
    /\ ApplyAt("reload")
    /\ \/ inUse' = Enabled /\ apply' = ToPc("reloaded") /\ UNCHANGED remaining
       \/ inUse' = Enabled /\ Spend("validate") /\ apply' = Fail
       \/ Spend("reload") /\ apply' = Fail /\ UNCHANGED inUse
    /\ UNCHANGED <<placed, looked, other, intent, mayFail, edited>>

Cleaned == ApplyAt("reloaded") /\ apply.todo = {}

(* attestManagedArtifacts: everything is there, and says what was compiled.    *)
Attested ==
    /\ \A h \in Routed : placed[Link(h)] = OurLink
    /\ \A p \in apply.files : p[1] = "vhost" => placed[p] = Compiled(p)
Attest ==
    /\ Cleaned
    /\ apply' = IF Attested THEN ToPc("done") ELSE Fail
    /\ UNCHANGED <<placed, looked, Fixed, remaining>>
-----------------------------------------------------------------------------
(* Rollback: the snapshot backwards, each target as it was.                   *)

RestoreRank(p) ==
    CASE p[1] = "link" -> 1 [] p[1] = "vhost" -> 2 [] p[1] = "auth" -> 3 [] OTHER -> 4
Restoring(p) ==
    ApplyAt("restore") /\ p \in apply.todo /\ \A q \in apply.todo : RestoreRank(p) <= RestoreRank(q)

Restore(p) ==
    /\ Restoring(p)
    /\ placed' = [placed EXCEPT ![p] = apply.snap[p]]
    /\ apply' = Done1(p)
    /\ UNCHANGED <<looked, Fixed, remaining>>

RestoreFails(p) ==
    /\ Restoring(p) /\ Spend("write")
    /\ apply' = ToPc("rollback_failed")
    /\ UNCHANGED <<placed, looked, Fixed>>

(* Validate, reload, validate.                                                 *)
RestoreEnds ==
    /\ ApplyAt("restore") /\ apply.todo = {}
    /\ \/ /\ ConfigValid
          /\ inUse' = Enabled /\ apply' = ToPc("rolled_back") /\ UNCHANGED remaining
       \/ /\ ConfigValid
          /\ inUse' \in {inUse, Enabled} /\ apply' = ToPc("rollback_failed")
          /\ Spend("reload") \/ Spend("validate")
       \/ /\ ~ConfigValid
          /\ apply' = ToPc("rollback_failed") /\ UNCHANGED <<inUse, remaining>>
    /\ UNCHANGED <<placed, looked, other, intent, mayFail, edited>>
-----------------------------------------------------------------------------
(* An operator writes a configuration of his own, disables a site or points    *)
(* it elsewhere, at any time.                                                   *)
Operators(k) == IF k = "vhost" THEN {Plain([uses |-> {}, by |-> "operator"]), Absent} ELSE {TheirLink, Absent}
Edit ==
    /\ apply.pc \notin {"idle", "done", "failed", "rolled_back", "rollback_failed"}
    /\ Spend("edit")
    /\ \E p \in Of({"vhost", "link"}, SiteNames) : \E c \in Operators(p[1]) :
          placed[p] # c /\ placed' = [placed EXCEPT ![p] = c]
    /\ edited' = TRUE
    /\ UNCHANGED <<other, inUse, intent, apply, looked, mayFail>>

Executes == \E p \in Paths : SkipStep(p) \/ Inspects(p) \/ Write(p) \/ WriteFails(p) \/ SyncFails(p)
RollsBack == (\E p \in Paths : Restore(p) \/ RestoreFails(p)) \/ RestoreEnds
ApplyNext == Plan \/ Prepare \/ Begin \/ Executes \/ ValidateCommit \/ Reload \/ Attest \/ RollsBack \/ Edit

ApplySpec == ApplyInit /\ [][ApplyNext]_applyVars
-----------------------------------------------------------------------------
(* Every variable holds values of its type.                                    *)
ApplyTypeOK ==
    /\ placed \in [Paths -> Contents]
    /\ other \in [uses : SUBSET Paths, scanned : BOOLEAN]
    /\ inUse \in [SiteNames -> Texts \cup {Absent}]
    /\ intent \in Intents
    /\ apply.pc \in Pcs /\ apply.todo \subseteq Paths /\ apply.files \subseteq Paths /\ apply.mutated \in BOOLEAN
    /\ looked \subseteq [path : Paths, seen : Contents]
    /\ mayFail \in SUBSET Faults /\ remaining \in Nat /\ edited \in BOOLEAN

(* Until it must undo, the apply changes no configuration that lacks NurProxy's *)
(* marker and no link that leads elsewhere, also where an operator put them       *)
(* there while it was at work ("refusing to overwrite operator-owned"); unless it  *)
(* had looked at that very path, found its own there, and not yet renamed or        *)
(* removed it.                                                                       *)
TheirsIs(p, c) ==
    c # Absent /\ CASE p[1] = "vhost" -> ~c.marked
                     [] p[1] = "link" -> c # OurLink
                     [] OTHER -> FALSE
Theirs(p) == TheirsIs(p, placed[p])
Raced(p)  == \E l \in looked : l.path = p /\ l.seen # placed[p]
OperatorsKept ==
    [][apply' # apply /\ ~ApplyAt("restore")
        => \A p \in Paths : Theirs(p) => placed'[p] = placed[p] \/ Raced(p)]_applyVars

(* While the apply goes forward, no running worker looks for an auth file that  *)
(* is gone: each is there from before the workers that refer to it start, until  *)
(* they have been replaced.  (An operator who removes the same configuration while *)
(* the apply is at work leaves it nothing to reload for.)                           *)
StillServed == \A h \in SiteNames : inUse[h] # Absent =>
             \A k \in inUse[h].uses \cap {"auth", "legacy"} : Exists(<<k, h>>)
WorkersServed == ~edited /\ apply.pc \notin {"restore", "rolled_back", "rollback_failed"} => StillServed

Prunable(p) == p \notin Tombs /\ (p[1] = "cert" \/ p[2] \notin Routed)

(* An apply that succeeded has settled: the workers serve what is enabled, the   *)
(* same intent compiled against the host as it now is would be admitted and       *)
(* change nothing more, and no configuration left on the host refers to a          *)
(* certificate, or to the auth file of a host that is not routed, that it pruned.   *)
AllInPlace ==
    ApplyAt("done") /\ ~edited =>
        /\ inUse = Enabled
        /\ Admissible
        /\ \A p \in Installs : placed[p] = Compiled(p)
        /\ \A p \in Deletions : ~Exists(p)
        /\ \A p \in DOMAIN apply.snap : Prunable(p) /\ apply.snap[p] # Absent /\ ~Exists(p) =>
               p \notin other.uses /\ (Exists(Vhost(p[2])) => p[1] \notin placed[Vhost(p[2])].text.uses)

(* A rollback that succeeded has put everything back, in the files and in the     *)
(* workers.                                                                         *)
RestoredExactly ==
    ApplyAt("rolled_back") /\ ~edited =>
        /\ \A p \in DOMAIN apply.snap : placed[p] = apply.snap[p]
        /\ ConfigValid /\ inUse = Enabled

(* An apply ends with all of its intent in place or with none of it.                *)
EndsWhole == AllInPlace /\ RestoredExactly
================================================================================
