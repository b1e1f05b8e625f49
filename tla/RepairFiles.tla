------------------------------ MODULE RepairFiles ------------------------------
(***************************************************************************)
(* The files of one repair (Recovery.tla has the operation as a whole): an  *)
(* inspection takes the identity of every file it proposes to remove or to  *)
(* rewrite (proxy/nginx/recovery.go, proxy/recoverypath.go), the snapshot    *)
(* captures them one by one behind a path guard (recovery/pathguard.go,     *)
(* recovery/snapshot.go), the repair touches each only if it is still what  *)
(* was inspected, and a rollback puts them back one by one.  All the time   *)
(* somebody else may write to the same files, and the agent may crash.      *)
(*                                                                          *)
(* Manifests are always written here, and parent directories stay what they *)
(* are.  Keys are encrypted at rest: "key" is the encrypted one, "plain"    *)
(* the one the proxy reads.                                                 *)
(***************************************************************************)
EXTENDS Naturals, Sequences

CONSTANT
    RepairCases   \* what is on the host, whether it is still wanted there, whether a missing
                  \* plain key is wanted, what others do to files and how often, and crashes

Roles == {"vhost", "link", "auth", "temp", "crt", "key", "plain"}
Disturbances == {"write", "replace", "remove", "directory"}

ASSUME RepairAssumptions ==
    RepairCases \subseteq [files : [Roles -> {0, 1, 2}], wanted : BOOLEAN, materialize : BOOLEAN,
                           edits : SUBSET Disturbances, count : Nat, crashes : Nat]

VARIABLES
    onDisk,       \* what is at each path: its kind, its inode and what it holds
    inode,      \* the next one
    job,        \* the coordinator: where it is, at which file, what the repair is to do, which
                \* of the files inspected it has left to touch
    candidate,  \* the files inspected: RecoveryCandidate.Identities
    guarded,    \* the same paths as the guard saw them
    manifest,   \* on disk: the state, the repair and what was captured
    prepared,   \* what the rollback found before it began to restore
    aimed,      \* the file whose identity has been found right and that is now to be touched,
                \* if any, and what is to be in it
    theirs,     \* history: what others left at a path since the repair found it as it looked
    late,       \* history: the paths others wrote to last while it was aimed at them
    disturbed,  \* history: the paths others wrote to since the rollback looked at them
    given       \* the case, with what is left of its bounds

repairVars == <<onDisk, inode, job, candidate, guarded, manifest, prepared, aimed, theirs, late, disturbed, given>>

Vacant == [kind |-> "absent", ino |-> 0, data |-> 0]
EditedData == 9     \* what others write
Present(p) == onDisk[p].kind # "absent"
NoManifestYet == [state |-> "none", does |-> "none", saved |-> <<>>]
JobIdle == [at |-> "idle", i |-> 1, does |-> "none", wrong |-> FALSE, left |-> {}]
NotEdited == [kind |-> "untouched", ino |-> 0, data |-> 0]
Unedited == [p \in Roles |-> NotEdited]

\* A file of the case; a link holds the path it leads to, which is the vhost's.
FileOf(content, p) ==
    IF content[p] = 0 THEN Vacant
    ELSE [kind |-> IF p = "link" THEN "link" ELSE "file", ino |-> 1, data |-> content[p]]

RepairInit ==
    /\ given \in RepairCases
    /\ onDisk = [p \in Roles |-> FileOf(given.files, p)]
    /\ inode = 2
    /\ job = JobIdle
    /\ candidate = <<>> /\ guarded = <<>> /\ prepared = <<>>
    /\ manifest = NoManifestYet
    /\ aimed = {} /\ theirs = Unedited /\ late = {} /\ disturbed = {}

GoTo(at) == job' = [job EXCEPT !.at = at, !.i = 1]
NextFile == job' = [job EXCEPT !.i = @ + 1]
WorkVars == <<candidate, guarded, manifest, prepared>>
Beside == <<aimed, theirs, late, disturbed, given>>
-----------------------------------------------------------------------------
(* The inspection. *)

OrphanFiles == <<"vhost", "link", "auth", "crt", "key", "plain">>
BundleFiles == <<"crt", "key", "plain">>
Looked == CASE job.does = "prune" -> OrphanFiles
            [] job.does = "temp" -> <<"temp">>
            [] OTHER -> BundleFiles

\* The certificate and a key belong together.
InStep(p, q) == onDisk[p].kind = "file" /\ onDisk[q].kind = "file" /\ onDisk[p].data = onDisk[q].data

\* certstore.InspectRecovery: what is wrong with the files of a certificate.
CertRepair ==
    IF ~InStep("crt", "key") THEN "bundle"
    ELSE IF ~InStep("crt", "plain") THEN "runtime" ELSE "none"

\* InspectRecovery: managed files nobody wants, or a bundle that is not whole.  A vhost
\* without the marker is somebody else's.
Proposed ==
    IF given.wanted THEN CertRepair
    ELSE IF onDisk["temp"].data = 1 THEN "temp"
    ELSE IF onDisk["vhost"].data = 1 THEN "prune" ELSE "none"

InspectFiles ==
    /\ job.at = "idle" /\ manifest.state = "none" /\ candidate = <<>>
    /\ Proposed # "none"
    /\ job' = [JobIdle EXCEPT !.at = "look", !.does = Proposed]
    /\ UNCHANGED <<onDisk, inode, WorkVars, Beside>>

\* Of a bundle every path belongs to the candidate, of an orphan those that are there.
Belongs(p) ==
    \/ job.does \in {"bundle", "runtime"}
    \/ p \in {"vhost", "temp"} /\ onDisk[p].kind = "file" /\ onDisk[p].data = 1
    \/ p = "link" /\ onDisk[p].kind = "link" /\ onDisk[p].data = 1
    \/ p \in {"auth", "crt", "key", "plain"} /\ onDisk[p].kind \in {"file", "link"}

\* CaptureRecoveryPath: kind, inode and hash; what is neither file nor link has none.
Look ==
    LET p == Looked[job.i]
        dropped == IF job.does \in {"bundle", "runtime"} THEN onDisk[p].kind = "directory"
                ELSE job.i = 1 /\ ~Belongs(p)
    IN
    /\ job.at = "look" /\ job.i <= Len(Looked)
    /\ IF dropped THEN job' = JobIdle /\ candidate' = <<>> /\ theirs' = Unedited
       ELSE /\ candidate' = IF Belongs(p) THEN Append(candidate, [path |-> p, was |-> onDisk[p]]) ELSE candidate
            /\ NextFile /\ UNCHANGED theirs
    /\ UNCHANGED <<onDisk, inode, guarded, manifest, prepared, aimed, late, disturbed, given>>
-----------------------------------------------------------------------------
(* The snapshot. *)

Watched == [i \in DOMAIN candidate |-> candidate[i].path]

\* What the guard knows of a path: its kind and inode, and those of what a link leads to.
Seen(p) ==
    [kind |-> onDisk[p].kind, ino |-> onDisk[p].ino,
     to |-> IF onDisk[p].kind = "link" /\ onDisk[p].data = 1 THEN onDisk["vhost"].ino ELSE 0]
Resolvable(p) ==
    /\ onDisk[p].kind # "directory"
    /\ onDisk[p].kind = "link" => onDisk[p].data = 1 /\ onDisk["vhost"].kind \in {"file", "absent"}

GiveUpAs(state) == job' = [job EXCEPT !.at = state]

\* resolveCandidate
Resolve ==
    /\ job.at = "look" /\ job.i > Len(Looked)
    /\ IF \A i \in DOMAIN candidate : Resolvable(Watched[i])
       THEN guarded' = [i \in DOMAIN candidate |-> Seen(Watched[i])] /\ GoTo("capture")
       ELSE GiveUpAs("given_up") /\ UNCHANGED guarded
    /\ UNCHANGED <<onDisk, inode, candidate, manifest, prepared, Beside>>

\* captureSnapshot, of the file that was guarded; its content may be another by now.
Capture ==
    LET i == job.i IN
    /\ job.at = "capture" /\ i <= Len(candidate)
    /\ IF Resolvable(Watched[i]) /\ Seen(Watched[i]) = guarded[i]
       THEN /\ manifest' = [manifest EXCEPT !.saved = Append(@, [path |-> Watched[i], was |-> onDisk[Watched[i]]])]
            /\ NextFile
       ELSE manifest' = NoManifestYet /\ GiveUpAs("given_up")
    /\ UNCHANGED <<onDisk, inode, candidate, guarded, prepared, Beside>>

\* The manifest is written last.
Keep ==
    /\ job.at = "capture" /\ job.i > Len(candidate)
    /\ manifest' = [manifest EXCEPT !.state = "snapshotted", !.does = job.does]
    /\ GoTo("snapshotted")
    /\ UNCHANGED <<onDisk, inode, candidate, guarded, prepared, Beside>>

Enters(state) == manifest' = [manifest EXCEPT !.state = state]

Applying ==
    /\ job.at = "snapshotted"
    /\ Enters("applying") /\ GoTo("recheck")
    /\ UNCHANGED <<onDisk, inode, candidate, guarded, prepared, Beside>>
-----------------------------------------------------------------------------
(* The repair itself: ExecuteRecovery. *)

RollBackFrom == GoTo("rolling_back")

AsInspected(i) == onDisk[candidate[i].path] = candidate[i].was

\* All that is to be removed; of a bundle all but a plain key that is neither wanted nor was
\* there, or that key alone.
ToTouch ==
    {i \in DOMAIN candidate :
        CASE job.does = "bundle" ->
                 candidate[i].path # "plain" \/ given.materialize \/ candidate[i].was.kind # "absent"
          [] job.does = "runtime" -> candidate[i].path = "plain"
          [] OTHER -> TRUE}
\* One after the other, but links are removed before the files they lead to.
IsLink(i) == candidate[i].was.kind = "link"
Before(i, j) == IF job.does \in {"prune", "temp"} /\ IsLink(i) # IsLink(j) THEN IsLink(i) ELSE i < j

\* Every identity is checked before anything is touched.
Recheck ==
    /\ job.at = "recheck"
    /\ IF \A i \in DOMAIN candidate : AsInspected(i)
       THEN job' = [job EXCEPT !.at = "act", !.i = 1, !.left = ToTouch] ELSE RollBackFrom
    /\ UNCHANGED <<onDisk, inode, WorkVars, Beside>>

\* RemoveRecoveryPath
Unlink(p) == onDisk' = [onDisk EXCEPT ![p] = Vacant] /\ UNCHANGED inode
\* ReplaceRecoveryPath, with the orchestrator's bundle or the key decrypted.
Rewrite(p, data) ==
    /\ onDisk' = [onDisk EXCEPT ![p] = [kind |-> "file", ino |-> inode, data |-> data]]
    /\ inode' = inode + 1
NewData == IF job.does = "bundle" THEN 2 ELSE onDisk["key"].data

\* A link is not written through, and a key that does not match is not put beside its
\* certificate.
Refuses(i) ==
    \/ ~AsInspected(i)
    \/ job.does \in {"bundle", "runtime"} /\ IsLink(i)
    \/ job.does = "runtime" /\ ~InStep("crt", "key")

\* The last look at a file before it is removed or replaced.
Aim ==
    /\ job.at = "act" /\ aimed = {}
    /\ \E i \in job.left :
        /\ \A j \in job.left : j = i \/ Before(i, j)
        /\ IF Refuses(i) THEN RollBackFrom /\ UNCHANGED <<aimed, theirs>>
           ELSE /\ aimed' = {[i |-> i, data |-> NewData]}
                /\ theirs' = IF AsInspected(i) THEN [theirs EXCEPT ![candidate[i].path] = NotEdited] ELSE theirs
                /\ UNCHANGED job
    /\ UNCHANGED <<onDisk, inode, WorkVars, late, disturbed, given>>

\* unlinkat, renameat, renameat2 with RENAME_NOREPLACE: what they do not do.
Resists(i) ==
    LET now == onDisk[candidate[i].path].kind IN
    \/ now = "directory"
    \/ now = "absent" /\ job.does \in {"prune", "temp"}
    \/ now # "absent" /\ candidate[i].was.kind = "absent"

\* What is there by now is removed, or replaced by what was written beside it.
Touch ==
    /\ job.at = "act" /\ aimed' = {}
    /\ \E a \in aimed :
        LET p == candidate[a.i].path IN
        IF Resists(a.i) THEN RollBackFrom /\ UNCHANGED <<onDisk, inode>>
        ELSE /\ IF job.does \in {"prune", "temp"} THEN Unlink(p) ELSE Rewrite(p, a.data)
             /\ job' = [job EXCEPT !.left = @ \ {a.i}]
    /\ UNCHANGED <<WorkVars, theirs, late, disturbed, given>>

Acted ==
    /\ job.at = "act" /\ job.left = {}
    /\ Enters("validating") /\ GoTo("validate")
    /\ UNCHANGED <<onDisk, inode, candidate, guarded, prepared, Beside>>

\* Validate and ReloadRecovery.
ValidateFiles ==
    /\ job.at = "validate"
    /\ \/ Enters("succeeded") /\ GoTo("done")
       \/ RollBackFrom /\ UNCHANGED manifest
    /\ UNCHANGED <<onDisk, inode, candidate, guarded, prepared, Beside>>
-----------------------------------------------------------------------------
(* The rollback: SnapshotStore.Rollback. *)

Saved(i) == manifest.saved[i]

RollingBack ==
    /\ job.at = "rolling_back"
    /\ Enters("rolling_back") /\ GoTo("preflight")
    /\ prepared' = <<>>
    /\ UNCHANGED <<onDisk, inode, candidate, guarded, Beside>>

\* preflightTarget, of every file before any is restored.
Preflight ==
    LET i == job.i IN
    /\ job.at = "preflight" /\ i <= Len(manifest.saved)
    /\ IF onDisk[Saved(i).path].kind = "directory"
       THEN Enters("rollback_failed") /\ GoTo("done") /\ UNCHANGED <<prepared, disturbed>>
       ELSE /\ prepared' = Append(prepared, onDisk[Saved(i).path])
            /\ disturbed' = disturbed \ {Saved(i).path}
            /\ job' = [job EXCEPT !.at = IF i = Len(manifest.saved) THEN "restore" ELSE @,
                                  !.i = IF i = Len(manifest.saved) THEN i ELSE i + 1]
            /\ UNCHANGED manifest
    /\ UNCHANGED <<onDisk, inode, candidate, guarded, aimed, theirs, late, given>>

\* restorePrepared: the same inode as before, whatever it holds by now.
SameTarget(i) ==
    LET p == Saved(i).path IN onDisk[p].kind = prepared[i].kind /\ onDisk[p].ino = prepared[i].ino

\* Mutant: what was absent is left alone.
MutPutBack(i) ==
    LET before == Saved(i).was IN
    IF before.kind = "absent" THEN UNCHANGED <<onDisk, inode>>
    ELSE /\ onDisk' = [onDisk EXCEPT ![Saved(i).path] = [before EXCEPT !.ino = inode]]
         /\ inode' = inode + 1
PutBack(i) ==
    LET before == Saved(i).was IN
    IF before.kind = "absent" THEN Unlink(Saved(i).path)
    ELSE /\ onDisk' = [onDisk EXCEPT ![Saved(i).path] = [before EXCEPT !.ino = inode]]
         /\ inode' = inode + 1

\* restoreAll: from the last to the first; an error does not stop it.
RestoreOne ==
    LET i == job.i IN
    /\ job.at = "restore" /\ i > 0
    /\ IF SameTarget(i) THEN PutBack(i) ELSE UNCHANGED <<onDisk, inode>>
    /\ job' = [job EXCEPT !.i = i - 1, !.wrong = @ \/ ~SameTarget(i)]
    /\ UNCHANGED <<WorkVars, Beside>>

\* The restored files are validated and reloaded.
Rolled ==
    /\ job.at = "restore" /\ job.i = 0
    /\ \/ ~job.wrong /\ Enters("rolled_back")
       \/ Enters("rollback_failed")
    /\ GoTo("done")
    /\ UNCHANGED <<onDisk, inode, candidate, guarded, prepared, Beside>>
-----------------------------------------------------------------------------
(* Everybody else, and crashes. *)

Leaves(p, e, n) ==
    /\ onDisk' = [onDisk EXCEPT ![p] = e] /\ inode' = inode + n
    /\ theirs' = IF \E i \in DOMAIN candidate : candidate[i].path = p THEN [theirs EXCEPT ![p] = e] ELSE theirs
    /\ late' = IF \E a \in aimed : candidate[a.i].path = p THEN late \cup {p} ELSE late \ {p}
    /\ disturbed' = disturbed \cup {p}

\* A file is edited in place, replaced by another, removed, or becomes a directory.
Disturb(p) ==
    /\ given.count > 0 /\ given' = [given EXCEPT !.count = @ - 1]
    /\ \/ "write" \in given.edits /\ onDisk[p].kind = "file" /\ Leaves(p, [onDisk[p] EXCEPT !.data = EditedData], 0)
       \/ /\ "replace" \in given.edits
          /\ Leaves(p, [kind |-> IF p = "link" THEN "link" ELSE "file", ino |-> inode, data |-> EditedData], 1)
       \/ "remove" \in given.edits /\ Present(p) /\ Leaves(p, Vacant, 0)
       \/ "directory" \in given.edits /\ Leaves(p, [kind |-> "directory", ino |-> inode, data |-> 0], 1)
    /\ UNCHANGED <<job, WorkVars, aimed>>

\* RestartDispositionFor
Disposition1 == [applying |-> "rolling_back", validating |-> "validate", rolling_back |-> "preflight"]

\* The agent is gone and starts again; without a manifest nothing has been touched.
CrashAndResume ==
    /\ given.crashes > 0 /\ given' = [given EXCEPT !.crashes = @ - 1]
    /\ job.at \notin {"idle", "done", "given_up"}
    /\ job' = [JobIdle EXCEPT !.at = IF manifest.state \in DOMAIN Disposition1 THEN Disposition1[manifest.state] ELSE "done",
                             !.does = manifest.does]
    /\ manifest' = IF manifest.state = "none" THEN NoManifestYet ELSE manifest
    /\ guarded' = <<>> /\ prepared' = <<>> /\ aimed' = {}
    /\ UNCHANGED <<onDisk, inode, candidate, theirs, late, disturbed>>
-----------------------------------------------------------------------------
RepairSteps ==
    \/ InspectFiles \/ Look \/ Resolve \/ Capture \/ Keep \/ Applying \/ Recheck \/ Aim \/ Touch \/ Acted
    \/ ValidateFiles \/ RollingBack \/ Preflight \/ RestoreOne \/ Rolled
RepairNext == RepairSteps \/ CrashAndResume \/ \E p \in Roles : Disturb(p)
RepairSpec == RepairInit /\ [][RepairNext]_repairVars
-----------------------------------------------------------------------------
(* Properties. *)

\* A repair that says it succeeded has undone nothing that somebody else did to its files
\* since they were inspected, but for what was undone before the repair came to the file,
\* and for what was done between the last look at the file and its rename or removal.
SparesEdits ==
    manifest.state = "succeeded" =>
        \A p \in Roles : theirs[p] # NotEdited => onDisk[p] = theirs[p] \/ p \in late

\* What the repair was to leave at a path.
AsIntended(p) ==
    CASE manifest.does \in {"prune", "temp"} -> onDisk[p] = Vacant
      [] manifest.does = "bundle" -> InStep("crt", "key") /\ (Present("plain") => InStep("crt", "plain"))
      [] OTHER -> InStep("crt", "plain")

\* All or nothing, wherever the agent crashed: every file is as the repair was to leave it
\* once that says succeeded, and as it was captured once it says rolled_back, but for those
\* others wrote to since.
AllOrNothing ==
    \A i \in DOMAIN manifest.saved :
        LET p == Saved(i).path IN
        /\ manifest.state = "succeeded" /\ (\A q \in Roles : theirs[q] = NotEdited) => AsIntended(p)
        /\ manifest.state = "rolled_back" /\ p \notin disturbed
              => onDisk[p].kind = Saved(i).was.kind /\ onDisk[p].data = Saved(i).was.data

\* What a repair says of itself at its end is so, for its own work and for that of others.
EndsAsSaid == AllOrNothing /\ SparesEdits
================================================================================
