------------------------------- MODULE DataDir -------------------------------
(***************************************************************************)
(* The data directory of the orchestrator: what a start finds and makes in  *)
(* it (cmd/nurproxy/main.go, db/db.go, db/migrations.go and the three key   *)
(* files), what `nurproxy backup` takes from it and what `nurproxy restore` *)
(* puts into it (cmd/nurproxy/backup.go, dataperms/permissions.go).  The    *)
(* three are processes of their own, which may be killed between any two    *)
(* system calls; a backup runs whenever it likes, a restore while no        *)
(* orchestrator runs, as its warning asks for.                              *)
(*                                                                          *)
(* A file is its inode and what it holds.  Of a database that is the keys   *)
(* its secrets are encrypted with, the version of its schema and a stamp of *)
(* its data; of a key file the key, 0 while it is empty.  The files are     *)
(* regular ones: what the directory's guard does about links is left out,   *)
(* and so are file modes and the power failing before a write is synced.    *)
(***************************************************************************)
EXTENDS Integers

CONSTANT
    Affairs     \* what the directory holds, which archives are at hand, and how often what may happen

KeyFiles == {"encryption", "authority", "account"}
FileNames == KeyFiles \cup {"db", "wal"}
Archived == {"db", "encryption", "account"}     \* backup.go's files; the authority is not one of them

\* Directories and archives as an installation leaves them: a database lies next to the key of
\* its secrets, with a log of its own or none.
Counted(d) == DOMAIN d = {"keys", "ver", "data"} /\ d.ver \in Nat /\ d.data \in 0..9
SoundDir(dir) ==
    /\ \A n \in DOMAIN dir : dir[n] = [ino |-> dir[n].ino, holds |-> dir[n].holds] /\ dir[n].ino \in 1..9
    /\ "db" \in DOMAIN dir => /\ Counted(dir["db"].holds) /\ "encryption" \in DOMAIN dir
                              /\ dir["db"].holds.keys \subseteq {dir["encryption"].holds}
    /\ "wal" \in DOMAIN dir => /\ "db" \in DOMAIN dir /\ dir["wal"].ino = dir["db"].ino
                               /\ Counted(dir["wal"].holds)
                               /\ dir["wal"].holds.keys \subseteq {dir["encryption"].holds}
SoundArchive(a) ==
    a.whole /\ ~a.doubtful =>
      /\ Counted(a.files["db"])
      /\ "encryption" \in DOMAIN a.files => a.files["db"].keys \subseteq {a.files["encryption"]}

ASSUME DataAssumptions ==
    \A a \in Affairs :
      /\ DOMAIN a = {"found", "archives", "targets", "starts", "writes", "kills", "copies", "restores"}
      /\ SoundDir(a.found) /\ a.targets \subseteq Nat /\ \A b \in a.archives : SoundArchive(b)

VARIABLES
    dataDir,    \* the files by name
    server,     \* the orchestrator: where its start is, what it opened and loaded
    copying,    \* a backup
    archive,    \* the backup's output, once it is in place
    restoring,  \* a restore
    mixed,      \* history: a database is in place without the key it came with
    serial,     \* the next inode, key or stamp
    affair      \* the case, with what is left of its bounds

dataVars == <<dataDir, server, copying, archive, restoring, mixed, serial, affair>>

Missing == [ino |-> 0, holds |-> 0]
File(ino, holds) == [ino |-> ino, holds |-> holds]
DbState(keys, ver, data) == [keys |-> keys, ver |-> ver, data |-> data]
EmptyDb == DbState({}, 0, 0)
Torn == DbState({}, 0, -1)     \* a database with the write-ahead log of another
There(n) == dataDir[n].ino # 0

\* What SQLite reads: the log holds what was committed since the last checkpoint, and is
\* played into whatever database lies next to it.
ReadableIn(dir) ==
    IF dir["wal"].ino = 0 THEN dir["db"].holds
    ELSE IF dir["wal"].ino = dir["db"].ino THEN dir["wal"].holds ELSE Torn
Readable == ReadableIn(dataDir)

Down == [pc |-> "off", target |-> 0, opened |-> 0, created |-> FALSE, key |-> 0]
NotCopying == [pc |-> "off", held |-> <<>>, was |-> EmptyDb, shot |-> EmptyDb, doubtful |-> FALSE]
NoArchive == [files |-> <<>>, was |-> EmptyDb, whole |-> FALSE, doubtful |-> FALSE]
NotRestoring == [pc |-> "off", from |-> NoArchive, left |-> {}, before |-> <<>>]

DataInit ==
    /\ affair \in Affairs
    /\ dataDir = [n \in FileNames |-> IF n \in DOMAIN affair.found THEN affair.found[n] ELSE Missing]
    /\ server = Down /\ copying = NotCopying /\ archive = NoArchive /\ restoring = NotRestoring
    /\ mixed = FALSE /\ serial = 10

AtRest == {"off", "done", "failed", "cut"}      \* a restore is not at work
Spends(what) == affair[what] > 0 /\ affair' = [affair EXCEPT ![what] = @ - 1]
-----------------------------------------------------------------------------
(* A start of the orchestrator. *)

\* The files in the order main opens them, and what comes after each.
After == [encryption |-> "authority", authority |-> "db", db |-> "migrate", migrate |-> "account", account |-> "up"]
ServerAt(pc) == server' = [server EXCEPT !.pc = pc, !.opened = 0, !.created = FALSE]

\* main, up to the first file: a binary whose migrations end at this version.
StartServer(target) ==
    /\ server.pc = "off" /\ restoring.pc \in AtRest
    /\ target \in affair.targets /\ Spends("starts")
    /\ server' = [Down EXCEPT !.pc = "encryption", !.target = target]
    /\ restoring' = NotRestoring
    /\ UNCHANGED <<dataDir, copying, archive, mixed, serial>>

\* OpenOrCreateRegular.
OpenOrCreate(n, empty) ==
    /\ server.opened = 0
    /\ IF There(n)
       THEN server' = [server EXCEPT !.opened = dataDir[n].ino] /\ UNCHANGED <<dataDir, serial>>
       ELSE /\ dataDir' = [dataDir EXCEPT ![n] = File(serial, empty)] /\ serial' = serial + 1
            /\ server' = [server EXCEPT !.opened = serial, !.created = TRUE]

OpenKeyFile(n) ==
    /\ server.pc = n /\ OpenOrCreate(n, 0)
    /\ UNCHANGED <<copying, archive, restoring, mixed, affair>>

\* A file this start made gets a key; one that was there must hold one, or the start ends.
KeyOf(n) == IF server.created THEN serial ELSE dataDir[n].holds
Unloadable(n) == KeyOf(n) = 0
\* Without an ACME account no certificate is renewed, and the start goes on.
StartEnds(n) == n # "account" /\ Unloadable(n)
LoadKeyFile(n) ==
    /\ server.pc = n /\ server.opened # 0
    /\ dataDir' = [dataDir EXCEPT ![n].holds = KeyOf(n)]
    /\ serial' = IF server.created THEN serial + 1 ELSE serial
    /\ server' = IF StartEnds(n) THEN Down
                 ELSE [server EXCEPT !.pc = After[n], !.opened = 0, !.created = FALSE,
                                     !.key = IF n = "encryption" THEN KeyOf(n) ELSE @]
    /\ UNCHANGED <<copying, archive, restoring, mixed, affair>>

OpenDatabase ==
    /\ server.pc = "db" /\ OpenOrCreate("db", EmptyDb)
    /\ UNCHANGED <<copying, archive, restoring, mixed, affair>>
DatabaseOpen ==
    /\ server.pc = "db" /\ server.opened # 0
    /\ ServerAt("migrate")
    /\ UNCHANGED <<dataDir, copying, archive, restoring, mixed, serial, affair>>

\* A transaction is in the log before it counts.
Committed(state) == dataDir' = [dataDir EXCEPT !["wal"] = File(dataDir["db"].ino, state)]

\* migrate: what the schema lacks, in one transaction; a schema from a later binary is
\* taken as it is.
Migrate ==
    /\ server.pc = "migrate" /\ Readable # Torn
    /\ IF Readable.ver < server.target THEN Committed([Readable EXCEPT !.ver = server.target])
       ELSE UNCHANGED dataDir
    /\ ServerAt("account")
    /\ UNCHANGED <<copying, archive, restoring, mixed, serial, affair>>

\* A row is written; one with a secret in it takes the key that was loaded.
StoreRow(secret) ==
    /\ server.pc = "up" /\ Readable # Torn /\ Spends("writes")
    /\ Committed([Readable EXCEPT !.data = serial, !.keys = IF secret THEN @ \cup {server.key} ELSE @])
    /\ serial' = serial + 1
    /\ UNCHANGED <<server, copying, archive, restoring, mixed>>

Checkpoint ==
    /\ server.pc = "up" /\ There("wal") /\ Readable # Torn /\ dataDir["db"].holds # Readable
    /\ dataDir' = [dataDir EXCEPT !["db"].holds = Readable]
    /\ UNCHANGED <<server, copying, archive, restoring, mixed, serial, affair>>

\* The last connection takes the log with it when it closes.
StopServer ==
    /\ server.pc = "up"
    /\ dataDir' = [dataDir EXCEPT !["db"].holds = Readable, !["wal"] = Missing]
    /\ server' = Down
    /\ UNCHANGED <<copying, archive, restoring, mixed, serial, affair>>

KillServer ==
    /\ server.pc # "off" /\ Spends("kills") /\ server' = Down
    /\ UNCHANGED <<dataDir, copying, archive, restoring, mixed, serial>>
-----------------------------------------------------------------------------
(* A backup: the files are opened first, and before the archive is written each must still *)
(* be the one under its name. *)

BeginBackup ==
    /\ copying.pc = "off" /\ Spends("copies")
    /\ copying' = [NotCopying EXCEPT !.pc = "db"]
    /\ UNCHANGED <<dataDir, server, archive, restoring, mixed, serial>>

\* The files in the order they are opened; without a database there is no backup, without a
\* key file there is a warning.
NextHeld == [db |-> "encryption", encryption |-> "account", account |-> "snapshot"]
HeldToo(n) == [m \in DOMAIN copying.held \cup {n} |-> IF m = n THEN dataDir[n] ELSE copying.held[m]]
Hold(n) ==
    /\ copying.pc = n /\ n \in DOMAIN NextHeld
    /\ copying' =
         IF n = "db" /\ ~There(n) THEN NotCopying
         ELSE [copying EXCEPT !.pc = NextHeld[n],
                              !.held = IF There(n) THEN HeldToo(n) ELSE @,
                              !.was = IF n = "db" THEN Readable ELSE @,
                              !.doubtful = IF n = "db" THEN mixed ELSE @]
    /\ UNCHANGED <<dataDir, server, archive, restoring, mixed, serial, affair>>

SameFile(n) == There(n) /\ dataDir[n].ino = copying.held[n].ino

\* db.SnapshotTo: the committed state; under the name of a file that was replaced there is
\* no database.  The snapshot's connection, where it is the last, takes the log with it.
Snapshot ==
    /\ copying.pc = "snapshot"
    /\ copying' = [copying EXCEPT !.pc = "verify", !.shot = IF SameFile("db") THEN Readable ELSE EmptyDb]
    /\ IF SameFile("db") /\ Readable # Torn /\ server.pc \in {"off", "encryption", "authority", "db"}
       THEN dataDir' = [dataDir EXCEPT !["db"].holds = Readable, !["wal"] = Missing]
       ELSE UNCHANGED dataDir
    /\ UNCHANGED <<server, archive, restoring, mixed, serial, affair>>

Verify ==
    /\ copying.pc = "verify"
    /\ copying' = IF \A n \in DOMAIN copying.held : SameFile(n) THEN [copying EXCEPT !.pc = "write"]
                   ELSE NotCopying
    /\ UNCHANGED <<dataDir, server, archive, restoring, mixed, serial, affair>>

\* The staged archive is renamed over the output: the snapshot, and each key as its open
\* file holds it.
InstallArchive ==
    LET held(n) == IF SameFile(n) THEN dataDir[n].holds ELSE copying.held[n].holds
        taken == [n \in DOMAIN copying.held |-> IF n = "db" THEN copying.shot ELSE held(n)]
    IN
    /\ copying.pc = "write"
    /\ archive' = [files |-> taken, was |-> copying.was, whole |-> TRUE, doubtful |-> copying.doubtful]
    /\ copying' = NotCopying
    /\ UNCHANGED <<dataDir, server, restoring, mixed, serial, affair>>

\* An error, or a kill: the output is what it was.
EndBackup ==
    /\ copying.pc # "off" /\ Spends("kills") /\ copying' = NotCopying
    /\ UNCHANGED <<dataDir, server, archive, restoring, mixed, serial>>
-----------------------------------------------------------------------------
(* A restore: every entry is staged beside its destination, the archive read to its end, and *)
(* the staged files then renamed over theirs. *)

RestoreAt(pc) == restoring' = [restoring EXCEPT !.pc = pc]
MixUnless(whole) == mixed' = ~whole

\* restoreArchive, up to the first entry.
BeginRestore(from, force) ==
    /\ restoring.pc \in AtRest /\ server.pc = "off" /\ Spends("restores")
    /\ There("db") => force
    /\ restoring' = [pc |-> "stage", from |-> from, left |-> DOMAIN from.files, before |-> dataDir]
    /\ UNCHANGED <<dataDir, server, copying, archive, mixed, serial>>

Stage ==
    /\ restoring.pc = "stage"
    /\ RestoreAt(IF restoring.from.whole THEN "check" ELSE "failed")
    /\ UNCHANGED <<dataDir, server, copying, archive, mixed, serial, affair>>

\* A database without its key is not put next to a key it may not have come with.
BringsStaleKey == "encryption" \notin DOMAIN restoring.from.files /\ There("encryption")
CheckKey ==
    /\ restoring.pc = "check"
    /\ RestoreAt(IF BringsStaleKey THEN "failed" ELSE "db")
    /\ UNCHANGED <<dataDir, server, copying, archive, mixed, serial, affair>>

\* commit: the staged file is renamed over the one in place.
Commit(n) ==
    /\ dataDir' = [dataDir EXCEPT ![n] = File(serial, restoring.from.files[n])]
    /\ serial' = serial + 1
CommitDb ==
    /\ restoring.pc = "db" /\ Commit("db") /\ MixUnless(FALSE)
    /\ restoring' = [restoring EXCEPT !.pc = "sidecars", !.left = @ \ {"db"}]
    /\ UNCHANGED <<server, copying, archive, affair>>
MutRemoveSidecars ==
    /\ restoring.pc = "sidecars" /\ RestoreAt("keys")
    /\ UNCHANGED <<dataDir, server, copying, archive, mixed, serial, affair>>
RemoveSidecars ==
    /\ restoring.pc = "sidecars"
    /\ dataDir' = [dataDir EXCEPT !["wal"] = Missing]
    /\ RestoreAt("keys")
    /\ UNCHANGED <<server, copying, archive, mixed, serial, affair>>
CommitKey(n) ==
    /\ restoring.pc = "keys" /\ n \in restoring.left /\ Commit(n)
    /\ restoring' = [restoring EXCEPT !.left = @ \ {n}]
    /\ UNCHANGED <<server, copying, archive, mixed, affair>>
FinishRestore ==
    /\ restoring.pc = "keys" /\ restoring.left = {} /\ RestoreAt("done")
    /\ MixUnless(There("encryption") /\ ~restoring.from.doubtful)
    /\ UNCHANGED <<dataDir, server, copying, archive, serial, affair>>

\* An error, or a kill: what was renamed stays.
CutRestore ==
    /\ restoring.pc \notin AtRest /\ Spends("kills")
    /\ RestoreAt(IF restoring.pc \in {"stage", "check", "db"} THEN "failed" ELSE "cut")
    /\ UNCHANGED <<dataDir, server, copying, archive, mixed, serial>>
-----------------------------------------------------------------------------
DataNext ==
    \/ \E target \in 1..9 : StartServer(target)
    \/ \E n \in KeyFiles : OpenKeyFile(n) \/ LoadKeyFile(n)
    \/ OpenDatabase \/ DatabaseOpen \/ Migrate \/ Checkpoint \/ StopServer \/ KillServer
    \/ \E secret \in BOOLEAN : StoreRow(secret)
    \/ BeginBackup \/ Snapshot \/ Verify \/ InstallArchive \/ EndBackup
    \/ \E n \in Archived : Hold(n)
    \/ \E from \in affair.archives \cup ({archive} \ {NoArchive}), force \in BOOLEAN : BeginRestore(from, force)
    \/ Stage \/ CheckKey \/ CommitDb \/ RemoveSidecars \/ FinishRestore \/ CutRestore
    \/ \E n \in KeyFiles : CommitKey(n)

DataSpec == DataInit /\ [][DataNext]_dataVars
-----------------------------------------------------------------------------
\* What a reader of a directory is told by it.
Told(dir) ==
    [db |-> IF dir["db"].ino = 0 THEN {} ELSE {ReadableIn(dir)},
     keys |-> [n \in KeyFiles |-> dir[n].holds]]

\* A restore that ends before its commit, and one that has not come to it, leaves every file
\* saying what it said (backup.go:217-223); one that ends well has put all of the archive in
\* place: the database is read as it was archived, whatever log the old one left behind, next
\* to the keys it was archived with, and the other files are untouched.
RestoresWhole ==
    /\ restoring.pc \in {"stage", "check", "db", "failed"} => Told(dataDir) = Told(restoring.before)
    /\ restoring.pc = "done" =>
         Told(dataDir) =
           [db |-> {restoring.from.files["db"]},
            keys |-> [n \in KeyFiles |-> IF n \in DOMAIN restoring.from.files THEN restoring.from.files[n]
                                          ELSE restoring.before[n].holds]]

\* A backup's archive is one state of the database, none older than the one the backup found
\* when it opened it, with the key of its secrets: also when the directory was restored over or
\* the orchestrator was writing meanwhile (backup.go:117-124).  Not so the backup of a directory
\* that a restore had left, or was just leaving, half replaced.
ArchivesOpen ==
    archive.whole /\ ~archive.doubtful =>
      LET db == archive.files["db"] IN
      /\ db.data >= archive.was.data /\ db.ver >= archive.was.ver
      /\ "encryption" \in DOMAIN archive.files /\ db.keys \subseteq {archive.files["encryption"]}

\* An orchestrator that is up has the key of every secret in its database and a schema it
\* knows, after any sequence of starts, kills, upgrades, backups and restores; except in a
\* directory where a restore was cut off, or put a database that came without its key.
OpensItsSecrets ==
    server.pc = "up" /\ ~mixed =>
      /\ Readable # Torn /\ Readable.ver >= server.target
      /\ Readable.keys \subseteq {server.key}

\* A restore leaves the old state or makes the new one, and a database never comes without the
\* key of its secrets, in an archive or in a directory an orchestrator runs on.
DataKept == RestoresWhole /\ ArchivesOpen /\ OpensItsSecrets
=============================================================================
