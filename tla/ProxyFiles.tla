------------------------------- MODULE ProxyFiles -------------------------------
(***************************************************************************)
(* A push to an agent that writes a host's nginx, apache or custom proxy       *)
(* itself (stream.go applyIntents, proxy/nginx, proxy/apache, proxy/generic,      *)
(* proxy/certstore): certificates are installed and scrubbed, routes rendered,      *)
(* orphans pruned, and the files written, tested, loaded and, on any failure,         *)
(* rolled back; while the disk fails, the agent crashes and an operator edits.         *)
(***************************************************************************)
EXTENDS Naturals, FiniteSets

CONSTANTS
    Hosts, NoFile,
    Certs,          \* certificates and their keys, in the order they were issued
    Setups          \* what to consider: the layout, the sets to push, how much may happen

Layouts == {"sites", "confd", "custom"}
(* What is wanted of a host: a rendered or a raw vhost, its certificate alone, a  *)
(* drifted file left as it is, or nothing; and its certificate, 0 for none.        *)
Wishes  == [use : {"rendered", "raw", "only", "held", "none"}, cert : Certs \cup {0}]
Vhosts  == [marked : BOOLEAN, use : {"rendered", "raw", "edited", "broken"}, tls : BOOLEAN]
Mishaps == {"disk", "command", "crash", "operator"}

ASSUME FilesAssumptions ==
    /\ IsFiniteSet(Hosts) /\ Certs \subseteq Nat \ {0}
    /\ NoFile \notin Vhosts \cup [file : Vhosts, crt : Certs \cup {0}]
    /\ Setups \subseteq [layout : Layouts, sets : SUBSET [Hosts -> Wishes], pushes : Nat,
                         mishaps : SUBSET Mishaps, count : Nat]

VARIABLES
    vhost, link, copied,    \* the file of a host, how it is activated, the operator's copy of it
    pem,                    \* pem[h]: the versions of .crt, .key.enc and .key.plain, 0 for no file
    loaded,                 \* what the workers serve
    pushed,                 \* the push under way
    last,                   \* the last full apply: what it applied, whether it was clean
    refusals,               \* what the disk kept from being put back: <<host, "file" or "link">>
    setup, left

files    == <<vhost, link, copied, refusals>>
fileVars == <<files, pem, loaded, pushed, last, setup, left>>

AtPush(pc) == pushed.pc = pc
To(pc)     == [pushed EXCEPT !.pc = pc]
NoPem   == [crt |-> 0, key |-> 0, plain |-> 0]
NoPush  == [pc |-> "resting", set |-> [h \in Hosts |-> [use |-> "none", cert |-> 0]],
            todo |-> {}, art |-> [h \in Hosts |-> NoFile], certsOK |-> TRUE, clean |-> TRUE, removed |-> FALSE,
            staged |-> {}, prior |-> [h \in Hosts |-> [file |-> NoFile, link |-> "none"]],
            before |-> [h \in Hosts |-> [file |-> NoFile, link |-> "none"]], touched |-> {}, pure |-> TRUE]
NeverApplied == [set |-> NoPush.set, art |-> NoPush.art, clean |-> FALSE, since |-> FALSE]

FilesInit ==
    /\ setup \in Setups
    /\ vhost = [h \in Hosts |-> NoFile] /\ link = [h \in Hosts |-> "none"] /\ copied = [h \in Hosts |-> NoFile]
    /\ pem = [h \in Hosts |-> NoPem]
    /\ loaded = [h \in Hosts |-> NoFile]
    /\ pushed = NoPush /\ last = NeverApplied /\ refusals = {}
    /\ left = [pushes |-> setup.pushes, count |-> setup.count]

(* Something goes wrong; the push is no longer one that met with nothing.        *)
Mishap(m) == m \in setup.mishaps /\ left.count > 0 /\ left' = [left EXCEPT !.count = @ - 1]
-----------------------------------------------------------------------------
(* What the proxy reads.                                                     *)

HasLinks  == setup.layout = "sites"
Proven(f) == f # NoFile /\ (f.marked \/ setup.layout = "custom")

(* The file the proxy reads for h, if there is any.                            *)
Served(h) ==
    CASE ~HasLinks \/ link[h] = "ours"   -> vhost[h]
      [] HasLinks /\ link[h] = "copy"    -> copied[h]
      [] OTHER                           -> NoFile

OnDisk(h) == [file |-> vhost[h], link |-> link[h]]
Matches(h) == pem[h].crt # 0 /\ pem[h].plain = pem[h].crt

(* nginx -t: every file parses, every certificate is there with its key.        *)
Fits(h)    == Served(h) # NoFile => Served(h).use # "broken" /\ (Served(h).tls => Matches(h))
TestPasses == \A h \in Hosts : Fits(h)
Load       == [h \in Hosts |-> IF Served(h) = NoFile THEN NoFile
                               ELSE [file |-> Served(h), crt |-> IF Served(h).tls THEN pem[h].crt ELSE 0]]
-----------------------------------------------------------------------------
(* A push arrives; one at a time.  Its keep lists name the drifted files, and     *)
(* the certificates of every live domain.                                          *)

Pushable(h, w) == w[h].use \in {"rendered", "raw"}
CertKept(w)  == {h \in Hosts : w[h].use # "none"}
Bundled(w)   == {h \in Hosts : w[h].use \in {"rendered", "raw", "only"} /\ w[h].cert # 0}
KeepFile(w)  == {h \in Hosts : w[h].use = "held"}

Push(w) ==
    /\ AtPush("resting") /\ left.pushes > 0
    /\ left' = [left EXCEPT !.pushes = @ - 1]
    /\ pushed' = [NoPush EXCEPT !.pc = "install", !.set = w, !.todo = Bundled(w)]
    /\ UNCHANGED <<files, pem, loaded, last, setup>>

Hand(h) == pushed.set[h].use \in {"raw", "only"}

(* Store.Install: a runtime key that is there already is renewed too.           *)
WithPlain(p, h, c) == [p EXCEPT !.plain = IF Hand(h) \/ p.plain # 0 THEN c ELSE @]

(* The certificate, its key, and the runtime key.                              *)
Installed(h, n) ==
    LET c  == pushed.set[h].cert
        p1 == IF n >= 1 THEN [pem[h] EXCEPT !.crt = c] ELSE pem[h]
        p2 == IF n >= 2 THEN [p1 EXCEPT !.key = c] ELSE p1
    IN  IF n >= 3 THEN WithPlain(p2, h, c) ELSE p2

Install(h) ==
    /\ AtPush("install") /\ h \in pushed.todo
    /\ pem' = [pem EXCEPT ![h] = Installed(h, 3)]
    /\ pushed' = [pushed EXCEPT !.todo = @ \ {h}]
    /\ UNCHANGED <<files, loaded, last, setup, left>>

(* A write fails: the rest is left, the push goes on.                          *)
InstallFails(h) ==
    /\ AtPush("install") /\ h \in pushed.todo
    /\ Mishap("disk")
    /\ \E n \in 0..2 : pem' = [pem EXCEPT ![h] = Installed(h, n)]
    /\ pushed' = [pushed EXCEPT !.todo = {}, !.certsOK = FALSE, !.pure = FALSE]
    /\ UNCHANGED <<files, loaded, last, setup>>

(* Store.Prune: hosts that have a .crt and are not kept.                        *)
Scrub ==
    /\ AtPush("install") /\ pushed.todo = {}
    /\ pem' = [h \in Hosts |-> IF h \in CertKept(pushed.set) \/ pem[h].crt = 0 THEN pem[h] ELSE NoPem]
    /\ pushed' = [To("render") EXCEPT !.todo = {h \in Hosts : Pushable(h, pushed.set)}]
    /\ UNCHANGED <<files, loaded, last, setup, left>>

(* Backend.Render: the runtime key is written on the way; a vhost whose key cannot *)
(* be is rendered without TLS.                                                     *)
Drawn(h, tls) == [marked |-> TRUE, use |-> pushed.set[h].use, tls |-> tls]

Render(h) ==
    /\ AtPush("render") /\ h \in pushed.todo
    /\ LET w == pushed.set[h]
           tls == pem[h].crt # 0 /\ pem[h].key # 0 IN
       /\ pushed' = [pushed EXCEPT !.todo = @ \ {h}, !.art[h] = Drawn(h, IF w.use = "raw" THEN w.cert # 0 ELSE tls)]
       /\ pem' = IF w.use = "rendered" /\ tls THEN [pem EXCEPT ![h].plain = pem[h].key] ELSE pem
    /\ UNCHANGED <<files, loaded, last, setup, left>>

RenderDegrades(h) ==
    /\ AtPush("render") /\ h \in pushed.todo /\ pushed.set[h].use = "rendered"
    /\ Mishap("disk")
    /\ pushed' = [pushed EXCEPT !.todo = @ \ {h}, !.art[h] = Drawn(h, FALSE), !.pure = FALSE]
    /\ UNCHANGED <<files, pem, loaded, last, setup>>

(* setFingerprint: what was rendered, and the set with its certificates.        *)
SameAsLast == pushed.art = last.art /\ pushed.set = last.set

Suppressed == pushed.certsOK /\ last.clean /\ SameAsLast

(* Nothing to do.  It need not be taken: the last apply may be too long ago.     *)
Suppress ==
    /\ AtPush("render") /\ pushed.todo = {} /\ Suppressed
    /\ pushed' = NoPush
    /\ UNCHANGED <<files, pem, loaded, last, setup, left>>

Artifacts == {h \in Hosts : pushed.art[h] # NoFile}

(* Mutant: the files are written before the orphans go.                        *)
MutAfterGate == IF Artifacts = {} THEN [To("prune") EXCEPT !.todo = Hosts]
                ELSE [To("stage") EXCEPT !.todo = Artifacts, !.clean = pushed.certsOK]
(* Orphans go before the new set is tested.                                    *)
AfterGate == [To("prune") EXCEPT !.todo = Hosts, !.clean = pushed.certsOK]

Proceeds ==
    /\ AtPush("render") /\ pushed.todo = {}
    /\ pushed' = AfterGate
    /\ UNCHANGED <<files, pem, loaded, last, setup, left>>
-----------------------------------------------------------------------------
(* Prune.                                                                    *)

Orphan(h) == Proven(vhost[h]) /\ h \notin Artifacts \cup KeepFile(pushed.set)

(* What a push goes on to after its orphans; what was there is remembered.        *)
AfterPrune  == [To(IF Artifacts = {} THEN "end" ELSE "stage") EXCEPT
                   !.todo = Artifacts, !.before = [h \in Hosts |-> OnDisk(h)]]

Unlinked(h) == [link EXCEPT ![h] = IF @ = "ours" THEN "none" ELSE @]
Parts(p)    == {[p EXCEPT !.crt = 0], [p EXCEPT !.crt = 0, !.key = 0], NoPem}

(* The link if it leads to the file, the file, the certificate and its keys.      *)
PruneOrphan(h) ==
    /\ AtPush("prune") /\ h \in pushed.todo /\ Orphan(h)
    /\ vhost' = [vhost EXCEPT ![h] = NoFile] /\ link' = Unlinked(h)
    /\ pem' = [pem EXCEPT ![h] = NoPem]
    /\ pushed' = [pushed EXCEPT !.todo = @ \ {h}, !.removed = TRUE]
    /\ UNCHANGED <<copied, refusals, loaded, last, setup, left>>

(* One removal fails: the rest stays, nothing is reloaded, the push goes on.       *)
PruneFails(h) ==
    /\ AtPush("prune") /\ h \in pushed.todo /\ Orphan(h)
    /\ Mishap("disk")
    /\ link' \in {link, Unlinked(h)}
    /\ \/ UNCHANGED <<vhost, pem>>
       \/ /\ vhost' = [vhost EXCEPT ![h] = NoFile] /\ link' = Unlinked(h)
          /\ \E p \in Parts(pem[h]) \cup {pem[h]} : pem' = [pem EXCEPT ![h] = p]
    /\ pushed' = [AfterPrune EXCEPT !.before[h] = [file |-> vhost'[h], link |-> link'[h]], !.clean = FALSE, !.pure = FALSE]
    /\ UNCHANGED <<copied, refusals, loaded, last, setup>>

(* One reload, if anything went.                                              *)
EndPrune ==
    /\ AtPush("prune") /\ \A h \in pushed.todo : ~Orphan(h)
    /\ \/ /\ pushed.removed => TestPasses
          /\ loaded' = (IF pushed.removed THEN Load ELSE loaded) /\ pushed' = AfterPrune /\ UNCHANGED left
       \/ /\ pushed.removed /\ ~TestPasses
          /\ pushed' = [AfterPrune EXCEPT !.clean = FALSE] /\ UNCHANGED <<loaded, left>>
       \/ /\ pushed.removed /\ Mishap("command")
          /\ pushed' = [AfterPrune EXCEPT !.clean = FALSE, !.pure = FALSE] /\ UNCHANGED loaded
    /\ UNCHANGED <<files, pem, last, setup>>
-----------------------------------------------------------------------------
(* Apply.                                                                    *)

(* Mutant: a file is rolled back only once all of its steps were taken.         *)
MutRegistered(h) == pushed.staged
(* A file is registered before anything is written.                            *)
Registered(h) == pushed.staged \cup {h}

(* ensureSymlink: a copy of the operator's is not replaced.                     *)
Refused(h) == HasLinks /\ link[h] = "copy"

(* What a write that fails or is cut short leaves of a file: nothing but the start  *)
(* of its marker, which parses, or half of it, which does not.                          *)
Scraps(f) == IF f = NoFile THEN {}
             ELSE {[marked |-> FALSE, use |-> "edited", tls |-> FALSE],
                   [marked |-> f.marked, use |-> "broken", tls |-> FALSE]}
Holds(h, f) == [vhost EXCEPT ![h] = f]
Bare(h)      == [link EXCEPT ![h] = "none"]

(* Snapshot, write, activate.  What is no longer to do has come to its link.       *)
Snapshot(h) == [pushed EXCEPT !.prior[h] = OnDisk(h)]
Stage(h) ==
    /\ AtPush("stage") /\ h \in pushed.todo
    /\ vhost' = Holds(h, pushed.art[h])
    /\ link' = IF HasLinks /\ ~Refused(h) THEN [link EXCEPT ![h] = "ours"] ELSE link
    /\ pushed' = IF Refused(h)
                 THEN [Snapshot(h) EXCEPT !.pc = "rollback", !.todo = @ \ {h}, !.staged = Registered(h)]
                 ELSE [Snapshot(h) EXCEPT !.todo = @ \ {h}, !.staged = @ \cup {h}]
    /\ UNCHANGED <<copied, refusals, pem, loaded, last, setup, left>>

(* The file cannot be read, or not be written; or its link is not made, and the     *)
(* one that was there is gone by then, or is not.                                     *)
StageFails(h) ==
    /\ AtPush("stage") /\ h \in pushed.todo
    /\ Mishap("disk")
    /\ LET gives(p) == pushed' = [p EXCEPT !.pc = "rollback", !.pure = FALSE]
           failed == [Snapshot(h) EXCEPT !.staged = Registered(h)] IN
       \/ gives(pushed) /\ UNCHANGED <<vhost, link, refusals>>
       \/ /\ gives(failed) /\ UNCHANGED <<link, refusals>>
          /\ vhost' \in {vhost} \cup {Holds(h, f) : f \in Scraps(pushed.art[h])}
       \/ /\ HasLinks /\ ~Refused(h)
          /\ gives([failed EXCEPT !.todo = @ \ {h}]) /\ vhost' = Holds(h, pushed.art[h])
          /\ \/ UNCHANGED <<link, refusals>>
             \/ link' = Bare(h) /\ refusals' = IF link[h] = "none" THEN refusals ELSE refusals \cup {<<h, "link">>}
    /\ UNCHANGED <<copied, pem, loaded, last, setup>>

(* A custom proxy may have no command to test with.                            *)
Test ==
    /\ AtPush("stage") /\ pushed.todo = {}
    /\ \/ /\ TestPasses \/ setup.layout = "custom"
          /\ pushed' = To("reload") /\ UNCHANGED left
       \/ ~TestPasses /\ pushed' = To("rollback") /\ UNCHANGED left
       \/ Mishap("command") /\ pushed' = [To("rollback") EXCEPT !.pure = FALSE]
    /\ UNCHANGED <<files, pem, loaded, last, setup>>

ReloadProxy ==
    /\ AtPush("reload")
    /\ \/ TestPasses /\ loaded' = Load /\ pushed' = To("end") /\ UNCHANGED left
       \/ ~TestPasses /\ pushed' = To("rollback") /\ UNCHANGED <<loaded, left>>
       \/ Mishap("command") /\ pushed' = [To("rollback") EXCEPT !.pure = FALSE] /\ UNCHANGED loaded
    /\ UNCHANGED <<files, pem, last, setup>>

(* restoreSnapshot: a symlink that was there is left as it is now; anything else   *)
(* in its place goes, an operator's copy as well.                                     *)
Inactive(h) == IF h \notin pushed.todo /\ pushed.prior[h].link \in {"none", "copy"} THEN Bare(h) ELSE link

RollBack(h) ==
    /\ AtPush("rollback") /\ h \in pushed.staged
    /\ vhost' = Holds(h, pushed.prior[h].file)
    /\ link' = Inactive(h)
    /\ pushed' = [pushed EXCEPT !.staged = @ \ {h}]
    /\ UNCHANGED <<copied, refusals, pem, loaded, last, setup, left>>

(* The disk refuses: that is swallowed, the next file's turn comes.             *)
RollBackFails(h) ==
    /\ AtPush("rollback") /\ h \in pushed.staged
    /\ Mishap("disk")
    /\ \/ /\ vhost' \in {vhost} \cup {Holds(h, f) : f \in Scraps(pushed.prior[h].file)}
          /\ \/ link' = Inactive(h) /\ refusals' = refusals \cup {<<h, "file">>}
             \/ UNCHANGED link /\ refusals' = refusals \cup {<<h, "file">>, <<h, "link">>}
       \/ /\ vhost' = Holds(h, pushed.prior[h].file) /\ UNCHANGED link
          /\ refusals' = refusals \cup {<<h, "link">>}
    /\ pushed' = [pushed EXCEPT !.staged = @ \ {h}, !.pure = FALSE]
    /\ UNCHANGED <<copied, pem, loaded, last, setup>>

RolledBack ==
    /\ AtPush("rollback") /\ pushed.staged = {}
    /\ pushed' = [To("end") EXCEPT !.clean = FALSE] /\ refusals' = {}
    /\ UNCHANGED <<vhost, link, copied, pem, loaded, last, setup, left>>

EndPush ==
    /\ AtPush("end")
    /\ last' = [set |-> pushed.set, art |-> pushed.art, clean |-> pushed.clean, since |-> pushed.touched # {}]
    /\ pushed' = NoPush
    /\ UNCHANGED <<files, pem, loaded, setup, left>>
-----------------------------------------------------------------------------
(* The agent crashes: what is written stays, what it knew is gone.              *)
AgentCrash ==
    /\ ~AtPush("resting") /\ Mishap("crash")
    /\ \/ UNCHANGED <<vhost, link, pem>>
       \/ /\ AtPush("install") /\ UNCHANGED <<vhost, link>>
          /\ \/ \E h \in pushed.todo, n \in 1..2 : pem' = [pem EXCEPT ![h] = Installed(h, n)]
             \/ /\ pushed.todo = {}
                /\ \E h \in Hosts \ CertKept(pushed.set) : \E p \in Parts(pem[h]) : pem' = [pem EXCEPT ![h] = p]
       \/ /\ AtPush("prune")
          /\ \E h \in pushed.todo : Orphan(h) /\ link' = Unlinked(h) /\
                \/ UNCHANGED <<vhost, pem>>
                \/ vhost' = [vhost EXCEPT ![h] = NoFile] /\ \E p \in Parts(pem[h]) : pem' = [pem EXCEPT ![h] = p]
       \/ /\ AtPush("stage") /\ UNCHANGED pem
          /\ \E h \in pushed.todo :
                \/ vhost' \in {Holds(h, f) : f \in Scraps(pushed.art[h])} /\ UNCHANGED link
                \/ vhost' = Holds(h, pushed.art[h]) /\ link' \in {link, IF HasLinks /\ ~Refused(h) THEN Bare(h) ELSE link}
       \/ /\ AtPush("rollback") /\ UNCHANGED <<link, pem>>
          /\ \E h \in pushed.staged : vhost' \in {Holds(h, f) : f \in Scraps(pushed.prior[h].file) \cup {pushed.prior[h].file}}
    /\ pushed' = NoPush /\ last' = NeverApplied /\ refusals' = {}
    /\ UNCHANGED <<copied, loaded, setup>>

(* The operator edits a file, or its activation, at any moment.                *)
OperatorActs(h) ==
    /\ Mishap("operator")
    /\ \/ /\ vhost[h] # NoFile
          /\ \E m \in BOOLEAN : vhost' = [vhost EXCEPT ![h] = [marked |-> m, use |-> "edited", tls |-> FALSE]]
          /\ UNCHANGED <<link, copied>>
       \/ /\ HasLinks /\ link[h] = "ours"
          /\ \/ link' = [link EXCEPT ![h] = "copy"] /\ copied' = [copied EXCEPT ![h] = vhost[h]]
             \/ \E l \in {"none", "elsewhere"} : link' = [link EXCEPT ![h] = l] /\ UNCHANGED copied
          /\ UNCHANGED vhost
       \/ link[h] = "copy" /\ link' = [link EXCEPT ![h] = "none"] /\ UNCHANGED <<vhost, copied>>
    /\ pushed' = IF AtPush("resting") THEN pushed ELSE [pushed EXCEPT !.pure = FALSE, !.touched = @ \cup {h}]
    /\ last' = [last EXCEPT !.since = TRUE]
    /\ UNCHANGED <<pem, refusals, loaded, setup>>

FilesNext ==
    \/ \E w \in setup.sets : Push(w)
    \/ \E h \in Hosts :
          \/ Install(h) \/ InstallFails(h) \/ Render(h) \/ RenderDegrades(h) \/ PruneOrphan(h) \/ PruneFails(h)
          \/ Stage(h) \/ StageFails(h) \/ RollBack(h) \/ RollBackFails(h) \/ OperatorActs(h)
    \/ Scrub \/ Suppress \/ Proceeds \/ EndPrune \/ Test \/ ReloadProxy \/ RolledBack \/ EndPush \/ AgentCrash

FilesSpec == FilesInit /\ [][FilesNext]_fileVars
-----------------------------------------------------------------------------
(* A failed apply is undone ("restores each snapshot, leaving the proxy serving   *)
(* exactly what it served before"): unless the agent crashed, every file that the    *)
(* operator left alone is what it was, and activated as it was, and what the disk did   *)
(* not let be put back or linked again costs no other file.  But a link that led         *)
(* elsewhere may lead to the file now, and an operator's copy may be gone.                *)
LinkedAsBefore(h) ==
    \/ link[h] = pushed.before[h].link
    \/ pushed.before[h].link \in {"elsewhere", "copy"}
    \/ <<h, "link">> \in refusals
Undone ==
    [][AtPush("rollback") /\ pushed'.pc = "end" =>
        \A h \in Artifacts \ pushed.touched :
            /\ vhost[h] = pushed.before[h].file \/ <<h, "file">> \in refusals
            /\ LinkedAsBefore(h)]_fileVars

(* Nothing is in the way of a push, whatever the disk, crashes and the operator    *)
(* did before ("leaving the agent permanently wedged"): while it meets with nothing  *)
(* itself, and none is in the place of a link and none that it may neither write nor    *)
(* prune (a held one, or one without the marker) fails the test, a push ends clean, or   *)
(* was suppressed and nobody changed a file since; and then the workers serve every       *)
(* host that is wanted, with the certificate that came with it.                            *)
NotOurs(h) == h \in KeepFile(pushed.set) \/ (h \notin Artifacts /\ ~Proven(vhost[h]))
InTheWay ==
    \E h \in Hosts : link[h] = "copy" \/ pushed.before[h].link = "copy" \/ (NotOurs(h) /\ ~Fits(h))
Right(h) ==
    LET w == pushed.set[h] IN
    /\ Pushable(h, pushed.set) =>
         /\ loaded[h] # NoFile /\ loaded[h].file = pushed.art[h]
         /\ loaded[h].crt = w.cert
    /\ w.use = "none" /\ Artifacts # {} => loaded[h] = NoFile \/ ~loaded[h].file.marked
NeverBlocked ==
    [][pushed.pc \in {"end", "render"} /\ pushed'.pc = "resting" /\ last' # NeverApplied
       /\ pushed.pure /\ ~InTheWay /\ (AtPush("render") => ~last.since) =>
        \A h \in Hosts : Right(h)]_fileVars
================================================================================
