------------------------------- MODULE RouteSync -------------------------------
(***************************************************************************)
(* How one agent's files follow the orchestrator's database: the            *)
(* reconciler and the request handlers build sets of routes from the rows   *)
(* and the config artifacts (reconciler.go) and publish them on the hub     *)
(* (agenthub); the agent renders, applies or suppresses them and            *)
(* acknowledges (agent/stream); the ACK and the heartbeat's checksums are   *)
(* stored (api/agents_stream.go, db/config_artifacts.go); meanwhile the     *)
(* operator edits the files, and accepts or rejects what is found.          *)
(*                                                                          *)
(* The agent has a file backend (nginx, Apache) and no privileged helper; a  *)
(* domain has one file, named by it.                                        *)
(***************************************************************************)
EXTENDS Naturals, Sequences

CONSTANTS
    Domains,
    Existing,   \* the domains that have a row at the start
    Settings,   \* what a domain row says of its route
    Valid,      \* those that pass Validate
    Edits,      \* what an operator writes into a file
    Stub,       \* what reset-to-model stores until the agent has rendered
    NoFile,     \* no file, no content, nothing to report
    NoArt,      \* no config artifact
    Failed,     \* the report of an artifact that was not applied
    Buffer,     \* how many sets the hub keeps for the agent
    Budget      \* bounds on what users, operators and failures do, each and in total

Publishers == {"reconciler", "request"}
Acks == {1, 2}
Texts == Settings \cup Edits \cup {Stub}
Contents == [text : Texts, marked : BOOLEAN]

ASSUME SyncAssumptions ==
    /\ Existing \subseteq Domains
    /\ Valid \subseteq Settings /\ Valid # {}
    /\ NoFile \notin Contents /\ Failed \notin Contents /\ NoFile # Failed
    /\ Buffer \in Nat \ {0}
    /\ Budget \in [{"user", "edit", "fail", "lose", "restart", "total"} -> Nat]

VARIABLES
    row,        \* row[d]: [status, settings]
    art,        \* art[d]: [source, content, state, seen]: the artifact dom-<id>
    auto,       \* the agent's auto_reconcile_config
    slot,       \* slot[p]: where the publisher p is
    link,       \* the agent's stream is subscribed
    chan,       \* the sets in the subscriber's channel and on the wire
    acks,       \* acks[n]: an ACK on its way or half handled
    beat,       \* the checksums of a heartbeat on its way
    disk,       \* disk[d]: the file of d
    managed,    \* c.managed: the content last applied, for its checksum
    last,       \* lastApplyFP and lastApplyClean
    fresh,      \* lastFullApply is younger than suppressionTTL
    agent,      \* what the agent's stream goroutine is at
    touched,    \* history: files the operator changed after the agent wrote them
    left        \* what is left of the budget

dbVars == <<row, art, auto>>
hubVars == <<link, chan>>
agentVars == <<managed, last, fresh, agent>>
hostVars == <<disk, touched>>
vars == <<dbVars, slot, hubVars, acks, beat, agentVars, hostVars, left>>

Plain(text) == [text |-> text, marked |-> FALSE]
Stamp(content) == [content EXCEPT !.marked = TRUE]
Generated(settings) == Stamp(Plain(settings))
HasMarker(content) == content # NoFile /\ content.marked

Idle == [at |-> "idle"]
NoAck == Idle
NoBeat == [d \in Domains |-> NoFile]
Fresh(content) == [source |-> "generated", content |-> content, state |-> "live", seen |-> NoFile]
Never == [clean |-> FALSE, reports |-> [d \in Domains |-> NoFile], keep |-> {}]

Init ==
    /\ row \in [Domains -> [status : {"pending", "unborn"}, settings : Valid]]
    /\ \A d \in Domains : row[d].status = "pending" <=> d \in Existing
    /\ art = [d \in Domains |-> NoArt]
    /\ auto = FALSE
    /\ slot = [p \in Publishers |-> Idle]
    /\ link = FALSE
    /\ chan = <<>>
    /\ acks = [n \in Acks |-> NoAck]
    /\ beat = NoBeat
    /\ disk = [d \in Domains |-> NoFile]
    /\ managed = [d \in Domains |-> NoFile]
    /\ last = Never
    /\ fresh = FALSE
    /\ agent = Idle
    /\ touched = {}
    /\ left = Budget

Spend(what) ==
    /\ left[what] > 0 /\ left["total"] > 0
    /\ left' = [left EXCEPT ![what] = @ - 1, !["total"] = @ - 1]

Exists(d) == row[d].status \notin {"unborn", "gone"}
HasArt(d) == art[d] # NoArt
IsManual(d) == HasArt(d) /\ art[d].source = "manual"
IsDrifted(d) == HasArt(d) /\ art[d].state = "drifted"
-----------------------------------------------------------------------------
(* The desired routes: buildDesiredRoutes, from the rows its query returned. *)

Left(rows, d) == rows[d].status \in {"unborn", "gone", "deleting"}
UnderReview(automatic, d) == IsDrifted(d) /\ ~automatic
Invalid(rows, d) == ~IsManual(d) /\ rows[d].settings \notin Valid

\* What the publisher read: the agent's row and its domains' rows; artifacts are read later.
Listed == [at |-> "listed", rows |-> row, auto |-> auto]

Reviewed(list) == {d \in Domains : ~Left(list.rows, d) /\ UnderReview(list.auto, d)}
HeldBack(list) == {d \in Domains : ~Left(list.rows, d) /\ Invalid(list.rows, d)} \ Reviewed(list)

\* Mutant: an artifact under review is skipped and not kept.
MutKept(list) == {d \in HeldBack(list) : HasArt(d)}

Kept(list) == Reviewed(list) \cup {d \in HeldBack(list) : HasArt(d)}

Intents(list) ==
    [d \in Domains |->
        IF Left(list.rows, d) \/ d \in Reviewed(list) \cup HeldBack(list) THEN NoFile
        ELSE IF IsManual(d) THEN art[d].content
        ELSE Plain(list.rows[d].settings)]

\* An intent set; "reviewed" is history: what was under review when it was built.
IntentSet(list) == [intents |-> Intents(list), keep |-> Kept(list), reviewed |-> Reviewed(list)]
-----------------------------------------------------------------------------
(* The publishers: the reconciler's goroutine, and the one of a request. *)

At(p, where) == slot[p].at = where
Goes(p, to) == slot' = [slot EXCEPT ![p] = to]
Due == [at |-> "due"]

\* Each cycle builds the agent's routes, connected or not.
Tick ==
    /\ At("reconciler", "idle") /\ Goes("reconciler", Listed)
    /\ UNCHANGED <<dbVars, hubVars, acks, beat, agentVars, hostVars, left>>

\* reconcileDeletions: the artifact, then the row; the cycle's push follows.
BeginTeardown(d) ==
    /\ At("reconciler", "idle") /\ row[d].status = "deleting"
    /\ art' = [art EXCEPT ![d] = NoArt]
    /\ Goes("reconciler", [at |-> "erase", domain |-> d])
    /\ UNCHANGED <<row, auto, hubVars, acks, beat, agentVars, hostVars, left>>

EraseRow ==
    /\ At("reconciler", "erase")
    /\ row' = [row EXCEPT ![slot["reconciler"].domain].status = "gone"]
    /\ Goes("reconciler", Idle)
    /\ UNCHANGED <<art, auto, hubVars, acks, beat, agentVars, hostVars, left>>

\* PushAgentRoutes, a no-op while the agent is not connected.
List ==
    /\ At("request", "due")
    /\ Goes("request", IF link THEN Listed ELSE Idle)
    /\ UNCHANGED <<dbVars, hubVars, acks, beat, agentVars, hostVars, left>>

Build(p) ==
    /\ At(p, "listed")
    /\ row' = [d \in Domains |->
                 IF d \in HeldBack(slot[p]) /\ Exists(d)
                 THEN [row[d] EXCEPT !.status = "error"] ELSE row[d]]
    /\ Goes(p, [at |-> "built", set |-> IntentSet(slot[p])])
    /\ UNCHANGED <<art, auto, hubVars, acks, beat, agentVars, hostVars, left>>

\* A full buffer drops the set; so does a hub without a subscriber.
Publish(p) ==
    /\ At(p, "built") /\ Goes(p, Idle)
    /\ chan' = IF link /\ Len(chan) < Buffer THEN Append(chan, slot[p].set) ELSE chan
    /\ UNCHANGED <<dbVars, link, acks, beat, agentVars, hostVars, left>>
-----------------------------------------------------------------------------
(* Requests: each changes the database in a transaction and then pushes. *)

Request == At("request", "idle") /\ Spend("user")
ThenPush == Goes("request", Due)
UnchangedByRequest == <<hubVars, acks, beat, agentVars, hostVars>>

CreateDomain(d) ==
    /\ Request /\ row[d].status = "unborn"
    /\ row' = [row EXCEPT ![d].status = "pending"]
    /\ ThenPush
    /\ UNCHANGED <<art, auto, UnchangedByRequest>>

UpdateDomain(d) ==
    /\ Request /\ Exists(d)
    /\ \E s \in Settings : row' = [row EXCEPT ![d] = [status |-> "pending", settings |-> s]]
    /\ ThenPush
    /\ UNCHANGED <<art, auto, UnchangedByRequest>>

\* ResetConfigArtifactToDomainModel.
Detached(a) == [a EXCEPT !.source = "generated", !.state = "live", !.seen = NoFile]

\* PUT .../config, and its reset: the row's own settings are to count again.
ReplaceConfig(d) ==
    /\ Request /\ Exists(d)
    /\ \E s \in Settings : row' = [row EXCEPT ![d] = [status |-> "pending", settings |-> s]]
    /\ art' = IF HasArt(d) THEN [art EXCEPT ![d] = Detached(@)] ELSE art
    /\ ThenPush
    /\ UNCHANGED <<auto, UnchangedByRequest>>

DeleteDomain(d) ==
    /\ Request /\ Exists(d)
    /\ row' = [row EXCEPT ![d].status = "deleting"]
    /\ ThenPush
    /\ UNCHANGED <<art, auto, UnchangedByRequest>>

\* AppendConfigArtifactVersion: content that is not new changes no source.
Versioned(a, content, source) ==
    [source  |-> IF content = a.content THEN a.source ELSE source,
     content |-> content, state |-> "live", seen |-> NoFile]

\* Accept does not push: the file is already there.
Accept(d) ==
    /\ Request /\ HasArt(d)
    /\ LET bytes == IF art[d].seen = NoFile THEN art[d].content ELSE art[d].seen
       IN  art' = [art EXCEPT ![d] = Versioned(@, bytes, "manual")]
    /\ UNCHANGED <<row, auto, slot, UnchangedByRequest>>

Reject(d) ==
    /\ Request /\ HasArt(d)
    /\ art' = [art EXCEPT ![d] = [@ EXCEPT !.state = "live", !.seen = NoFile]]
    /\ ThenPush
    /\ UNCHANGED <<row, auto, UnchangedByRequest>>

EditContent(d) ==
    /\ Request /\ HasArt(d)
    /\ \E text \in Edits : art' = [art EXCEPT ![d] = Versioned(@, Plain(text), "manual")]
    /\ ThenPush
    /\ UNCHANGED <<row, auto, UnchangedByRequest>>

\* The agent renders; until it has, a line saying so stands for the content.
ResetToModel(d) ==
    /\ Request /\ HasArt(d) /\ Exists(d)
    /\ art' = [art EXCEPT ![d] = Versioned(@, Plain(Stub), "generated")]
    /\ ThenPush
    /\ UNCHANGED <<row, auto, UnchangedByRequest>>

SetAutoReconcile ==
    /\ Request /\ auto' = ~auto
    /\ UNCHANGED <<row, art, slot, UnchangedByRequest>>
-----------------------------------------------------------------------------
(* The stream.  A connection is accepted with an empty channel and a push. *)

Connect ==
    /\ ~link /\ agent.at = "idle" /\ At("request", "idle")
    /\ link' = TRUE /\ chan' = <<>>
    /\ ThenPush
    /\ UNCHANGED <<dbVars, acks, beat, agentVars, hostVars, left>>

Disconnect ==
    /\ link /\ Spend("lose")
    /\ link' = FALSE /\ chan' = <<>>
    /\ UNCHANGED <<dbVars, slot, acks, beat, agentVars, hostVars>>
-----------------------------------------------------------------------------
(* The agent: applyIntents.  A report is the content rendered, or Failed. *)

Rendered(set, unrenderable) ==
    [d \in Domains |-> IF set.intents[d] = NoFile THEN NoFile
                       ELSE IF d \in unrenderable THEN Failed ELSE Stamp(set.intents[d])]

FilesOf(reports) == {d \in Domains : reports[d] \notin {NoFile, Failed}}

\* carryKeepManaged and setManaged: what is live, and what is kept of before.
NowManaged(live, reports, keep) ==
    managed' = [d \in Domains |-> IF d \in live THEN reports[d]
                                  ELSE IF d \in keep THEN managed[d] ELSE NoFile]

Unchanged(reports, keep) ==
    last.clean /\ fresh /\ reports = last.reports /\ keep = last.keep

\* sendAck: the agent waits for the answer.
SendAck(reports) ==
    \E n \in Acks :
        /\ acks[n] = NoAck /\ \A m \in Acks : m < n => acks[m] # NoAck
        /\ acks' = [acks EXCEPT ![n] = [at |-> "sent", reports |-> reports]]
        /\ agent' = [at |-> "acking", ack |-> n]

Answered(n) == IF agent.at = "acking" /\ agent.ack = n THEN Idle ELSE agent

\* Rendering may fail, for some of the routes; each has a report.
Rendering(set, bad) ==
    /\ bad \subseteq {d \in Domains : set.intents[d] # NoFile}
    /\ IF bad = {} THEN UNCHANGED left ELSE Spend("fail")

Delivered == agent.at = "idle" /\ link /\ chan # <<>>

Suppress ==
    /\ Delivered
    /\ \E bad \in SUBSET Domains :
          LET set == Head(chan)
              reports == Rendered(set, bad)
          IN  /\ Rendering(set, bad)
              /\ Unchanged(reports, set.keep)
              /\ NowManaged(FilesOf(reports), reports, set.keep)
              /\ SendAck(reports)
    /\ chan' = Tail(chan)
    /\ UNCHANGED <<dbVars, slot, link, beat, last, fresh, hostVars>>

\* Prune: marked files that are neither rendered nor to be kept.
Pruned(wanted) == [d \in Domains |-> IF HasMarker(disk[d]) /\ d \notin wanted THEN NoFile ELSE disk[d]]

\* Mutant: a set without routes prunes nothing.
MutWrite(set, reports, ok) ==
    LET files == FilesOf(reports)
        pruned == IF files = {} THEN disk ELSE Pruned(files \cup set.keep)
    IN  /\ disk' = [d \in Domains |-> IF ok /\ d \in files THEN reports[d] ELSE pruned[d]]
        /\ touched' = IF ok THEN touched \ files ELSE touched
        /\ agent' = [at |-> "written", set |-> set, reports |-> reports, ok |-> ok]

\* The orphans go first; then the batch is written as a whole, or rolled back.
Write(set, reports, ok) ==
    LET files == FilesOf(reports)
        pruned == Pruned(files \cup set.keep)
    IN  /\ disk' = [d \in Domains |-> IF ok /\ d \in files THEN reports[d] ELSE pruned[d]]
        /\ touched' = IF ok THEN touched \ files ELSE touched
        /\ agent' = [at |-> "written", set |-> set, reports |-> reports, ok |-> ok]

\* Routes that cannot be rendered are left out of the batch.
Apply ==
    /\ Delivered
    /\ \E bad \in SUBSET Domains :
          LET set == Head(chan)
              reports == Rendered(set, bad)
          IN  /\ Rendering(set, bad)
              /\ ~Unchanged(reports, set.keep)
              /\ Write(set, reports, TRUE)
    /\ chan' = Tail(chan)
    /\ UNCHANGED <<dbVars, slot, link, acks, beat, managed, last, fresh>>

\* The test or the reload of the batch fails.
ApplyFails ==
    /\ Delivered /\ Spend("fail")
    /\ LET set == Head(chan)
           reports == Rendered(set, {})
       IN  /\ ~Unchanged(reports, set.keep) /\ FilesOf(reports) # {}
           /\ Write(set, reports, FALSE)
    /\ chan' = Tail(chan)
    /\ UNCHANGED <<dbVars, slot, link, acks, beat, managed, last, fresh>>

\* Mutant: a failed apply counts as clean.
MutRemember(reports, keep, ok) == last' = [clean |-> TRUE, reports |-> reports, keep |-> keep]

\* The fingerprint is the one of what was rendered, whether or not it was applied.
Remember(reports, keep, ok) == last' = [clean |-> ok, reports |-> reports, keep |-> keep]

FinishApply ==
    /\ agent.at = "written"
    /\ LET reports == agent.reports
           files == FilesOf(reports)
       IN  /\ NowManaged(IF agent.ok THEN files ELSE {}, reports, agent.set.keep)
           /\ Remember(reports, agent.set.keep, agent.ok)
           /\ SendAck([d \in Domains |-> IF d \in files /\ ~agent.ok THEN Failed ELSE reports[d]])
    /\ fresh' = TRUE
    /\ UNCHANGED <<dbVars, slot, hubVars, beat, hostVars, left>>

Expire ==
    /\ fresh /\ fresh' = FALSE
    /\ UNCHANGED <<dbVars, slot, hubVars, acks, beat, managed, last, agent, hostVars, left>>

\* The client gives up after 15 s; the handler goes on.
AckTimesOut ==
    /\ agent.at = "acking" /\ Spend("lose") /\ agent' = Idle
    /\ UNCHANGED <<dbVars, slot, hubVars, acks, beat, managed, last, fresh, hostVars>>

AckLost(n) ==
    /\ acks[n].at = "sent" /\ Spend("lose")
    /\ acks' = [acks EXCEPT ![n] = NoAck]
    /\ agent' = Answered(n)
    /\ UNCHANGED <<dbVars, slot, hubVars, beat, managed, last, fresh, hostVars>>

\* Between any two steps; what it kept in memory is lost.
Restart ==
    /\ Spend("restart")
    /\ link' = FALSE /\ chan' = <<>>
    /\ managed' = [d \in Domains |-> NoFile]
    /\ last' = Never /\ fresh' = FALSE /\ agent' = Idle
    /\ UNCHANGED <<dbVars, slot, acks, beat, hostVars>>
-----------------------------------------------------------------------------
(* The heartbeat: a checksum, with the content where it is not the last applied. *)

Beat ==
    /\ beat = NoBeat
    /\ beat' = [d \in Domains |->
                  IF managed[d] = NoFile THEN NoFile
                  ELSE IF disk[d] = NoFile THEN [sum |-> managed[d], content |-> NoFile]
                  ELSE [sum |-> disk[d], content |-> IF disk[d] = managed[d] THEN NoFile ELSE disk[d]]]
    /\ UNCHANGED <<dbVars, slot, hubVars, acks, agentVars, hostVars, left>>

\* ReconcileArtifactChecksum.
Compared(a, reported) ==
    CASE a = NoArt \/ reported = NoFile -> a
      [] a # NoArt /\ reported # NoFile ->
           CASE a.state = "apply_failed" -> a
             [] a.state = "live" ->
                  IF reported.sum = a.content THEN a
                  ELSE [a EXCEPT !.state = "drifted", !.seen = reported.content]
             [] a.state = "drifted" ->
                  IF reported.sum = a.content THEN [a EXCEPT !.state = "live", !.seen = NoFile]
                  ELSE IF reported.content = NoFile THEN a
                  ELSE [a EXCEPT !.seen = reported.content]

HandleBeat ==
    /\ beat # NoBeat /\ beat' = NoBeat
    /\ art' = [d \in Domains |-> Compared(art[d], beat[d])]
    /\ UNCHANGED <<row, auto, slot, hubVars, acks, agentVars, hostVars, left>>
-----------------------------------------------------------------------------
(* The ACK: the reports are stored, the rows listed, and then marked. *)

\* storeArtifactReport; an artifact cannot be created for a row that is gone.
Stored(d, report) ==
    IF report = NoFile THEN art[d]
    ELSE IF report = Failed THEN IF HasArt(d) THEN [art[d] EXCEPT !.state = "apply_failed"] ELSE NoArt
    ELSE IF HasArt(d) THEN Versioned(art[d], report, "generated")
    ELSE IF Exists(d) THEN Fresh(report) ELSE NoArt

StoreReports(n) ==
    /\ acks[n].at = "sent"
    /\ art' = [d \in Domains |-> Stored(d, acks[n].reports[d])]
    /\ acks' = [acks EXCEPT ![n] = [at |-> "stored", reports |-> @.reports,
                                    listed |-> {d \in Domains : ~Left(row, d)}]]
    /\ UNCHANGED <<row, auto, slot, hubVars, beat, agentVars, hostVars, left>>

Marked(d, report) ==
    IF report = NoFile \/ ~Exists(d) THEN row[d]
    ELSE [row[d] EXCEPT !.status = IF report = Failed THEN "error" ELSE "active"]

MarkDomains(n) ==
    /\ acks[n].at = "stored"
    /\ row' = [d \in Domains |-> IF d \in acks[n].listed THEN Marked(d, acks[n].reports[d]) ELSE row[d]]
    /\ acks' = [acks EXCEPT ![n] = NoAck]
    /\ agent' = Answered(n)
    /\ UNCHANGED <<art, auto, slot, hubVars, beat, managed, last, fresh, hostVars, left>>
-----------------------------------------------------------------------------
(* The operator, in the files. *)

EditFile(d) ==
    /\ Spend("edit")
    /\ \E content \in [text : Edits, marked : BOOLEAN] \cup {NoFile}
                        \cup (IF HasArt(d) THEN {art[d].content} ELSE {}) :
          content # disk[d] /\ disk' = [disk EXCEPT ![d] = content]
    /\ touched' = touched \cup {d}
    /\ UNCHANGED <<dbVars, slot, hubVars, acks, beat, agentVars>>
-----------------------------------------------------------------------------
Push == List \/ \E p \in Publishers : Build(p) \/ Publish(p)
Reconcile == Tick \/ EraseRow \/ \E d \in Domains : BeginTeardown(d)
Requests ==
    \/ SetAutoReconcile
    \/ \E d \in Domains :
          \/ CreateDomain(d) \/ UpdateDomain(d) \/ ReplaceConfig(d) \/ DeleteDomain(d)
          \/ Accept(d) \/ Reject(d) \/ EditContent(d) \/ ResetToModel(d)
Agent ==
    \/ Suppress \/ Apply \/ ApplyFails \/ FinishApply \/ Expire \/ AckTimesOut
    \/ \E n \in Acks : AckLost(n)
Heartbeat == Beat \/ HandleBeat
HandleAck == \E n \in Acks : StoreReports(n) \/ MarkDomains(n)

Next ==
    \/ Push \/ Reconcile \/ Requests \/ Connect \/ Disconnect
    \/ Agent \/ Restart \/ Heartbeat \/ HandleAck
    \/ \E d \in Domains : EditFile(d)

Spec == Init /\ [][Next]_vars

FairSpec ==
    /\ Spec
    /\ WF_vars(Tick) /\ WF_vars(EraseRow) /\ WF_vars(List)
    /\ \A d \in Domains : SF_vars(BeginTeardown(d))
    /\ \A p \in Publishers : WF_vars(Build(p) \/ Publish(p))
    /\ SF_vars(Connect)
    /\ WF_vars(Suppress \/ Apply \/ FinishApply) /\ WF_vars(Expire)
    /\ WF_vars(Beat) /\ WF_vars(HandleBeat)
    /\ \A n \in Acks : WF_vars(StoreReports(n) \/ MarkDomains(n))
-----------------------------------------------------------------------------
Statuses == {"unborn", "pending", "active", "error", "deleting", "gone"}
Rows == [status : Statuses, settings : Settings]
Artifacts == [source : {"generated", "manual"}, content : Contents,
              state : {"live", "drifted", "apply_failed"}, seen : Contents \cup {NoFile}]
Sets == [intents : [Domains -> Contents \cup {NoFile}], keep : SUBSET Domains, reviewed : SUBSET Domains]
Reports == [Domains -> Contents \cup {NoFile, Failed}]
Lists == [at : {"listed"}, rows : [Domains -> Rows], auto : BOOLEAN]
Slots == {Idle, Due} \cup [at : {"erase"}, domain : Domains] \cup Lists \cup [at : {"built"}, set : Sets]
AckStates ==
    {NoAck} \cup [at : {"sent"}, reports : Reports]
            \cup [at : {"stored"}, reports : Reports, listed : SUBSET Domains]
Beats == {NoFile} \cup [sum : Contents, content : Contents \cup {NoFile}]
AgentStates ==
    {Idle} \cup [at : {"acking"}, ack : Acks]
           \cup [at : {"written"}, set : Sets, reports : Reports, ok : BOOLEAN]

\* The types of all variables.
TypeOK ==
    /\ row \in [Domains -> Rows]
    /\ art \in [Domains -> Artifacts \cup {NoArt}]
    /\ auto \in BOOLEAN /\ link \in BOOLEAN /\ fresh \in BOOLEAN
    /\ slot \in [Publishers -> Slots] /\ slot["request"].at # "erase"
    /\ chan \in Seq(Sets) /\ Len(chan) <= Buffer
    /\ acks \in [Acks -> AckStates]
    /\ beat \in [Domains -> Beats]
    /\ disk \in [Domains -> Contents \cup {NoFile}]
    /\ managed \in [Domains -> Contents \cup {NoFile}]
    /\ last \in [clean : BOOLEAN, reports : Reports, keep : SUBSET Domains]
    /\ agent \in AgentStates
    /\ touched \subseteq Domains
    /\ left \in [DOMAIN Budget -> Nat]

\* What the suppression gate compares with is on the disk: after a clean apply every
\* file the agent rendered is as rendered, but for those the operator has changed
\* since.  Otherwise applyIntents would skip an apply and acknowledge it.
CleanMeansLive ==
    last.clean /\ agent.at # "written" =>
        \A d \in FilesOf(last.reports) : disk[d] = last.reports[d] \/ d \in touched

\* A set built while a domain is under review leaves that domain's file alone, however
\* late it is applied: it is neither written nor pruned as an orphan.
KeepsReviewed ==
    [][\A d \in Domains :
          agent.at # "written" /\ agent'.at = "written" /\ d \in agent'.set.reviewed
            => disk'[d] = disk[d]]_vars

InAgreement(d) ==
    /\ row[d].status = "active" /\ art[d].state = "live" /\ disk[d] = art[d].content
    /\ IsManual(d) \/ disk[d] = Generated(row[d].settings)

\* Once users, operators and failures rest, every domain comes to rest: served as its
\* row or its accepted edit says, shown for review, shown as invalid, or gone without
\* leaving a file of ours.
Settles ==
    \A d \in Domains :
        <>[]\/ HasArt(d) /\ InAgreement(d)
            \/ Exists(d) /\ UnderReview(auto, d)
            \/ row[d].status = "error" /\ Invalid(row, d)
            \/ ~Exists(d) /\ ~HasMarker(disk[d])

\* What an operator's accepted edit says counts until a user says otherwise.  It does not
\* hold: the ACK of a set pushed before the decision replaces the edit.
AcceptedStands ==
    [][\A d \in Domains : IsManual(d) /\ left'["user"] = left["user"] =>
          art'[d] = NoArt \/ art'[d].source = "manual"]_vars
=============================================================================
