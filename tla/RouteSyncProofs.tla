-------------------------- MODULE RouteSyncProofs --------------------------
(***************************************************************************)
(* For any domains, settings, edits, buffer and budget: a set built while a *)
(* domain is under review leaves its file alone, and what the suppression   *)
(* gate takes for applied is on the disk.                                   *)
(***************************************************************************)
EXTENDS RouteSync, TLAPS, SequenceTheorems

LEMMA InitTyped == Init => TypeOK
<1> SUFFICES ASSUME Init PROVE TypeOK
    OBVIOUS
<1>1. row \in [Domains -> Rows]
    BY SyncAssumptions DEF Init, Rows, Statuses
<1>2. slot \in [Publishers -> Slots] /\ slot["request"].at # "erase"
    BY DEF Init, Slots, Idle, Publishers
<1>3. /\ acks \in [Acks -> AckStates] /\ agent \in AgentStates
      /\ beat \in [Domains -> Beats]
    BY DEF Init, AckStates, NoAck, AgentStates, Idle, Beats, NoBeat
<1>4. /\ chan \in Seq(Sets) /\ Len(chan) <= Buffer
      /\ left \in [DOMAIN Budget -> Nat]
    BY SyncAssumptions DEF Init
<1>5. last \in [clean : BOOLEAN, reports : Reports, keep : SUBSET Domains]
    BY DEF Init, Never, Reports
<1> QED BY <1>1, <1>2, <1>3, <1>4, <1>5 DEF Init, TypeOK

\* What spends of the budget leaves natural numbers.
LEMMA SpendTyped ==
    ASSUME TypeOK, NEW what \in {"user", "edit", "fail", "lose", "restart"}, Spend(what)
    PROVE  left' \in [DOMAIN Budget -> Nat]
<1>1. what \in DOMAIN Budget /\ "total" \in DOMAIN Budget /\ what # "total"
    BY SyncAssumptions
<1>2. left[what] - 1 \in Nat /\ left["total"] - 1 \in Nat
    BY <1>1 DEF TypeOK, Spend
<1>3. \A x \in DOMAIN Budget :
          left'[x] = IF x = what \/ x = "total" THEN left[x] - 1 ELSE left[x]
    BY <1>1 DEF TypeOK, Spend
<1> QED BY <1>1, <1>2, <1>3 DEF TypeOK, Spend

LEMMA TextsTyped ==
    /\ \A t \in Texts : Plain(t) \in Contents
    /\ \A c \in Contents : Stamp(c) \in Contents
    /\ Settings \subseteq Texts /\ Edits \subseteq Texts /\ Stub \in Texts
BY DEF Texts, Plain, Stamp, Contents

LEMMA RowTyped ==
    ASSUME TypeOK, NEW d \in Domains
    PROVE  /\ row[d] \in Rows
           /\ \A s \in Statuses : [row[d] EXCEPT !.status = s] \in Rows
           /\ \A s \in Statuses : [row EXCEPT ![d].status = s] \in [Domains -> Rows]
BY DEF TypeOK, Rows

LEMMA ArtTyped ==
    ASSUME TypeOK, NEW d \in Domains, HasArt(d)
    PROVE  art[d] \in Artifacts
BY DEF TypeOK, HasArt
-----------------------------------------------------------------------------
(* The publishers. *)

LEMMA TickTyped == ASSUME TypeOK, Tick PROVE TypeOK'
BY DEF TypeOK, Tick, Goes, Listed, Lists, Slots, Publishers, dbVars, hubVars, agentVars, hostVars

LEMMA BeginTeardownTyped == ASSUME TypeOK, NEW d \in Domains, BeginTeardown(d) PROVE TypeOK'
BY DEF TypeOK, BeginTeardown, Goes, Slots, Publishers, hubVars, agentVars, hostVars

LEMMA EraseRowTyped == ASSUME TypeOK, EraseRow PROVE TypeOK'
<1>1. slot["reconciler"].domain \in Domains
    BY DEF TypeOK, EraseRow, At, Slots, Idle, Due, Lists, Publishers
<1>2. row' \in [Domains -> Rows]
    BY <1>1, RowTyped DEF EraseRow, Statuses
<1> QED BY <1>2 DEF TypeOK, EraseRow, Goes, Slots, Publishers, hubVars, agentVars, hostVars

LEMMA ListTyped == ASSUME TypeOK, List PROVE TypeOK'
<1>1. Listed \in Lists /\ Listed.at = "listed" /\ Idle.at = "idle"
    BY DEF TypeOK, Listed, Lists, Idle
<1> QED BY <1>1 DEF TypeOK, List, Goes, Slots, Publishers, dbVars, hubVars, agentVars, hostVars

LEMMA SetTyped ==
    ASSUME TypeOK, NEW list \in Lists
    PROVE  IntentSet(list) \in Sets
<1>1. \A d \in Domains : Intents(list)[d] \in Contents \cup {NoFile}
    <2> SUFFICES ASSUME NEW d \in Domains PROVE Intents(list)[d] \in Contents \cup {NoFile}
        OBVIOUS
    <2>1. IsManual(d) => art[d].content \in Contents
        BY ArtTyped DEF IsManual, Artifacts
    <2>2. Plain(list.rows[d].settings) \in Contents
        BY TextsTyped DEF Lists, Rows
    <2> QED BY <2>1, <2>2 DEF Intents
<1>2. Intents(list) \in [Domains -> Contents \cup {NoFile}]
    BY <1>1 DEF Intents
<1> QED BY <1>2 DEF IntentSet, Sets, Kept, HeldBack, Reviewed

LEMMA BuildTyped == ASSUME TypeOK, NEW p \in Publishers, Build(p) PROVE TypeOK'
<1>1. slot[p] \in Lists
    BY DEF TypeOK, Build, At, Slots, Idle, Due
<1>2. IntentSet(slot[p]) \in Sets
    BY <1>1, SetTyped
<1>3. slot' \in [Publishers -> Slots] /\ slot'["request"].at # "erase"
    BY <1>2 DEF TypeOK, Build, Goes, Slots, Publishers
<1>4. row' \in [Domains -> Rows]
    BY RowTyped DEF Build, Statuses
<1> QED BY <1>3, <1>4 DEF TypeOK, Build, hubVars, agentVars, hostVars

LEMMA PublishTyped == ASSUME TypeOK, NEW p \in Publishers, Publish(p) PROVE TypeOK'
<1>1. slot[p].set \in Sets
    BY DEF TypeOK, Publish, At, Slots, Idle, Due, Lists
<1>2. slot' \in [Publishers -> Slots] /\ slot'["request"].at # "erase"
    BY DEF TypeOK, Publish, Goes, Slots, Publishers, Idle
<1>3. chan' \in Seq(Sets) /\ Len(chan') <= Buffer
    BY <1>1, SyncAssumptions DEF TypeOK, Publish
<1> QED BY <1>2, <1>3 DEF TypeOK, Publish, dbVars, agentVars, hostVars
-----------------------------------------------------------------------------
(* The requests. *)

\* What they leave alone, and what becomes of the request's goroutine and the budget.
LEMMA RequestTyped ==
    ASSUME TypeOK, Request, UNCHANGED UnchangedByRequest, ThenPush \/ UNCHANGED slot,
           row' \in [Domains -> Rows], art' \in [Domains -> Artifacts \cup {NoArt}], auto' \in BOOLEAN
    PROVE  TypeOK'
<1>1. left' \in [DOMAIN Budget -> Nat]
    BY SpendTyped DEF Request
<1>2. slot' \in [Publishers -> Slots] /\ slot'["request"].at # "erase"
    BY DEF TypeOK, ThenPush, Goes, Due, Slots, Publishers
<1> QED BY <1>1, <1>2 DEF TypeOK, UnchangedByRequest, hubVars, agentVars, hostVars

LEMMA CreateDomainTyped == ASSUME TypeOK, NEW d \in Domains, CreateDomain(d) PROVE TypeOK'
<1>1. row' \in [Domains -> Rows]
    BY RowTyped DEF CreateDomain, Statuses
<1> QED BY <1>1, RequestTyped DEF CreateDomain, TypeOK

LEMMA SettingsTyped ==
    ASSUME TypeOK, NEW d \in Domains, NEW s \in Settings
    PROVE  [row EXCEPT ![d] = [status |-> "pending", settings |-> s]] \in [Domains -> Rows]
BY DEF TypeOK, Rows, Statuses

LEMMA UpdateDomainTyped == ASSUME TypeOK, NEW d \in Domains, UpdateDomain(d) PROVE TypeOK'
<1>1. row' \in [Domains -> Rows]
    BY SettingsTyped DEF UpdateDomain
<1> QED BY <1>1, RequestTyped DEF UpdateDomain, TypeOK

LEMMA ReplaceConfigTyped == ASSUME TypeOK, NEW d \in Domains, ReplaceConfig(d) PROVE TypeOK'
<1>1. row' \in [Domains -> Rows]
    BY SettingsTyped DEF ReplaceConfig
<1>2. HasArt(d) => Detached(art[d]) \in Artifacts
    BY ArtTyped DEF Detached, Artifacts
<1>3. art' \in [Domains -> Artifacts \cup {NoArt}]
    BY <1>2 DEF ReplaceConfig, TypeOK
<1> QED BY <1>1, <1>3, RequestTyped DEF ReplaceConfig, TypeOK

LEMMA DeleteDomainTyped == ASSUME TypeOK, NEW d \in Domains, DeleteDomain(d) PROVE TypeOK'
<1>1. row' \in [Domains -> Rows]
    BY RowTyped DEF DeleteDomain, Statuses
<1> QED BY <1>1, RequestTyped DEF DeleteDomain, TypeOK

LEMMA VersionedTyped ==
    ASSUME NEW a \in Artifacts, NEW content \in Contents, NEW source \in {"generated", "manual"}
    PROVE  Versioned(a, content, source) \in Artifacts
BY DEF Versioned, Artifacts

LEMMA AcceptTyped == ASSUME TypeOK, NEW d \in Domains, Accept(d) PROVE TypeOK'
<1> DEFINE bytes == IF art[d].seen = NoFile THEN art[d].content ELSE art[d].seen
<1>1. art[d] \in Artifacts /\ bytes \in Contents
    BY ArtTyped DEF Accept, Artifacts
<1>2. Versioned(art[d], bytes, "manual") \in Artifacts
    BY <1>1, VersionedTyped
<1>3. art' \in [Domains -> Artifacts \cup {NoArt}]
    BY <1>2 DEF Accept, TypeOK
<1> QED BY <1>3, RequestTyped DEF Accept, TypeOK

LEMMA RejectTyped == ASSUME TypeOK, NEW d \in Domains, Reject(d) PROVE TypeOK'
<1>1. [art[d] EXCEPT !.state = "live", !.seen = NoFile] \in Artifacts
    BY ArtTyped DEF Reject, Artifacts
<1>2. art' \in [Domains -> Artifacts \cup {NoArt}]
    BY <1>1 DEF Reject, TypeOK
<1> QED BY <1>2, RequestTyped DEF Reject, TypeOK

LEMMA EditContentTyped == ASSUME TypeOK, NEW d \in Domains, EditContent(d) PROVE TypeOK'
<1>1. \A text \in Edits : Versioned(art[d], Plain(text), "manual") \in Artifacts
    BY ArtTyped, TextsTyped, VersionedTyped DEF EditContent
<1>2. art' \in [Domains -> Artifacts \cup {NoArt}]
    BY <1>1 DEF EditContent, TypeOK
<1> QED BY <1>2, RequestTyped DEF EditContent, TypeOK

LEMMA ResetToModelTyped == ASSUME TypeOK, NEW d \in Domains, ResetToModel(d) PROVE TypeOK'
<1>1. Versioned(art[d], Plain(Stub), "generated") \in Artifacts
    BY ArtTyped, TextsTyped, VersionedTyped DEF ResetToModel
<1>2. art' \in [Domains -> Artifacts \cup {NoArt}]
    BY <1>1 DEF ResetToModel, TypeOK
<1> QED BY <1>2, RequestTyped DEF ResetToModel, TypeOK

LEMMA SetAutoReconcileTyped == ASSUME TypeOK, SetAutoReconcile PROVE TypeOK'
BY RequestTyped DEF SetAutoReconcile, TypeOK
-----------------------------------------------------------------------------
(* The stream and the agent. *)

LEMMA ConnectTyped == ASSUME TypeOK, Connect PROVE TypeOK'
<1>1. slot' \in [Publishers -> Slots] /\ slot'["request"].at # "erase"
    BY DEF TypeOK, Connect, ThenPush, Goes, Due, Slots, Publishers
<1>2. chan' \in Seq(Sets) /\ Len(chan') <= Buffer
    BY SyncAssumptions DEF Connect
<1> QED BY <1>1, <1>2 DEF TypeOK, Connect, dbVars, agentVars, hostVars

LEMMA DisconnectTyped == ASSUME TypeOK, Disconnect PROVE TypeOK'
<1>1. chan' \in Seq(Sets) /\ Len(chan') <= Buffer /\ left' \in [DOMAIN Budget -> Nat]
    BY SyncAssumptions, SpendTyped DEF Disconnect
<1> QED BY <1>1 DEF TypeOK, Disconnect, dbVars, agentVars, hostVars

LEMMA RenderedTyped ==
    ASSUME NEW set \in Sets, NEW unrenderable
    PROVE  Rendered(set, unrenderable) \in Reports
<1>1. ASSUME NEW d \in Domains, set.intents[d] # NoFile
      PROVE  Stamp(set.intents[d]) \in Contents
    BY <1>1, TextsTyped DEF Sets
<1> QED BY <1>1 DEF Rendered, Reports

LEMMA FilesTyped ==
    ASSUME NEW reports \in Reports
    PROVE  /\ FilesOf(reports) \subseteq Domains
           /\ \A d \in FilesOf(reports) : reports[d] \in Contents
BY DEF FilesOf, Reports

LEMMA HeadTyped ==
    ASSUME TypeOK, chan # <<>>
    PROVE  Head(chan) \in Sets /\ Tail(chan) \in Seq(Sets) /\ Len(Tail(chan)) <= Buffer
BY SyncAssumptions DEF TypeOK

LEMMA ManagedTyped ==
    ASSUME TypeOK, NEW reports \in Reports, NEW live, live \subseteq FilesOf(reports), NEW keep,
           NowManaged(live, reports, keep)
    PROVE  managed' \in [Domains -> Contents \cup {NoFile}]
BY FilesTyped DEF TypeOK, NowManaged

LEMMA SendAckTyped ==
    ASSUME TypeOK, NEW reports \in Reports, SendAck(reports)
    PROVE  acks' \in [Acks -> AckStates] /\ agent' \in AgentStates
BY DEF TypeOK, SendAck, AckStates, AgentStates

LEMMA RenderingTyped ==
    ASSUME TypeOK, NEW set, NEW bad, Rendering(set, bad)
    PROVE  left' \in [DOMAIN Budget -> Nat]
BY SpendTyped DEF Rendering, TypeOK

LEMMA SuppressTyped == ASSUME TypeOK, Suppress PROVE TypeOK'
<1> DEFINE set == Head(chan)
<1>1. set \in Sets /\ chan' \in Seq(Sets) /\ Len(chan') <= Buffer
    BY HeadTyped DEF Suppress, Delivered
<1>2. PICK bad \in SUBSET Domains :
          /\ Rendering(set, bad)
          /\ NowManaged(FilesOf(Rendered(set, bad)), Rendered(set, bad), set.keep)
          /\ SendAck(Rendered(set, bad))
    BY DEF Suppress
<1>3. /\ managed' \in [Domains -> Contents \cup {NoFile}]
      /\ acks' \in [Acks -> AckStates] /\ agent' \in AgentStates
      /\ left' \in [DOMAIN Budget -> Nat]
    BY <1>1, <1>2, RenderedTyped, ManagedTyped, SendAckTyped, RenderingTyped
<1> QED BY <1>1, <1>3 DEF TypeOK, Suppress, dbVars, hostVars

LEMMA WriteTyped ==
    ASSUME TypeOK, NEW set \in Sets, NEW reports \in Reports, NEW ok \in BOOLEAN,
           Write(set, reports, ok)
    PROVE  /\ disk' \in [Domains -> Contents \cup {NoFile}]
           /\ touched' \subseteq Domains /\ agent' \in AgentStates
<1>1. disk' \in [Domains -> Contents \cup {NoFile}]
    BY FilesTyped DEF TypeOK, Write, Pruned
<1> QED BY <1>1 DEF TypeOK, Write, AgentStates

LEMMA ApplyTyped == ASSUME TypeOK, Apply PROVE TypeOK'
<1> DEFINE set == Head(chan)
<1>1. set \in Sets /\ chan' \in Seq(Sets) /\ Len(chan') <= Buffer
    BY HeadTyped DEF Apply, Delivered
<1>2. PICK bad \in SUBSET Domains : Rendering(set, bad) /\ Write(set, Rendered(set, bad), TRUE)
    BY DEF Apply
<1>3. /\ disk' \in [Domains -> Contents \cup {NoFile}]
      /\ touched' \subseteq Domains /\ agent' \in AgentStates
      /\ left' \in [DOMAIN Budget -> Nat]
    BY <1>1, <1>2, RenderedTyped, WriteTyped, RenderingTyped
<1> QED BY <1>1, <1>3 DEF TypeOK, Apply, dbVars

LEMMA ApplyFailsTyped == ASSUME TypeOK, ApplyFails PROVE TypeOK'
<1> DEFINE set == Head(chan)
<1>1. set \in Sets /\ chan' \in Seq(Sets) /\ Len(chan') <= Buffer
    BY HeadTyped DEF ApplyFails, Delivered
<1>2. Write(set, Rendered(set, {}), FALSE)
    BY DEF ApplyFails
<1>3. /\ disk' \in [Domains -> Contents \cup {NoFile}]
      /\ touched' \subseteq Domains /\ agent' \in AgentStates
    BY <1>1, <1>2, RenderedTyped, WriteTyped
<1>4. left' \in [DOMAIN Budget -> Nat]
    BY SpendTyped DEF ApplyFails
<1> QED BY <1>1, <1>3, <1>4 DEF TypeOK, ApplyFails, dbVars

LEMMA FinishApplyTyped == ASSUME TypeOK, FinishApply PROVE TypeOK'
<1> DEFINE reports == agent.reports
           files == FilesOf(reports)
           answer == [d \in Domains |-> IF d \in files /\ ~agent.ok THEN Failed ELSE reports[d]]
<1>1. agent.set \in Sets /\ reports \in Reports /\ agent.ok \in BOOLEAN
    BY DEF TypeOK, FinishApply, AgentStates, Idle
<1>2. answer \in Reports
    BY <1>1 DEF Reports
<1>3. managed' \in [Domains -> Contents \cup {NoFile}]
    <2>1. NowManaged(IF agent.ok THEN files ELSE {}, reports, agent.set.keep)
        BY DEF FinishApply
    <2> QED BY <1>1, <2>1, ManagedTyped
<1>4. acks' \in [Acks -> AckStates] /\ agent' \in AgentStates
    <2>1. SendAck(answer)
        BY DEF FinishApply
    <2> QED BY <1>2, <2>1, SendAckTyped
<1>5. last' \in [clean : BOOLEAN, reports : Reports, keep : SUBSET Domains]
    BY <1>1 DEF FinishApply, Remember, Sets
<1> QED BY <1>3, <1>4, <1>5 DEF TypeOK, FinishApply, dbVars, hubVars, hostVars

LEMMA ExpireTyped == ASSUME TypeOK, Expire PROVE TypeOK'
BY DEF TypeOK, Expire, dbVars, hubVars, hostVars

LEMMA AnsweredTyped == ASSUME TypeOK, NEW n \in Acks PROVE Answered(n) \in AgentStates
BY DEF TypeOK, Answered, AgentStates

LEMMA AckTimesOutTyped == ASSUME TypeOK, AckTimesOut PROVE TypeOK'
<1>1. left' \in [DOMAIN Budget -> Nat]
    BY SpendTyped DEF AckTimesOut
<1> QED BY <1>1 DEF TypeOK, AckTimesOut, AgentStates, dbVars, hubVars, hostVars

LEMMA AckLostTyped == ASSUME TypeOK, NEW n \in Acks, AckLost(n) PROVE TypeOK'
<1>1. left' \in [DOMAIN Budget -> Nat] /\ agent' \in AgentStates
    BY SpendTyped, AnsweredTyped DEF AckLost
<1>2. acks' \in [Acks -> AckStates]
    BY DEF TypeOK, AckLost, AckStates
<1> QED BY <1>1, <1>2 DEF TypeOK, AckLost, dbVars, hubVars, hostVars

LEMMA RestartTyped == ASSUME TypeOK, Restart PROVE TypeOK'
<1>1. left' \in [DOMAIN Budget -> Nat] /\ chan' \in Seq(Sets) /\ Len(chan') <= Buffer
    BY SpendTyped, SyncAssumptions DEF Restart
<1>2. last' \in [clean : BOOLEAN, reports : Reports, keep : SUBSET Domains]
    BY DEF Restart, Never, Reports
<1>3. managed' \in [Domains -> Contents \cup {NoFile}]
    BY DEF Restart
<1> QED BY <1>1, <1>2, <1>3 DEF TypeOK, Restart, AgentStates, dbVars, hostVars
-----------------------------------------------------------------------------
(* The heartbeat, the ACK and the operator. *)

LEMMA BeatTyped == ASSUME TypeOK, Beat PROVE TypeOK'
<1>1. beat' \in [Domains -> Beats]
    BY DEF TypeOK, Beat, Beats
<1> QED BY <1>1 DEF TypeOK, Beat, dbVars, hubVars, agentVars, hostVars

LEMMA ComparedTyped ==
    ASSUME NEW a \in Artifacts \cup {NoArt}, NEW reported \in Beats
    PROVE  Compared(a, reported) \in Artifacts \cup {NoArt}
<1>1. CASE a = NoArt \/ reported = NoFile
    BY <1>1 DEF Compared
<1>2. CASE a # NoArt /\ reported # NoFile
    <2>1. a \in Artifacts /\ reported \in [sum : Contents, content : Contents \cup {NoFile}]
        BY <1>2 DEF Beats
    <2>2. CASE a.state = "apply_failed"
        BY <1>2, <2>1, <2>2 DEF Compared
    <2>3. CASE a.state = "live"
        BY <1>2, <2>1, <2>3 DEF Compared, Artifacts
    <2>4. CASE a.state = "drifted"
        BY <1>2, <2>1, <2>4 DEF Compared, Artifacts
    <2> QED BY <2>1, <2>2, <2>3, <2>4 DEF Artifacts
<1> QED BY <1>1, <1>2

LEMMA HandleBeatTyped == ASSUME TypeOK, HandleBeat PROVE TypeOK'
<1>1. art' \in [Domains -> Artifacts \cup {NoArt}]
    BY ComparedTyped DEF TypeOK, HandleBeat
<1>2. beat' \in [Domains -> Beats]
    BY DEF HandleBeat, NoBeat, Beats
<1> QED BY <1>1, <1>2 DEF TypeOK, HandleBeat, hubVars, agentVars, hostVars

LEMMA StoredTyped ==
    ASSUME TypeOK, NEW d \in Domains, NEW report \in Contents \cup {NoFile, Failed}
    PROVE  Stored(d, report) \in Artifacts \cup {NoArt}
<1>1. CASE report \in {NoFile, Failed}
    <2>1. HasArt(d) => [art[d] EXCEPT !.state = "apply_failed"] \in Artifacts
        BY ArtTyped DEF Artifacts
    <2> QED BY <1>1, <2>1 DEF Stored, TypeOK
<1>2. CASE report \in Contents
    <2>1. HasArt(d) => Versioned(art[d], report, "generated") \in Artifacts
        BY <1>2, ArtTyped, VersionedTyped
    <2>2. Fresh(report) \in Artifacts
        BY <1>2 DEF Fresh, Artifacts
    <2> QED BY <1>2, <2>1, <2>2, SyncAssumptions DEF Stored
<1> QED BY <1>1, <1>2

LEMMA StoreReportsTyped == ASSUME TypeOK, NEW n \in Acks, StoreReports(n) PROVE TypeOK'
<1>1. acks[n].reports \in Reports
    BY DEF TypeOK, StoreReports, AckStates, NoAck, Idle
<1>2. art' \in [Domains -> Artifacts \cup {NoArt}]
    BY <1>1, StoredTyped DEF StoreReports, Reports
<1>3. acks' \in [Acks -> AckStates]
    BY <1>1 DEF TypeOK, StoreReports, AckStates
<1> QED BY <1>2, <1>3 DEF TypeOK, StoreReports, hubVars, agentVars, hostVars

LEMMA MarkDomainsTyped == ASSUME TypeOK, NEW n \in Acks, MarkDomains(n) PROVE TypeOK'
<1>1. \A d \in Domains : Marked(d, acks[n].reports[d]) \in Rows /\ row[d] \in Rows
    BY RowTyped DEF Marked, Statuses
<1>2. row' \in [Domains -> Rows]
    BY <1>1 DEF MarkDomains
<1>3. acks' \in [Acks -> AckStates] /\ agent' \in AgentStates
    BY AnsweredTyped DEF TypeOK, MarkDomains, AckStates
<1> QED BY <1>2, <1>3 DEF TypeOK, MarkDomains, hubVars, hostVars

LEMMA EditFileTyped == ASSUME TypeOK, NEW d \in Domains, EditFile(d) PROVE TypeOK'
<1>1. left' \in [DOMAIN Budget -> Nat]
    BY SpendTyped DEF EditFile
<1>2. PICK content : /\ content \in [text : Edits, marked : BOOLEAN] \cup {NoFile}
                                     \cup (IF HasArt(d) THEN {art[d].content} ELSE {})
                     /\ disk' = [disk EXCEPT ![d] = content]
    BY DEF EditFile
<1>3. content \in Contents \cup {NoFile}
    BY <1>2, ArtTyped DEF Contents, Texts, Artifacts
<1>4. disk' \in [Domains -> Contents \cup {NoFile}]
    BY <1>2, <1>3 DEF TypeOK
<1> QED BY <1>1, <1>4 DEF TypeOK, EditFile, dbVars, hubVars, agentVars
-----------------------------------------------------------------------------
LEMMA NextTyped == ASSUME TypeOK, [Next]_vars PROVE TypeOK'
<1>1. CASE UNCHANGED vars
    BY <1>1 DEF TypeOK, vars, dbVars, hubVars, agentVars, hostVars
<1>2. CASE Push
    BY <1>2, ListTyped, BuildTyped, PublishTyped DEF Push
<1>3. CASE Reconcile
    BY <1>3, TickTyped, EraseRowTyped, BeginTeardownTyped DEF Reconcile
<1>4. CASE Requests
    BY <1>4, SetAutoReconcileTyped, CreateDomainTyped, UpdateDomainTyped, ReplaceConfigTyped,
       DeleteDomainTyped, AcceptTyped, RejectTyped, EditContentTyped, ResetToModelTyped
       DEF Requests
<1>5. CASE Connect \/ Disconnect \/ Restart
    BY <1>5, ConnectTyped, DisconnectTyped, RestartTyped
<1>6. CASE Agent
    BY <1>6, SuppressTyped, ApplyTyped, ApplyFailsTyped, FinishApplyTyped, ExpireTyped,
       AckTimesOutTyped, AckLostTyped DEF Agent
<1>7. CASE Heartbeat \/ HandleAck
    BY <1>7, BeatTyped, HandleBeatTyped, StoreReportsTyped, MarkDomainsTyped DEF Heartbeat, HandleAck
<1>8. CASE \E d \in Domains : EditFile(d)
    BY <1>8, EditFileTyped
<1> QED BY <1>1, <1>2, <1>3, <1>4, <1>5, <1>6, <1>7, <1>8 DEF Next

\* Every variable keeps its type.
THEOREM TypeCorrect == Spec => []TypeOK
<1>1. Init => TypeOK
    BY InitTyped
<1>2. TypeOK /\ [Next]_vars => TypeOK'
    BY NextTyped
<1> QED BY <1>1, <1>2, PTL DEF Spec
-----------------------------------------------------------------------------
(* What was under review. *)

\* The set has nothing for what was under review when it was built, and keeps it.
Spares(set) == \A d \in set.reviewed : d \in set.keep /\ set.intents[d] = NoFile

\* Every set on its way to the agent does.
SetsSpare ==
    /\ \A p \in Publishers : At(p, "built") => Spares(slot[p].set)
    /\ \A i \in 1..Len(chan) : Spares(chan[i])

LEMMA BuiltSpares == ASSUME NEW list PROVE Spares(IntentSet(list))
BY DEF Spares, IntentSet, Kept, Intents, Reviewed

\* What goes where: only Build makes a set, only Publish sends one.
LEMMA SlotMoves ==
    ASSUME TypeOK, [Next]_vars, NEW p \in Publishers, slot'[p].at = "built"
    PROVE  slot'[p] = slot[p] \/ \E list : slot'[p].set = IntentSet(list)
<1> DEFINE Same == slot'[p] = slot[p] \/ \E list : slot'[p].set = IntentSet(list)
<1> SUFFICES Same
    OBVIOUS
<1>1. ASSUME NEW q \in Publishers, NEW to, Goes(q, to), to.at # "built" PROVE Same
    BY <1>1 DEF Goes, TypeOK
<1>2. Idle.at # "built" /\ Due.at # "built" /\ Listed.at # "built"
    BY DEF Idle, Due, Listed
<1>3. CASE UNCHANGED slot
    BY <1>3
<1>4. CASE Push
    <2>1. CASE List
        BY <1>1, <1>2, <2>1 DEF List, Publishers
    <2>2. ASSUME NEW q \in Publishers, Build(q) PROVE Same
        BY <2>2 DEF Build, Goes, TypeOK
    <2>3. ASSUME NEW q \in Publishers, Publish(q) PROVE Same
        BY <1>1, <1>2, <2>3 DEF Publish
    <2> QED BY <1>4, <2>1, <2>2, <2>3 DEF Push
<1>5. CASE Reconcile
    <2>1. CASE Tick \/ EraseRow
        BY <1>1, <1>2, <2>1 DEF Tick, EraseRow, Publishers
    <2>2. ASSUME NEW d \in Domains, BeginTeardown(d) PROVE Same
        BY <1>1, <2>2 DEF BeginTeardown, Publishers
    <2> QED BY <1>5, <2>1, <2>2 DEF Reconcile
<1>6. CASE Requests \/ Connect
    <2>1. ThenPush \/ UNCHANGED slot
        BY <1>6 DEF Requests, CreateDomain, UpdateDomain, ReplaceConfig, DeleteDomain, Accept, Reject,
           EditContent, ResetToModel, SetAutoReconcile, Connect
    <2> QED BY <1>1, <1>2, <1>3, <2>1 DEF ThenPush, Publishers
<1>7. CASE Disconnect \/ Agent \/ Restart \/ Heartbeat \/ HandleAck \/ \E d \in Domains : EditFile(d)
    BY <1>3, <1>7 DEF Disconnect, Agent, Suppress, Apply, ApplyFails, FinishApply, Expire, AckTimesOut,
       AckLost, Restart, Heartbeat, Beat, HandleBeat, HandleAck, StoreReports, MarkDomains, EditFile
<1> QED BY <1>3, <1>4, <1>5, <1>6, <1>7 DEF Next, vars

LEMMA ChanMoves ==
    ASSUME [Next]_vars
    PROVE  \/ chan' = chan \/ chan' = <<>>
           \/ chan # <<>> /\ chan' = Tail(chan)
           \/ \E p \in Publishers : At(p, "built") /\ chan' = Append(chan, slot[p].set)
<1>1. CASE UNCHANGED chan
    BY <1>1
<1>2. CASE Push
    BY <1>2 DEF Push, List, Build, Publish, hubVars
<1>3. CASE Reconcile
    BY <1>3 DEF Reconcile, Tick, BeginTeardown, EraseRow, hubVars
<1>4. CASE Requests
    BY <1>4 DEF Requests, CreateDomain, UpdateDomain, ReplaceConfig, DeleteDomain, Accept, Reject,
       EditContent, ResetToModel, SetAutoReconcile, UnchangedByRequest, hubVars
<1>5. CASE Connect \/ Disconnect \/ Restart
    BY <1>5 DEF Connect, Disconnect, Restart
<1>6. CASE Agent
    BY <1>6 DEF Agent, Suppress, Apply, ApplyFails, Delivered, FinishApply, Expire, AckTimesOut, AckLost,
       hubVars
<1>7. CASE Heartbeat \/ HandleAck \/ \E d \in Domains : EditFile(d)
    BY <1>7 DEF Heartbeat, Beat, HandleBeat, HandleAck, StoreReports, MarkDomains, EditFile, hubVars
<1> QED BY <1>1, <1>2, <1>3, <1>4, <1>5, <1>6, <1>7 DEF Next, vars, hubVars

LEMMA NextSpares == ASSUME TypeOK, SetsSpare, [Next]_vars PROVE SetsSpare'
<1>1. \A p \in Publishers : At(p, "built")' => Spares(slot[p].set)'
    BY SlotMoves, BuiltSpares DEF SetsSpare, At, Spares
<1>2. \A i \in 1..Len(chan') : Spares(chan'[i])
    <2>1. CASE chan' = chan \/ chan' = <<>>
        BY <2>1 DEF SetsSpare
    <2>2. CASE chan # <<>> /\ chan' = Tail(chan)
        BY <2>2 DEF SetsSpare, TypeOK
    <2>3. CASE \E p \in Publishers : At(p, "built") /\ chan' = Append(chan, slot[p].set)
        <3>1. PICK p \in Publishers : At(p, "built") /\ chan' = Append(chan, slot[p].set)
            BY <2>3
        <3>2. slot[p].set \in Sets /\ Spares(slot[p].set)
            BY <3>1 DEF SetsSpare, TypeOK, At, Slots, Idle, Due, Lists
        <3> QED BY <3>1, <3>2 DEF SetsSpare, TypeOK
    <2> QED BY <2>1, <2>2, <2>3, ChanMoves
<1> QED BY <1>1, <1>2 DEF SetsSpare, Spares

LEMMA WriteSpares ==
    ASSUME NEW set, Spares(set), NEW bad, NEW ok, Write(set, Rendered(set, bad), ok),
           NEW d \in Domains, d \in set.reviewed
    PROVE  disk'[d] = disk[d]
BY DEF Write, Spares, Rendered, FilesOf, Pruned

\* Who begins to write.
LEMMA WritesFromChannel ==
    ASSUME TypeOK, [Next]_vars, agent.at # "written", agent'.at = "written"
    PROVE  /\ chan # <<>>
           /\ \E bad \in SUBSET Domains, ok \in BOOLEAN : Write(Head(chan), Rendered(Head(chan), bad), ok)
<1>1. CASE UNCHANGED agent
    BY <1>1
<1>2. CASE Apply \/ ApplyFails
    BY <1>2 DEF Apply, ApplyFails, Delivered
<1>3. CASE Suppress \/ FinishApply
    <2>1. \E reports : SendAck(reports)
        BY <1>3 DEF Suppress, FinishApply
    <2> QED BY <2>1 DEF SendAck
<1>4. CASE AckTimesOut \/ Restart
    BY <1>4 DEF AckTimesOut, Restart, Idle
<1>5. CASE \E n \in Acks : AckLost(n) \/ MarkDomains(n)
    BY <1>5 DEF AckLost, MarkDomains, Answered, Idle
<1>6. CASE Push \/ Reconcile \/ Connect \/ Disconnect
    BY <1>1, <1>6 DEF Push, List, Build, Publish, Reconcile, Tick, BeginTeardown, EraseRow, Connect,
       Disconnect, agentVars
<1>7. CASE Requests
    BY <1>1, <1>7 DEF Requests, CreateDomain, UpdateDomain, ReplaceConfig, DeleteDomain, Accept, Reject,
       EditContent, ResetToModel, SetAutoReconcile, UnchangedByRequest, agentVars
<1>8. CASE Expire \/ Heartbeat \/ (\E n \in Acks : StoreReports(n)) \/ \E d \in Domains : EditFile(d)
    BY <1>1, <1>8 DEF Expire, Heartbeat, Beat, HandleBeat, StoreReports, EditFile, agentVars
<1> QED BY <1>1, <1>2, <1>3, <1>4, <1>5, <1>6, <1>7, <1>8
        DEF Next, Agent, HandleAck, vars, agentVars

LEMMA WrittenSet ==
    ASSUME NEW set, NEW reports, NEW ok, Write(set, reports, ok)
    PROVE  agent'.set = set
BY DEF Write

\* A set built while a domain is under review leaves that domain's file alone.
THEOREM ReviewCorrect == Spec => KeepsReviewed
<1>1. Init => SetsSpare
    BY DEF Init, SetsSpare, At, Idle
<1>2. TypeOK /\ SetsSpare /\ [Next]_vars => SetsSpare'
    BY NextSpares
<1>3. TypeOK /\ SetsSpare /\ [Next]_vars =>
        [\A d \in Domains :
          agent.at # "written" /\ agent'.at = "written" /\ d \in agent'.set.reviewed
            => disk'[d] = disk[d]]_vars
    <2> SUFFICES ASSUME TypeOK, SetsSpare, [Next]_vars, NEW d \in Domains,
                        agent.at # "written", agent'.at = "written", d \in agent'.set.reviewed
                 PROVE  disk'[d] = disk[d]
        OBVIOUS
    <2>1. chan # <<>>
        BY WritesFromChannel
    <2>2. PICK bad \in SUBSET Domains, ok \in BOOLEAN :
                Write(Head(chan), Rendered(Head(chan), bad), ok)
        BY WritesFromChannel
    <2>3. Spares(Head(chan))
        BY <2>1 DEF SetsSpare, TypeOK
    <2> QED BY <2>2, <2>3, WriteSpares, WrittenSet
<1> QED BY <1>1, <1>2, <1>3, TypeCorrect, PTL DEF Spec, KeepsReviewed
-----------------------------------------------------------------------------
(* What the gate remembers. *)

\* Between the batch and its being remembered the files are as rendered, too.
WrittenLive ==
    agent.at = "written" /\ agent.ok =>
        \A d \in FilesOf(agent.reports) : disk[d] = agent.reports[d] \/ d \in touched

CleanInv == CleanMeansLive /\ WrittenLive

LEMMA CleanStays ==
    ASSUME CleanInv, UNCHANGED <<disk, touched, last>>,
           agent' = agent \/ (agent.at # "written" /\ agent'.at # "written")
    PROVE  CleanInv'
BY DEF CleanInv, CleanMeansLive, WrittenLive, FilesOf

LEMMA ApplyClean == ASSUME TypeOK, Apply \/ ApplyFails PROVE CleanInv'
<1>1. PICK bad \in SUBSET Domains, ok \in BOOLEAN :
         Write(Head(chan), Rendered(Head(chan), bad), ok)
    BY DEF Apply, ApplyFails
<1>2. agent'.at = "written"
    BY <1>1 DEF Write
<1>3. WrittenLive'
    BY <1>1 DEF WrittenLive, Write, FilesOf
<1> QED BY <1>2, <1>3 DEF CleanInv, CleanMeansLive

LEMMA FinishClean == ASSUME TypeOK, CleanInv, FinishApply PROVE CleanInv'
<1>1. last'.clean = agent.ok /\ last'.reports = agent.reports
    BY DEF FinishApply, Remember
<1>2. agent'.at = "acking"
    <2>1. \E reports : SendAck(reports)
        BY DEF FinishApply
    <2> QED BY <2>1 DEF SendAck
<1>3. agent.at = "written" /\ disk' = disk /\ touched' = touched
    BY DEF FinishApply, hostVars
<1> QED BY <1>1, <1>2, <1>3 DEF CleanInv, CleanMeansLive, WrittenLive, FilesOf

LEMMA EditFileClean == ASSUME TypeOK, CleanInv, NEW d \in Domains, EditFile(d) PROVE CleanInv'
<1>1. \A e \in Domains : disk'[e] = disk[e] \/ e \in touched'
    BY DEF TypeOK, EditFile
<1>2. touched \subseteq touched' /\ last' = last /\ agent' = agent
    BY DEF EditFile, agentVars
<1> QED BY <1>1, <1>2 DEF CleanInv, CleanMeansLive, WrittenLive, FilesOf

LEMMA NextClean == ASSUME TypeOK, CleanInv, [Next]_vars PROVE CleanInv'
<1>1. CASE Push \/ Reconcile \/ Connect \/ Disconnect
    BY <1>1, CleanStays DEF Push, List, Build, Publish, Reconcile, Tick, BeginTeardown, EraseRow, Connect,
       Disconnect, agentVars, hostVars
<1>2. CASE Requests
    BY <1>2, CleanStays DEF Requests, CreateDomain, UpdateDomain, ReplaceConfig, DeleteDomain, Accept,
       Reject, EditContent, ResetToModel, SetAutoReconcile, UnchangedByRequest, agentVars, hostVars
<1>3. CASE Apply \/ ApplyFails
    BY <1>3, ApplyClean
<1>4. CASE FinishApply
    BY <1>4, FinishClean
<1>5. CASE Suppress
    <2>1. \E reports : SendAck(reports)
        BY <1>5 DEF Suppress
    <2> QED BY <1>5, <2>1, CleanStays DEF Suppress, Delivered, SendAck, hostVars
<1>6. CASE Expire \/ AckTimesOut
    BY <1>6, CleanStays DEF Expire, AckTimesOut, Idle, hostVars
<1>7. CASE Restart
    BY <1>7 DEF Restart, Never, Idle, CleanInv, CleanMeansLive, WrittenLive
<1>8. CASE \E n \in Acks : AckLost(n) \/ MarkDomains(n)
    BY <1>8, CleanStays DEF AckLost, MarkDomains, Answered, Idle, hostVars
<1>9. CASE Heartbeat \/ \E n \in Acks : StoreReports(n)
    BY <1>9, CleanStays DEF Heartbeat, Beat, HandleBeat, StoreReports, agentVars, hostVars
<1>10. CASE \E d \in Domains : EditFile(d)
    BY <1>10, EditFileClean
<1>11. CASE UNCHANGED vars
    BY <1>11, CleanStays DEF vars, agentVars, hostVars
<1> QED BY <1>1, <1>2, <1>3, <1>4, <1>5, <1>6, <1>7, <1>8, <1>9, <1>10, <1>11
        DEF Next, Agent, HandleAck

\* What the suppression gate takes for applied is on the disk.
THEOREM CleanCorrect == Spec => []CleanMeansLive
<1>1. Init => CleanInv
    BY DEF Init, CleanInv, CleanMeansLive, WrittenLive, Never, Idle
<1>2. TypeOK /\ CleanInv /\ [Next]_vars => CleanInv'
    BY NextClean
<1>3. CleanInv => CleanMeansLive
    BY DEF CleanInv
<1> QED BY <1>1, <1>2, <1>3, TypeCorrect, PTL DEF Spec
=============================================================================
