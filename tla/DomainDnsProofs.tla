---------------------------- MODULE DomainDnsProofs ----------------------------
(***************************************************************************)
(* What is proved of DomainDns, for every value of its constants.          *)
(***************************************************************************)
EXTENDS DomainDns, TLAPS

-----------------------------------------------------------------------------
(* Types. *)

LEMMA BlankType == Blank \in Row /\ Gone \in Row
BY DEF Blank, Gone, Row, Statuses, LiveStatuses, Names

LEMMA IdleType == RcIdle \in Rc /\ TakIdle \in Tak
BY BlankType DEF RcIdle, Rc, RcPcs, TakIdle, Tak, TakPcs, Names

LEMMA WrittenType ==
    ASSUME NEW h \in Names, NEW c \in Contents, NEW w \in {"operator", "nurproxy"}
    PROVE  Written(h, c, w) \in Record
BY DEF Written, Record, Fates, Names, Contents, Writers

LEMMA RemovedType == Removed("deleted") \in Record /\ Removed("withdrawn") \in Record
BY DEF Removed, Unborn, Record, Fates, Names, Contents, Writers

LEMMA BasedType ==
    ASSUME ZoneTypeOK, NEW R, NEW b \in Bases PROVE Based(R, b) \in [RecIds -> Bases]
BY DEF Based, Strengthen, ZoneTypeOK

LEMMA SetType ==
    ASSUME row \in [Doms -> Row], NEW d \in Doms
    PROVE  /\ \A s \in Statuses : SetStatus(d, s) \in [Doms -> Row]
           /\ \A r \in RecIds \cup {NoRec}, m \in BOOLEAN : SetRecord(d, r, m) \in [Doms -> Row]
BY DEF SetStatus, SetRecord, Row

LEMMA SpendType ==
    ASSUME left \in [Limits -> Nat], NEW l \in Limits, Spend(l) PROVE left' \in [Limits -> Nat]
BY DEF Spend

LEMMA StoreType ==
    ASSUME row \in [Doms -> Row], left \in [Limits -> Nat], NEW d \in Doms,
           NEW r \in RecIds \cup {NoRec}, NEW m \in BOOLEAN, Store(d, r, m)
    PROVE  row' \in [Doms -> Row] /\ left' \in [Limits -> Nat]
BY SetType, SpendType DEF Store, Limits

\* The goroutines' own variables, as the helpers change them.
LEMMA RcType ==
    ASSUME rc \in Rc, row \in [Doms -> Row], NEW d \in Doms
    PROVE  /\ \A p \in RcPcs : Goto(p, d) => rc' \in Rc
           /\ \A p \in RcPcs, r \in RecIds \cup {NoRec} : GotoWith(p, d, r) => rc' \in Rc
           /\ \A p \in RcPcs : Finish(p, d) => rc' \in Rc
<1>2. ASSUME NEW p \in RcPcs, Goto(p, d) PROVE rc' \in Rc
  BY <1>2 DEF Goto, Rc
<1>3. ASSUME NEW p \in RcPcs, NEW r \in RecIds \cup {NoRec}, GotoWith(p, d, r) PROVE rc' \in Rc
  BY <1>3 DEF GotoWith, Rc
<1>4. ASSUME NEW p \in RcPcs, Finish(p, d) PROVE rc' \in Rc
  <2>1. [rc.snap EXCEPT ![d] = Blank] \in [Doms -> Row]
    BY BlankType DEF Rc
  <2> QED BY <1>4, <2>1 DEF Finish, Rc
<1> QED BY <1>2, <1>3, <1>4

LEMMA ListType ==
    ASSUME row \in [Doms -> Row], NEW p \in RcPcs, NEW D \in SUBSET Doms, ListPhase(p, D)
    PROVE  rc' \in Rc
BY BlankType, IdleType DEF ListPhase, Rc, RcIdle

LEMMA TakType ==
    ASSUME tak \in [Doms -> Tak], NEW d \in Doms
    PROVE  /\ TakAborts(d) => tak' \in [Doms -> Tak]
           /\ \A p \in TakPcs, r \in RecIds \cup {NoRec} :
                 [tak EXCEPT ![d].pc = p, ![d].rec = r] \in [Doms -> Tak]
           /\ \A r \in RecIds : [tak EXCEPT ![d].todo = @ \ {r}] \in [Doms -> Tak]
BY IdleType DEF TakAborts, Tak

LEMMA CreateType ==
    ASSUME ZoneTypeOK, NEW r \in RecIds, NEW h \in Names, NEW a \in Contents, Create(r, h, a)
    PROVE  ZoneTypeOK'
BY WrittenType DEF Create, ZoneTypeOK, Bases

LEMMA DeletedType ==
    ASSUME ZoneTypeOK, NEW r \in RecIds PROVE Deleted(r) \in [RecIds -> Record]
BY RemovedType DEF Deleted, ZoneTypeOK

LEMMA TypeStep == ASSUME TypeOK, [Next]_vars PROVE TypeOK'
<1> USE DEF TypeOK
<1>1. ASSUME ListDeleting PROVE TypeOK'
  BY <1>1, ListType DEF ListDeleting, Rest, ZoneTypeOK, RcPcs
<1>2. ASSUME ListLive PROVE TypeOK'
  BY <1>2, ListType DEF ListLive, Rest, ZoneTypeOK, RcPcs
<1>3. ASSUME EndCycle PROVE TypeOK'
  BY <1>3, IdleType DEF EndCycle, Rest, ZoneTypeOK
<1>4. ASSUME NEW d \in Doms, KeepRecord(d) PROVE TypeOK'
  BY <1>4, RcType DEF KeepRecord, Rest, ZoneTypeOK, RcPcs
<1>5. ASSUME NEW d \in Doms, DeleteRecord(d) PROVE TypeOK'
  BY <1>5, RcType, DeletedType DEF DeleteRecord, Rest, ZoneTypeOK, RcPcs, Owns, Picks,
     Rc, Row
<1>6. ASSUME NEW d \in Doms, DeferDelete(d) PROVE TypeOK'
  BY <1>6, RcType, DeletedType, SpendType DEF DeferDelete, Rest, ZoneTypeOK, RcPcs,
     Owns, Picks, Rc, Row, Limits
<1>7. ASSUME NEW d \in Doms, ClearRecord(d) PROVE TypeOK'
  BY <1>7, RcType, StoreType DEF ClearRecord, Rest, ZoneTypeOK, RcPcs
<1>8. ASSUME NEW d \in Doms, EraseRow(d) PROVE TypeOK'
  BY <1>8, RcType, BlankType, SpendType DEF EraseRow, Rest, ZoneTypeOK, RcPcs, Limits
<1>9. ASSUME NEW d \in Doms, VisitUnrecorded(d) PROVE TypeOK'
  BY <1>9, RcType DEF VisitUnrecorded, Rest, ZoneTypeOK, RcPcs
<1>10. ASSUME NEW d \in Doms, VisitMissing(d) PROVE TypeOK'
  BY <1>10, RcType DEF VisitMissing, Rest, ZoneTypeOK, RcPcs
<1>11. ASSUME NEW d \in Doms, VisitFound(d) PROVE TypeOK'
  BY <1>11, RcType DEF VisitFound, Rest, ZoneTypeOK, RcPcs
<1>12. ASSUME NEW d \in Doms, VisitUnreadable(d) PROVE TypeOK'
  BY <1>12, RcType, SpendType DEF VisitUnreadable, Rest, ZoneTypeOK, RcPcs, Limits
<1>13. ASSUME NEW d \in Doms, Retarget(d) PROVE TypeOK'
  BY <1>13, RcType, WrittenType DEF Retarget, Rest, ZoneTypeOK, RcPcs, Retargeted, Rc,
     Row, Contents
<1>14. ASSUME NEW d \in Doms, RetargetFails(d) PROVE TypeOK'
  <2>1. zone' \in [RecIds -> Record]
    BY <1>14, WrittenType DEF RetargetFails, Retargeted, Rc, Row, ZoneTypeOK, Contents
  <2>2. row' \in [Doms -> Row]
    BY <1>14, SetType DEF RetargetFails, Statuses, LiveStatuses
  <2>3. left' \in [Limits -> Nat]
    BY <1>14, SpendType DEF RetargetFails, Limits
  <2>4. rc' \in Rc
    BY <1>14, RcType DEF RetargetFails, RcPcs
  <2> QED BY <1>14, <2>1, <2>2, <2>3, <2>4 DEF RetargetFails, Rest, ZoneTypeOK
<1>15. ASSUME NEW d \in Doms, LookupMatches(d) PROVE TypeOK'
  BY <1>15, RcType DEF LookupMatches, Rest, ZoneTypeOK, RcPcs, Matching, At
<1>16. ASSUME NEW d \in Doms, LookupConflicts(d) PROVE TypeOK'
  BY <1>16, RcType, SetType DEF LookupConflicts, Rest, ZoneTypeOK, RcPcs, Statuses,
     LiveStatuses
<1>17. ASSUME NEW d \in Doms, LookupFindsNone(d) PROVE TypeOK'
  BY <1>17, RcType DEF LookupFindsNone, Rest, ZoneTypeOK, RcPcs
<1>18. ASSUME NEW d \in Doms, LookupFails(d) PROVE TypeOK'
  BY <1>18, RcType, SetType, SpendType DEF LookupFails, Rest, ZoneTypeOK, RcPcs,
     Statuses, LiveStatuses, Limits
<1>19. ASSUME NEW d \in Doms, AdoptRecord(d) PROVE TypeOK'
  BY <1>19, RcType, StoreType, BasedType DEF AdoptRecord, Rest, ZoneTypeOK, RcPcs, Rc,
     Bases
<1>20. ASSUME NEW d \in Doms, MarkAdopted(d) PROVE TypeOK'
  BY <1>20, RcType, SetType DEF MarkAdopted, Rest, ZoneTypeOK, RcPcs, Statuses,
     LiveStatuses
<1>21. ASSUME NEW d \in Doms, CreateRecord(d) PROVE TypeOK'
  BY <1>21, RcType, CreateType DEF CreateRecord, Rest, ZoneTypeOK, RcPcs, Rc, Row,
     Contents
<1>22. ASSUME NEW d \in Doms, CreateFails(d) PROVE TypeOK'
  <2>1. ZoneTypeOK'
    <3>1. rc.snap[d].host \in Names /\ rc.snap[d].agent \in Contents
      BY DEF Rc, Row, Contents
    <3>2. CASE UNCHANGED <<zone, basis>>
      BY <3>2 DEF ZoneTypeOK
    <3>3. ASSUME NEW r \in RecIds, Create(r, rc.snap[d].host, rc.snap[d].agent)
          PROVE  ZoneTypeOK'
      BY <3>1, <3>3, CreateType
    <3>4. \/ UNCHANGED <<zone, basis>>
          \/ \E r \in RecIds : Create(r, rc.snap[d].host, rc.snap[d].agent)
      BY <1>22, Zenon DEF CreateFails
    <3> QED BY <3>2, <3>3, <3>4
  <2>2. row' \in [Doms -> Row]
    BY <1>22, SetType DEF CreateFails, Statuses, LiveStatuses
  <2>3. left' \in [Limits -> Nat]
    BY <1>22, SpendType DEF CreateFails, Limits
  <2>4. rc' \in Rc
    BY <1>22, RcType DEF CreateFails, RcPcs
  <2> QED BY <1>22, <2>1, <2>2, <2>3, <2>4 DEF CreateFails, Rest
<1>23. ASSUME NEW d \in Doms, StoreCreated(d) PROVE TypeOK'
  BY <1>23, RcType, StoreType DEF StoreCreated, Rest, ZoneTypeOK, RcPcs, Rc
<1>24. ASSUME NEW d \in Doms, CreateDomain(d) PROVE TypeOK'
  <2>1. PICK h \in Hosts, a \in Agents :
          row' = [row EXCEPT ![d] = [Blank EXCEPT !.status = "pending", !.host = h, !.agent = a]]
    BY <1>24 DEF CreateDomain
  <2>2. [Blank EXCEPT !.status = "pending", !.host = h, !.agent = a] \in Row
    BY DEF Blank, Row, Statuses, LiveStatuses, Names
  <2>3. row' \in [Doms -> Row]
    BY <2>1, <2>2
  <2> QED BY <1>24, <2>3 DEF CreateDomain, Rest, ZoneTypeOK
<1>25. ASSUME NEW d \in Doms, DeleteDomain(d) PROVE TypeOK'
  BY <1>25, SetType, SpendType DEF DeleteDomain, Rest, ZoneTypeOK, Limits, Statuses
<1>26. ASSUME NEW d \in Doms, ReadForUpdate(d) PROVE TypeOK'
  <2>1. PICK h \in Renames \cup {row[d].host}, a \in Agents :
          upd' = [upd EXCEPT ![d] = [row[d] EXCEPT !.status = "pending", !.host = h, !.agent = a]]
    BY <1>26 DEF ReadForUpdate
  <2>2. h \in Names
    BY DomainAssumptions DEF Names, Row
  <2>3. [row[d] EXCEPT !.status = "pending", !.host = h, !.agent = a] \in Row
    BY <2>2 DEF Row, Statuses, LiveStatuses
  <2>4. upd' \in [Doms -> Row]
    BY <2>1, <2>3
  <2>5. left' \in [Limits -> Nat]
    BY <1>26, SpendType DEF ReadForUpdate, Limits
  <2> QED BY <1>26, <2>4, <2>5 DEF ReadForUpdate, ZoneTypeOK
<1>27. ASSUME NEW d \in Doms, WriteUpdate(d) PROVE TypeOK'
  BY <1>27, BlankType DEF WriteUpdate, Rest, ZoneTypeOK
<1>28. ASSUME NEW d \in Doms, ListForAck(d) PROVE TypeOK'
  BY <1>28 DEF ListForAck, Rest, ZoneTypeOK
<1>29. ASSUME NEW d \in Doms, MarkApplied(d) PROVE TypeOK'
  BY <1>29, SetType DEF MarkApplied, Rest, ZoneTypeOK, Statuses, LiveStatuses
<1>30. ASSUME NEW d \in Doms, TakeoverStart(d) PROVE TypeOK'
  BY <1>30, SpendType, IdleType DEF TakeoverStart, Rest, ZoneTypeOK, Limits, Row, Tak,
     TakPcs
<1>31. ASSUME NEW d \in Doms, TakeoverLookup(d) PROVE TypeOK'
  BY <1>31, BasedType DEF TakeoverLookup, Rest, ZoneTypeOK, Tak, TakPcs, Matching, At,
     Bases
<1>32. ASSUME NEW d \in Doms, TakeoverOwn(d) PROVE TypeOK'
  <2>1. tak' \in [Doms -> Tak]
    <3>1. "pending" \in TakPcs
      BY DEF TakPcs
    <3>2. CASE tak' = [tak EXCEPT ![d].pc = "pending", ![d].rec = NoRec]
      BY <3>1, <3>2, TakType
    <3>3. CASE TakAborts(d)
      BY <3>3, TakType
    <3> QED BY <1>32, <3>2, <3>3 DEF TakeoverOwn
  <2>2. row' \in [Doms -> Row]
    BY <1>32, SetType DEF TakeoverOwn, Tak
  <2>3. basis' \in [RecIds -> Bases]
    BY <1>32, BasedType DEF TakeoverOwn, Bases
  <2> QED BY <1>32, <2>1, <2>2, <2>3 DEF TakeoverOwn, ZoneTypeOK
<1>33. ASSUME NEW d \in Doms, TakeoverDelete(d) PROVE TypeOK'
  <2>1. tak' \in [Doms -> Tak]
    <3>1. PICK r \in RecIds :
            tak' = [tak EXCEPT ![d].todo = @ \ {r}] \/ TakAborts(d)
      <4>1. tak[d].todo \subseteq RecIds
        BY DEF Tak
      <4> QED BY <1>33, <4>1 DEF TakeoverDelete
    <3>2. [tak EXCEPT ![d].todo = @ \ {r}] \in [Doms -> Tak]
      BY TakType
    <3>3. CASE TakAborts(d)
      BY <3>3, TakType
    <3> QED BY <3>1, <3>2, <3>3
  <2>2. zone' \in [RecIds -> Record]
    BY <1>33, DeletedType DEF TakeoverDelete, Tak, ZoneTypeOK
  <2> QED BY <1>33, <2>1, <2>2 DEF TakeoverDelete, ZoneTypeOK
<1>34. ASSUME NEW d \in Doms, TakeoverCreate(d) PROVE TypeOK'
  BY <1>34, CreateType, IdleType DEF TakeoverCreate, Rest, ZoneTypeOK, Tak, TakPcs,
     TakAborts, Contents
<1>35. ASSUME NEW d \in Doms, TakeoverStore(d) PROVE TypeOK'
  <2>1. tak' \in [Doms -> Tak]
    <3>1. "pending" \in TakPcs
      BY DEF TakPcs
    <3>2. CASE tak' = [tak EXCEPT ![d].pc = "pending", ![d].rec = NoRec]
      BY <3>1, <3>2, TakType
    <3>3. CASE TakAborts(d)
      BY <3>3, TakType
    <3> QED BY <1>35, <3>2, <3>3 DEF TakeoverStore
  <2>2. row' \in [Doms -> Row]
    BY <1>35, SetType DEF TakeoverStore, Tak
  <2> QED BY <1>35, <2>1, <2>2 DEF TakeoverStore, ZoneTypeOK
<1>36. ASSUME NEW d \in Doms, TakeoverFinish(d) PROVE TypeOK'
  BY <1>36, SetType, IdleType DEF TakeoverFinish, Rest, ZoneTypeOK, TakAborts, Statuses,
     LiveStatuses
<1>37. ASSUME NEW d \in Doms, TakeoverFails(d) PROVE TypeOK'
  BY <1>37, CreateType, DeletedType, IdleType, SpendType DEF TakeoverFails, Rest,
     ZoneTypeOK, Tak, TakAborts, Limits, Contents
<1>38. ASSUME NEW r \in RecIds, OperatorAdds(r) PROVE TypeOK'
  BY <1>38, WrittenType, SpendType DEF OperatorAdds, Rest, ZoneTypeOK, Limits, Names,
     Contents
<1>39. ASSUME NEW r \in RecIds, OperatorEdits(r) PROVE TypeOK'
  BY <1>39, WrittenType, SpendType DEF OperatorEdits, Rest, ZoneTypeOK, Limits, Record,
     Contents
<1>40. ASSUME NEW r \in RecIds, OperatorRemoves(r) PROVE TypeOK'
  BY <1>40, RemovedType, SpendType DEF OperatorRemoves, Rest, ZoneTypeOK, Limits
<1>41. ASSUME Crash PROVE TypeOK'
  BY <1>41, IdleType, BlankType, SpendType DEF Crash, ZoneTypeOK, Limits
<1>42. ASSUME UNCHANGED vars PROVE TypeOK'
  BY <1>42 DEF vars, ZoneTypeOK
<1> QED
  BY <1>1, <1>2, <1>3, <1>4, <1>5, <1>6, <1>7, <1>8, <1>9, <1>10, <1>11, <1>12,
     <1>13, <1>14, <1>15, <1>16, <1>17, <1>18, <1>19, <1>20, <1>21, <1>22, <1>23,
     <1>24, <1>25, <1>26, <1>27, <1>28, <1>29, <1>30, <1>31, <1>32, <1>33, <1>34,
     <1>35, <1>36, <1>37, <1>38, <1>39, <1>40, <1>41, <1>42
     DEF Next, ReconcilerStep, TakeoverStep

LEMMA InitType == Init => TypeOK
<1> SUFFICES ASSUME Init PROVE TypeOK
  OBVIOUS
<1>1. ZoneTypeOK
  BY DEF Init, ZoneInit, ZoneTypeOK, Unborn, Record, Fates, Names, Contents, Writers, Bases
<1>2. left \in [Limits -> Nat]
  BY DomainAssumptions DEF Init
<1> QED BY <1>1, <1>2, BlankType, IdleType DEF Init, TypeOK

\* Type correctness: whatever the interleaving, and whatever fails, the database
\* rows, the goroutines and the zone hold values of their types.
THEOREM TypeCorrect == Spec => []TypeOK
<1>1. TypeOK /\ [Next]_vars => TypeOK'
  BY TypeStep
<1> QED BY <1>1, InitType, PTL DEF Spec

-----------------------------------------------------------------------------
(* Ownership.  That a step respects it does not follow from the types: what the *)
(* reconciler deletes was read from a row some steps ago, and the row may have  *)
(* been written from a snapshot that is older still.  The invariant says that   *)
(* every record id held anywhere, in a row or in a goroutine's snapshot of one, *)
(* has a basis, and one that permits deletion when the flag beside it is set;   *)
(* bases only grow stronger, so a snapshot cannot go bad while it is held.      *)

Born(r) == zone[r].fate # "unborn"
Known(r) == Born(r) /\ basis[r] # "none"
Own(r) == Born(r) /\ basis[r] \in {"created", "takeover"}

Standing == LiveStatuses \cup {"deleting"}

\* A row, or a copy of one, whose record id and flag are grounded in the zone, and
\* that names a host and an agent while it stands.
Grounded(s) ==
    /\ s.rec # NoRec => Known(s.rec) /\ (s.managed => Own(s.rec))
    /\ s.status \in Standing => s.host \in Hosts /\ s.agent \in Agents

ZoneNamed == \A r \in RecIds : IsLive(r) => zone[r].name \in Hosts
RowsGrounded == \A d \in Doms : Grounded(row[d])
UpdGrounded == \A d \in Doms : Grounded(upd[d])

RcGrounded ==
    /\ \A d \in Doms : Grounded(rc.snap[d])
    /\ \A d \in rc.todo : rc.snap[d].status \in Standing
    /\ rc.pc \notin {"idle", "deletions", "dns"} => rc.dom \in rc.todo
    /\ rc.pc = "retarget" => rc.snap[rc.dom].rec # NoRec
    /\ rc.pc = "adopt" => rc.rec \in RecIds /\ Born(rc.rec)
    /\ rc.pc = "store" => rc.rec \in RecIds /\ Own(rc.rec)

TakGrounded ==
    \A d \in Doms :
       LET t == tak[d] IN
       /\ t.pc # "idle" => t.host \in Hosts /\ t.agent \in Agents
       /\ \A r \in t.todo : Own(r)
       /\ t.pc = "own" => t.rec \in RecIds /\ Born(t.rec)
       /\ t.pc = "store" => t.rec \in RecIds /\ Own(t.rec)

IInv == TypeOK /\ ZoneNamed /\ RowsGrounded /\ UpdGrounded /\ RcGrounded /\ TakGrounded

\* Steps, as the promise sees them.
Stutters == UNCHANGED <<zone, basis>>

LEMMA CreateRefines ==
    ASSUME NEW r \in RecIds, NEW h \in Hosts, NEW a \in Agents, Create(r, h, a)
    PROVE  Ownership!Next
<1>1. Ownership!Creates(r)
  BY DEF Create, IsNextId, At, IsLive, Written,
         Ownership!Creates, Ownership!At, Ownership!IsLive, Ownership!Written
<1> QED BY <1>1 DEF Ownership!Next

LEMMA DeleteRefines ==
    ASSUME NEW r \in RecIds, IsLive(r), Own(r), zone' = Deleted(r), UNCHANGED basis
    PROVE  Ownership!Next
<1>1. Ownership!Removes(r)
  BY DEF Own, IsLive, Deleted, Removed, Unborn,
         Ownership!Removes, Ownership!IsLive, Ownership!Deleted, Ownership!Removed, Ownership!Unborn
<1> QED BY <1>1 DEF Ownership!Next

LEMMA RetargetRefines ==
    ASSUME NEW s, s.rec \in RecIds, IsLive(s.rec), Known(s.rec), s.host \in Hosts, s.agent \in Agents,
           zone' = Retargeted(s), UNCHANGED basis
    PROVE  Ownership!Next
<1>1. Ownership!Retargets(s.rec)
  BY DEF Known, IsLive, Retargeted, Written,
         Ownership!Retargets, Ownership!IsLive, Ownership!Written
<1> QED BY <1>1 DEF Ownership!Next

LEMMA AdoptRefines ==
    ASSUME NEW r \in RecIds, Born(r), basis' = Based({r}, "adopted"), UNCHANGED zone
    PROVE  Ownership!Next
<1>1. Ownership!Adopts(r)
  BY DEF Born, Based, Strengthen, Ownership!Adopts, Ownership!Based, Ownership!Strengthen
<1> QED BY <1>1 DEF Ownership!Next

LEMMA GrantRefines ==
    ASSUME NEW R \in SUBSET RecIds, \A r \in R : Born(r), basis' = Based(R, "takeover"),
           UNCHANGED zone
    PROVE  Ownership!Next
<1>1. Ownership!IsGranted(R)
  BY DEF Born, Based, Strengthen, Ownership!IsGranted, Ownership!Based, Ownership!Strengthen
<1> QED BY <1>1 DEF Ownership!Next

\* Facts about a goroutine at work, from the invariant.
LEMMA AtWork ==
    ASSUME IInv, NEW d \in Doms
    PROVE  /\ Grounded(rc.snap[d]) /\ Grounded(row[d]) /\ Grounded(upd[d])
           /\ rc.snap[d] \in Row /\ row[d] \in Row /\ upd[d] \in Row
           /\ \A p : Picks(p, d) => rc.snap[d].status \in Standing
           /\ \A p \in {"clear", "erase", "retarget", "lookup", "create", "store", "adopt", "pending"} :
                 Working(p, d) => d \in rc.todo /\ rc.snap[d].status \in Standing
           /\ Working("retarget", d) => rc.snap[d].rec \in RecIds
           /\ tak[d] \in Tak
<1>1. Grounded(rc.snap[d]) /\ Grounded(row[d]) /\ Grounded(upd[d])
  BY DEF IInv, RcGrounded, RowsGrounded, UpdGrounded
<1>2. rc.snap[d] \in Row /\ row[d] \in Row /\ upd[d] \in Row /\ tak[d] \in Tak
  BY DEF IInv, TypeOK, Rc
<1>3. ASSUME NEW p, Picks(p, d) PROVE rc.snap[d].status \in Standing
  BY <1>3 DEF Picks, IInv, RcGrounded
<1>4. ASSUME NEW p \in {"clear", "erase", "retarget", "lookup", "create", "store", "adopt", "pending"},
             Working(p, d)
      PROVE  d \in rc.todo /\ rc.snap[d].status \in Standing
  BY <1>4 DEF Working, IInv, RcGrounded
<1>5. Working("retarget", d) => rc.snap[d].rec \in RecIds
  BY <1>2 DEF Working, IInv, RcGrounded, Row
<1> QED BY <1>1, <1>2, <1>3, <1>4, <1>5

\* A step of the detailed specification is a step of the promise or changes
\* neither the zone nor the basis of any record.
LEMMA StepRefines == ASSUME IInv, [Next]_vars PROVE Ownership!Next \/ Stutters
<1>1. ASSUME ListDeleting PROVE Ownership!Next \/ Stutters
  BY <1>1 DEF ListDeleting, Stutters
<1>2. ASSUME ListLive PROVE Ownership!Next \/ Stutters
  BY <1>2 DEF ListLive, Stutters
<1>3. ASSUME EndCycle PROVE Ownership!Next \/ Stutters
  BY <1>3 DEF EndCycle, Stutters
<1>4. ASSUME NEW d \in Doms, KeepRecord(d) PROVE Ownership!Next \/ Stutters
  BY <1>4 DEF KeepRecord, Stutters
<1>5. ASSUME NEW d \in Doms, DeleteRecord(d) PROVE Ownership!Next \/ Stutters
  <2>1. Grounded(rc.snap[d]) /\ rc.snap[d] \in Row
    BY AtWork
  <2>2. CASE HasRecord(rc.snap[d].rec, rc.snap[d].host)
    <3>1. rc.snap[d].rec \in RecIds /\ IsLive(rc.snap[d].rec) /\ Own(rc.snap[d].rec)
      BY <1>5, <2>1, <2>2 DEF DeleteRecord, Owns, Grounded, HasRecord, Row
    <3> QED BY <1>5, <2>2, <3>1, DeleteRefines DEF DeleteRecord
  <2>3. CASE ~HasRecord(rc.snap[d].rec, rc.snap[d].host)
    BY <1>5, <2>3 DEF DeleteRecord, Stutters
  <2> QED BY <2>2, <2>3
<1>6. ASSUME NEW d \in Doms, DeferDelete(d) PROVE Ownership!Next \/ Stutters
  <2>1. Grounded(rc.snap[d]) /\ rc.snap[d] \in Row
    BY AtWork
  <2>2. CASE HasRecord(rc.snap[d].rec, rc.snap[d].host) /\ zone' = Deleted(rc.snap[d].rec)
    <3>1. rc.snap[d].rec \in RecIds /\ IsLive(rc.snap[d].rec) /\ Own(rc.snap[d].rec)
      BY <1>6, <2>1, <2>2 DEF DeferDelete, Owns, Grounded, HasRecord, Row
    <3> QED BY <1>6, <2>2, <3>1, DeleteRefines DEF DeferDelete
  <2>3. CASE UNCHANGED zone
    BY <1>6, <2>3 DEF DeferDelete, Stutters
  <2> QED BY <1>6, <2>2, <2>3 DEF DeferDelete
<1>7. ASSUME NEW d \in Doms, ClearRecord(d) PROVE Ownership!Next \/ Stutters
  BY <1>7 DEF ClearRecord, Stutters
<1>8. ASSUME NEW d \in Doms, EraseRow(d) PROVE Ownership!Next \/ Stutters
  BY <1>8 DEF EraseRow, Stutters
<1>9. ASSUME NEW d \in Doms, VisitUnrecorded(d) PROVE Ownership!Next \/ Stutters
  BY <1>9 DEF VisitUnrecorded, Stutters
<1>10. ASSUME NEW d \in Doms, VisitMissing(d) PROVE Ownership!Next \/ Stutters
  BY <1>10 DEF VisitMissing, Stutters
<1>11. ASSUME NEW d \in Doms, VisitFound(d) PROVE Ownership!Next \/ Stutters
  BY <1>11 DEF VisitFound, Stutters
<1>12. ASSUME NEW d \in Doms, VisitUnreadable(d) PROVE Ownership!Next \/ Stutters
  BY <1>12 DEF VisitUnreadable, Stutters
<1>13. ASSUME NEW d \in Doms, Retarget(d) PROVE Ownership!Next \/ Stutters
  <2>1. Grounded(rc.snap[d]) /\ rc.snap[d].status \in Standing /\ rc.snap[d].rec \in RecIds
    BY <1>13, AtWork DEF Retarget
  <2>2. IsLive(rc.snap[d].rec) /\ zone' = Retargeted(rc.snap[d]) /\ UNCHANGED basis
    BY <1>13 DEF Retarget, CanRetarget, HasRecord
  <2>3. rc.snap[d].rec # NoRec
    BY <2>1, DomainAssumptions
  <2>4. Known(rc.snap[d].rec) /\ rc.snap[d].host \in Hosts /\ rc.snap[d].agent \in Agents
    BY <2>1, <2>3 DEF Grounded
  <2> QED BY <2>1, <2>2, <2>4, RetargetRefines
<1>14. ASSUME NEW d \in Doms, RetargetFails(d) PROVE Ownership!Next \/ Stutters
  <2>1. Grounded(rc.snap[d]) /\ rc.snap[d].status \in Standing /\ rc.snap[d].rec \in RecIds
    BY <1>14, AtWork DEF RetargetFails
  <2>2. rc.snap[d].rec # NoRec
    BY <2>1, DomainAssumptions
  <2>3. Known(rc.snap[d].rec) /\ rc.snap[d].host \in Hosts /\ rc.snap[d].agent \in Agents
    BY <2>1, <2>2 DEF Grounded
  <2>4. CASE CanRetarget(rc.snap[d]) /\ zone' = Retargeted(rc.snap[d])
    BY <1>14, <2>1, <2>3, <2>4, RetargetRefines DEF RetargetFails, CanRetarget, HasRecord
  <2>5. CASE UNCHANGED zone
    BY <1>14, <2>5 DEF RetargetFails, Stutters
  <2> QED BY <1>14, <2>4, <2>5 DEF RetargetFails
<1>15. ASSUME NEW d \in Doms, LookupMatches(d) PROVE Ownership!Next \/ Stutters
  BY <1>15 DEF LookupMatches, Stutters
<1>16. ASSUME NEW d \in Doms, LookupConflicts(d) PROVE Ownership!Next \/ Stutters
  BY <1>16 DEF LookupConflicts, Stutters
<1>17. ASSUME NEW d \in Doms, LookupFindsNone(d) PROVE Ownership!Next \/ Stutters
  BY <1>17 DEF LookupFindsNone, Stutters
<1>18. ASSUME NEW d \in Doms, LookupFails(d) PROVE Ownership!Next \/ Stutters
  BY <1>18 DEF LookupFails, Stutters
<1>19. ASSUME NEW d \in Doms, AdoptRecord(d) PROVE Ownership!Next \/ Stutters
  <2>1. rc.rec \in RecIds /\ Born(rc.rec)
    BY <1>19 DEF AdoptRecord, Working, IInv, RcGrounded
  <2> QED BY <1>19, <2>1, AdoptRefines DEF AdoptRecord
<1>20. ASSUME NEW d \in Doms, MarkAdopted(d) PROVE Ownership!Next \/ Stutters
  BY <1>20 DEF MarkAdopted, Stutters
<1>21. ASSUME NEW d \in Doms, CreateRecord(d) PROVE Ownership!Next \/ Stutters
  <2>1. rc.snap[d].host \in Hosts /\ rc.snap[d].agent \in Agents
    BY <1>21, AtWork DEF CreateRecord, Grounded
  <2> QED BY <1>21, <2>1, CreateRefines DEF CreateRecord
<1>22. ASSUME NEW d \in Doms, CreateFails(d) PROVE Ownership!Next \/ Stutters
  <2>1. rc.snap[d].host \in Hosts /\ rc.snap[d].agent \in Agents
    BY <1>22, AtWork DEF CreateFails, Grounded
  <2>2. ASSUME NEW r \in RecIds, Create(r, rc.snap[d].host, rc.snap[d].agent)
        PROVE  Ownership!Next
    BY <2>1, <2>2, CreateRefines
  <2>3. \/ Stutters
        \/ \E r \in RecIds : Create(r, rc.snap[d].host, rc.snap[d].agent)
    BY <1>22, Zenon DEF CreateFails, Stutters
  <2> QED BY <2>2, <2>3
<1>23. ASSUME NEW d \in Doms, StoreCreated(d) PROVE Ownership!Next \/ Stutters
  BY <1>23 DEF StoreCreated, Stutters
<1>24. ASSUME NEW d \in Doms, CreateDomain(d) PROVE Ownership!Next \/ Stutters
  BY <1>24 DEF CreateDomain, Stutters
<1>25. ASSUME NEW d \in Doms, DeleteDomain(d) PROVE Ownership!Next \/ Stutters
  BY <1>25 DEF DeleteDomain, Stutters
<1>26. ASSUME NEW d \in Doms, ReadForUpdate(d) PROVE Ownership!Next \/ Stutters
  BY <1>26 DEF ReadForUpdate, Stutters
<1>27. ASSUME NEW d \in Doms, WriteUpdate(d) PROVE Ownership!Next \/ Stutters
  BY <1>27 DEF WriteUpdate, Stutters
<1>28. ASSUME NEW d \in Doms, ListForAck(d) PROVE Ownership!Next \/ Stutters
  BY <1>28 DEF ListForAck, Stutters
<1>29. ASSUME NEW d \in Doms, MarkApplied(d) PROVE Ownership!Next \/ Stutters
  BY <1>29 DEF MarkApplied, Stutters
<1>30. ASSUME NEW d \in Doms, TakeoverStart(d) PROVE Ownership!Next \/ Stutters
  BY <1>30 DEF TakeoverStart, Stutters
<1>31. ASSUME NEW d \in Doms, TakeoverLookup(d) PROVE Ownership!Next \/ Stutters
  <2>1. At(tak[d].host) \in SUBSET RecIds /\ \A r \in At(tak[d].host) : Born(r)
    BY DEF At, IsLive, Born
  <2>2. CASE basis' = Based(At(tak[d].host), "takeover")
    BY <1>31, <2>1, <2>2, GrantRefines DEF TakeoverLookup
  <2>3. CASE UNCHANGED basis
    BY <1>31, <2>3 DEF TakeoverLookup, Stutters
  <2> QED BY <1>31, <2>2, <2>3 DEF TakeoverLookup
<1>32. ASSUME NEW d \in Doms, TakeoverOwn(d) PROVE Ownership!Next \/ Stutters
  <2>1. tak[d].rec \in RecIds /\ Born(tak[d].rec)
    BY <1>32 DEF TakeoverOwn, IInv, TakGrounded
  <2> QED BY <1>32, <2>1, GrantRefines DEF TakeoverOwn
<1>33. ASSUME NEW d \in Doms, TakeoverDelete(d) PROVE Ownership!Next \/ Stutters
  <2>1. PICK r \in tak[d].todo :
          \/ HasRecord(r, tak[d].host) /\ zone' = Deleted(r)
          \/ UNCHANGED zone
    BY <1>33 DEF TakeoverDelete
  <2>2. r \in RecIds /\ Own(r)
    BY AtWork DEF IInv, TakGrounded, Tak
  <2>3. CASE HasRecord(r, tak[d].host) /\ zone' = Deleted(r)
    BY <1>33, <2>2, <2>3, DeleteRefines DEF TakeoverDelete, HasRecord
  <2>4. CASE UNCHANGED zone
    BY <1>33, <2>4 DEF TakeoverDelete, Stutters
  <2> QED BY <2>1, <2>3, <2>4
<1>34. ASSUME NEW d \in Doms, TakeoverCreate(d) PROVE Ownership!Next \/ Stutters
  <2>1. tak[d].host \in Hosts /\ tak[d].agent \in Agents
    BY <1>34 DEF TakeoverCreate, IInv, TakGrounded
  <2>2. ASSUME NEW r \in RecIds, Create(r, tak[d].host, tak[d].agent) PROVE Ownership!Next
    BY <2>1, <2>2, CreateRefines
  <2>3. Stutters \/ \E r \in RecIds : Create(r, tak[d].host, tak[d].agent)
    BY <1>34, Zenon DEF TakeoverCreate, Stutters
  <2> QED BY <2>2, <2>3
<1>35. ASSUME NEW d \in Doms, TakeoverStore(d) PROVE Ownership!Next \/ Stutters
  BY <1>35 DEF TakeoverStore, Stutters
<1>36. ASSUME NEW d \in Doms, TakeoverFinish(d) PROVE Ownership!Next \/ Stutters
  BY <1>36 DEF TakeoverFinish, Stutters
<1>37. ASSUME NEW d \in Doms, TakeoverFails(d) PROVE Ownership!Next \/ Stutters
  <2>1. tak[d].pc # "idle" => tak[d].host \in Hosts /\ tak[d].agent \in Agents
    BY DEF IInv, TakGrounded
  <2>2. CASE UNCHANGED <<zone, basis>>
    BY <2>2 DEF Stutters
  <2>3. ASSUME tak[d].pc = "clear", NEW r \in RecIds, Create(r, tak[d].host, tak[d].agent)
        PROVE  Ownership!Next
    BY <2>1, <2>3, CreateRefines
  <2>4. ASSUME NEW r \in tak[d].todo, HasRecord(r, tak[d].host), zone' = Deleted(r), UNCHANGED basis
        PROVE  Ownership!Next
    <3>1. r \in RecIds /\ Own(r)
      BY AtWork DEF IInv, TakGrounded, Tak
    <3> QED BY <2>4, <3>1, DeleteRefines DEF HasRecord
  <2>5. \/ UNCHANGED <<zone, basis>>
        \/ tak[d].pc = "clear" /\ \E r \in RecIds : Create(r, tak[d].host, tak[d].agent)
        \/ \E r \in tak[d].todo :
              HasRecord(r, tak[d].host) /\ zone' = Deleted(r) /\ UNCHANGED basis
    BY <1>37, Zenon DEF TakeoverFails
  <2> QED BY <2>2, <2>3, <2>4, <2>5
<1>38. ASSUME NEW r \in RecIds, OperatorAdds(r) PROVE Ownership!Next \/ Stutters
  <2>1. Ownership!OperatorWrites(r)
    BY <1>38 DEF OperatorAdds, IsNextId, Written, Ownership!OperatorWrites, Ownership!Written
  <2> QED BY <2>1 DEF Ownership!Next
<1>39. ASSUME NEW r \in RecIds, OperatorEdits(r) PROVE Ownership!Next \/ Stutters
  <2>1. zone[r].name \in Hosts
    BY <1>39 DEF OperatorEdits, IInv, ZoneNamed
  <2>2. Ownership!OperatorWrites(r)
    BY <1>39, <2>1 DEF OperatorEdits, IsLive, Written, Ownership!OperatorWrites, Ownership!Written
  <2> QED BY <2>2 DEF Ownership!Next
<1>40. ASSUME NEW r \in RecIds, OperatorRemoves(r) PROVE Ownership!Next \/ Stutters
  <2>1. Ownership!OperatorRemoves(r)
    BY <1>40 DEF OperatorRemoves, IsLive, Removed, Unborn, Ownership!OperatorRemoves,
       Ownership!IsLive, Ownership!Removed, Ownership!Unborn
  <2> QED BY <2>1 DEF Ownership!Next
<1>41. ASSUME Crash PROVE Ownership!Next \/ Stutters
  BY <1>41 DEF Crash, Stutters
<1>42. ASSUME UNCHANGED vars PROVE Ownership!Next \/ Stutters
  BY <1>42 DEF vars, Stutters
<1> QED
  BY <1>1, <1>2, <1>3, <1>4, <1>5, <1>6, <1>7, <1>8, <1>9, <1>10, <1>11, <1>12,
     <1>13, <1>14, <1>15, <1>16, <1>17, <1>18, <1>19, <1>20, <1>21, <1>22,
     <1>23, <1>24, <1>25, <1>26, <1>27, <1>28, <1>29, <1>30, <1>31, <1>32,
     <1>33, <1>34, <1>35, <1>36, <1>37, <1>38, <1>39, <1>40, <1>41, <1>42
     DEF Next, ReconcilerStep, TakeoverStep

\* Bases only grow stronger.
Promised == Ownership!Next \/ Stutters

LEMMA Grows ==
    ASSUME TypeOK, Promised, NEW r \in RecIds
    PROVE  (Born(r) => Born(r)') /\ (Known(r) => Known(r)') /\ (Own(r) => Own(r)')
<1> USE DEF Born, Known, Own
<1>0. zone \in [RecIds -> Record] /\ basis \in [RecIds -> Bases]
  BY DEF TypeOK, ZoneTypeOK
<1>1. ASSUME NEW q \in RecIds, Ownership!OperatorWrites(q) \/ Ownership!Retargets(q)
      PROVE  (Born(r) => Born(r)') /\ (Known(r) => Known(r)') /\ (Own(r) => Own(r)')
  BY <1>0, <1>1 DEF Ownership!OperatorWrites, Ownership!Retargets, Ownership!Written
<1>2. ASSUME NEW q \in RecIds, Ownership!OperatorRemoves(q) \/ Ownership!Removes(q)
      PROVE  (Born(r) => Born(r)') /\ (Known(r) => Known(r)') /\ (Own(r) => Own(r)')
  BY <1>0, <1>2 DEF Ownership!OperatorRemoves, Ownership!Removes, Ownership!Deleted,
     Ownership!Removed, Ownership!Unborn
<1>3. ASSUME NEW q \in RecIds, Ownership!Creates(q)
      PROVE  (Born(r) => Born(r)') /\ (Known(r) => Known(r)') /\ (Own(r) => Own(r)')
  BY <1>0, <1>3 DEF Ownership!Creates, Ownership!Written
<1>4. ASSUME NEW q \in RecIds, Ownership!Adopts(q)
      PROVE  (Born(r) => Born(r)') /\ (Known(r) => Known(r)') /\ (Own(r) => Own(r)')
  BY <1>0, <1>4 DEF Ownership!Adopts, Ownership!Based, Ownership!Strengthen
<1>5. ASSUME NEW R \in SUBSET RecIds, Ownership!IsGranted(R)
      PROVE  (Born(r) => Born(r)') /\ (Known(r) => Known(r)') /\ (Own(r) => Own(r)')
  BY <1>0, <1>5 DEF Ownership!IsGranted, Ownership!Based, Ownership!Strengthen
<1>6. CASE Stutters
  BY <1>6 DEF Stutters
<1> QED BY <1>1, <1>2, <1>3, <1>4, <1>5, <1>6 DEF Promised, Ownership!Next

LEMMA NamedStep == ASSUME TypeOK, ZoneNamed, Promised PROVE ZoneNamed'
<1> USE DEF ZoneNamed, IsLive
<1>0. zone \in [RecIds -> Record]
  BY DEF TypeOK, ZoneTypeOK
<1>1. ASSUME NEW q \in RecIds,
             Ownership!OperatorWrites(q) \/ Ownership!Retargets(q) \/ Ownership!Creates(q)
      PROVE  ZoneNamed'
  BY <1>0, <1>1 DEF Ownership!OperatorWrites, Ownership!Retargets, Ownership!Creates, Ownership!Written
<1>2. ASSUME NEW q \in RecIds, Ownership!OperatorRemoves(q) \/ Ownership!Removes(q)
      PROVE  ZoneNamed'
  BY <1>0, <1>2 DEF Ownership!OperatorRemoves, Ownership!Removes, Ownership!Deleted,
     Ownership!Removed, Ownership!Unborn
<1>3. CASE zone' = zone
  BY <1>3
<1> QED BY <1>1, <1>2, <1>3
        DEF Promised, Stutters, Ownership!Next, Ownership!Adopts, Ownership!IsGranted

LEMMA StaysGrounded ==
    ASSUME TypeOK, Promised, NEW s \in Row, Grounded(s) PROVE Grounded(s)'
<1>1. s.rec = NoRec \/ s.rec \in RecIds
  BY DEF Row
<1> QED BY <1>1, Grows DEF Grounded

\* How a row may change and stay grounded.
LEMMA RowKept ==
    ASSUME IInv, Promised, row' = row PROVE RowsGrounded'
<1>1. \A d \in Doms : row[d] \in Row /\ Grounded(row[d])
  BY DEF IInv, TypeOK, RowsGrounded
<1> QED BY <1>1, StaysGrounded DEF IInv, RowsGrounded, Grounded, Known, Own, Born

LEMMA RowReplaced ==
    ASSUME IInv, Promised, NEW d \in Doms, NEW s, Grounded(s)', row' = [row EXCEPT ![d] = s]
    PROVE  RowsGrounded'
<1>1. \A e \in Doms : row[e] \in Row /\ Grounded(row[e])
  BY DEF IInv, TypeOK, RowsGrounded
<1>2. \A e \in Doms : row'[e] = IF e = d THEN s ELSE row[e]
  BY DEF IInv, TypeOK
<1> QED BY <1>1, <1>2, StaysGrounded DEF IInv, RowsGrounded, Grounded, Known, Own, Born

LEMMA RowStatus ==
    ASSUME IInv, Promised, NEW d \in Doms, NEW s \in Standing, row' = SetStatus(d, s)
    PROVE  RowsGrounded'
<1>1. CASE ~Present(d)
  BY <1>1, RowKept DEF SetStatus
<1>2. CASE Present(d)
  <2>1. row[d] \in Row /\ Grounded(row[d])
    BY DEF IInv, TypeOK, RowsGrounded
  <2>2. row' = [row EXCEPT ![d] = [row[d] EXCEPT !.status = s]]
    BY <1>2 DEF SetStatus
  <2>3. [row[d] EXCEPT !.status = s] \in Row /\ Grounded([row[d] EXCEPT !.status = s])
    BY <1>2, <2>1 DEF Present, Standing, Grounded, Row, Statuses, LiveStatuses
  <2> QED BY <2>2, <2>3, StaysGrounded, RowReplaced DEF IInv, Grounded, Known, Own, Born
<1> QED BY <1>1, <1>2

LEMMA RowRecord ==
    ASSUME IInv, Promised, NEW d \in Doms, NEW r \in RecIds \cup {NoRec}, NEW m \in BOOLEAN,
           r # NoRec => Known(r)' /\ (m => Own(r)'),
           row' = SetRecord(d, r, m)
    PROVE  RowsGrounded'
<1>1. CASE ~Present(d)
  BY <1>1, RowKept DEF SetRecord
<1>2. CASE Present(d)
  <2>1. row[d] \in Row /\ Grounded(row[d])
    BY DEF IInv, TypeOK, RowsGrounded
  <2>2. PICK s : s = [row[d] EXCEPT !.rec = r, !.managed = m]
    OBVIOUS
  <2>3. row' = [row EXCEPT ![d] = s]
    BY <1>2, <2>2 DEF SetRecord
  <2>4. s.rec = r /\ s.managed = m /\ s.status = row[d].status
        /\ s.host = row[d].host /\ s.agent = row[d].agent
    BY <2>1, <2>2 DEF Row
  <2>5. Grounded(s)'
    BY <2>1, <2>4 DEF Grounded, Known, Own, Born
  <2> QED BY <2>3, <2>5, RowReplaced
<1> QED BY <1>1, <1>2

LEMMA RowStore ==
    ASSUME IInv, Promised, NEW d \in Doms, NEW r \in RecIds \cup {NoRec}, NEW m \in BOOLEAN,
           r # NoRec => Known(r)' /\ (m => Own(r)'),
           Store(d, r, m)
    PROVE  RowsGrounded'
BY RowRecord, RowKept DEF Store

\* How the reconciler's snapshot may change.
LEMMA SnapStaysGrounded ==
    ASSUME IInv, Promised, rc'.snap = rc.snap PROVE \A d \in Doms : Grounded(rc.snap[d])'
<1>1. \A d \in Doms : rc.snap[d] \in Row /\ Grounded(rc.snap[d])
  BY AtWork
<1> QED BY <1>1, StaysGrounded DEF IInv, Grounded, Known, Own, Born

LEMMA RcKept == ASSUME IInv, Promised, rc' = rc PROVE RcGrounded'
<1>1. \A d \in Doms : Grounded(rc.snap[d])'
  BY SnapStaysGrounded
<1> QED BY <1>1, Grows DEF IInv, RcGrounded, Own, Born, Grounded, Known

LEMMA RcGoes ==
    ASSUME IInv, Promised, NEW d \in rc.todo,
           NEW p \in {"clear", "erase", "retarget", "lookup", "create", "pending"},
           p = "retarget" => rc.snap[d].rec # NoRec,
           Goto(p, d)
    PROVE  RcGrounded'
<1>1. rc'.snap = rc.snap /\ rc'.todo = rc.todo /\ rc'.pc = p /\ rc'.dom = d
  BY DEF Goto, IInv, TypeOK, Rc
<1>2. \A e \in Doms : Grounded(rc.snap[e])'
  BY <1>1, SnapStaysGrounded
<1> QED BY <1>1, <1>2 DEF IInv, RcGrounded, Grounded, Known, Own, Born

LEMMA RcGoesWith ==
    ASSUME IInv, Promised, NEW d \in rc.todo, NEW p \in {"adopt", "store", "pending"},
           NEW r \in RecIds \cup {NoRec},
           p = "adopt" => r \in RecIds /\ Born(r)',
           p = "store" => r \in RecIds /\ Own(r)',
           GotoWith(p, d, r)
    PROVE  RcGrounded'
<1>1. rc'.snap = rc.snap /\ rc'.todo = rc.todo /\ rc'.pc = p /\ rc'.dom = d /\ rc'.rec = r
  BY DEF GotoWith, IInv, TypeOK, Rc
<1>2. \A e \in Doms : Grounded(rc.snap[e])'
  BY <1>1, SnapStaysGrounded
<1> QED BY <1>1, <1>2 DEF IInv, RcGrounded, Grounded, Known, Own, Born

LEMMA BlankGrounded == Grounded(Blank)' /\ Grounded(Gone)'
BY DEF Grounded, Blank, Gone, Standing, LiveStatuses

LEMMA RcFinishes ==
    ASSUME IInv, Promised, NEW d \in Doms, NEW p \in {"deletions", "dns"}, Finish(p, d)
    PROVE  RcGrounded'
<1>1. \A e \in Doms : rc.snap[e] \in Row /\ Grounded(rc.snap[e])
  BY AtWork
<1>2. rc'.pc = p /\ rc'.todo = rc.todo \ {d}
      /\ \A e \in Doms : rc'.snap[e] = IF e = d THEN Blank ELSE rc.snap[e]
  BY DEF Finish, IInv, TypeOK, Rc
<1>3. \A e \in Doms : Grounded(rc.snap[e])'
  BY <1>1, <1>2, StaysGrounded, BlankGrounded DEF IInv, Grounded, Known, Own, Born
<1>4. \A e \in rc'.todo : rc'.snap[e].status \in Standing
  BY <1>2 DEF IInv, RcGrounded, TypeOK, Rc
<1> QED BY <1>2, <1>3, <1>4 DEF RcGrounded, Grounded, Known, Own, Born

LEMMA RcLists ==
    ASSUME IInv, Promised, NEW D \in SUBSET Doms, \A d \in D : row[d].status \in Standing,
           NEW p \in {"deletions", "dns"}, ListPhase(p, D)
    PROVE  RcGrounded'
<1>1. rc'.pc = p /\ rc'.todo = D
      /\ \A e \in Doms : rc'.snap[e] = IF e \in D THEN row[e] ELSE Blank
  BY DEF ListPhase, RcIdle
<1>2. \A e \in Doms : row[e] \in Row /\ Grounded(row[e])
  BY AtWork
<1>3. \A e \in Doms : Grounded(rc.snap[e])'
  BY <1>1, <1>2, StaysGrounded, BlankGrounded DEF IInv, Grounded, Known, Own, Born
<1>4. \A e \in rc'.todo : rc'.snap[e].status \in Standing
  BY <1>1
<1> QED BY <1>1, <1>3, <1>4 DEF RcGrounded, Grounded, Known, Own, Born

LEMMA RcRests == ASSUME rc' = RcIdle PROVE RcGrounded'
<1>1. \A e \in Doms : Grounded(rc.snap[e])'
  BY BlankGrounded DEF RcIdle, Grounded, Known, Own, Born
<1> QED BY <1>1 DEF RcIdle, RcGrounded, Grounded, Known, Own, Born

\* How a PUT's copy of the row may change.
LEMMA UpdKept == ASSUME IInv, Promised, upd' = upd PROVE UpdGrounded'
<1>1. \A d \in Doms : upd[d] \in Row /\ Grounded(upd[d])
  BY DEF IInv, TypeOK, UpdGrounded
<1> QED BY <1>1, StaysGrounded DEF IInv, UpdGrounded, Grounded, Known, Own, Born

LEMMA UpdReplaced ==
    ASSUME IInv, Promised, NEW d \in Doms, NEW s \in Row, Grounded(s)', upd' = [upd EXCEPT ![d] = s]
    PROVE  UpdGrounded'
<1>1. \A e \in Doms : upd[e] \in Row /\ Grounded(upd[e])
  BY DEF IInv, TypeOK, UpdGrounded
<1>2. \A e \in Doms : upd'[e] = IF e = d THEN s ELSE upd[e]
  BY DEF IInv, TypeOK
<1> QED BY <1>1, <1>2, StaysGrounded DEF IInv, UpdGrounded, Grounded, Known, Own, Born

\* How a takeover may move on.
HoldsGround(t) ==
    /\ t.pc # "idle" => t.host \in Hosts /\ t.agent \in Agents
    /\ \A r \in t.todo : Own(r)
    /\ t.pc = "own" => t.rec \in RecIds /\ Born(t.rec)
    /\ t.pc = "store" => t.rec \in RecIds /\ Own(t.rec)

LEMMA TakStays ==
    ASSUME TypeOK, Promised, NEW t \in Tak, HoldsGround(t) PROVE HoldsGround(t)'
<1>1. t.todo \subseteq RecIds
  BY DEF Tak
<1> QED BY <1>1, Grows DEF HoldsGround

LEMMA TakReplaced ==
    ASSUME IInv, Promised, NEW d \in Doms, NEW t, HoldsGround(t)',
           tak' = tak \/ tak' = [tak EXCEPT ![d] = t]
    PROVE  TakGrounded'
<1>1. \A e \in Doms : tak[e] \in Tak /\ HoldsGround(tak[e])
  BY DEF IInv, TypeOK, TakGrounded, HoldsGround
<1>2. \A e \in Doms : tak'[e] = tak[e] \/ (e = d /\ tak'[e] = t)
  BY DEF IInv, TypeOK
<1> QED BY <1>1, <1>2, TakStays DEF IInv, TakGrounded, HoldsGround, Known, Own, Born

LEMMA IdleGround == HoldsGround(TakIdle)'
BY DEF HoldsGround, TakIdle

LEMMA TakKept == ASSUME IInv, Promised, tak' = tak PROVE TakGrounded'
<1>1. \A e \in Doms : tak[e] \in Tak /\ HoldsGround(tak[e])
  BY DEF IInv, TypeOK, TakGrounded, HoldsGround
<1> QED BY <1>1, TakStays DEF IInv, TakGrounded, HoldsGround, Known, Own, Born

LEMMA TakEnds == ASSUME IInv, Promised, NEW d \in Doms, TakAborts(d) PROVE TakGrounded'
BY IdleGround, TakReplaced DEF TakAborts, HoldsGround, Own, Born
\* The rows stay grounded.
LEMMA RowStep == ASSUME IInv, [Next]_vars, Promised PROVE RowsGrounded'
<1>1. ASSUME NEW d \in Doms, ClearRecord(d) PROVE RowsGrounded'
  BY <1>1, RowStore DEF ClearRecord
<1>2. ASSUME NEW d \in Doms, EraseRow(d) PROVE RowsGrounded'
  BY <1>2, RowReplaced, RowKept, BlankGrounded DEF EraseRow
<1>3. ASSUME NEW d \in Doms, RetargetFails(d) PROVE RowsGrounded'
  BY <1>3, RowStatus DEF RetargetFails, Standing, LiveStatuses
<1>4. ASSUME NEW d \in Doms, LookupConflicts(d) PROVE RowsGrounded'
  BY <1>4, RowStatus DEF LookupConflicts, Standing, LiveStatuses
<1>5. ASSUME NEW d \in Doms, LookupFails(d) PROVE RowsGrounded'
  BY <1>5, RowStatus DEF LookupFails, Standing, LiveStatuses
<1>6. ASSUME NEW d \in Doms, AdoptRecord(d) PROVE RowsGrounded'
  <2>1. PICK r \in RecIds : r = rc.rec /\ Born(r)
    BY <1>6 DEF AdoptRecord, Working, IInv, RcGrounded
  <2>2. Known(r)'
    BY <1>6, <2>1 DEF AdoptRecord, Known, Born, Based, Strengthen
  <2>3. Store(d, r, FALSE)
    BY <1>6, <2>1 DEF AdoptRecord
  <2> QED BY <2>1, <2>2, <2>3, RowStore
<1>7. ASSUME NEW d \in Doms, MarkAdopted(d) PROVE RowsGrounded'
  BY <1>7, RowStatus DEF MarkAdopted, Standing, LiveStatuses
<1>8. ASSUME NEW d \in Doms, CreateFails(d) PROVE RowsGrounded'
  BY <1>8, RowStatus DEF CreateFails, Standing, LiveStatuses
<1>9. ASSUME NEW d \in Doms, StoreCreated(d) PROVE RowsGrounded'
  <2>1. PICK r \in RecIds : r = rc.rec /\ Own(r)
    BY <1>9 DEF StoreCreated, Working, IInv, RcGrounded
  <2>2. Own(r)' /\ Known(r)'
    BY <2>1, Grows DEF IInv, Known, Own
  <2>3. Store(d, r, TRUE)
    BY <1>9, <2>1 DEF StoreCreated
  <2> QED BY <2>1, <2>2, <2>3, RowStore
<1>10. ASSUME NEW d \in Doms, CreateDomain(d) PROVE RowsGrounded'
  <2>1. PICK s : Grounded(s)' /\ row' = [row EXCEPT ![d] = s]
    BY <1>10 DEF CreateDomain, Grounded, Blank
  <2> QED BY <2>1, RowReplaced
<1>11. ASSUME NEW d \in Doms, DeleteDomain(d) PROVE RowsGrounded'
  BY <1>11, RowStatus DEF DeleteDomain, Standing, LiveStatuses
<1>12. ASSUME NEW d \in Doms, WriteUpdate(d) PROVE RowsGrounded'
  <2>1. upd[d] \in Row /\ Grounded(upd[d])
    BY AtWork
  <2>2. row' = row \/ row' = [row EXCEPT ![d] = upd[d]]
    BY <1>12 DEF WriteUpdate
  <2> QED BY <2>1, <2>2, StaysGrounded, RowReplaced, RowKept DEF IInv
<1>13. ASSUME NEW d \in Doms, MarkApplied(d) PROVE RowsGrounded'
  BY <1>13, RowStatus DEF MarkApplied, Standing, LiveStatuses
<1>14. ASSUME NEW d \in Doms, TakeoverOwn(d) PROVE RowsGrounded'
  <2>1. tak[d].rec \in RecIds /\ Born(tak[d].rec)
    BY <1>14 DEF TakeoverOwn, IInv, TakGrounded
  <2>2. basis'[tak[d].rec] \in {"created", "takeover"} /\ zone' = zone
    BY <1>14, <2>1 DEF TakeoverOwn, Based, Strengthen
  <2> QED BY <1>14, <2>1, <2>2, RowRecord DEF TakeoverOwn, Known, Own, Born
<1>15. ASSUME NEW d \in Doms, TakeoverStore(d) PROVE RowsGrounded'
  <2>1. tak[d].rec \in RecIds /\ Own(tak[d].rec)
    BY <1>15 DEF TakeoverStore, IInv, TakGrounded
  <2> QED BY <1>15, <2>1, RowRecord, Grows DEF TakeoverStore, IInv, Known, Own, Born
<1>16. ASSUME NEW d \in Doms, TakeoverFinish(d) PROVE RowsGrounded'
  BY <1>16, RowStatus DEF TakeoverFinish, Standing, LiveStatuses
<1>17. ASSUME UNCHANGED vars PROVE row' = row
  BY <1>17 DEF vars
<1>18. ASSUME 
             ListDeleting \/ ListLive \/ EndCycle \/ Crash
      PROVE  row' = row
  BY <1>18 DEF ListDeleting, ListLive, EndCycle, Crash, Rest
<1>19. ASSUME NEW d \in Doms,
             KeepRecord(d) \/ DeleteRecord(d) \/ DeferDelete(d) \/
             VisitUnrecorded(d) \/ VisitMissing(d) \/ VisitFound(d) \/
             VisitUnreadable(d) \/ Retarget(d) \/ LookupMatches(d) \/
             LookupFindsNone(d) \/ CreateRecord(d) \/ ReadForUpdate(d) \/
             ListForAck(d) \/ TakeoverStart(d) \/ TakeoverLookup(d) \/
             TakeoverDelete(d) \/ TakeoverCreate(d) \/ TakeoverFails(d)
      PROVE  row' = row
  BY <1>19 DEF KeepRecord, DeleteRecord, DeferDelete, VisitUnrecorded,
     VisitMissing, VisitFound, VisitUnreadable, Retarget, LookupMatches,
     LookupFindsNone, CreateRecord, ReadForUpdate, ListForAck, TakeoverStart,
     TakeoverLookup, TakeoverDelete, TakeoverCreate, TakeoverFails, Rest
<1>20. ASSUME NEW r \in RecIds,
             OperatorAdds(r) \/ OperatorEdits(r) \/ OperatorRemoves(r)
      PROVE  row' = row
  BY <1>20 DEF OperatorAdds, OperatorEdits, OperatorRemoves, Rest
<1> QED
  BY <1>1, <1>2, <1>3, <1>4, <1>5, <1>6, <1>7, <1>8, <1>9, <1>10, <1>11, <1>12,
     <1>13, <1>14, <1>15, <1>16, <1>17, <1>18, <1>19, <1>20, RowKept
     DEF Next, ReconcilerStep, TakeoverStep

\* A copy taken by a PUT stays grounded.
LEMMA UpdStep == ASSUME IInv, [Next]_vars, Promised PROVE UpdGrounded'
<1>1. ASSUME NEW d \in Doms, ReadForUpdate(d) PROVE UpdGrounded'
  <2>1. PICK h \in Renames \cup {row[d].host}, a \in Agents :
          upd' = [upd EXCEPT ![d] = [row[d] EXCEPT !.status = "pending", !.host = h, !.agent = a]]
    BY <1>1 DEF ReadForUpdate
  <2> DEFINE s == [row[d] EXCEPT !.status = "pending", !.host = h, !.agent = a]
  <2>2. row[d] \in Row /\ Grounded(row[d]) /\ row[d].status \in Standing
    BY <1>1, AtWork DEF ReadForUpdate, Present, Standing
  <2>3. h \in Hosts
    BY <2>2, DomainAssumptions DEF Grounded
  <2>4. s \in Row
    BY <2>1, <2>2, <2>3 DEF Row, Statuses, LiveStatuses, Names
  <2>5. Grounded(s)
    BY <2>1, <2>2, <2>3 DEF Grounded, Row
  <2> QED BY <2>1, <2>4, <2>5, StaysGrounded, UpdReplaced DEF IInv
<1>2. ASSUME NEW d \in Doms, WriteUpdate(d) PROVE UpdGrounded'
  BY <1>2, BlankType, BlankGrounded, UpdReplaced DEF WriteUpdate
<1>3. ASSUME Crash PROVE UpdGrounded'
  BY <1>3, BlankGrounded DEF Crash, UpdGrounded, Grounded, Known, Own, Born
<1>4. ASSUME UNCHANGED vars PROVE upd' = upd
  BY <1>4 DEF vars
<1>5. ASSUME 
             ListDeleting \/ ListLive \/ EndCycle
      PROVE  upd' = upd
  BY <1>5 DEF ListDeleting, ListLive, EndCycle, Rest
<1>6. ASSUME NEW d \in Doms,
             KeepRecord(d) \/ DeleteRecord(d) \/ DeferDelete(d) \/
             ClearRecord(d) \/ EraseRow(d) \/ VisitUnrecorded(d) \/
             VisitMissing(d) \/ VisitFound(d) \/ VisitUnreadable(d) \/
             Retarget(d) \/ RetargetFails(d) \/ LookupMatches(d) \/
             LookupConflicts(d) \/ LookupFindsNone(d) \/ LookupFails(d) \/
             AdoptRecord(d) \/ MarkAdopted(d) \/ CreateRecord(d) \/
             CreateFails(d) \/ StoreCreated(d) \/ CreateDomain(d) \/
             DeleteDomain(d) \/ ListForAck(d) \/ MarkApplied(d) \/
             TakeoverStart(d) \/ TakeoverLookup(d) \/ TakeoverOwn(d) \/
             TakeoverDelete(d) \/ TakeoverCreate(d) \/ TakeoverStore(d) \/
             TakeoverFinish(d) \/ TakeoverFails(d)
      PROVE  upd' = upd
  BY <1>6 DEF KeepRecord, DeleteRecord, DeferDelete, ClearRecord, EraseRow,
     VisitUnrecorded, VisitMissing, VisitFound, VisitUnreadable, Retarget,
     RetargetFails, LookupMatches, LookupConflicts, LookupFindsNone,
     LookupFails, AdoptRecord, MarkAdopted, CreateRecord, CreateFails,
     StoreCreated, CreateDomain, DeleteDomain, ListForAck, MarkApplied,
     TakeoverStart, TakeoverLookup, TakeoverOwn, TakeoverDelete, TakeoverCreate,
     TakeoverStore, TakeoverFinish, TakeoverFails, Rest
<1>7. ASSUME NEW r \in RecIds,
             OperatorAdds(r) \/ OperatorEdits(r) \/ OperatorRemoves(r)
      PROVE  upd' = upd
  BY <1>7 DEF OperatorAdds, OperatorEdits, OperatorRemoves, Rest
<1> QED
  BY <1>1, <1>2, <1>3, <1>4, <1>5, <1>6, <1>7, UpdKept
     DEF Next, ReconcilerStep, TakeoverStep

\* The reconciler stays grounded.
LEMMA RcStep == ASSUME IInv, [Next]_vars, Promised PROVE RcGrounded'
<1>1. ASSUME ListDeleting PROVE RcGrounded'
  BY <1>1, RcLists DEF ListDeleting, Standing
<1>2. ASSUME ListLive PROVE RcGrounded'
  BY <1>2, RcLists DEF ListLive, Standing
<1>3. ASSUME EndCycle PROVE RcGrounded'
  BY <1>3, RcRests DEF EndCycle
<1>4. ASSUME NEW d \in Doms, KeepRecord(d) PROVE RcGrounded'
  BY <1>4, RcGoes DEF KeepRecord, Picks
<1>5. ASSUME NEW d \in Doms, DeleteRecord(d) PROVE RcGrounded'
  BY <1>5, RcGoes DEF DeleteRecord, Picks
<1>6. ASSUME NEW d \in Doms, DeferDelete(d) PROVE RcGrounded'
  BY <1>6, RcFinishes DEF DeferDelete
<1>7. ASSUME NEW d \in Doms, ClearRecord(d) PROVE RcGrounded'
  BY <1>7, AtWork, RcGoes DEF ClearRecord
<1>8. ASSUME NEW d \in Doms, EraseRow(d) PROVE RcGrounded'
  BY <1>8, RcFinishes DEF EraseRow
<1>9. ASSUME NEW d \in Doms, VisitUnrecorded(d) PROVE RcGrounded'
  BY <1>9, RcGoes DEF VisitUnrecorded, Picks
<1>10. ASSUME NEW d \in Doms, VisitMissing(d) PROVE RcGrounded'
  BY <1>10, RcGoes DEF VisitMissing, Picks
<1>11. ASSUME NEW d \in Doms, VisitFound(d) PROVE RcGrounded'
  BY <1>11, RcGoes, RcFinishes DEF VisitFound, Picks
<1>12. ASSUME NEW d \in Doms, VisitUnreadable(d) PROVE RcGrounded'
  BY <1>12, RcFinishes DEF VisitUnreadable
<1>13. ASSUME NEW d \in Doms, Retarget(d) PROVE RcGrounded'
  BY <1>13, RcFinishes DEF Retarget
<1>14. ASSUME NEW d \in Doms, RetargetFails(d) PROVE RcGrounded'
  BY <1>14, RcFinishes DEF RetargetFails
<1>15. ASSUME NEW d \in Doms, LookupMatches(d) PROVE RcGrounded'
  <2>1. PICK r \in Matching(rc.snap[d].host, rc.snap[d].agent) : GotoWith("adopt", d, r)
    BY <1>15 DEF LookupMatches
  <2>2. r \in RecIds /\ Born(r)'
    BY <1>15, <2>1 DEF LookupMatches, Matching, At, IsLive, Born
  <2>3. d \in rc.todo
    BY <1>15, AtWork DEF LookupMatches
  <2> QED BY <2>1, <2>2, <2>3, RcGoesWith
<1>16. ASSUME NEW d \in Doms, LookupConflicts(d) PROVE RcGrounded'
  BY <1>16, RcFinishes DEF LookupConflicts
<1>17. ASSUME NEW d \in Doms, LookupFindsNone(d) PROVE RcGrounded'
  BY <1>17, AtWork, RcGoes DEF LookupFindsNone
<1>18. ASSUME NEW d \in Doms, LookupFails(d) PROVE RcGrounded'
  BY <1>18, RcFinishes DEF LookupFails
<1>19. ASSUME NEW d \in Doms, AdoptRecord(d) PROVE RcGrounded'
  BY <1>19, AtWork, RcGoesWith DEF AdoptRecord
<1>20. ASSUME NEW d \in Doms, MarkAdopted(d) PROVE RcGrounded'
  BY <1>20, RcFinishes DEF MarkAdopted
<1>21. ASSUME NEW d \in Doms, CreateRecord(d) PROVE RcGrounded'
  <2>1. PICK r \in RecIds : Create(r, rc.snap[d].host, rc.snap[d].agent) /\ GotoWith("store", d, r)
    BY <1>21 DEF CreateRecord
  <2>2. Own(r)'
    BY <2>1 DEF Create, Written, Own, Born, IInv, TypeOK, ZoneTypeOK
  <2>3. d \in rc.todo
    BY <1>21, AtWork DEF CreateRecord
  <2> QED BY <2>1, <2>2, <2>3, RcGoesWith
<1>22. ASSUME NEW d \in Doms, CreateFails(d) PROVE RcGrounded'
  BY <1>22, RcFinishes DEF CreateFails
<1>23. ASSUME NEW d \in Doms, StoreCreated(d) PROVE RcGrounded'
  BY <1>23, RcFinishes DEF StoreCreated
<1>24. ASSUME Crash PROVE RcGrounded'
  BY <1>24, RcRests DEF Crash
<1>25. ASSUME UNCHANGED vars PROVE rc' = rc
  BY <1>25 DEF vars
<1>26. ASSUME NEW d \in Doms,
             CreateDomain(d) \/ DeleteDomain(d) \/ ReadForUpdate(d) \/
             WriteUpdate(d) \/ ListForAck(d) \/ MarkApplied(d) \/
             TakeoverStart(d) \/ TakeoverLookup(d) \/ TakeoverOwn(d) \/
             TakeoverDelete(d) \/ TakeoverCreate(d) \/ TakeoverStore(d) \/
             TakeoverFinish(d) \/ TakeoverFails(d)
      PROVE  rc' = rc
  BY <1>26 DEF CreateDomain, DeleteDomain, ReadForUpdate, WriteUpdate,
     ListForAck, MarkApplied, TakeoverStart, TakeoverLookup, TakeoverOwn,
     TakeoverDelete, TakeoverCreate, TakeoverStore, TakeoverFinish,
     TakeoverFails, Rest
<1>27. ASSUME NEW r \in RecIds,
             OperatorAdds(r) \/ OperatorEdits(r) \/ OperatorRemoves(r)
      PROVE  rc' = rc
  BY <1>27 DEF OperatorAdds, OperatorEdits, OperatorRemoves, Rest
<1> QED
  BY <1>1, <1>2, <1>3, <1>4, <1>5, <1>6, <1>7, <1>8, <1>9, <1>10, <1>11, <1>12,
     <1>13, <1>14, <1>15, <1>16, <1>17, <1>18, <1>19, <1>20, <1>21, <1>22,
     <1>23, <1>24, <1>25, <1>26, <1>27, RcKept
     DEF Next, ReconcilerStep, TakeoverStep

\* A takeover stays grounded.
LEMMA TakPending ==
    ASSUME IInv, Promised, NEW d \in Doms, tak[d].pc # "idle",
           tak' = [tak EXCEPT ![d].pc = "pending", ![d].rec = NoRec]
    PROVE  TakGrounded'
<1>1. tak[d] \in Tak /\ HoldsGround(tak[d])
  BY AtWork DEF IInv, TakGrounded, HoldsGround
<1>2. PICK t : t = [tak[d] EXCEPT !.pc = "pending", !.rec = NoRec]
  OBVIOUS
<1>3. t.pc = "pending" /\ t.host = tak[d].host /\ t.agent = tak[d].agent /\ t.todo = tak[d].todo
  BY <1>1, <1>2 DEF Tak
<1>4. tak[d].todo \subseteq RecIds
  BY <1>1 DEF Tak
<1>5. HoldsGround(t)'
  BY <1>1, <1>3, <1>4, Grows DEF HoldsGround, IInv, Own, Born
<1> QED BY <1>2, <1>5, TakReplaced

LEMMA TakStep == ASSUME IInv, [Next]_vars, Promised PROVE TakGrounded'
<1>1. ASSUME NEW d \in Doms, TakeoverStart(d) PROVE TakGrounded'
  <2>1. row[d].host \in Hosts /\ row[d].agent \in Agents
    BY <1>1, AtWork DEF TakeoverStart, Present, Standing, Grounded
  <2>2. PICK t : /\ t = [TakIdle EXCEPT !.pc = "lookup", !.host = row[d].host, !.agent = row[d].agent]
                 /\ tak' = [tak EXCEPT ![d] = t]
    BY <1>1 DEF TakeoverStart
  <2>3. HoldsGround(t)'
    BY <2>1, <2>2 DEF HoldsGround, TakIdle
  <2> QED BY <2>2, <2>3, TakReplaced
<1>2. ASSUME NEW d \in Doms, TakeoverLookup(d) PROVE TakGrounded'
  <2>1. tak[d] \in Tak /\ HoldsGround(tak[d]) /\ tak[d].pc = "lookup"
    BY <1>2, AtWork DEF TakeoverLookup, IInv, TakGrounded, HoldsGround
  <2>2. \/ \E r \in Matching(tak[d].host, tak[d].agent) :
              tak' = [tak EXCEPT ![d] = [tak[d] EXCEPT !.pc = "own", !.rec = r]]
        \/ /\ tak' = [tak EXCEPT ![d] = [tak[d] EXCEPT !.pc = "clear", !.todo = At(tak[d].host)]]
           /\ basis' = Based(At(tak[d].host), "takeover")
    BY <1>2 DEF TakeoverLookup
  <2>3. zone' = zone /\ zone \in [RecIds -> Record]
    BY <1>2 DEF TakeoverLookup, IInv, TypeOK, ZoneTypeOK
  <2>4. ASSUME NEW r \in Matching(tak[d].host, tak[d].agent),
               tak' = [tak EXCEPT ![d] = [tak[d] EXCEPT !.pc = "own", !.rec = r]]
        PROVE  TakGrounded'
    <3>1. r \in RecIds /\ Born(r)'
      BY <2>3 DEF Matching, At, IsLive, Born
    <3>2. PICK t : t = [tak[d] EXCEPT !.pc = "own", !.rec = r]
      OBVIOUS
    <3>3. t.pc = "own" /\ t.rec = r /\ t.host = tak[d].host /\ t.agent = tak[d].agent
          /\ t.todo = tak[d].todo
      BY <2>1, <3>2 DEF Tak
    <3>4. tak[d].todo \subseteq RecIds
      BY <2>1 DEF Tak
    <3>5. HoldsGround(t)'
      BY <2>1, <3>1, <3>3, <3>4, Grows DEF HoldsGround, IInv, Born, Own
    <3> QED BY <2>4, <3>2, <3>5, TakReplaced
  <2>5. ASSUME tak' = [tak EXCEPT ![d] = [tak[d] EXCEPT !.pc = "clear", !.todo = At(tak[d].host)]],
               basis' = Based(At(tak[d].host), "takeover")
        PROVE  TakGrounded'
    <3>1. PICK R \in SUBSET RecIds : R = At(tak[d].host)
      BY DEF At
    <3>2. \A r \in R : Own(r)'
      BY <2>3, <2>5, <3>1 DEF At, IsLive, Own, Born, Based, Strengthen
    <3>3. PICK t : t = [tak[d] EXCEPT !.pc = "clear", !.todo = R]
      OBVIOUS
    <3>4. t.pc = "clear" /\ t.host = tak[d].host /\ t.agent = tak[d].agent /\ t.todo = R
      BY <2>1, <3>3 DEF Tak
    <3>5. HoldsGround(t)'
      BY <2>1, <3>2, <3>4 DEF HoldsGround, Own, Born
    <3>6. tak' = [tak EXCEPT ![d] = t]
      BY <2>5, <3>1, <3>3
    <3> QED BY <3>5, <3>6, TakReplaced
  <2> QED BY <2>2, <2>4, <2>5
<1>3. ASSUME NEW d \in Doms, TakeoverOwn(d) PROVE TakGrounded'
  <2>1. CASE TakAborts(d)
    BY <2>1, TakEnds
  <2>2. CASE tak' = [tak EXCEPT ![d].pc = "pending", ![d].rec = NoRec]
    BY <1>3, <2>2, TakPending DEF TakeoverOwn
  <2> QED BY <1>3, <2>1, <2>2 DEF TakeoverOwn
<1>4. ASSUME NEW d \in Doms, TakeoverDelete(d) PROVE TakGrounded'
  <2>1. PICK r \in tak[d].todo :
          TakAborts(d) \/ tak' = [tak EXCEPT ![d] = [tak[d] EXCEPT !.todo = tak[d].todo \ {r}]]
    BY <1>4 DEF TakeoverDelete
  <2>2. tak[d] \in Tak /\ HoldsGround(tak[d]) /\ tak[d].todo \subseteq RecIds
    BY AtWork DEF IInv, TakGrounded, HoldsGround, Tak
  <2>3. PICK t : t = [tak[d] EXCEPT !.todo = tak[d].todo \ {r}]
    OBVIOUS
  <2>4. t.pc = tak[d].pc /\ t.host = tak[d].host /\ t.agent = tak[d].agent
        /\ t.rec = tak[d].rec /\ t.todo \subseteq tak[d].todo
    BY <2>2, <2>3 DEF Tak
  <2>5. HoldsGround(t)'
    BY <2>2, <2>4, Grows DEF HoldsGround, IInv, Own, Born
  <2>6. CASE TakAborts(d)
    BY <2>6, TakEnds
  <2> QED BY <2>1, <2>3, <2>5, <2>6, TakReplaced
<1>5. ASSUME NEW d \in Doms, TakeoverCreate(d) PROVE TakGrounded'
  <2>1. tak[d] \in Tak /\ HoldsGround(tak[d]) /\ tak[d].pc = "clear" /\ tak[d].todo = {}
    BY <1>5, AtWork DEF TakeoverCreate, IInv, TakGrounded, HoldsGround
  <2>2. CASE TakAborts(d)
    BY <2>2, TakEnds
  <2>3. ASSUME NEW r \in RecIds, Create(r, tak[d].host, tak[d].agent),
               tak' = [tak EXCEPT ![d].pc = "store", ![d].rec = r]
        PROVE  TakGrounded'
    <3>1. Own(r)'
      BY <2>3 DEF Create, Written, Own, Born, IInv, TypeOK, ZoneTypeOK
    <3>2. PICK t : t = [tak[d] EXCEPT !.pc = "store", !.rec = r]
      OBVIOUS
    <3>3. t.pc = "store" /\ t.rec = r /\ t.host = tak[d].host /\ t.agent = tak[d].agent
          /\ t.todo = {}
      BY <2>1, <3>2 DEF Tak
    <3>4. HoldsGround(t)'
      BY <2>1, <3>1, <3>3 DEF HoldsGround, Own, Born
    <3> QED BY <2>3, <3>2, <3>4, TakReplaced
  <2> QED BY <1>5, <2>2, <2>3, Zenon DEF TakeoverCreate
<1>6. ASSUME NEW d \in Doms, TakeoverStore(d) PROVE TakGrounded'
  <2>1. CASE TakAborts(d)
    BY <2>1, TakEnds
  <2>2. CASE tak' = [tak EXCEPT ![d].pc = "pending", ![d].rec = NoRec]
    BY <1>6, <2>2, TakPending DEF TakeoverStore
  <2> QED BY <1>6, <2>1, <2>2 DEF TakeoverStore
<1>7. ASSUME NEW d \in Doms, TakeoverFinish(d) PROVE TakGrounded'
  BY <1>7, TakEnds DEF TakeoverFinish
<1>8. ASSUME NEW d \in Doms, TakeoverFails(d) PROVE TakGrounded'
  BY <1>8, TakEnds DEF TakeoverFails
<1>9. ASSUME Crash PROVE TakGrounded'
  BY <1>9 DEF Crash, TakGrounded, TakIdle
<1>10. ASSUME UNCHANGED vars PROVE tak' = tak
  BY <1>10 DEF vars
<1>11. ASSUME 
             ListDeleting \/ ListLive \/ EndCycle
      PROVE  tak' = tak
  BY <1>11 DEF ListDeleting, ListLive, EndCycle, Rest
<1>12. ASSUME NEW d \in Doms,
             KeepRecord(d) \/ DeleteRecord(d) \/ DeferDelete(d) \/
             ClearRecord(d) \/ EraseRow(d) \/ VisitUnrecorded(d) \/
             VisitMissing(d) \/ VisitFound(d) \/ VisitUnreadable(d) \/
             Retarget(d) \/ RetargetFails(d) \/ LookupMatches(d) \/
             LookupConflicts(d) \/ LookupFindsNone(d) \/ LookupFails(d) \/
             AdoptRecord(d) \/ MarkAdopted(d) \/ CreateRecord(d) \/
             CreateFails(d) \/ StoreCreated(d) \/ CreateDomain(d) \/
             DeleteDomain(d) \/ ReadForUpdate(d) \/ WriteUpdate(d) \/
             ListForAck(d) \/ MarkApplied(d)
      PROVE  tak' = tak
  BY <1>12 DEF KeepRecord, DeleteRecord, DeferDelete, ClearRecord, EraseRow,
     VisitUnrecorded, VisitMissing, VisitFound, VisitUnreadable, Retarget,
     RetargetFails, LookupMatches, LookupConflicts, LookupFindsNone,
     LookupFails, AdoptRecord, MarkAdopted, CreateRecord, CreateFails,
     StoreCreated, CreateDomain, DeleteDomain, ReadForUpdate, WriteUpdate,
     ListForAck, MarkApplied, Rest
<1>13. ASSUME NEW r \in RecIds,
             OperatorAdds(r) \/ OperatorEdits(r) \/ OperatorRemoves(r)
      PROVE  tak' = tak
  BY <1>13 DEF OperatorAdds, OperatorEdits, OperatorRemoves, Rest
<1> QED
  BY <1>1, <1>2, <1>3, <1>4, <1>5, <1>6, <1>7, <1>8, <1>9, <1>10, <1>11, <1>12,
     <1>13, TakKept
     DEF Next, ReconcilerStep, TakeoverStep


\* The invariant: everything a goroutine or a row holds is grounded in the zone.
LEMMA Invariance == Spec => []IInv
<1>1. Init => IInv
  <2> SUFFICES ASSUME Init PROVE IInv
    OBVIOUS
  <2>1. TypeOK
    BY InitType
  <2> QED BY <2>1 DEF Init, IInv, ZoneInit, Unborn, IsLive, ZoneNamed, RowsGrounded, UpdGrounded,
             RcGrounded, TakGrounded, Grounded, Blank, RcIdle, TakIdle, Standing, LiveStatuses
<1>2. IInv /\ [Next]_vars => IInv'
  <2> SUFFICES ASSUME IInv, [Next]_vars PROVE IInv'
    OBVIOUS
  <2>1. Promised
    BY StepRefines DEF Promised
  <2>2. TypeOK'
    BY TypeStep DEF IInv
  <2>3. ZoneNamed'
    BY <2>1, NamedStep DEF IInv
  <2> QED BY <2>1, <2>2, <2>3, RowStep, UpdStep, RcStep, TakStep DEF IInv
<1> QED BY <1>1, <1>2, PTL DEF Spec

\* The reconciler and the handlers keep the promise about ownership: whatever the
\* interleaving of goroutines acting on old snapshots, and whatever fails, NurProxy
\* removes a record only if it created it or was ordered to take it over.
THEOREM OwnershipTheorem == Spec => OwnershipHonoured
<1>1. Init => ZoneInit
  BY DEF Init
<1>2. ZoneInit => Ownership!ZoneInit
  BY DEF ZoneInit, Unborn, Ownership!ZoneInit, Ownership!Unborn
<1>3. IInv /\ [Next]_vars => [Ownership!Next]_<<zone, basis>>
  BY StepRefines DEF Stutters
<1> QED BY <1>1, <1>2, <1>3, Invariance, PTL DEF Spec, OwnershipHonoured, Ownership!Spec

-----------------------------------------------------------------------------
(* No record leaks.  While nothing but the reconciler writes record ids and no    *)
(* answer, statement or process is lost, each record NurProxy created is on file  *)
(* in the row of its own name: what the reconciler holds of a row it has still to *)
(* work on is still in the row, and it gives up the record a row names only when  *)
(* that record is gone.                                                           *)

\* Updates and takeovers write rows from snapshots of their own; a lost answer, a failed
\* statement or a restart leaves a record between its creation and its row.
Quiet == \A b \in Budgets : \A l \in {"updates", "takeovers", "losses", "dbfaults", "crashes"} : b[l] = 0

OnlyReconciler ==
    /\ \A l \in {"updates", "takeovers", "losses", "dbfaults", "crashes"} : left[l] = 0
    /\ upd = [d \in Doms |-> Blank] /\ tak = [d \in Doms |-> TakIdle]

\* A record that is there and that NurProxy created.
Mine(r) == r \in RecIds /\ IsLive(r) /\ basis[r] = "created"
CreatedBorn == \A r \in RecIds : basis[r] = "created" => Born(r)
NamesApart == \A d, e \in Doms : Present(d) /\ Present(e) /\ row[d].host = row[e].host => d = e
RowsFiled ==
    \A d \in Doms :
        /\ row[d].rec # NoRec => Present(d)
        /\ Mine(row[d].rec) => row[d].managed /\ zone[row[d].rec].name = row[d].host
\* What is listed and still to do is as it was listed, but for its status.
SnapsTrue ==
    \A d \in rc.todo :
        /\ Present(d) /\ rc.snap[d].host = row[d].host
        /\ \/ rc.snap[d].rec = row[d].rec /\ rc.snap[d].managed = row[d].managed
           \/ rc.dom = d /\ rc.pc \in {"erase", "pending"}
WorkSound ==
    /\ rc.pc \in {"clear", "erase", "lookup", "adopt", "create", "store"} => ~Mine(row[rc.dom].rec)
    /\ rc.pc = "adopt" => basis[rc.rec] # "created"
    /\ rc.pc = "store" => basis[rc.rec] = "created" /\ zone[rc.rec].name \in {row[rc.dom].host, NoHost}
FileInv ==
    /\ OnlyReconciler /\ CreatedBorn /\ NamesApart /\ RowsFiled /\ SnapsTrue /\ WorkSound /\ CreatedOnFile

\* What the reconciler's moves leave of its own variable.
LEMMA MoveFacts ==
    ASSUME TypeOK, NEW d \in Doms
    PROVE  /\ \A p : Goto(p, d) =>
                 rc'.pc = p /\ rc'.dom = d /\ rc'.todo = rc.todo /\ rc'.snap = rc.snap /\ rc'.rec = rc.rec
           /\ \A p, r : GotoWith(p, d, r) =>
                 rc'.pc = p /\ rc'.dom = d /\ rc'.todo = rc.todo /\ rc'.snap = rc.snap /\ rc'.rec = r
           /\ \A p : Finish(p, d) =>
                 /\ rc'.pc = p /\ rc'.dom = NoDom /\ rc'.todo = rc.todo \ {d} /\ rc'.rec = NoRec
                 /\ \A e \in Doms \ {d} : rc'.snap[e] = rc.snap[e]
<1>1. rc \in Rc BY DEF TypeOK
<1>2. ASSUME NEW p, Goto(p, d)
      PROVE  rc'.pc = p /\ rc'.dom = d /\ rc'.todo = rc.todo /\ rc'.snap = rc.snap /\ rc'.rec = rc.rec
    BY <1>1, <1>2 DEF Goto, Rc
<1>3. ASSUME NEW p, NEW r, GotoWith(p, d, r)
      PROVE  rc'.pc = p /\ rc'.dom = d /\ rc'.todo = rc.todo /\ rc'.snap = rc.snap /\ rc'.rec = r
    BY <1>1, <1>3 DEF GotoWith, Rc
<1>4. ASSUME NEW p, Finish(p, d)
      PROVE  /\ rc'.pc = p /\ rc'.dom = NoDom /\ rc'.todo = rc.todo \ {d} /\ rc'.rec = NoRec
             /\ \A e \in Doms \ {d} : rc'.snap[e] = rc.snap[e]
    BY <1>1, <1>4 DEF Finish, Rc
<1> QED BY <1>2, <1>3, <1>4

\* A status is all that changes in a row that stands.
RowsAlike ==
    \A d \in Doms :
        /\ row'[d].rec = row[d].rec /\ row'[d].managed = row[d].managed /\ row'[d].host = row[d].host
        /\ Present(d)' = Present(d)

LEMMA StatusAlike ==
    ASSUME TypeOK, NEW d \in Doms, NEW s \in LiveStatuses \cup {"deleting"}, row' = SetStatus(d, s)
    PROVE  RowsAlike
<1>1. row \in [Doms -> Row] BY DEF TypeOK
<1>2. CASE Present(d)
  <2>1. row' = [row EXCEPT ![d].status = s] BY <1>2 DEF SetStatus
  <2>2. ASSUME NEW e \in Doms, e # d
        PROVE  row'[e] = row[e]
      BY <1>1, <2>1, <2>2
  <2>3. row'[d] = [row[d] EXCEPT !.status = s] BY <1>1, <2>1
  <2>4. row[d] \in Row BY <1>1
  <2>5. row'[d].status = s /\ row'[d].rec = row[d].rec /\ row'[d].managed = row[d].managed /\ row'[d].host = row[d].host
      BY <2>3, <2>4 DEF Row
  <2> QED BY <1>2, <2>2, <2>5 DEF RowsAlike, Present
<1>3. CASE ~Present(d)
  <2>1. row' = row BY <1>3 DEF SetStatus
  <2> QED BY <2>1 DEF RowsAlike, Present
<1> QED BY <1>2, <1>3

\* No record comes to be NurProxy's, and those that stay keep their names.
ZoneShrinks ==
    /\ CreatedBorn'
    /\ \A r \in RecIds : Mine(r)' => Mine(r) /\ zone'[r].name = zone[r].name
LEMMA ZoneKept == ASSUME CreatedBorn, UNCHANGED <<zone, basis>> PROVE ZoneShrinks
BY DEF ZoneShrinks, CreatedBorn, Born, Mine, IsLive
LEMMA ZoneLoses ==
    ASSUME TypeOK, CreatedBorn, NEW r \in RecIds, zone' = Deleted(r) \/ zone' = [zone EXCEPT ![r] = Removed("withdrawn")],
           UNCHANGED basis
    PROVE  ZoneShrinks /\ ~Mine(r)'
<1>1. zone \in [RecIds -> Record] BY DEF TypeOK, ZoneTypeOK
<1>2. zone'[r] = Removed("deleted") \/ zone'[r] = Removed("withdrawn") BY <1>1 DEF Deleted
<1>3. zone'[r].fate \in {"deleted", "withdrawn"} BY <1>2 DEF Removed, Unborn
<1>4. \A q \in RecIds \ {r} : zone'[q] = zone[q] BY <1>1 DEF Deleted
<1> QED BY <1>3, <1>4 DEF ZoneShrinks, CreatedBorn, Born, Mine, IsLive
LEMMA ZoneRewrites ==
    ASSUME TypeOK, CreatedBorn, NEW r \in RecIds, IsLive(r), NEW h, NEW c, NEW w,
           basis[r] = "created" => h = zone[r].name,
           zone' = [zone EXCEPT ![r] = Written(h, c, w)], UNCHANGED basis
    PROVE  ZoneShrinks
<1>1. zone \in [RecIds -> Record] BY DEF TypeOK, ZoneTypeOK
<1>2. zone'[r] = Written(h, c, w) /\ \A q \in RecIds \ {r} : zone'[q] = zone[q] BY <1>1
<1>3. zone'[r].fate = "live" /\ zone'[r].name = h BY <1>2 DEF Written
<1> QED BY <1>2, <1>3 DEF ZoneShrinks, CreatedBorn, Born, Mine, IsLive

\* What is left of a budget only shrinks, and nothing of what was zero is spent.
LEMMA SpendsOther ==
    ASSUME TypeOK, OnlyReconciler, NEW l \in Limits, Spend(l)
    PROVE  /\ l \in {"edits", "deletes", "refusals"}
           /\ \A k \in {"updates", "takeovers", "losses", "dbfaults", "crashes"} : left'[k] = 0
<1>1. left \in [Limits -> Nat] BY DEF TypeOK
<1>2. l \notin {"updates", "takeovers", "losses", "dbfaults", "crashes"} BY <1>1 DEF Spend, OnlyReconciler
<1>3. l \in {"edits", "deletes", "refusals"} BY <1>2 DEF Limits
<1>4. \A k \in Limits \ {l} : left'[k] = left[k] BY <1>1 DEF Spend
<1> QED BY <1>3, <1>4 DEF OnlyReconciler, Limits

\* A step that writes no record id, and does not leave the store of one.
LEMMA FilesKept ==
    ASSUME FileInv, RowsAlike, ZoneShrinks, OnlyReconciler', SnapsTrue', WorkSound',
           rc.pc = "store" => rc'.pc = "store" /\ rc'.rec = rc.rec
    PROVE  FileInv'
<1>1. NamesApart' BY DEF FileInv, NamesApart, RowsAlike
<1>2. RowsFiled'
  <2> SUFFICES ASSUME NEW d \in Doms
               PROVE  /\ row'[d].rec # NoRec => Present(d)'
                      /\ Mine(row[d].rec)' => row'[d].managed /\ zone'[row'[d].rec].name = row'[d].host
      BY DEF RowsFiled
  <2>1. row'[d].rec = row[d].rec BY DEF RowsAlike
  <2>2. Mine(row[d].rec)' => Mine(row[d].rec) /\ zone'[row[d].rec].name = zone[row[d].rec].name
      BY <2>1 DEF ZoneShrinks, Mine
  <2> QED BY <2>1, <2>2 DEF FileInv, RowsFiled, RowsAlike
<1>3. CreatedOnFile'
  <2> SUFFICES ASSUME NEW r \in RecIds, Mine(r)'
               PROVE  OnFile(r)'
      BY DEF CreatedOnFile, Mine
  <2>1. Mine(r) BY DEF ZoneShrinks
  <2>2. OnFile(r) BY <2>1 DEF FileInv, CreatedOnFile, Mine
  <2>3. \A d \in Doms : tak[d].pc # "store" BY DEF FileInv, OnlyReconciler, TakIdle
  <2> QED BY <2>2, <2>3 DEF OnFile, RowsAlike
<1> QED BY <1>1, <1>2, <1>3 DEF FileInv, ZoneShrinks

\* A step of a handler or of the operator: the reconciler keeps what it holds.
LEMMA FilesKeptOutside ==
    ASSUME IInv, FileInv, RowsAlike, ZoneShrinks, OnlyReconciler', UNCHANGED <<rc, basis>>,
           \A r \in RecIds : Born(r) => zone'[r].name \in {zone[r].name, NoHost}
    PROVE  FileInv'
<1>1. rc \in Rc BY DEF IInv, TypeOK
<1>2. rc.todo \subseteq Doms BY <1>1 DEF Rc
<1>3. SnapsTrue' BY <1>2 DEF FileInv, SnapsTrue, RowsAlike
<1>4. rc.pc \in {"clear", "erase", "lookup", "adopt", "create", "store"} => rc.dom \in Doms
    BY <1>2 DEF IInv, RcGrounded
<1>5. ASSUME NEW d \in Doms, ~Mine(row[d].rec)
      PROVE  ~Mine(row[d].rec)'
    BY <1>5 DEF RowsAlike, ZoneShrinks, Mine
<1>6. rc.pc = "store" => Born(rc.rec) /\ rc.rec \in RecIds BY DEF IInv, RcGrounded, Own
<1>7. WorkSound' BY <1>4, <1>5, <1>6 DEF FileInv, WorkSound, RowsAlike
<1> QED BY <1>3, <1>7, FilesKept

\* The handlers.
LEMMA CreateKeepsFiles ==
    ASSUME IInv, FileInv, NEW d \in Doms, CreateDomain(d)
    PROVE  FileInv'
<1>1. PICK h \in Hosts, a \in Agents :
        /\ NameFree(h, d) /\ row' = [row EXCEPT ![d] = [Blank EXCEPT !.status = "pending", !.host = h, !.agent = a]]
    BY DEF CreateDomain
<1>2. UNCHANGED <<zone, basis, rc, upd, tak, ack, left>> BY DEF CreateDomain, Rest
<1>3. row \in [Doms -> Row] /\ rc \in Rc BY DEF IInv, TypeOK
<1>4. /\ row'[d].rec = NoRec /\ row'[d].host = h /\ row'[d].status = "pending"
      /\ \A e \in Doms \ {d} : row'[e] = row[e]
  <2>1. row'[d] = [Blank EXCEPT !.status = "pending", !.host = h, !.agent = a] BY <1>1, <1>3
  <2> QED BY <1>1, <1>3, <2>1 DEF Blank
<1>5. row[d].status = "unborn" /\ ~Present(d) BY DEF CreateDomain, Present, LiveStatuses
<1>6. row[d].rec = NoRec /\ d \notin rc.todo BY <1>5 DEF FileInv, RowsFiled, SnapsTrue
<1>7. ~Mine(NoRec) /\ ~Mine(NoRec)' BY DomainAssumptions DEF Mine
<1>8. \A r : Mine(r)' = Mine(r) BY <1>2 DEF Mine, IsLive
<1>9. rc.todo \subseteq Doms BY <1>3 DEF Rc
<1>10. NamesApart'
  <2> SUFFICES ASSUME NEW e \in Doms, NEW f \in Doms, Present(e)', Present(f)', row'[e].host = row'[f].host
               PROVE  e = f
      BY DEF NamesApart
  <2>1. CASE e # d /\ f # d BY <1>4, <2>1 DEF FileInv, NamesApart, Present
  <2>2. CASE e # d /\ f = d BY <1>1, <1>4, <2>2 DEF NameFree, Present
  <2>3. CASE e = d /\ f # d BY <1>1, <1>4, <2>3 DEF NameFree, Present
  <2> QED BY <2>1, <2>2, <2>3
<1>11. RowsFiled' BY <1>2, <1>4, <1>6, <1>7, <1>8 DEF FileInv, RowsFiled, Present
<1>12. SnapsTrue' BY <1>2, <1>4, <1>6, <1>9 DEF FileInv, SnapsTrue, Present
<1>13. rc.pc \notin {"idle", "deletions", "dns"} => rc.dom \in Doms /\ rc.dom # d
    BY <1>6, <1>9 DEF IInv, RcGrounded
<1>14. WorkSound' BY <1>2, <1>4, <1>8, <1>13 DEF FileInv, WorkSound
<1>15. CreatedOnFile'
  <2> SUFFICES ASSUME NEW r \in RecIds, Mine(r)
               PROVE  OnFile(r)'
      BY <1>8 DEF CreatedOnFile, Mine
  <2>1. OnFile(r) /\ r # NoRec BY DomainAssumptions DEF FileInv, CreatedOnFile, Mine
  <2> QED BY <1>2, <1>4, <1>6, <2>1 DEF OnFile
<1>16. OnlyReconciler' /\ CreatedBorn' BY <1>2 DEF FileInv, OnlyReconciler, CreatedBorn, Born
<1> QED BY <1>10, <1>11, <1>12, <1>14, <1>15, <1>16 DEF FileInv

LEMMA StatusKeepsFiles ==
    ASSUME IInv, FileInv, NEW d \in Doms, DeleteDomain(d) \/ ListForAck(d) \/ MarkApplied(d)
    PROVE  FileInv'
<1>1. RowsAlike
  <2>1. CASE DeleteDomain(d) BY <2>1, StatusAlike DEF DeleteDomain, IInv
  <2>2. CASE ListForAck(d) BY <2>2 DEF ListForAck, RowsAlike, Present
  <2>3. CASE MarkApplied(d)
    <3>1. PICK s \in {"active", "degraded", "error"} : row' = SetStatus(d, s) BY <2>3 DEF MarkApplied
    <3> QED BY <3>1, StatusAlike DEF IInv, LiveStatuses
  <2> QED BY <2>1, <2>2, <2>3
<1>2. UNCHANGED <<zone, basis, rc, upd, tak>> BY DEF DeleteDomain, ListForAck, MarkApplied, Rest
<1>3. OnlyReconciler'
    BY <1>2, SpendsOther DEF IInv, FileInv, OnlyReconciler, DeleteDomain, ListForAck, MarkApplied, Limits
<1>4. ZoneShrinks BY <1>2, ZoneKept DEF FileInv
<1> QED BY <1>1, <1>2, <1>3, <1>4, FilesKeptOutside

\* What is not in the budget does not happen.
LEMMA NoHandlerWrites ==
    ASSUME IInv, FileInv, NEW d \in Doms,
           ReadForUpdate(d) \/ WriteUpdate(d) \/ TakeoverStart(d) \/ TakeoverStep(d) \/ Crash
    PROVE  FALSE
<1>1. CASE ReadForUpdate(d) BY <1>1, SpendsOther DEF ReadForUpdate, IInv, FileInv, Limits
<1>2. CASE WriteUpdate(d) BY <1>2 DEF WriteUpdate, FileInv, OnlyReconciler
<1>3. CASE TakeoverStart(d) BY <1>3, SpendsOther DEF TakeoverStart, IInv, FileInv, Limits
<1>4. CASE TakeoverStep(d)
    BY <1>4
       DEF TakeoverStep, TakeoverLookup, TakeoverOwn, TakeoverDelete, TakeoverCreate, TakeoverStore, TakeoverFinish,
           TakeoverFails, FileInv, OnlyReconciler, TakIdle
<1>5. CASE Crash BY <1>5, SpendsOther DEF Crash, IInv, FileInv, Limits
<1> QED BY <1>1, <1>2, <1>3, <1>4, <1>5

\* The operator.
LEMMA OperatorKeepsFiles ==
    ASSUME IInv, FileInv, NEW r \in RecIds, OperatorAdds(r) \/ OperatorEdits(r) \/ OperatorRemoves(r)
    PROVE  FileInv'
<1>1. /\ UNCHANGED <<basis, row, rc, upd, tak>> /\ zone \in [RecIds -> Record] /\ CreatedBorn /\ TypeOK
    BY DEF OperatorAdds, OperatorEdits, OperatorRemoves, Rest, IInv, TypeOK, ZoneTypeOK, FileInv
<1>2. RowsAlike BY <1>1 DEF RowsAlike, Present
<1>3. OnlyReconciler'
    BY <1>1, SpendsOther
       DEF FileInv, OnlyReconciler, OperatorAdds, OperatorEdits, OperatorRemoves, Limits
<1>4. CASE OperatorAdds(r)
  <2>1. PICK h \in Hosts, c \in Agents \cup {Elsewhere} : zone' = [zone EXCEPT ![r] = Written(h, c, "operator")]
      BY <1>4 DEF OperatorAdds
  <2>2. zone'[r].fate = "live" /\ \A q \in RecIds \ {r} : zone'[q] = zone[q] BY <1>1, <2>1 DEF Written
  <2>3. ~Born(r) /\ basis[r] # "created" BY <1>1, <1>4 DEF OperatorAdds, IsNextId, Born, CreatedBorn
  <2>4. ZoneShrinks BY <1>1, <2>2, <2>3 DEF ZoneShrinks, CreatedBorn, Born, Mine, IsLive
  <2> QED BY <1>1, <1>2, <1>3, <2>2, <2>3, <2>4, FilesKeptOutside
<1>5. CASE OperatorEdits(r)
  <2>1. PICK c \in Agents \cup {Elsewhere} : zone' = [zone EXCEPT ![r] = Written(zone[r].name, c, "operator")]
      BY <1>5 DEF OperatorEdits
  <2>2. IsLive(r) BY <1>5 DEF OperatorEdits
  <2>3. ZoneShrinks BY <1>1, <2>1, <2>2, ZoneRewrites
  <2>4. \A q \in RecIds : zone'[q].name = zone[q].name BY <1>1, <2>1 DEF Written
  <2> QED BY <1>1, <1>2, <1>3, <2>3, <2>4, FilesKeptOutside
<1>6. CASE OperatorRemoves(r)
  <2>1. zone' = [zone EXCEPT ![r] = Removed("withdrawn")] BY <1>6 DEF OperatorRemoves
  <2>2. ZoneShrinks BY <1>1, <2>1, ZoneLoses
  <2>3. \A q \in RecIds : zone'[q].name \in {zone[q].name, NoHost} BY <1>1, <2>1 DEF Removed, Unborn
  <2> QED BY <1>1, <1>2, <1>3, <2>2, <2>3, FilesKeptOutside
<1> QED BY <1>4, <1>5, <1>6

\* What the reconciler takes up or is at stands, and is as the list returned it.
LEMMA AsListed ==
    ASSUME IInv, FileInv, NEW d \in Doms,
           \/ Picks("deletions", d) \/ Picks("dns", d)
           \/ \E p \in {"clear", "retarget", "lookup", "adopt", "create", "store"} : Working(p, d)
    PROVE  /\ d \in rc.todo /\ Present(d) /\ rc.snap[d].host = row[d].host
           /\ rc.snap[d].rec = row[d].rec /\ rc.snap[d].managed = row[d].managed
<1>1. d \in rc.todo BY DEF Picks, Working, IInv, RcGrounded
<1>2. rc.pc \notin {"erase", "pending"} BY DEF Picks, Working
<1> QED BY <1>1, <1>2 DEF FileInv, SnapsTrue

\* A record of a row that is not where the row looks for it is not there, or not NurProxy's.
LEMMA FoundAtHome ==
    ASSUME FileInv, NEW d \in Doms, ~HasRecord(row[d].rec, row[d].host)
    PROVE  ~Mine(row[d].rec)
BY DEF FileInv, RowsFiled, HasRecord, Mine

LEMMA FilesKeptOnFinish ==
    ASSUME IInv, FileInv, NEW d \in Doms, NEW p \in {"deletions", "dns"}, Finish(p, d),
           RowsAlike, ZoneShrinks, OnlyReconciler', rc.pc # "store", rc.pc \in {"erase", "pending"} => rc.dom = d
    PROVE  FileInv'
<1>1. /\ rc'.pc = p /\ rc'.dom = NoDom /\ rc'.todo = rc.todo \ {d}
      /\ \A e \in Doms \ {d} : rc'.snap[e] = rc.snap[e]
    BY MoveFacts DEF IInv
<1>2. rc.todo \subseteq Doms BY DEF IInv, TypeOK, Rc
<1>3. SnapsTrue' BY <1>1, <1>2 DEF FileInv, SnapsTrue, RowsAlike
<1>4. WorkSound' BY <1>1 DEF WorkSound
<1> QED BY <1>3, <1>4, FilesKept

LEMMA FilesKeptOnMove ==
    ASSUME IInv, FileInv, NEW d \in Doms, d \in rc.todo,
           NEW p \in {"clear", "erase", "retarget", "lookup", "create", "adopt"},
           rc'.pc = p, rc'.dom = d, rc'.todo = rc.todo, rc'.snap = rc.snap,
           RowsAlike, ZoneShrinks, OnlyReconciler', rc.pc \notin {"store", "erase", "pending"},
           p # "retarget" => ~Mine(row[d].rec)', p = "adopt" => basis'[rc'.rec] # "created"
    PROVE  FileInv'
<1>1. rc.todo \subseteq Doms BY DEF IInv, TypeOK, Rc
<1>2. SnapsTrue' BY <1>1 DEF FileInv, SnapsTrue, RowsAlike
<1>3. WorkSound' BY DEF WorkSound
<1> QED BY <1>2, <1>3, FilesKept

LEMMA ListKeepsFiles ==
    ASSUME IInv, FileInv, ListDeleting \/ ListLive \/ EndCycle
    PROVE  FileInv'
<1>1. UNCHANGED <<zone, basis, row, upd, tak, left>> /\ rc.pc # "store"
    BY DEF ListDeleting, ListLive, EndCycle, Rest
<1>2. RowsAlike /\ ZoneShrinks /\ OnlyReconciler'
    BY <1>1, ZoneKept DEF RowsAlike, Present, FileInv, OnlyReconciler
<1>3. CASE EndCycle
  <2>1. rc'.pc = "idle" /\ rc'.todo = {} BY <1>3 DEF EndCycle, RcIdle
  <2>2. SnapsTrue' /\ WorkSound' BY <2>1 DEF SnapsTrue, WorkSound
  <2> QED BY <1>1, <1>2, <2>2, FilesKept
<1>4. ASSUME NEW p \in {"deletions", "dns"}, NEW D \in SUBSET Doms, ListPhase(p, D), \A d \in D : Present(d)
      PROVE  FileInv'
  <2>1. /\ rc'.pc = p /\ rc'.todo = D
        /\ \A e \in Doms : rc'.snap[e] = IF e \in D THEN row[e] ELSE Blank
      BY <1>4 DEF ListPhase, RcIdle
  <2>2. SnapsTrue' BY <1>1, <1>4, <2>1 DEF SnapsTrue, Present
  <2>3. WorkSound' BY <2>1 DEF WorkSound
  <2> QED BY <1>1, <1>2, <2>2, <2>3, FilesKept
<1>5. CASE ListDeleting
  <2>1. \A d \in {e \in Doms : row[e].status = "deleting"} : Present(d) BY DEF Present
  <2>2. ListPhase("deletions", {e \in Doms : row[e].status = "deleting"}) BY <1>5 DEF ListDeleting
  <2> QED BY <1>4, <2>1, <2>2
<1>6. CASE ListLive
  <2>1. \A d \in {e \in Doms : row[e].status \in LiveStatuses} : Present(d) BY DEF Present
  <2>2. ListPhase("dns", {e \in Doms : row[e].status \in LiveStatuses}) BY <1>6 DEF ListLive
  <2> QED BY <1>4, <2>1, <2>2
<1> QED BY <1>3, <1>5, <1>6

\* The teardown of a domain, up to its row.
LEMMA DeletionsKeepFiles ==
    ASSUME IInv, FileInv, NEW d \in Doms, KeepRecord(d) \/ DeleteRecord(d) \/ DeferDelete(d)
    PROVE  FileInv'
<1>1. /\ d \in rc.todo /\ rc.snap[d].host = row[d].host /\ rc.snap[d].rec = row[d].rec
      /\ rc.snap[d].managed = row[d].managed /\ rc.pc = "deletions"
    BY AsListed DEF KeepRecord, DeleteRecord, DeferDelete, Picks
<1>2. UNCHANGED <<basis, row, upd, tak>> /\ TypeOK /\ CreatedBorn
    BY DEF KeepRecord, DeleteRecord, DeferDelete, Rest, IInv, FileInv
<1>3. RowsAlike BY <1>2 DEF RowsAlike, Present
<1>4. row[d].rec \in RecIds \cup {NoRec} BY <1>2 DEF TypeOK, Row
<1>5. CASE KeepRecord(d)
  <2>1. Goto("erase", d) /\ UNCHANGED <<zone, left>> /\ ~Owns(rc.snap[d]) BY <1>5 DEF KeepRecord
  <2>2. ~Mine(row[d].rec)
      BY <1>1, <2>1, DomainAssumptions DEF Owns, FileInv, RowsFiled, Mine
  <2>3. ~Mine(row[d].rec)' BY <1>2, <2>1, <2>2 DEF Mine, IsLive
  <2>4. ZoneShrinks /\ OnlyReconciler' BY <1>2, <2>1, ZoneKept DEF FileInv, OnlyReconciler
  <2>5. rc'.pc = "erase" /\ rc'.dom = d /\ rc'.todo = rc.todo /\ rc'.snap = rc.snap
      BY <1>2, <2>1, MoveFacts
  <2> QED BY <1>1, <1>3, <2>3, <2>4, <2>5, FilesKeptOnMove
<1>6. ASSUME Owns(rc.snap[d])
      PROVE  row[d].rec \in RecIds
    BY <1>1, <1>4, <1>6 DEF Owns
<1>7. CASE DeleteRecord(d)
  <2>1. /\ Goto("clear", d) /\ UNCHANGED left /\ Owns(rc.snap[d])
        /\ zone' = IF HasRecord(row[d].rec, row[d].host) THEN Deleted(row[d].rec) ELSE zone
      BY <1>1, <1>7 DEF DeleteRecord
  <2>2. ZoneShrinks /\ ~Mine(row[d].rec)'
    <3>1. CASE HasRecord(row[d].rec, row[d].host) BY <1>2, <1>6, <2>1, <3>1, ZoneLoses
    <3>2. CASE ~HasRecord(row[d].rec, row[d].host)
      <4>1. ~Mine(row[d].rec) /\ UNCHANGED zone BY <2>1, <3>2, FoundAtHome
      <4> QED BY <1>2, <4>1, ZoneKept DEF Mine, IsLive
    <3> QED BY <3>1, <3>2
  <2>3. OnlyReconciler' BY <1>2, <2>1 DEF FileInv, OnlyReconciler
  <2>4. rc'.pc = "clear" /\ rc'.dom = d /\ rc'.todo = rc.todo /\ rc'.snap = rc.snap
      BY <1>2, <2>1, MoveFacts
  <2> QED BY <1>1, <1>3, <2>2, <2>3, <2>4, FilesKeptOnMove
<1>8. CASE DeferDelete(d)
  <2>1. Finish("deletions", d) /\ Owns(rc.snap[d]) BY <1>8 DEF DeferDelete
  <2>2. Spend("refusals") /\ UNCHANGED zone BY <1>2, <1>8, SpendsOther DEF DeferDelete, FileInv, Limits
  <2>3. OnlyReconciler' BY <1>2, <2>2, SpendsOther DEF FileInv, OnlyReconciler, Limits
  <2>4. ZoneShrinks BY <1>2, <2>2, ZoneKept
  <2> QED BY <1>1, <1>3, <2>1, <2>3, <2>4, FilesKeptOnFinish
<1> QED BY <1>5, <1>7, <1>8

\* A domain of the second phase that is done with, or found without its record.
LEMMA VisitsKeepFiles ==
    ASSUME IInv, FileInv, NEW d \in Doms,
           VisitUnrecorded(d) \/ VisitMissing(d) \/ VisitFound(d) \/ VisitUnreadable(d)
    PROVE  FileInv'
<1>1. /\ d \in rc.todo /\ rc.snap[d].host = row[d].host /\ rc.snap[d].rec = row[d].rec /\ rc.pc = "dns"
    BY AsListed DEF VisitUnrecorded, VisitMissing, VisitFound, VisitUnreadable, Picks
<1>2. UNCHANGED <<zone, basis, row, upd, tak>> /\ TypeOK /\ CreatedBorn
    BY DEF VisitUnrecorded, VisitMissing, VisitFound, VisitUnreadable, Rest, IInv, FileInv
<1>3. RowsAlike /\ ZoneShrinks BY <1>2, ZoneKept DEF RowsAlike, Present
<1>4. OnlyReconciler'
    BY <1>2, SpendsOther
       DEF FileInv, OnlyReconciler, VisitUnrecorded, VisitMissing, VisitFound, VisitUnreadable, Limits
<1>5. CASE Goto("lookup", d) /\ ~Mine(row[d].rec)
  <2>1. rc'.pc = "lookup" /\ rc'.dom = d /\ rc'.todo = rc.todo /\ rc'.snap = rc.snap
      BY <1>2, <1>5, MoveFacts
  <2>2. ~Mine(row[d].rec)' BY <1>2, <1>5 DEF Mine, IsLive
  <2> QED BY <1>1, <1>3, <1>4, <2>1, <2>2, FilesKeptOnMove
<1>6. CASE VisitUnrecorded(d)
  <2>1. row[d].rec = NoRec /\ Goto("lookup", d) BY <1>1, <1>6 DEF VisitUnrecorded
  <2>2. ~Mine(row[d].rec) BY <2>1, DomainAssumptions DEF Mine
  <2> QED BY <1>5, <2>1, <2>2
<1>7. CASE VisitMissing(d)
  <2>1. ~HasRecord(row[d].rec, row[d].host) /\ Goto("lookup", d) BY <1>1, <1>7 DEF VisitMissing
  <2> QED BY <1>5, <2>1, FoundAtHome
<1>8. CASE Finish("dns", d) BY <1>1, <1>3, <1>4, <1>8, FilesKeptOnFinish
<1>9. CASE Goto("retarget", d)
  <2>1. rc'.pc = "retarget" /\ rc'.dom = d /\ rc'.todo = rc.todo /\ rc'.snap = rc.snap
      BY <1>2, <1>9, MoveFacts
  <2> QED BY <1>1, <1>3, <1>4, <2>1, FilesKeptOnMove
<1> QED BY <1>6, <1>7, <1>8, <1>9 DEF VisitFound, VisitUnreadable

LEMMA RetargetKeepsFiles ==
    ASSUME IInv, FileInv, NEW d \in Doms, Retarget(d) \/ RetargetFails(d)
    PROVE  FileInv'
<1>1. /\ rc.snap[d].host = row[d].host /\ rc.snap[d].rec = row[d].rec /\ rc.pc = "retarget"
    BY AsListed DEF Retarget, RetargetFails, Working
<1>2. UNCHANGED <<basis, upd, tak>> /\ TypeOK /\ CreatedBorn /\ Finish("dns", d)
    BY DEF Retarget, RetargetFails, Rest, IInv, FileInv
<1>3. CASE Retarget(d)
  <2>1. /\ UNCHANGED <<row, left>> /\ IsLive(row[d].rec)
        /\ zone' = [zone EXCEPT ![row[d].rec] = Written(row[d].host, rc.snap[d].agent, "nurproxy")]
      BY <1>1, <1>3 DEF Retarget, CanRetarget, HasRecord, Retargeted
  <2>2. row[d].rec \in RecIds BY <1>1, <1>3, AtWork DEF Retarget
  <2>3. basis[row[d].rec] = "created" => zone[row[d].rec].name = row[d].host
      BY <2>1, <2>2 DEF FileInv, RowsFiled, Mine
  <2>4. ZoneShrinks BY <1>2, <2>1, <2>2, <2>3, ZoneRewrites
  <2>5. RowsAlike /\ OnlyReconciler' BY <1>2, <2>1 DEF RowsAlike, Present, FileInv, OnlyReconciler
  <2> QED BY <1>1, <1>2, <2>4, <2>5, FilesKeptOnFinish
<1>4. CASE RetargetFails(d)
  <2>1. UNCHANGED zone /\ OnlyReconciler'
      BY <1>2, <1>4, SpendsOther DEF RetargetFails, FileInv, OnlyReconciler, Limits
  <2>2. RowsAlike BY <1>2, <1>4, StatusAlike DEF RetargetFails, LiveStatuses
  <2>3. ZoneShrinks BY <1>2, <2>1, ZoneKept
  <2> QED BY <1>1, <1>2, <2>1, <2>2, <2>3, FilesKeptOnFinish
<1> QED BY <1>3, <1>4

\* A record at the name of a domain that has lost its own is not one that NurProxy created: that
\* one would be on file in the row of its name, which is this domain's.
LEMMA NotMineToAdopt ==
    ASSUME IInv, FileInv, NEW d \in Doms, Working("lookup", d), NEW r \in At(row[d].host)
    PROVE  basis[r] # "created"
<1>1. SUFFICES ASSUME basis[r] = "created" PROVE FALSE OBVIOUS
<1>2. Mine(r) /\ zone[r].name = row[d].host BY <1>1 DEF At, Mine
<1>3. PICK e \in Doms : row[e].rec = r /\ row[e].managed
    BY <1>2 DEF FileInv, CreatedOnFile, Mine, OnFile, Working, OnlyReconciler, TakIdle
<1>4. Present(e) /\ row[e].host = row[d].host BY <1>2, <1>3, DomainAssumptions DEF FileInv, RowsFiled, Mine
<1>5. Present(d) BY AsListed
<1>6. e = d BY <1>4, <1>5 DEF FileInv, NamesApart
<1>7. ~Mine(row[d].rec) BY DEF FileInv, WorkSound, Working
<1> QED BY <1>2, <1>3, <1>6, <1>7

LEMMA LookupsKeepFiles ==
    ASSUME IInv, FileInv, NEW d \in Doms,
           LookupMatches(d) \/ LookupConflicts(d) \/ LookupFindsNone(d) \/ LookupFails(d)
    PROVE  FileInv'
<1>1. d \in rc.todo /\ rc.snap[d].host = row[d].host /\ rc.pc = "lookup" /\ Working("lookup", d) /\ rc.dom = d
    BY AsListed DEF LookupMatches, LookupConflicts, LookupFindsNone, LookupFails, Working
<1>2. UNCHANGED <<zone, basis, upd, tak>> /\ TypeOK /\ CreatedBorn
    BY DEF LookupMatches, LookupConflicts, LookupFindsNone, LookupFails, Rest, IInv, FileInv
<1>3. ZoneShrinks BY <1>2, ZoneKept
<1>4. RowsAlike
  <2>1. CASE UNCHANGED row BY <2>1 DEF RowsAlike, Present
  <2>2. CASE row' = SetStatus(d, "error") BY <1>2, <2>2, StatusAlike DEF LiveStatuses
  <2> QED BY <2>1, <2>2 DEF LookupMatches, LookupConflicts, LookupFindsNone, LookupFails
<1>5. OnlyReconciler'
    BY <1>2, SpendsOther
       DEF FileInv, OnlyReconciler, LookupMatches, LookupConflicts, LookupFindsNone, LookupFails, Limits
<1>6. ~Mine(row[d].rec)'
  <2>1. ~Mine(row[d].rec) BY <1>1 DEF FileInv, WorkSound
  <2> QED BY <1>2, <1>4, <2>1 DEF RowsAlike, Mine, IsLive
<1>7. CASE LookupMatches(d)
  <2>1. PICK r \in Matching(row[d].host, rc.snap[d].agent) : GotoWith("adopt", d, r)
      BY <1>1, <1>7 DEF LookupMatches
  <2>2. r \in At(row[d].host) BY DEF Matching
  <2>3. basis[r] # "created" BY <1>1, <2>2, NotMineToAdopt
  <2>4. rc'.pc = "adopt" /\ rc'.dom = d /\ rc'.todo = rc.todo /\ rc'.snap = rc.snap /\ rc'.rec = r
      BY <1>2, <2>1, MoveFacts
  <2>5. basis'[rc'.rec] # "created" BY <1>2, <2>3, <2>4
  <2> QED BY <1>1, <1>3, <1>4, <1>5, <1>6, <2>4, <2>5, FilesKeptOnMove
<1>8. CASE LookupFindsNone(d)
  <2>1. rc'.pc = "create" /\ rc'.dom = d /\ rc'.todo = rc.todo /\ rc'.snap = rc.snap
      BY <1>2, <1>8, MoveFacts DEF LookupFindsNone
  <2> QED BY <1>1, <1>3, <1>4, <1>5, <1>6, <2>1, FilesKeptOnMove
<1>9. CASE LookupConflicts(d) \/ LookupFails(d)
  <2>1. Finish("dns", d) BY <1>9 DEF LookupConflicts, LookupFails
  <2> QED BY <1>1, <1>3, <1>4, <1>5, <2>1, FilesKeptOnFinish
<1> QED BY <1>7, <1>8, <1>9

LEMMA EndsKeepFiles ==
    ASSUME IInv, FileInv, NEW d \in Doms, MarkAdopted(d) \/ CreateFails(d)
    PROVE  FileInv'
<1>1. /\ rc.pc \in {"pending", "create"} /\ rc.dom = d /\ Finish("dns", d)
      /\ UNCHANGED <<upd, tak>> /\ TypeOK /\ CreatedBorn
    BY DEF MarkAdopted, CreateFails, Working, Rest, IInv, FileInv
<1>2. UNCHANGED <<zone, basis>> /\ OnlyReconciler'
    BY <1>1, SpendsOther DEF MarkAdopted, CreateFails, FileInv, OnlyReconciler, Limits
<1>3. RowsAlike BY <1>1, StatusAlike DEF MarkAdopted, CreateFails, LiveStatuses
<1>4. ZoneShrinks BY <1>1, <1>2, ZoneKept
<1> QED BY <1>1, <1>2, <1>3, <1>4, FilesKeptOnFinish

\* A row gives up a record that is gone, or not NurProxy's, for another or for none.
LEMMA RecordReplaced ==
    ASSUME IInv, FileInv, NEW d \in Doms, ~Mine(row[d].rec), NEW r,
           row'[d].rec = r, \A e \in Doms \ {d} : row'[e] = row[e],
           Mine(r) => row'[d].managed /\ zone[r].name = row[d].host,
           \/ Present(d) /\ Present(d)' /\ row'[d].host = row[d].host
           \/ ~Present(d)' /\ r = NoRec,
           UNCHANGED <<zone, tak>>, \A q : Mine(q)' = Mine(q),
           rc.pc = "store" => rc.rec = r /\ row'[d].managed
    PROVE  NamesApart' /\ RowsFiled' /\ CreatedOnFile'
<1>1. \A e \in Doms \ {d} : Present(e)' = Present(e) BY DEF Present
<1>2. NamesApart' BY <1>1 DEF FileInv, NamesApart
<1>3. RowsFiled'
  <2> SUFFICES ASSUME NEW e \in Doms
               PROVE  /\ row'[e].rec # NoRec => Present(e)'
                      /\ Mine(row'[e].rec) => row'[e].managed /\ zone[row'[e].rec].name = row'[e].host
      BY DEF RowsFiled
  <2>1. CASE e = d BY <2>1, DomainAssumptions DEF Mine
  <2>2. CASE e # d BY <1>1, <2>2 DEF FileInv, RowsFiled
  <2> QED BY <2>1, <2>2
<1>4. CreatedOnFile'
  <2> SUFFICES ASSUME NEW q \in RecIds, Mine(q)
               PROVE  OnFile(q)'
      BY DEF CreatedOnFile, Mine
  <2>1. OnFile(q) /\ \A e \in Doms : tak[e].pc # "store"
      BY DEF FileInv, CreatedOnFile, Mine, OnlyReconciler, TakIdle
  <2>2. CASE rc.pc = "store" /\ rc.rec = q BY <2>2 DEF OnFile
  <2>3. CASE \E e \in Doms : row[e].rec = q /\ row[e].managed
    <3>1. PICK e \in Doms : row[e].rec = q /\ row[e].managed BY <2>3
    <3>2. e # d BY <3>1
    <3> QED BY <3>1, <3>2 DEF OnFile
  <2> QED BY <2>1, <2>2, <2>3 DEF OnFile
<1> QED BY <1>2, <1>3, <1>4

LEMMA RecordSet ==
    ASSUME TypeOK, NEW d \in Doms, Present(d), NEW r, NEW m \in BOOLEAN, row' = SetRecord(d, r, m)
    PROVE  /\ row'[d].rec = r /\ row'[d].managed = m /\ row'[d].host = row[d].host /\ Present(d)'
           /\ \A e \in Doms \ {d} : row'[e] = row[e]
<1>1. row \in [Doms -> Row] /\ row[d] \in Row BY DEF TypeOK
<1>2. row' = [row EXCEPT ![d].rec = r, ![d].managed = m] BY DEF SetRecord
<1>3. row'[d] = [row[d] EXCEPT !.rec = r, !.managed = m] /\ \A e \in Doms \ {d} : row'[e] = row[e]
    BY <1>1, <1>2
<1> QED BY <1>1, <1>3 DEF Row, Present

\* What the reconciler is at stands, and its record, if any is named, may be given up.
LEMMA AtHand ==
    ASSUME IInv, FileInv, NEW d \in Doms,
           NEW p \in {"clear", "erase", "lookup", "adopt", "create", "store"}, Working(p, d)
    PROVE  d \in rc.todo /\ Present(d) /\ ~Mine(row[d].rec) /\ rc.snap[d].host = row[d].host
BY DEF Working, IInv, RcGrounded, FileInv, SnapsTrue, WorkSound

LEMMA NoFaults ==
    ASSUME IInv, FileInv, Spend("dbfaults")
    PROVE  FALSE
BY SpendsOther DEF IInv, FileInv, Limits

LEMMA CreatedKeepsFiles ==
    ASSUME IInv, FileInv, NEW d \in Doms, CreateRecord(d)
    PROVE  FileInv'
<1>1. PICK r \in RecIds : Create(r, rc.snap[d].host, rc.snap[d].agent) /\ GotoWith("store", d, r)
    BY DEF CreateRecord
<1>2. /\ d \in rc.todo /\ rc.snap[d].host = row[d].host /\ ~Mine(row[d].rec) /\ rc.pc = "create"
      /\ UNCHANGED <<row, upd, tak, left>> /\ TypeOK /\ rc.todo \subseteq Doms
    BY AtHand DEF CreateRecord, Working, Rest, IInv, TypeOK, Rc
<1>3. rc'.pc = "store" /\ rc'.dom = d /\ rc'.todo = rc.todo /\ rc'.snap = rc.snap /\ rc'.rec = r
    BY <1>1, <1>2, MoveFacts
<1>4. zone \in [RecIds -> Record] /\ basis \in [RecIds -> Bases] BY <1>2 DEF TypeOK, ZoneTypeOK
<1>5. /\ ~Born(r) /\ zone'[r] = Written(row[d].host, rc.snap[d].agent, "nurproxy") /\ basis'[r] = "created"
      /\ \A q \in RecIds \ {r} : zone'[q] = zone[q] /\ basis'[q] = basis[q]
    BY <1>1, <1>2, <1>4 DEF Create, IsNextId, Born
<1>6. zone'[r].fate = "live" /\ zone'[r].name = row[d].host BY <1>5 DEF Written
<1>7. \A q \in RecIds \ {r} : Mine(q)' = Mine(q) BY <1>5 DEF Mine, IsLive
<1>8. \A e \in Doms : row[e].rec # r
    BY <1>5, DomainAssumptions DEF IInv, RowsGrounded, Grounded, Known
<1>9. \A e \in Doms : Mine(row[e].rec)' = Mine(row[e].rec) BY <1>2, <1>7, <1>8 DEF Mine
<1>10. CreatedBorn' BY <1>5, <1>6 DEF FileInv, CreatedBorn, Born
<1>11. NamesApart' BY <1>2 DEF FileInv, NamesApart, Present
<1>12. RowsFiled'
  <2> SUFFICES ASSUME NEW e \in Doms
               PROVE  /\ row[e].rec # NoRec => Present(e)
                      /\ Mine(row[e].rec) => row[e].managed /\ zone'[row[e].rec].name = row[e].host
      BY <1>2, <1>9 DEF RowsFiled, Present
  <2> QED BY <1>5, <1>8 DEF FileInv, RowsFiled, Mine
<1>13. SnapsTrue' BY <1>2, <1>3 DEF FileInv, SnapsTrue, Present
<1>14. WorkSound' BY <1>2, <1>3, <1>5, <1>6, <1>9 DEF WorkSound
<1>15. CreatedOnFile'
  <2> SUFFICES ASSUME NEW q \in RecIds, Mine(q)'
               PROVE  OnFile(q)'
      BY DEF CreatedOnFile, Mine
  <2>1. CASE q = r BY <1>3, <2>1 DEF OnFile
  <2>2. CASE q # r
    <3>1. OnFile(q) BY <1>7, <2>2 DEF FileInv, CreatedOnFile, Mine
    <3> QED BY <1>2, <3>1 DEF OnFile, FileInv, OnlyReconciler, TakIdle
  <2> QED BY <2>1, <2>2
<1>16. OnlyReconciler' BY <1>2 DEF FileInv, OnlyReconciler
<1> QED BY <1>10, <1>11, <1>12, <1>13, <1>14, <1>15, <1>16 DEF FileInv

LEMMA StoredKeepsFiles ==
    ASSUME IInv, FileInv, NEW d \in Doms, StoreCreated(d)
    PROVE  FileInv'
<1>1. /\ d \in rc.todo /\ Present(d) /\ ~Mine(row[d].rec) /\ rc.pc = "store" /\ rc.dom = d /\ Finish("dns", d)
      /\ UNCHANGED <<zone, basis, upd, tak>> /\ TypeOK /\ rc.todo \subseteq Doms
    BY AtHand DEF StoreCreated, Working, Rest, IInv, TypeOK, Rc
<1>2. row' = SetRecord(d, rc.rec, TRUE) /\ UNCHANGED left BY NoFaults DEF StoreCreated, Store
<1>3. /\ row'[d].rec = rc.rec /\ row'[d].managed = TRUE /\ row'[d].host = row[d].host /\ Present(d)'
      /\ \A e \in Doms \ {d} : row'[e] = row[e]
    BY <1>1, <1>2, RecordSet
<1>4. Mine(rc.rec) => zone[rc.rec].name = row[d].host
  <2>1. Mine(rc.rec) => zone[rc.rec].name # NoHost BY NullsDistinct DEF IInv, ZoneNamed, Mine
  <2> QED BY <1>1, <2>1 DEF FileInv, WorkSound
<1>5. \A q : Mine(q)' = Mine(q) BY <1>1 DEF Mine, IsLive
<1>6. NamesApart' /\ RowsFiled' /\ CreatedOnFile' BY <1>1, <1>3, <1>4, <1>5, RecordReplaced
<1>7. /\ rc'.pc = "dns" /\ rc'.dom = NoDom /\ rc'.todo = rc.todo \ {d}
      /\ \A e \in Doms \ {d} : rc'.snap[e] = rc.snap[e]
    BY <1>1, MoveFacts
<1>8. SnapsTrue' BY <1>1, <1>3, <1>7 DEF FileInv, SnapsTrue, Present
<1>9. WorkSound' BY <1>7 DEF WorkSound
<1>10. OnlyReconciler' /\ CreatedBorn' BY <1>1, <1>2 DEF FileInv, OnlyReconciler, CreatedBorn, Born
<1> QED BY <1>6, <1>8, <1>9, <1>10 DEF FileInv

LEMMA AdoptedKeepsFiles ==
    ASSUME IInv, FileInv, NEW d \in Doms, AdoptRecord(d)
    PROVE  FileInv'
<1>1. /\ d \in rc.todo /\ Present(d) /\ ~Mine(row[d].rec) /\ rc.pc = "adopt" /\ rc.dom = d
      /\ GotoWith("pending", d, NoRec) /\ basis' = Based({rc.rec}, "adopted")
      /\ UNCHANGED <<zone, upd, tak>> /\ TypeOK /\ rc.todo \subseteq Doms
    BY AtHand DEF AdoptRecord, Working, Rest, IInv, TypeOK, Rc
<1>2. row' = SetRecord(d, rc.rec, FALSE) /\ UNCHANGED left BY NoFaults DEF AdoptRecord, Store
<1>3. /\ row'[d].rec = rc.rec /\ row'[d].managed = FALSE /\ row'[d].host = row[d].host /\ Present(d)'
      /\ \A e \in Doms \ {d} : row'[e] = row[e]
    BY <1>1, <1>2, RecordSet
<1>4. basis[rc.rec] # "created" BY <1>1 DEF FileInv, WorkSound
<1>5. \A q \in RecIds : (basis'[q] = "created") = (basis[q] = "created") BY <1>1, <1>4 DEF Based, Strengthen
<1>6. \A q : Mine(q)' = Mine(q) BY <1>1, <1>5 DEF Mine, IsLive
<1>7. ~Mine(rc.rec) BY <1>4 DEF Mine
<1>8. NamesApart' /\ RowsFiled' /\ CreatedOnFile' BY <1>1, <1>3, <1>6, <1>7, RecordReplaced
<1>9. rc'.pc = "pending" /\ rc'.dom = d /\ rc'.todo = rc.todo /\ rc'.snap = rc.snap BY <1>1, MoveFacts
<1>10. SnapsTrue' BY <1>1, <1>3, <1>9 DEF FileInv, SnapsTrue, Present
<1>11. WorkSound' BY <1>9 DEF WorkSound
<1>12. OnlyReconciler' /\ CreatedBorn' BY <1>1, <1>2, <1>5 DEF FileInv, OnlyReconciler, CreatedBorn, Born
<1> QED BY <1>8, <1>10, <1>11, <1>12 DEF FileInv

LEMMA ClearedKeepsFiles ==
    ASSUME IInv, FileInv, NEW d \in Doms, ClearRecord(d)
    PROVE  FileInv'
<1>1. /\ d \in rc.todo /\ Present(d) /\ ~Mine(row[d].rec) /\ rc.pc = "clear" /\ rc.dom = d /\ Goto("erase", d)
      /\ UNCHANGED <<zone, basis, upd, tak>> /\ TypeOK /\ rc.todo \subseteq Doms
    BY AtHand DEF ClearRecord, Working, Rest, IInv, TypeOK, Rc
<1>2. row' = SetRecord(d, NoRec, FALSE) /\ UNCHANGED left BY NoFaults DEF ClearRecord, Store
<1>3. /\ row'[d].rec = NoRec /\ row'[d].managed = FALSE /\ row'[d].host = row[d].host /\ Present(d)'
      /\ \A e \in Doms \ {d} : row'[e] = row[e]
    BY <1>1, <1>2, RecordSet
<1>4. ~Mine(NoRec) /\ \A q : Mine(q)' = Mine(q) BY <1>1, DomainAssumptions DEF Mine, IsLive
<1>5. NamesApart' /\ RowsFiled' /\ CreatedOnFile' BY <1>1, <1>3, <1>4, RecordReplaced
<1>6. rc'.pc = "erase" /\ rc'.dom = d /\ rc'.todo = rc.todo /\ rc'.snap = rc.snap BY <1>1, MoveFacts
<1>7. SnapsTrue' BY <1>1, <1>3, <1>6 DEF FileInv, SnapsTrue, Present
<1>8. WorkSound' BY <1>3, <1>4, <1>6 DEF WorkSound
<1>9. OnlyReconciler' /\ CreatedBorn' BY <1>1, <1>2 DEF FileInv, OnlyReconciler, CreatedBorn, Born
<1> QED BY <1>5, <1>7, <1>8, <1>9 DEF FileInv

LEMMA ErasedKeepsFiles ==
    ASSUME IInv, FileInv, NEW d \in Doms, EraseRow(d)
    PROVE  FileInv'
<1>1. /\ d \in rc.todo /\ Present(d) /\ ~Mine(row[d].rec) /\ rc.pc = "erase" /\ rc.dom = d
      /\ Finish("deletions", d)
      /\ UNCHANGED <<zone, basis, upd, tak>> /\ TypeOK /\ rc.todo \subseteq Doms
    BY AtHand DEF EraseRow, Working, Rest, IInv, TypeOK, Rc
<1>2. row' = [row EXCEPT ![d] = Gone] /\ UNCHANGED left BY <1>1, NoFaults DEF EraseRow
<1>3. row'[d].rec = NoRec /\ ~Present(d)' /\ \A e \in Doms \ {d} : row'[e] = row[e]
  <2>1. row \in [Doms -> Row] BY <1>1 DEF TypeOK
  <2>2. row'[d] = Gone /\ \A e \in Doms \ {d} : row'[e] = row[e] BY <1>2, <2>1
  <2> QED BY <2>2 DEF Gone, Blank, Present, LiveStatuses
<1>4. ~Mine(NoRec) /\ \A q : Mine(q)' = Mine(q) BY <1>1, DomainAssumptions DEF Mine, IsLive
<1>5. NamesApart' /\ RowsFiled' /\ CreatedOnFile' BY <1>1, <1>3, <1>4, RecordReplaced
<1>6. /\ rc'.pc = "deletions" /\ rc'.dom = NoDom /\ rc'.todo = rc.todo \ {d}
      /\ \A e \in Doms \ {d} : rc'.snap[e] = rc.snap[e]
    BY <1>1, MoveFacts
<1>7. SnapsTrue' BY <1>1, <1>3, <1>6 DEF FileInv, SnapsTrue, Present
<1>8. WorkSound' BY <1>6 DEF WorkSound
<1>9. OnlyReconciler' /\ CreatedBorn' BY <1>1, <1>2 DEF FileInv, OnlyReconciler, CreatedBorn, Born
<1> QED BY <1>5, <1>7, <1>8, <1>9 DEF FileInv

LEMMA FilesStay ==
    ASSUME IInv, FileInv, [Next]_vars
    PROVE  FileInv'
<1>1. CASE ListDeleting \/ ListLive \/ EndCycle BY <1>1, ListKeepsFiles
<1>2. ASSUME NEW d \in Doms, KeepRecord(d) \/ DeleteRecord(d) \/ DeferDelete(d) PROVE FileInv'
    BY <1>2, DeletionsKeepFiles
<1>3. ASSUME NEW d \in Doms,
             \/ VisitUnrecorded(d) \/ VisitMissing(d) \/ VisitFound(d) \/ VisitUnreadable(d)
             \/ Retarget(d) \/ RetargetFails(d)
      PROVE  FileInv'
    BY <1>3, VisitsKeepFiles, RetargetKeepsFiles
<1>4. ASSUME NEW d \in Doms,
             \/ LookupMatches(d) \/ LookupConflicts(d) \/ LookupFindsNone(d) \/ LookupFails(d)
             \/ MarkAdopted(d) \/ CreateFails(d)
      PROVE  FileInv'
    BY <1>4, LookupsKeepFiles, EndsKeepFiles
<1>5. ASSUME NEW d \in Doms, ClearRecord(d) \/ EraseRow(d) \/ AdoptRecord(d) \/ CreateRecord(d) \/ StoreCreated(d)
      PROVE  FileInv'
    BY <1>5, ClearedKeepsFiles, ErasedKeepsFiles, AdoptedKeepsFiles, CreatedKeepsFiles, StoredKeepsFiles
<1>6. CASE ReconcilerStep BY <1>1, <1>2, <1>3, <1>4, <1>5, <1>6 DEF ReconcilerStep
<1>7. ASSUME NEW d \in Doms, CreateDomain(d) \/ DeleteDomain(d) \/ ListForAck(d) \/ MarkApplied(d)
      PROVE  FileInv'
    BY <1>7, CreateKeepsFiles, StatusKeepsFiles
<1>8. ASSUME NEW d \in Doms, ReadForUpdate(d) \/ WriteUpdate(d) \/ TakeoverStart(d) \/ TakeoverStep(d)
      PROVE  FileInv'
    BY <1>8, NoHandlerWrites
<1>9. CASE Crash BY <1>9, SpendsOther DEF Crash, IInv, FileInv, Limits
<1>10. ASSUME NEW r \in RecIds, OperatorAdds(r) \/ OperatorEdits(r) \/ OperatorRemoves(r)
       PROVE  FileInv'
    BY <1>10, OperatorKeepsFiles
<1>11. CASE UNCHANGED vars
  <2>1. UNCHANGED <<rc, zone, basis, row, upd, tak, left>> BY <1>11 DEF vars
  <2>2. OnlyReconciler' /\ CreatedBorn' /\ NamesApart' /\ RowsFiled'
      BY <2>1 DEF FileInv, OnlyReconciler, CreatedBorn, NamesApart, RowsFiled, Born, Present, Mine, IsLive
  <2>3. SnapsTrue' /\ WorkSound' /\ CreatedOnFile'
      BY <2>1 DEF FileInv, SnapsTrue, WorkSound, CreatedOnFile, OnFile, Present, Mine, IsLive
  <2> QED BY <2>2, <2>3 DEF FileInv
<1> QED BY <1>6, <1>7, <1>8, <1>9, <1>10, <1>11 DEF Next

LEMMA FilesBegin ==
    ASSUME Quiet, Init
    PROVE  FileInv
<1>1. left \in Budgets /\ OnlyReconciler BY DEF Quiet, Init, OnlyReconciler
<1>2. \A r \in RecIds : basis[r] = "none" BY DEF Init, ZoneInit
<1>3. \A d \in Doms : row[d].rec = NoRec /\ ~Present(d) BY DEF Init, Blank, Present, LiveStatuses
<1>4. rc.pc = "idle" /\ rc.todo = {} BY DEF Init, RcIdle
<1>5. ~Mine(NoRec) BY DomainAssumptions DEF Mine
<1> QED BY <1>1, <1>2, <1>3, <1>4, <1>5
       DEF FileInv, CreatedBorn, NamesApart, RowsFiled, SnapsTrue, WorkSound, CreatedOnFile

\* No record NurProxy created ever drops off file, whatever domains come and go, whatever the
\* operator does to records and however often the provider refuses, while nothing but the
\* reconciler writes record ids and neither an answer, a statement nor the process is lost
\* (reconciler.go, reconcileDeletions and reconcileDNS).
THEOREM FiledCorrect == ASSUME Quiet PROVE Spec => []CreatedOnFile
<1>1. Init => FileInv BY FilesBegin
<1>2. IInv /\ FileInv /\ [Next]_vars => FileInv' BY FilesStay
<1>3. FileInv => CreatedOnFile BY DEF FileInv
<1>4. Spec => []IInv BY Invariance
<1> QED BY <1>1, <1>2, <1>3, <1>4, PTL DEF Spec
================================================================================
