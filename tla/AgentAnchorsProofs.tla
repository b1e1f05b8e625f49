-------------------------- MODULE AgentAnchorsProofs --------------------------
(* Proofs about the address records of agents, for any agents, names, addresses   *)
(* and worlds, under every event: nothing NurProxy made is lost track of, and       *)
(* nothing in use is deleted.                                                        *)
EXTENDS AgentAnchors, TLAPS, SequenceTheorems

Pcs == {"idle", "finalize", "domains", "list", "anchors", "create", "store", "cleanup", "delete", "remove"}
Cycles == [pc : Pcs, rows : [Agents -> Rows \cup {NoRow}], todo : SUBSET (Agents \cup Cleanups),
           a : Agents \cup Cleanups \cup {Nowhere}, rec : 0..MaxRecords, owned : BOOLEAN]

\* The provider, the domains, the cycle and the request.
OutsideInv ==
    /\ record \in Seq(Records) /\ Len(record) <= MaxRecords
    /\ domain \in [Agents -> [state : {"none", "kept", "deleting"}, target : Names \cup {Nowhere}]]
    /\ \A a \in Agents : domain[a].state = "kept" => agent[a] # NoRow
    /\ request = NoOne \/ (request.a \in Agents /\ request.row \in Rows)
    /\ cycle \in Cycles

\* The rows of agents: the names are unique, and a record on file has the name of its
\* agent, is NurProxy's if it says so, and is not queued as well.
RowsInv ==
    /\ agent \in [Agents -> Rows \cup {NoRow}]
    /\ \A a, b \in Agents : agent[a] # NoRow /\ agent[b] # NoRow /\ agent[a].fqdn = agent[b].fqdn => a = b
    /\ \A a \in Agents : agent[a] # NoRow /\ agent[a].rec # 0 =>
          /\ agent[a].rec \in DOMAIN record /\ record[agent[a].rec].name = agent[a].fqdn
          /\ agent[a].owned => record[agent[a].rec].by = "nurproxy"
          /\ \A c \in cleanups : c.rec # agent[a].rec

\* The queue: a record is queued once, and is NurProxy's if it says so.
QueueInv ==
    /\ cleanups \subseteq Cleanups
    /\ \A c \in cleanups : c.rec \in DOMAIN record /\ (c.owned => record[c.rec].by = "nurproxy")
    /\ \A c, d \in cleanups : c.rec = d.rec => c = d

\* While a cycle sees to the agents' records: only it stores ids, so that an agent it
\* found without one has none still, and one it has just created is nobody's.
Adopted(a) == Row(a) \in Rows /\ Row(a).ip # NoAddress
NotYet(a) == Adopted(a) /\ Row(a).rec = 0 /\ (agent[a] = NoRow \/ agent[a].rec = 0)
EnsureInv ==
    /\ cycle.pc \in {"anchors", "create", "store"} =>
          /\ cycle.todo \subseteq Agents
          /\ \A a \in cycle.todo : Adopted(a) /\ (Row(a).rec = 0 => NotYet(a))
    /\ cycle.pc \in {"create", "store"} => cycle.a \in Agents \ cycle.todo /\ NotYet(cycle.a)
    /\ cycle.pc = "store" =>
          /\ cycle.rec \in DOMAIN record /\ record[cycle.rec].name = Row(cycle.a).fqdn
          /\ cycle.owned => /\ record[cycle.rec].by = "nurproxy"
                            /\ \A c \in cleanups : c.rec # cycle.rec
                            /\ \A a \in Agents : agent[a] # NoRow => agent[a].rec # cycle.rec

\* While a cycle works through the queue: only it takes records out, so that what it
\* listed is queued still; and what it has decided to delete no CNAME leads to.
Listed(c) ==
    /\ c \in Cleanups
    /\ c.rec \in DOMAIN record /\ (c.owned => record[c.rec].by = "nurproxy")
    /\ \E d \in cleanups : d.rec = c.rec
CleanInv ==
    /\ cycle.pc \in {"cleanup", "delete", "remove"} =>
          /\ \A c \in cycle.todo : Listed(c)
          /\ \A c, d \in cycle.todo : c.rec = d.rec => c = d
          /\ \A a \in Agents : Row(a) = NoRow => domain[a].state # "kept"
    /\ cycle.pc \in {"delete", "remove"} => \A c \in cycle.todo : c.rec # cycle.a.rec
    /\ cycle.pc = "delete" =>
          /\ Listed(cycle.a) /\ cycle.a.owned
          /\ cycle.a.reason # "delete" => ~Targeted(cycle.a)
    /\ cycle.pc = "remove" => cycle.a \in Cleanups /\ cycle.a.rec \in DOMAIN record /\ ~record[cycle.a.rec].live

AnchorInv == OutsideInv /\ RowsInv /\ QueueInv /\ EnsureInv /\ CleanInv /\ AnchorsOnFile
-----------------------------------------------------------------------------
(* Steps of the cycle, and what there is of records. *)

LEMMA Kinds ==
    /\ NoRow \notin Rows /\ MaxRecords \in Nat
    /\ \A r \in Rows : r.fqdn \in Names /\ r.rec \in 0..MaxRecords /\ r.owned \in BOOLEAN
                       /\ r.ip \in Addresses \cup {NoAddress} /\ r # NoRow
    /\ \A c \in Cleanups : c.agent \in Agents /\ c.fqdn \in Names /\ c.rec \in 1..MaxRecords /\ c.owned \in BOOLEAN
BY AnchorAssumptions DEF Rows, Cleanups

LEMMA RecordsAre ==
    ASSUME record \in Seq(Records), Len(record) <= MaxRecords
    PROVE  /\ Len(record) \in 0..MaxRecords /\ DOMAIN record = 1..Len(record)
           /\ \A i \in DOMAIN record : /\ record[i] \in Records /\ record[i].by \in {"nurproxy", "operator"}
                                       /\ i \in 1..MaxRecords
<1>1. MaxRecords \in Nat /\ Len(record) \in Nat /\ DOMAIN record = 1..Len(record)
    BY AnchorAssumptions
<1>2. \A i \in DOMAIN record : record[i] \in Records
    BY <1>1
<1>3. \A r \in Records : r.by \in {"nurproxy", "operator"}
    BY DEF Records
<1>4. \A i \in 1..Len(record) : i \in 1..MaxRecords
    BY <1>1
<1> QED BY <1>1, <1>2, <1>3, <1>4

LEMMA OffIs == Off \in Cycles /\ Off.pc = "idle"
<1>1. Off = [pc |-> "idle", rows |-> [a \in Agents |-> NoRow], todo |-> {}, a |-> Nowhere, rec |-> 0, owned |-> FALSE]
    BY DEF Off
<1>2. /\ [a \in Agents |-> NoRow] \in [Agents -> Rows \cup {NoRow}] /\ {} \in SUBSET (Agents \cup Cleanups)
      /\ 0 \in 0..MaxRecords /\ "idle" \in Pcs
    BY Kinds DEF Pcs
<1> QED BY <1>1, <1>2 DEF Cycles

LEMMA GoesIs ==
    ASSUME cycle \in Cycles, NEW pc \in Pcs
    PROVE  /\ Goes(pc) \in Cycles /\ Goes(pc).pc = pc /\ Goes(pc).rows = cycle.rows /\ Goes(pc).todo = cycle.todo
           /\ Goes(pc).a = cycle.a /\ Goes(pc).rec = cycle.rec /\ Goes(pc).owned = cycle.owned
BY DEF Goes, Cycles

LEMMA Next1Is ==
    ASSUME cycle \in Cycles, NEW x
    PROVE  /\ Next1(x) \in Cycles /\ Next1(x).pc = cycle.pc /\ Next1(x).rows = cycle.rows
           /\ Next1(x).todo = cycle.todo \ {x}
           /\ Next1(x).a = cycle.a /\ Next1(x).rec = cycle.rec /\ Next1(x).owned = cycle.owned
BY DEF Next1, Cycles

LEMMA CycleIs ==
    ASSUME cycle \in Cycles
    PROVE  /\ cycle.pc \in Pcs /\ cycle.rows \in [Agents -> Rows \cup {NoRow}]
           /\ cycle.todo \in SUBSET (Agents \cup Cleanups) /\ cycle.a \in Agents \cup Cleanups \cup {Nowhere}
           /\ cycle.rec \in 0..MaxRecords /\ cycle.owned \in BOOLEAN
BY DEF Cycles

\* What happens to records: they come to be, change what they say, or go; they keep their
\* names and whose they are.
Evolves ==
    /\ record' \in Seq(Records) /\ Len(record) <= Len(record') /\ Len(record') <= MaxRecords
    /\ \A i \in DOMAIN record :
          /\ record'[i].name = record[i].name /\ record'[i].by = record[i].by
          /\ record'[i].live => record[i].live

LEMMA EvolvesSubset ==
    ASSUME OutsideInv, Evolves PROVE DOMAIN record \subseteq DOMAIN record'
<1>1. DOMAIN record = 1..Len(record) /\ DOMAIN record' = 1..Len(record') /\ Len(record) \in Nat /\ Len(record') \in Nat
    BY DEF OutsideInv, Evolves
<1> QED BY <1>1 DEF Evolves

LEMMA GoneEvolves ==
    ASSUME OutsideInv, NEW i \in DOMAIN record, record' = Gone(i)
    PROVE  Evolves /\ DOMAIN record' = DOMAIN record /\ ~record'[i].live
<1>1. record \in [1..Len(record) -> Records] /\ DOMAIN record = 1..Len(record) /\ Len(record) \in Nat
    BY DEF OutsideInv
<1> DEFINE r == [record[i] EXCEPT !.live = FALSE]
<1>2. r \in Records /\ ~r.live /\ r.name = record[i].name /\ r.by = record[i].by
    BY <1>1 DEF Records
<1>3. record' = [record EXCEPT ![i] = r]
    BY DEF Gone
<1> HIDE DEF r
<1>4. record' \in Seq(Records) /\ Len(record') = Len(record) /\ DOMAIN record' = DOMAIN record
    BY <1>1, <1>2, <1>3, ExceptSeq DEF OutsideInv
<1>5. \A j \in DOMAIN record : record'[j] = IF j = i THEN r ELSE record[j]
    BY <1>1, <1>3
<1>6. record'[i] = r /\ \A j \in DOMAIN record : j # i => record'[j] = record[j]
    BY <1>5
<1>7. Len(record) <= Len(record') /\ Len(record') <= MaxRecords
    BY <1>1, <1>4 DEF OutsideInv
<1>8. ASSUME NEW j \in DOMAIN record
      PROVE  /\ record'[j].name = record[j].name /\ record'[j].by = record[j].by
             /\ record'[j].live => record[j].live
    BY <1>2, <1>6
<1> QED BY <1>2, <1>4, <1>6, <1>7, <1>8 DEF Evolves

LEMMA MadeEvolves ==
    ASSUME OutsideInv, Len(record) < MaxRecords, NEW n \in Names, NEW ip \in Addresses,
           NEW by \in {"nurproxy", "operator"}, record' = Made(n, ip, by)
    PROVE  /\ Evolves /\ Len(record) + 1 \notin DOMAIN record
           /\ DOMAIN record' = DOMAIN record \cup {Len(record) + 1}
           /\ record'[Len(record) + 1].name = n /\ record'[Len(record) + 1].by = by
<1> DEFINE r == [name |-> n, kind |-> "A", content |-> ip, by |-> by, live |-> TRUE]
<1>1. r \in Records /\ r.name = n /\ r.by = by
    BY DEF Records
<1>2. record' = Append(record, r)
    BY DEF Made
<1> HIDE DEF r
<1>3. /\ record \in Seq(Records) /\ Len(record) \in Nat /\ MaxRecords \in Nat
      /\ DOMAIN record = 1..Len(record)
    BY Kinds DEF OutsideInv
<1>4. /\ record' \in Seq(Records) /\ Len(record') = Len(record) + 1
      /\ \A i \in 1..Len(record) : record'[i] = record[i]
      /\ record'[Len(record) + 1] = r
    BY <1>1, <1>2, <1>3, AppendProperties
<1>5. DOMAIN record' = 1..(Len(record) + 1)
    BY <1>3, <1>4
<1> QED BY <1>1, <1>3, <1>4, <1>5 DEF Evolves

\* The rows and the queue, as records come and go.
LEMMA EvolvesKeeps ==
    ASSUME OutsideInv, RowsInv, QueueInv, Evolves, UNCHANGED <<agent, cleanups>>
    PROVE  RowsInv' /\ QueueInv'
<1>1. DOMAIN record \subseteq DOMAIN record'
    BY EvolvesSubset
<1>2. RowsInv'
    BY <1>1 DEF RowsInv, Evolves
<1>3. QueueInv'
    BY <1>1 DEF QueueInv, Evolves
<1> QED BY <1>2, <1>3

\* And what is on file: what is made is the operator's, is about to be stored, or is astray.
LEMMA EvolvesOnFile ==
    ASSUME OutsideInv, AnchorsOnFile, Evolves, UNCHANGED <<agent, cleanups>>, astray \subseteq astray',
           \A i \in DOMAIN record' \ DOMAIN record :
               record'[i].by # "nurproxy" \/ i \in astray' \/ (cycle'.pc = "store" /\ cycle'.rec = i /\ cycle'.owned),
           cycle.pc = "store" => cycle' = cycle
    PROVE  AnchorsOnFile'
<1> SUFFICES ASSUME NEW i \in DOMAIN record', record'[i].live, i \notin astray', record'[i].by = "nurproxy"
             PROVE  \/ \E a \in Agents : agent'[a] # NoRow /\ agent'[a].rec = i /\ agent'[a].owned
                    \/ \E c \in cleanups' : c.rec = i /\ c.owned
                    \/ cycle'.pc = "store" /\ cycle'.rec = i /\ cycle'.owned
    BY DEF AnchorsOnFile, Live, Reads
<1>1. CASE i \in DOMAIN record
    <2>1. i \in Live \ astray /\ record[i].by = "nurproxy"
        BY <1>1 DEF Evolves, Live
    <2> QED BY <2>1 DEF AnchorsOnFile, Reads
<1>2. CASE i \notin DOMAIN record
    BY <1>2
<1> QED BY <1>1, <1>2

\* And the cycle.
LEMMA EvolvesCycle ==
    ASSUME OutsideInv, Evolves, UNCHANGED <<agent, cleanups, domain, cycle>>
    PROVE  (EnsureInv => EnsureInv') /\ (CleanInv => CleanInv')
<1>1. DOMAIN record \subseteq DOMAIN record'
    BY EvolvesSubset
<1>2. ASSUME EnsureInv PROVE EnsureInv'
    <2>1. \A a \in Agents : NotYet(a)' = NotYet(a) /\ Adopted(a)' = Adopted(a)
        BY DEF NotYet, Adopted, Row
    <2> QED BY <1>1, <1>2, <2>1 DEF EnsureInv, Evolves, Row, NotYet, Adopted
<1>3. ASSUME CleanInv PROVE CleanInv'
    <2>1. \A c : Listed(c) => Listed(c)'
        BY <1>1 DEF Listed, Evolves
    <2>2. \A c : Targeted(c)' = Targeted(c)
        BY DEF Targeted
    <2> QED BY <1>1, <1>3, <2>1, <2>2 DEF CleanInv, Evolves, Row
<1> QED BY <1>2, <1>3
-----------------------------------------------------------------------------
(* The beginning. *)

LEMMA AnchorStart == AnchorInit => AnchorInv
<1> SUFFICES ASSUME NEW w \in Worlds, agent = w.agent, record = w.record,
                    domain = [a \in Agents |-> IF a \in w.domains THEN [state |-> "kept", target |-> w.agent[a].fqdn]
                                                                  ELSE [state |-> "none", target |-> Nowhere]],
                    cleanups = {}, cycle = Off, request = NoOne, astray = {}
             PROVE  AnchorInv
    BY DEF AnchorInit
<1>1. SoundWorld(w) /\ w.agent \in [Agents -> Rows \cup {NoRow}] /\ w.record \in Seq(Records) /\ w.domains \subseteq Agents
    BY AnchorAssumptions DEF AnchorWorlds
<1>2. \A a \in w.domains : agent[a] # NoRow /\ agent[a] \in Rows /\ agent[a].fqdn \in Names
    BY <1>1, Kinds DEF SoundWorld
<1>3. domain \in [Agents -> [state : {"none", "kept", "deleting"}, target : Names \cup {Nowhere}]]
    BY <1>2
<1>4. \A a \in Agents : domain[a].state = "kept" => agent[a] # NoRow
    BY <1>2
<1>5. OutsideInv
    BY <1>1, <1>3, <1>4, OffIs DEF OutsideInv, SoundWorld
<1>6. RowsInv
    BY <1>1 DEF RowsInv, SoundWorld
<1>7. QueueInv
    BY DEF QueueInv
<1>8. EnsureInv /\ CleanInv
    BY OffIs DEF EnsureInv, CleanInv
<1>9. AnchorsOnFile
    BY <1>1 DEF AnchorsOnFile, SoundWorld, Live
<1> QED BY <1>5, <1>6, <1>7, <1>8, <1>9 DEF AnchorInv
-----------------------------------------------------------------------------
(* What the API writes. *)

Entry(a, reason) == [agent |-> a, fqdn |-> agent[a].fqdn, rec |-> agent[a].rec,
                     owned |-> agent[a].owned, reason |-> reason, old |-> FALSE]
Entries(R, reason) == {Entry(a, reason) : a \in {b \in R : agent[b].rec # 0}}

LEMMA EntryIs ==
    ASSUME NEW a \in Agents, agent[a] \in Rows, agent[a].rec # 0, NEW reason \in {"rename", "delete"}
    PROVE  /\ Entry(a, reason) \in Cleanups /\ Entry(a, reason).rec = agent[a].rec
           /\ Entry(a, reason).owned = agent[a].owned
<1>1. agent[a].fqdn \in Names /\ agent[a].rec \in 0..MaxRecords /\ agent[a].owned \in BOOLEAN /\ MaxRecords \in Nat
    BY Kinds
<1>2. agent[a].rec \in 1..MaxRecords
    BY <1>1
<1> QED BY <1>1, <1>2 DEF Entry, Cleanups

LEMMA ReleasedIs ==
    ASSUME RowsInv, NEW a \in Agents, agent[a] # NoRow, NEW reason
    PROVE  Released(a, reason) = cleanups \cup Entries({a}, reason)
<1>1. CASE agent[a].rec = 0
    <2>1. Entries({a}, reason) = {}
        BY <1>1 DEF Entries
    <2> QED BY <1>1, <2>1 DEF Released
<1>2. CASE agent[a].rec # 0
    <2>1. Entries({a}, reason) = {Entry(a, reason)}
        BY <1>2 DEF Entries
    <2>2. \A d \in cleanups : d.rec # agent[a].rec
        BY <1>2 DEF RowsInv
    <2>3. Entry(a, reason).rec = agent[a].rec
        BY DEF Entry
    <2>4. Released(a, reason) = Queued(cleanups, Entry(a, reason))
        BY <1>2 DEF Released, Entry
    <2>5. Queued(cleanups, Entry(a, reason)) = cleanups \cup {Entry(a, reason)}
        BY <2>2, <2>3 DEF Queued
    <2> QED BY <2>1, <2>4, <2>5
<1> QED BY <1>1, <1>2

\* The agents of R lose their records to the queue; the others keep theirs.
Loses(R, reason) ==
    /\ R \subseteq Agents /\ reason \in {"rename", "delete"} /\ \A a \in R : agent[a] # NoRow
    /\ agent' \in [Agents -> Rows \cup {NoRow}]
    /\ \A a, b \in Agents : agent'[a] # NoRow /\ agent'[b] # NoRow /\ agent'[a].fqdn = agent'[b].fqdn => a = b
    /\ \A a \in Agents : agent'[a] # NoRow /\ agent'[a].rec # 0 =>
          /\ a \notin R /\ agent[a] # NoRow
          /\ agent'[a].rec = agent[a].rec /\ agent'[a].owned = agent[a].owned /\ agent'[a].fqdn = agent[a].fqdn
    /\ \A a \in Agents \ R : agent[a] # NoRow => agent'[a] # NoRow
    /\ \A a \in Agents \ R : agent[a] # NoRow /\ agent[a].rec # 0 =>
          agent'[a].rec = agent[a].rec /\ agent'[a].owned = agent[a].owned
    /\ cleanups' = cleanups \cup Entries(R, reason)

\* Where a queued record comes from.
LEMMA LostFrom ==
    ASSUME RowsInv, NEW R, NEW reason, Loses(R, reason)
    PROVE  /\ \A c \in cleanups' : c \in cleanups \/ \E a \in R : agent[a].rec # 0 /\ c = Entry(a, reason)
           /\ \A a \in R : agent[a].rec # 0 => Entry(a, reason) \in cleanups'
           /\ cleanups \subseteq cleanups'
           /\ \A a \in R : agent[a].rec # 0 =>
                 /\ a \in Agents /\ agent[a] \in Rows /\ Entry(a, reason) \in Cleanups
                 /\ Entry(a, reason).rec = agent[a].rec /\ Entry(a, reason).owned = agent[a].owned
<1>1. \A c \in cleanups' : c \in cleanups \/ \E a \in R : agent[a].rec # 0 /\ c = Entry(a, reason)
    BY DEF Loses, Entries
<1>2. (\A a \in R : agent[a].rec # 0 => Entry(a, reason) \in cleanups') /\ cleanups \subseteq cleanups'
    BY DEF Loses, Entries
<1>3. ASSUME NEW a \in R, agent[a].rec # 0
      PROVE  /\ a \in Agents /\ agent[a] \in Rows /\ Entry(a, reason) \in Cleanups
             /\ Entry(a, reason).rec = agent[a].rec /\ Entry(a, reason).owned = agent[a].owned
    <2>1. a \in Agents /\ agent[a] \in Rows /\ reason \in {"rename", "delete"}
        BY DEF Loses, RowsInv
    <2> QED BY <1>3, <2>1, EntryIs
<1> QED BY <1>1, <1>2, <1>3

LEMMA LosesKeeps ==
    ASSUME OutsideInv, RowsInv, QueueInv, NEW R, NEW reason, Loses(R, reason), UNCHANGED record
    PROVE  RowsInv' /\ QueueInv'
<1>1. /\ \A c \in cleanups' : c \in cleanups \/ \E a \in R : agent[a].rec # 0 /\ c = Entry(a, reason)
      /\ \A a \in R : agent[a].rec # 0 =>
            /\ a \in Agents /\ agent[a] \in Rows /\ Entry(a, reason) \in Cleanups
            /\ Entry(a, reason).rec = agent[a].rec /\ Entry(a, reason).owned = agent[a].owned
    BY LostFrom
<1>2. \A a \in R : agent[a] # NoRow /\ a \in Agents
    BY DEF Loses
\* A record has one name, and a name one agent.
<1>3. ASSUME NEW a \in Agents, NEW b \in Agents, agent[a] # NoRow, agent[b] # NoRow,
             agent[a].rec # 0, agent[a].rec = agent[b].rec
      PROVE  a = b
    <2>1. record[agent[a].rec].name = agent[a].fqdn /\ record[agent[b].rec].name = agent[b].fqdn
        BY <1>3 DEF RowsInv
    <2> QED BY <1>3, <2>1 DEF RowsInv
<1>4. ASSUME NEW a \in Agents, agent'[a] # NoRow, agent'[a].rec # 0
      PROVE  /\ agent'[a].rec \in DOMAIN record /\ record[agent'[a].rec].name = agent'[a].fqdn
             /\ agent'[a].owned => record[agent'[a].rec].by = "nurproxy"
             /\ \A c \in cleanups' : c.rec # agent'[a].rec
    <2>1. /\ a \notin R /\ agent[a] # NoRow
          /\ agent'[a].rec = agent[a].rec /\ agent'[a].owned = agent[a].owned /\ agent'[a].fqdn = agent[a].fqdn
        BY <1>4 DEF Loses
    <2>2. /\ agent[a].rec \in DOMAIN record /\ record[agent[a].rec].name = agent[a].fqdn
          /\ agent[a].owned => record[agent[a].rec].by = "nurproxy"
          /\ \A c \in cleanups : c.rec # agent[a].rec
        BY <1>4, <2>1 DEF RowsInv
    <2>3. ASSUME NEW c \in cleanups' PROVE c.rec # agent[a].rec
        <3>1. CASE c \in cleanups
            BY <2>2, <3>1
        <3>2. ASSUME NEW b \in R, agent[b].rec # 0, c = Entry(b, reason) PROVE c.rec # agent[a].rec
            BY <1>1, <1>2, <1>3, <2>1, <3>2
        <3> QED BY <1>1, <3>1, <3>2
    <2> QED BY <2>1, <2>2, <2>3
<1>5. RowsInv'
    BY <1>4 DEF RowsInv, Loses
<1>6. ASSUME NEW c \in cleanups'
      PROVE  c \in Cleanups /\ c.rec \in DOMAIN record /\ (c.owned => record[c.rec].by = "nurproxy")
    <2>1. CASE c \in cleanups
        BY <2>1 DEF QueueInv
    <2>2. ASSUME NEW a \in R, agent[a].rec # 0, c = Entry(a, reason)
          PROVE  c \in Cleanups /\ c.rec \in DOMAIN record /\ (c.owned => record[c.rec].by = "nurproxy")
        BY <1>1, <1>2, <2>2 DEF RowsInv
    <2> QED BY <1>1, <2>1, <2>2
<1>7. ASSUME NEW c \in cleanups', NEW d \in cleanups', c.rec = d.rec PROVE c = d
    <2>1. CASE c \in cleanups /\ d \in cleanups
        BY <1>7, <2>1 DEF QueueInv
    <2>2. ASSUME NEW e \in cleanups, NEW a \in R, agent[a].rec # 0 PROVE e.rec # Entry(a, reason).rec
        BY <1>1, <1>2, <2>2 DEF RowsInv
    <2>3. ASSUME NEW a \in R, agent[a].rec # 0, c = Entry(a, reason),
                 NEW b \in R, agent[b].rec # 0, d = Entry(b, reason) PROVE c = d
        BY <1>1, <1>2, <1>3, <1>7, <2>3
    <2> QED BY <1>1, <1>7, <2>1, <2>2, <2>3
<1>8. QueueInv'
    BY <1>6, <1>7 DEF QueueInv
<1> QED BY <1>5, <1>8

LEMMA LosesOnFile ==
    ASSUME RowsInv, AnchorsOnFile, OutsideInv, NEW R, NEW reason, Loses(R, reason), UNCHANGED <<record, astray>>,
           cycle.pc = "store" => cycle' = cycle
    PROVE  AnchorsOnFile'
<1> SUFFICES ASSUME NEW i \in Live \ astray, record[i].by = "nurproxy"
             PROVE  \/ \E a \in Agents : agent'[a] # NoRow /\ agent'[a].rec = i /\ agent'[a].owned
                    \/ \E c \in cleanups' : c.rec = i /\ c.owned
                    \/ cycle'.pc = "store" /\ cycle'.rec = i /\ cycle'.owned
    BY DEF AnchorsOnFile, Live, Reads
<1>1. i # 0
    BY RecordsAre DEF Live, OutsideInv
<1>2. ASSUME NEW a \in Agents, agent[a] # NoRow, agent[a].rec = i, agent[a].owned
      PROVE  \/ agent'[a] # NoRow /\ agent'[a].rec = i /\ agent'[a].owned
             \/ \E c \in cleanups' : c.rec = i /\ c.owned
    <2>1. CASE a \in R
        BY <1>1, <1>2, <2>1, LostFrom
    <2>2. CASE a \notin R
        BY <1>1, <1>2, <2>2 DEF Loses
    <2> QED BY <2>1, <2>2
<1>3. cleanups \subseteq cleanups'
    BY LostFrom
<1> QED BY <1>2, <1>3 DEF AnchorsOnFile, Reads

LEMMA LosesCycle ==
    ASSUME OutsideInv, RowsInv, QueueInv, NEW R, NEW reason, Loses(R, reason), UNCHANGED <<record, cycle>>
    PROVE  /\ EnsureInv => EnsureInv'
           /\ CleanInv /\ UNCHANGED domain => CleanInv'
<1>1. \A a \in Agents : agent'[a] = NoRow \/ agent'[a].rec = 0
                        \/ (agent[a] # NoRow /\ agent'[a].rec = agent[a].rec)
    BY DEF Loses
<1>2. \A c \in cleanups' : c \in cleanups \/ \E a \in Agents : agent[a] # NoRow /\ agent[a].rec = c.rec
    BY LostFrom DEF Loses
<1>3. ASSUME EnsureInv PROVE EnsureInv'
    <2>1. ASSUME NEW a \in Agents, NotYet(a) PROVE NotYet(a)'
        BY <1>1, <2>1 DEF NotYet, Adopted, Row
    <2>2. /\ cycle.pc \in {"anchors", "create", "store"} =>
                /\ cycle.todo \subseteq Agents
                /\ \A a \in cycle.todo : Adopted(a)' /\ (cycle.rows[a].rec = 0 => NotYet(a)')
          /\ cycle.pc \in {"create", "store"} => cycle.a \in Agents \ cycle.todo /\ NotYet(cycle.a)'
        BY <1>3, <2>1 DEF EnsureInv, Adopted, Row
    <2>3. ASSUME cycle.pc = "store", cycle.owned
          PROVE  /\ \A c \in cleanups' : c.rec # cycle.rec
                 /\ \A a \in Agents : agent'[a] # NoRow => agent'[a].rec # cycle.rec
        <3>1. cycle.rec # 0
            BY <1>3, <2>3, RecordsAre DEF EnsureInv, OutsideInv
        <3> QED BY <1>1, <1>2, <1>3, <2>3, <3>1 DEF EnsureInv
    <2> QED BY <1>3, <2>2, <2>3 DEF EnsureInv, Row
<1>4. ASSUME CleanInv, UNCHANGED domain PROVE CleanInv'
    <2>1. cleanups \subseteq cleanups'
        BY LostFrom
    <2>2. \A c : Listed(c) => Listed(c)'
        BY <2>1 DEF Listed
    <2>3. \A c : Targeted(c)' = Targeted(c)
        BY <1>4 DEF Targeted
    <2> QED BY <1>4, <2>2, <2>3 DEF CleanInv, Row
<1> QED BY <1>3, <1>4

\* A row written whole, or in part, that keeps what the row has on file.
LEMMA KeptLoses ==
    ASSUME RowsInv, NEW a \in Agents, NEW row \in Rows, agent' = [agent EXCEPT ![a] = row], UNCHANGED cleanups,
           \A b \in Agents \ {a} : agent[b] # NoRow => agent[b].fqdn # row.fqdn,
           row.rec # 0 => agent[a] # NoRow /\ row.fqdn = agent[a].fqdn,
           agent[a] # NoRow => row.rec = agent[a].rec /\ row.owned = agent[a].owned
    PROVE  Loses({}, "rename")
<1>1. agent \in [Agents -> Rows \cup {NoRow}] /\ row # NoRow
    BY Kinds DEF RowsInv
<1>2. agent' \in [Agents -> Rows \cup {NoRow}] /\ agent'[a] = row /\ \A b \in Agents \ {a} : agent'[b] = agent[b]
    BY <1>1
<1>3. Entries({}, "rename") = {}
    BY DEF Entries
<1>4. \A b, c \in Agents : agent'[b] # NoRow /\ agent'[c] # NoRow /\ agent'[b].fqdn = agent'[c].fqdn => b = c
    BY <1>2 DEF RowsInv
<1> QED BY <1>1, <1>2, <1>3, <1>4 DEF Loses

LEMMA RegisterLoses ==
    ASSUME RowsInv, NEW a \in Agents, NEW n \in Names, Register(a, n) PROVE Loses({}, "rename")
<1>1. PICK ip \in Addresses \cup {NoAddress} :
          agent' = [agent EXCEPT ![a] = [fqdn |-> n, pending |-> TRUE, ip |-> ip, rec |-> 0, owned |-> FALSE]]
    BY DEF Register
<1> DEFINE row == [fqdn |-> n, pending |-> TRUE, ip |-> ip, rec |-> 0, owned |-> FALSE]
<1>2. row \in Rows /\ row.rec = 0 /\ row.fqdn = n
    BY Kinds DEF Rows
<1>3. agent[a] = NoRow /\ \A b \in Agents \ {a} : agent[b] # NoRow => agent[b].fqdn # n
    BY DEF Register, Taken
<1>4. UNCHANGED cleanups
    BY DEF Register
<1>5. agent' = [agent EXCEPT ![a] = row]
    BY <1>1
<1> HIDE DEF row
<1> QED BY <1>2, <1>3, <1>4, <1>5, KeptLoses

LEMMA HeartbeatLoses ==
    ASSUME RowsInv, NEW a \in Agents, NEW ip \in Addresses, Heartbeat(a, ip) PROVE Loses({}, "rename")
<1>1. agent[a] # NoRow /\ agent[a] \in Rows /\ agent \in [Agents -> Rows \cup {NoRow}]
    BY DEF Heartbeat, RowsInv
<1> DEFINE row == [agent[a] EXCEPT !.ip = ip]
<1>2. /\ row \in Rows /\ row.rec = agent[a].rec /\ row.owned = agent[a].owned /\ row.fqdn = agent[a].fqdn
    BY <1>1 DEF Rows
<1>3. agent' = [agent EXCEPT ![a] = row] /\ UNCHANGED cleanups
    BY <1>1 DEF Heartbeat
<1>4. \A b \in Agents \ {a} : agent[b] # NoRow => agent[b].fqdn # row.fqdn
    BY <1>1, <1>2 DEF RowsInv
<1> HIDE DEF row
<1> QED BY <1>1, <1>2, <1>3, <1>4, KeptLoses

LEMMA WriteLoses ==
    ASSUME RowsInv, OutsideInv, NEW n \in Names, WriteAgent(n)
    PROVE  /\ \E R \in SUBSET Agents : Loses(R, "rename")
           /\ \A b \in Agents : agent[b] # NoRow => agent'[b] # NoRow
<1> DEFINE a == request.a
           row == [request.row EXCEPT !.fqdn = n, !.pending = FALSE]
<1>1. a \in Agents /\ request.row \in Rows /\ agent \in [Agents -> Rows \cup {NoRow}]
    BY DEF WriteAgent, OutsideInv, RowsInv
<1>2. row \in Rows /\ row.fqdn = n
    BY <1>1 DEF Rows
<1>3. CASE ~(agent[a] # NoRow /\ ~Taken(n, a))
    <2>1. UNCHANGED <<agent, cleanups>> /\ Entries({}, "rename") = {}
        BY <1>3 DEF WriteAgent, Entries
    <2>2. Loses({}, "rename")
        BY <2>1 DEF Loses, RowsInv
    <2> QED BY <2>1, <2>2
<1>4. CASE agent[a] # NoRow /\ ~Taken(n, a)
    <2> DEFINE renamed == agent[a].fqdn # row.fqdn
               new == [row EXCEPT !.rec = IF renamed THEN 0 ELSE agent[a].rec,
                                  !.owned = ~renamed /\ agent[a].owned]
    <2>1. agent[a] \in Rows /\ agent[a].rec \in 0..MaxRecords /\ agent[a].owned \in BOOLEAN /\ 0 \in 0..MaxRecords
        BY <1>1, <1>4, Kinds
    <2>2. agent' = [agent EXCEPT ![a] = new] /\ cleanups' = IF renamed THEN Released(a, "rename") ELSE cleanups
        BY <1>4 DEF WriteAgent, UpdateAgent
    <2>3. /\ new \in Rows /\ new.fqdn = n
          /\ renamed => new.rec = 0
          /\ ~renamed => new.rec = agent[a].rec /\ new.owned = agent[a].owned
        <3> HIDE DEF row, renamed
        <3>1. row \in Rows /\ (IF renamed THEN 0 ELSE agent[a].rec) \in 0..MaxRecords
              /\ (~renamed /\ agent[a].owned) \in BOOLEAN
            BY <1>2, <2>1
        <3> QED BY <1>2, <2>1, <3>1 DEF Rows
    <2>4. \A b \in Agents \ {a} : agent[b] # NoRow => agent[b].fqdn # n
        BY <1>4 DEF Taken
    <2>5. renamed <=> agent[a].fqdn # n
        BY <1>2
    <2> HIDE DEF new, renamed, row, a
    <2>6. CASE renamed
        <3>1. cleanups' = cleanups \cup Entries({a}, "rename")
            BY <1>1, <1>4, <2>2, <2>6, ReleasedIs
        <3>2. agent' \in [Agents -> Rows \cup {NoRow}] /\ agent'[a] = new /\ \A b \in Agents \ {a} : agent'[b] = agent[b]
            BY <1>1, <2>2, <2>3
        <3>3. \A b, c \in Agents : agent'[b] # NoRow /\ agent'[c] # NoRow /\ agent'[b].fqdn = agent'[c].fqdn => b = c
            BY <2>3, <2>4, <3>2 DEF RowsInv
        <3>4. Loses({a}, "rename")
            BY <1>1, <1>4, <2>3, <2>6, <3>1, <3>2, <3>3 DEF Loses
        <3> QED BY <1>1, <2>3, <3>2, <3>4, Kinds
    <2>7. CASE ~renamed
        <3>1. Loses({}, "rename")
            BY <1>1, <1>4, <2>2, <2>3, <2>4, <2>5, <2>7, KeptLoses
        <3> QED BY <1>1, <2>2, <2>3, <3>1, Kinds
    <2> QED BY <2>6, <2>7
<1> QED BY <1>3, <1>4

LEMMA DeleteLoses ==
    ASSUME RowsInv, NEW A \in SUBSET Agents, DeleteAgent(A)
    PROVE  Loses({a \in A : agent[a] # NoRow}, "delete")
<1> DEFINE R == {a \in A : agent[a] # NoRow}
<1>1. agent' = [a \in Agents |-> IF a \in A THEN NoRow ELSE agent[a]] /\ agent \in [Agents -> Rows \cup {NoRow}]
    BY DEF DeleteAgent, RowsInv
<1>2. cleanups' = cleanups \cup UNION {Released(a, "delete") : a \in R}
    BY DEF DeleteAgent
<1>3. \A a \in R : Released(a, "delete") = cleanups \cup Entries({a}, "delete")
    BY ReleasedIs
<1>4. \A a \in R : Entries({a}, "delete") = IF agent[a].rec = 0 THEN {} ELSE {Entry(a, "delete")}
    BY DEF Entries
<1>5. cleanups' = cleanups \cup Entries(R, "delete")
    <2> HIDE DEF R
    <2>1. ASSUME NEW c \in cleanups' PROVE c \in cleanups \/ \E a \in R : agent[a].rec # 0 /\ c = Entry(a, "delete")
        <3>1. c \in cleanups \/ \E a \in R : c \in Released(a, "delete")
            BY <1>2
        <3>2. ASSUME NEW a \in R, c \in Released(a, "delete") PROVE c \in cleanups \/ (agent[a].rec # 0 /\ c = Entry(a, "delete"))
            BY <1>3, <1>4, <3>2
        <3> QED BY <3>1, <3>2
    <2>2. ASSUME NEW a \in R, agent[a].rec # 0 PROVE Entry(a, "delete") \in cleanups'
        <3>1. Entry(a, "delete") \in Released(a, "delete")
            BY <1>3, <1>4, <2>2
        <3> QED BY <1>2, <3>1
    <2>3. cleanups \subseteq cleanups'
        BY <1>2
    <2> QED BY <2>1, <2>2, <2>3 DEF Entries
<1>6. \A a \in Agents : agent'[a] = IF a \in A THEN NoRow ELSE agent[a]
    BY <1>1
<1>7. agent' \in [Agents -> Rows \cup {NoRow}]
    BY <1>1
<1>8. \A a, b \in Agents : agent'[a] # NoRow /\ agent'[b] # NoRow /\ agent'[a].fqdn = agent'[b].fqdn => a = b
    BY <1>6 DEF RowsInv
<1> QED BY <1>5, <1>6, <1>7, <1>8 DEF Loses
-----------------------------------------------------------------------------
(* The API's steps. *)

\* A step of the API, or of time, that the cycle sees nothing of.
LEMMA OutsideKeeps ==
    ASSUME AnchorInv, NEW R, NEW reason, Loses(R, reason), UNCHANGED <<record, domain, cycle, astray>>,
           request' = NoOne \/ (request'.a \in Agents /\ request'.row \in Rows),
           \A a \in R : domain[a].state # "kept" \/ agent'[a] # NoRow
    PROVE  AnchorInv'
<1>1. \A a \in Agents : domain[a].state = "kept" => agent'[a] # NoRow
    <2>1. \A a \in Agents \ R : agent[a] # NoRow => agent'[a] # NoRow
        BY DEF Loses
    <2> QED BY <2>1 DEF AnchorInv, OutsideInv
<1>2. OutsideInv'
    BY <1>1 DEF AnchorInv, OutsideInv
<1>3. RowsInv' /\ QueueInv'
    BY LosesKeeps DEF AnchorInv
<1>4. EnsureInv' /\ CleanInv'
    BY LosesCycle DEF AnchorInv
<1>5. AnchorsOnFile'
    BY LosesOnFile DEF AnchorInv
<1> QED BY <1>2, <1>3, <1>4, <1>5 DEF AnchorInv

LEMMA ApiKeeps ==
    ASSUME AnchorInv, NEW a \in Agents
    PROVE  /\ \A n \in Names : Register(a, n) => AnchorInv'
           /\ ReadAgent(a) => AnchorInv'
           /\ \A n \in Names : WriteAgent(n) => AnchorInv'
           /\ Delete(a) => AnchorInv'
           /\ \A ip \in Addresses : Heartbeat(a, ip) => AnchorInv'
<1> RowsInv /\ OutsideInv
    BY DEF AnchorInv
<1>1. ASSUME NEW n \in Names, Register(a, n) PROVE AnchorInv'
    <2>1. Loses({}, "rename")
        BY <1>1, RegisterLoses
    <2>2. UNCHANGED <<record, domain, cycle, astray, request>>
        BY <1>1 DEF Register
    <2> QED BY <2>1, <2>2, OutsideKeeps DEF OutsideInv
<1>2. ASSUME ReadAgent(a) PROVE AnchorInv'
    <2>1. UNCHANGED <<agent, cleanups, record, domain, cycle, astray>>
        BY <1>2 DEF ReadAgent, dbVars
    <2>2. request'.a \in Agents /\ request'.row \in Rows
        BY <1>2 DEF ReadAgent, RowsInv
    <2>3. Loses({}, "rename")
        BY <2>1 DEF Loses, RowsInv, Entries
    <2> QED BY <2>1, <2>2, <2>3, OutsideKeeps
<1>3. ASSUME NEW n \in Names, WriteAgent(n) PROVE AnchorInv'
    <2>1. \E R \in SUBSET Agents : Loses(R, "rename")
        BY <1>3, WriteLoses
    <2>2. \A b \in Agents : agent[b] # NoRow => agent'[b] # NoRow
        BY <1>3, WriteLoses
    <2>3. PICK R \in SUBSET Agents : Loses(R, "rename")
        BY <2>1
    <2>4. UNCHANGED <<record, domain, cycle, astray>> /\ request' = NoOne
        BY <1>3 DEF WriteAgent
    <2>5. \A b \in R : agent'[b] # NoRow
        BY <2>2, <2>3 DEF Loses
    <2> QED BY <2>3, <2>4, <2>5, OutsideKeeps
<1>4. ASSUME Delete(a) PROVE AnchorInv'
    <2>1. DeleteAgent({a}) /\ UNCHANGED <<record, domain, cycle, astray, request>> /\ domain[a].state = "none"
        BY <1>4 DEF Delete
    <2>2. Loses({b \in {a} : agent[b] # NoRow}, "delete")
        BY <2>1, DeleteLoses
    <2>3. \A b \in {c \in {a} : agent[c] # NoRow} : domain[b].state # "kept"
        BY <2>1
    <2> QED BY <2>1, <2>2, <2>3, OutsideKeeps DEF OutsideInv
<1>5. ASSUME NEW ip \in Addresses, Heartbeat(a, ip) PROVE AnchorInv'
    <2>1. Loses({}, "rename")
        BY <1>5, HeartbeatLoses
    <2>2. UNCHANGED <<record, domain, cycle, astray, request>>
        BY <1>5 DEF Heartbeat
    <2> QED BY <2>1, <2>2, OutsideKeeps DEF OutsideInv
<1> QED BY <1>1, <1>2, <1>3, <1>4, <1>5

\* The queue is the same, but that its entries are older.
LEMMA AgeKeeps == ASSUME AnchorInv, NEW c \in cleanups, Age(c) PROVE AnchorInv'
<1> DEFINE d == [c EXCEPT !.old = TRUE]
<1>1. c \in Cleanups /\ d \in Cleanups /\ d.rec = c.rec /\ d.owned = c.owned
    BY DEF AnchorInv, QueueInv, Cleanups
<1>2. cleanups' = (cleanups \ {c}) \cup {d} /\ UNCHANGED <<agent, record, domain, cycle, request, astray>>
    BY DEF Age
<1> HIDE DEF d
<1>3. \A e \in cleanups' : \E f \in cleanups : e.rec = f.rec /\ e.owned = f.owned
    BY <1>1, <1>2
<1>4. \A f \in cleanups : \E e \in cleanups' : e.rec = f.rec /\ e.owned = f.owned
    BY <1>1, <1>2
<1>5. OutsideInv'
    BY <1>2 DEF AnchorInv, OutsideInv
<1>6. RowsInv'
    BY <1>2, <1>3 DEF AnchorInv, RowsInv
<1>7. QueueInv'
    BY <1>1, <1>2 DEF AnchorInv, QueueInv
<1>8. EnsureInv'
    <2>1. \A x \in Agents : NotYet(x)' = NotYet(x) /\ Adopted(x)' = Adopted(x)
        BY <1>2 DEF NotYet, Adopted, Row
    <2> QED BY <1>2, <1>3, <2>1 DEF AnchorInv, EnsureInv, Row, NotYet, Adopted
<1>9. CleanInv'
    <2>1. \A e : Listed(e) => Listed(e)'
        BY <1>2, <1>4 DEF Listed
    <2>2. \A e : Targeted(e)' = Targeted(e)
        BY <1>2 DEF Targeted
    <2> QED BY <1>2, <2>1, <2>2 DEF AnchorInv, CleanInv, Row
<1>10. AnchorsOnFile'
    BY <1>2, <1>4 DEF AnchorInv, AnchorsOnFile, Live, Reads
<1> QED BY <1>5, <1>6, <1>7, <1>8, <1>9, <1>10 DEF AnchorInv

LEMMA CascadeKeeps == ASSUME AnchorInv, NEW a \in Agents, CascadeDelete(a) PROVE AnchorInv'
<1>1. domain' = [domain EXCEPT ![a].state = "deleting"] /\ UNCHANGED <<agent, cleanups, record, cycle, request, astray>>
    BY DEF CascadeDelete
<1>2. /\ domain' \in [Agents -> [state : {"none", "kept", "deleting"}, target : Names \cup {Nowhere}]]
      /\ \A b \in Agents : domain'[b].state = "kept" => domain[b].state = "kept"
      /\ \A b \in Agents : domain'[b].target = domain[b].target
    BY <1>1 DEF AnchorInv, OutsideInv
<1>3. OutsideInv'
    BY <1>1, <1>2 DEF AnchorInv, OutsideInv
<1>4. RowsInv' /\ QueueInv' /\ AnchorsOnFile'
    BY <1>1 DEF AnchorInv, RowsInv, QueueInv, AnchorsOnFile, Live, Reads
<1>5. EnsureInv'
    BY <1>1 DEF AnchorInv, EnsureInv, NotYet, Adopted, Row
<1>6. CleanInv'
    <2>1. \A c : Listed(c)' = Listed(c)
        BY <1>1 DEF Listed
    <2>2. \A c \in Cleanups : Targeted(c)' => Targeted(c)
        BY <1>2, Kinds DEF Targeted
    <2>3. cycle.pc = "delete" => cycle.a \in Cleanups
        BY DEF AnchorInv, CleanInv, Listed
    <2> QED BY <1>1, <1>2, <2>1, <2>2, <2>3 DEF AnchorInv, CleanInv, Row
<1> QED BY <1>3, <1>4, <1>5, <1>6 DEF AnchorInv

LEMMA EditsKeep == ASSUME AnchorInv, OperatorEdits PROVE AnchorInv'
<1> OutsideInv /\ RowsInv /\ QueueInv /\ AnchorsOnFile
    BY DEF AnchorInv
<1>1. UNCHANGED <<agent, cleanups, domain, cycle, request, astray>>
    BY DEF OperatorEdits, dbVars
<1>2. Evolves /\ \A i \in DOMAIN record' \ DOMAIN record : record'[i].by # "nurproxy"
    <2>1. CASE \E i \in Live : record' = Gone(i)
        BY <2>1, GoneEvolves DEF Live
    <2>2. CASE Len(record) < MaxRecords /\ \E n \in Names, ip \in Addresses : record' = Made(n, ip, "operator")
        BY <2>2, MadeEvolves
    <2> QED BY <2>1, <2>2 DEF OperatorEdits
<1>3. OutsideInv'
    BY <1>1, <1>2 DEF OutsideInv, Evolves
<1>4. RowsInv' /\ QueueInv'
    BY <1>1, <1>2, EvolvesKeeps
<1>5. AnchorsOnFile'
    BY <1>1, <1>2, EvolvesOnFile
<1>6. EnsureInv' /\ CleanInv'
    BY <1>1, <1>2, EvolvesCycle DEF AnchorInv
<1> QED BY <1>3, <1>4, <1>5, <1>6 DEF AnchorInv
-----------------------------------------------------------------------------
(* The cycle's steps. *)

\* Where nothing but the cycle's place changes, and its part of the invariant holds there.
LEMMA CycleKeeps ==
    ASSUME AnchorInv, UNCHANGED <<agent, cleanups, record, domain, request>>, astray \subseteq astray',
           cycle' \in Cycles, EnsureInv', CleanInv', cycle.pc # "store"
    PROVE  AnchorInv'
<1>1. OutsideInv' /\ RowsInv' /\ QueueInv'
    BY DEF AnchorInv, OutsideInv, RowsInv, QueueInv
<1>2. AnchorsOnFile'
    BY DEF AnchorInv, AnchorsOnFile, Live, Reads
<1> QED BY <1>1, <1>2 DEF AnchorInv

LEMMA TearDownKeeps == ASSUME AnchorInv, TearDown PROVE AnchorInv'
<1>1. cycle.pc = "idle" /\ cycle' = Goes("finalize") /\ UNCHANGED <<agent, cleanups, record, request, astray>>
    BY DEF TearDown, Reads, dbVars
<1>2. cycle' \in Cycles /\ cycle'.pc = "finalize"
    BY <1>1, GoesIs DEF AnchorInv, OutsideInv, Pcs
<1>3. /\ domain' \in [Agents -> [state : {"none", "kept", "deleting"}, target : Names \cup {Nowhere}]]
      /\ \A a \in Agents : domain'[a].state = "kept" => domain[a].state = "kept"
    <2>1. CASE domain' = domain
        BY <2>1 DEF AnchorInv, OutsideInv
    <2>2. CASE domain' = [a \in Agents |-> IF domain[a].state = "deleting" THEN [state |-> "none", target |-> Nowhere] ELSE domain[a]]
        BY <2>2 DEF AnchorInv, OutsideInv
    <2> QED BY <2>1, <2>2 DEF TearDown
<1>4. OutsideInv' /\ RowsInv' /\ QueueInv'
    BY <1>1, <1>2, <1>3 DEF AnchorInv, OutsideInv, RowsInv, QueueInv
<1>5. EnsureInv' /\ CleanInv'
    BY <1>2 DEF EnsureInv, CleanInv
<1>6. AnchorsOnFile'
    BY <1>1 DEF AnchorInv, AnchorsOnFile, Live, Reads
<1> QED BY <1>4, <1>5, <1>6 DEF AnchorInv

LEMMA FinalizeKeeps == ASSUME AnchorInv, doomed \subseteq Agents, Finalize PROVE AnchorInv'
<1> RowsInv /\ OutsideInv /\ QueueInv /\ AnchorsOnFile
    BY DEF AnchorInv
<1> DEFINE A == {a \in doomed : domain[a].state = "none"}
<1>1. cycle.pc = "finalize" /\ cycle' = Goes("domains") /\ UNCHANGED <<record, domain, request, astray>>
    BY DEF Finalize, Reads
<1>2. DeleteAgent(A)
    BY DEF Finalize, DeleteAgent
<1>3. Loses({a \in A : agent[a] # NoRow}, "delete")
    BY <1>2, DeleteLoses
<1>4. cycle' \in Cycles /\ cycle'.pc = "domains"
    BY <1>1, GoesIs DEF OutsideInv, Pcs
<1>5. \A a \in Agents : domain[a].state = "kept" => agent'[a] # NoRow
    BY <1>3 DEF OutsideInv, Loses
<1>6. OutsideInv'
    BY <1>1, <1>4, <1>5 DEF OutsideInv
<1>7. RowsInv' /\ QueueInv'
    BY <1>1, <1>3, LosesKeeps
<1>8. AnchorsOnFile'
    BY <1>1, <1>3, LosesOnFile
<1>9. EnsureInv' /\ CleanInv'
    BY <1>4 DEF EnsureInv, CleanInv
<1> QED BY <1>6, <1>7, <1>8, <1>9 DEF AnchorInv

LEMMA RetargetKeeps == ASSUME AnchorInv, Retarget PROVE AnchorInv'
<1>1. cycle.pc = "domains" /\ cycle' = Goes("list") /\ UNCHANGED <<agent, cleanups, record, request, astray>>
    BY DEF Retarget, Reads, dbVars
<1>2. cycle' \in Cycles /\ cycle'.pc = "list"
    BY <1>1, GoesIs DEF AnchorInv, OutsideInv, Pcs
<1> DEFINE behind == {a \in Agents : domain[a].state = "kept" /\ domain[a].target # agent[a].fqdn}
<1>3. /\ domain' \in [Agents -> [state : {"none", "kept", "deleting"}, target : Names \cup {Nowhere}]]
      /\ \A a \in Agents : domain'[a].state = "kept" => domain[a].state = "kept"
    <2>1. CASE domain' = domain
        BY <2>1 DEF AnchorInv, OutsideInv
    <2>2. CASE domain' = [a \in Agents |-> IF a \in behind THEN [domain[a] EXCEPT !.target = agent[a].fqdn] ELSE domain[a]]
        <3>1. \A a \in behind : agent[a] # NoRow /\ agent[a] \in Rows /\ agent[a].fqdn \in Names
            BY Kinds DEF AnchorInv, OutsideInv, RowsInv
        <3>2. \A a \in Agents : domain[a] \in [state : {"none", "kept", "deleting"}, target : Names \cup {Nowhere}]
            BY DEF AnchorInv, OutsideInv
        <3> HIDE DEF behind
        <3>3. \A a \in behind \cap Agents : /\ [domain[a] EXCEPT !.target = agent[a].fqdn] \in [state : {"none", "kept", "deleting"}, target : Names \cup {Nowhere}]
                                /\ [domain[a] EXCEPT !.target = agent[a].fqdn].state = domain[a].state
            BY <3>1, <3>2
        <3> QED BY <2>2, <3>2, <3>3
    <2> QED BY <2>1, <2>2 DEF Retarget
<1>4. OutsideInv' /\ RowsInv' /\ QueueInv'
    BY <1>1, <1>2, <1>3 DEF AnchorInv, OutsideInv, RowsInv, QueueInv
<1>5. EnsureInv' /\ CleanInv'
    BY <1>2 DEF EnsureInv, CleanInv
<1>6. AnchorsOnFile'
    BY <1>1 DEF AnchorInv, AnchorsOnFile, Live, Reads
<1> QED BY <1>4, <1>5, <1>6 DEF AnchorInv

LEMMA ListAgentsKeeps == ASSUME AnchorInv, ListAgents PROVE AnchorInv'
<1> DEFINE todo == {a \in Agents : agent[a] # NoRow /\ ~agent[a].pending /\ agent[a].ip # NoAddress}
<1>1. cycle.pc = "list" /\ cycle' = [Goes("anchors") EXCEPT !.rows = agent, !.todo = todo]
      /\ UNCHANGED <<agent, cleanups, record, domain, request, astray>>
    BY DEF ListAgents, Reads, dbVars
<1>2. Goes("anchors") \in Cycles /\ Goes("anchors").pc = "anchors"
    BY GoesIs DEF AnchorInv, OutsideInv, Pcs
<1>3. agent \in [Agents -> Rows \cup {NoRow}] /\ todo \in SUBSET Agents
    BY DEF AnchorInv, RowsInv
<1>4. \A a \in todo : agent[a] \in Rows /\ agent[a].ip # NoAddress
    BY <1>3
<1> HIDE DEF todo
<1>5. cycle' \in Cycles /\ cycle'.pc = "anchors" /\ cycle'.rows = agent /\ cycle'.todo = todo
    BY <1>1, <1>2, <1>3 DEF Cycles
<1>6. EnsureInv'
    BY <1>1, <1>3, <1>4, <1>5 DEF EnsureInv, NotYet, Adopted, Row
<1>7. CleanInv'
    BY <1>5 DEF CleanInv
<1> QED BY <1>1, <1>5, <1>6, <1>7, CycleKeeps

\* Done with one agent.
LEMMA DoneWithOne ==
    ASSUME AnchorInv, cycle.pc = "anchors", NEW a, cycle' = Next1(a), UNCHANGED <<agent, cleanups>>
    PROVE  cycle' \in Cycles /\ cycle'.pc = "anchors" /\ EnsureInv' /\ CleanInv'
<1>1. cycle' \in Cycles /\ cycle'.pc = "anchors" /\ cycle'.rows = cycle.rows /\ cycle'.todo = cycle.todo \ {a}
    BY Next1Is DEF AnchorInv, OutsideInv
<1>2. EnsureInv'
    BY <1>1 DEF AnchorInv, EnsureInv, NotYet, Adopted, Row
<1>3. CleanInv'
    BY <1>1 DEF CleanInv
<1> QED BY <1>1, <1>2, <1>3

LEMMA LookUpKeeps == ASSUME AnchorInv, NEW a \in Agents, LookUp(a) PROVE AnchorInv'
<1>1. /\ cycle.pc = "anchors" /\ a \in cycle.todo /\ Row(a).rec = 0
      /\ UNCHANGED <<agent, cleanups, record, domain, request, astray>>
    BY DEF LookUp, Reads, dbVars
<1>2. cycle \in Cycles /\ cycle.todo \subseteq Agents /\ NotYet(a)
    BY <1>1 DEF AnchorInv, OutsideInv, EnsureInv
<1>3. /\ Next1(a) \in Cycles /\ Next1(a).pc = "anchors" /\ Next1(a).rows = cycle.rows /\ Next1(a).todo = cycle.todo \ {a}
    BY <1>1, <1>2, Next1Is
<1>4. CASE cycle' = Next1(a)
    BY <1>1, <1>4, DoneWithOne, CycleKeeps
<1>5. ASSUME NEW i \in At(Row(a).fqdn, "A"),
             cycle' = [Next1(a) EXCEPT !.pc = "store", !.a = a, !.rec = i, !.owned = FALSE]
      PROVE  AnchorInv'
    <2>1. i \in DOMAIN record /\ record[i].name = Row(a).fqdn /\ i \in 0..MaxRecords
        <3>1. i \in DOMAIN record /\ record[i].name = Row(a).fqdn
            BY DEF At, Live
        <3> QED BY <3>1, RecordsAre DEF AnchorInv, OutsideInv
    <2>2. /\ cycle' \in Cycles /\ cycle'.pc = "store" /\ cycle'.rows = cycle.rows /\ cycle'.todo = cycle.todo \ {a}
          /\ cycle'.a = a /\ cycle'.rec = i /\ cycle'.owned = FALSE
        BY <1>3, <1>5, <2>1 DEF Cycles, Pcs
    <2>3. EnsureInv'
        BY <1>1, <1>2, <2>1, <2>2 DEF AnchorInv, EnsureInv, NotYet, Adopted, Row
    <2>4. CleanInv'
        BY <2>2 DEF CleanInv
    <2> QED BY <1>1, <2>2, <2>3, <2>4, CycleKeeps
<1>6. CASE cycle' = [Next1(a) EXCEPT !.pc = "create", !.a = a]
    <2>1. /\ cycle' \in Cycles /\ cycle'.pc = "create" /\ cycle'.rows = cycle.rows /\ cycle'.todo = cycle.todo \ {a}
          /\ cycle'.a = a
        BY <1>3, <1>6 DEF Cycles, Pcs
    <2>2. EnsureInv'
        BY <1>1, <1>2, <2>1 DEF AnchorInv, EnsureInv, NotYet, Adopted, Row
    <2>3. CleanInv'
        BY <2>1 DEF CleanInv
    <2> QED BY <1>1, <2>1, <2>2, <2>3, CycleKeeps
<1> QED BY <1>4, <1>5, <1>6 DEF LookUp

LEMMA CreateKeeps == ASSUME AnchorInv, Create PROVE AnchorInv'
<1> OutsideInv /\ RowsInv /\ QueueInv /\ AnchorsOnFile
    BY DEF AnchorInv
<1> DEFINE row == Row(cycle.a)
           id == Len(record) + 1
<1>1. /\ cycle.pc = "create" /\ Len(record) < MaxRecords /\ UNCHANGED <<agent, cleanups, domain, request>>
    BY DEF Create, Reads, dbVars
<1>2. /\ cycle \in Cycles /\ cycle.todo \subseteq Agents /\ cycle.a \in Agents \ cycle.todo /\ NotYet(cycle.a)
      /\ \A a \in cycle.todo : Adopted(a) /\ (Row(a).rec = 0 => NotYet(a))
    BY <1>1 DEF AnchorInv, OutsideInv, EnsureInv
<1>3. row.fqdn \in Names /\ row.ip \in Addresses
    BY <1>2, Kinds DEF NotYet, Adopted
<1>4. record' = Made(row.fqdn, row.ip, "nurproxy") =>
          /\ Evolves /\ id \notin DOMAIN record /\ DOMAIN record' = DOMAIN record \cup {id}
          /\ record'[id].name = row.fqdn /\ record'[id].by = "nurproxy"
    BY <1>1, <1>3, MadeEvolves
<1>5. record' = record => Evolves
    BY DEF OutsideInv, Evolves
<1> HIDE DEF row
<1>6. CASE /\ record' = Made(row.fqdn, row.ip, "nurproxy")
           /\ cycle' = [Goes("store") EXCEPT !.rec = id, !.owned = TRUE] /\ UNCHANGED astray
    <2>1. id \in DOMAIN record' /\ id \in 0..MaxRecords
        <3>1. Len(record) \in Nat /\ MaxRecords \in Nat
            BY Kinds DEF OutsideInv
        <3> QED BY <1>1, <1>4, <1>6, <3>1
    <2>2. /\ Goes("store") \in Cycles /\ Goes("store").pc = "store" /\ Goes("store").rows = cycle.rows
          /\ Goes("store").todo = cycle.todo /\ Goes("store").a = cycle.a
        BY <1>2, GoesIs DEF Pcs
    <2> HIDE DEF id
    <2>3. /\ cycle' \in Cycles /\ cycle'.pc = "store" /\ cycle'.rows = cycle.rows /\ cycle'.todo = cycle.todo
          /\ cycle'.a = cycle.a /\ cycle'.rec = id /\ cycle'.owned = TRUE
        BY <1>6, <2>1, <2>2 DEF Cycles
    <2>4. id # 0
        BY DEF id, OutsideInv
    <2>5. /\ \A c \in cleanups : c.rec # id
          /\ \A a \in Agents : agent[a] # NoRow => agent[a].rec # id
        BY <1>4, <1>6, <2>4 DEF RowsInv, QueueInv
    <2>6. EnsureInv'
        BY <1>1, <1>2, <1>4, <1>6, <2>1, <2>3, <2>5 DEF EnsureInv, NotYet, Adopted, Row, row
    <2>7. CleanInv'
        BY <2>3 DEF CleanInv
    <2>8. OutsideInv'
        BY <1>1, <1>4, <1>6, <2>3 DEF OutsideInv, Evolves
    <2>9. AnchorsOnFile'
        BY <1>1, <1>4, <1>6, <2>3, EvolvesOnFile
    <2> QED BY <1>1, <1>4, <1>6, <2>6, <2>7, <2>8, <2>9, EvolvesKeeps DEF AnchorInv
<1>7. CASE /\ cycle' = Goes("anchors")
           /\ \/ UNCHANGED <<record, astray>>
              \/ record' = Made(row.fqdn, row.ip, "nurproxy") /\ astray' = astray \cup {id}
    <2>1. /\ cycle' \in Cycles /\ cycle'.pc = "anchors" /\ cycle'.rows = cycle.rows /\ cycle'.todo = cycle.todo
        BY <1>2, <1>7, GoesIs DEF Pcs
    <2>2. EnsureInv'
        BY <1>1, <1>2, <2>1 DEF EnsureInv, NotYet, Adopted, Row
    <2>3. CleanInv'
        BY <2>1 DEF CleanInv
    <2> HIDE DEF id
    <2>4. Evolves /\ astray \subseteq astray' /\ \A i \in DOMAIN record' \ DOMAIN record : i \in astray'
        BY <1>4, <1>5, <1>7
    <2>5. OutsideInv'
        BY <1>1, <2>1, <2>4 DEF OutsideInv, Evolves
    <2>6. AnchorsOnFile'
        BY <1>1, <2>4, EvolvesOnFile
    <2> QED BY <1>1, <2>2, <2>3, <2>4, <2>5, <2>6, EvolvesKeeps DEF AnchorInv
<1> QED BY <1>6, <1>7 DEF Create, row

LEMMA FollowKeeps == ASSUME AnchorInv, NEW a \in Agents, Follow(a) PROVE AnchorInv'
<1> OutsideInv /\ RowsInv /\ QueueInv /\ AnchorsOnFile
    BY DEF AnchorInv
<1>1. /\ cycle.pc = "anchors" /\ a \in cycle.todo /\ cycle' = Next1(a)
      /\ UNCHANGED <<agent, cleanups, domain, request, astray>>
    BY DEF Follow, Reads, dbVars
<1>2. Row(a) \in Rows /\ Row(a).ip \in Addresses
    BY <1>1, Kinds DEF AnchorInv, EnsureInv, Adopted
<1>3. Evolves /\ DOMAIN record' = DOMAIN record
    <2>1. CASE record' = record
        BY <2>1 DEF Evolves, OutsideInv
    <2>2. CASE Row(a).rec \in Live /\ record' = [record EXCEPT ![Row(a).rec].content = Row(a).ip]
        <3> DEFINE i == Row(a).rec
                   r == [record[i] EXCEPT !.content = Row(a).ip]
        <3>1. i \in DOMAIN record /\ record \in [1..Len(record) -> Records] /\ DOMAIN record = 1..Len(record)
              /\ Len(record) \in Nat
            BY <2>2 DEF Live, OutsideInv
        <3>2. r \in Records /\ r.name = record[i].name /\ r.by = record[i].by /\ r.live = record[i].live
            BY <1>2, <3>1 DEF Records
        <3>3. record' = [record EXCEPT ![i] = r]
            BY <2>2, <3>1
        <3> HIDE DEF r, i
        <3>4. record' \in Seq(Records) /\ Len(record') = Len(record) /\ DOMAIN record' = DOMAIN record
            BY <3>1, <3>2, <3>3, ExceptSeq DEF OutsideInv
        <3>5. record'[i] = r /\ \A j \in DOMAIN record : j # i => record'[j] = record[j]
            BY <3>1, <3>3
        <3>6. Len(record) <= Len(record') /\ Len(record') <= MaxRecords
            BY <3>1, <3>4 DEF OutsideInv
        <3>7. ASSUME NEW j \in DOMAIN record
              PROVE  /\ record'[j].name = record[j].name /\ record'[j].by = record[j].by
                     /\ record'[j].live => record[j].live
            BY <3>2, <3>5
        <3> QED BY <3>4, <3>6, <3>7 DEF Evolves
    <2> QED BY <2>1, <2>2 DEF Follow
<1>4. cycle' \in Cycles /\ cycle'.pc = "anchors" /\ EnsureInv' /\ CleanInv'
    BY <1>1, DoneWithOne
<1>5. OutsideInv'
    BY <1>1, <1>3, <1>4 DEF OutsideInv, Evolves
<1>6. AnchorsOnFile'
    BY <1>1, <1>3, EvolvesOnFile
<1> QED BY <1>1, <1>3, <1>4, <1>5, <1>6, EvolvesKeeps DEF AnchorInv

\* What the database says of a record and its agent, once stored.
LEMMA SetKeeps ==
    ASSUME AnchorInv, cycle.pc = "store", SetAgentAnchorRecord(cycle.a, Row(cycle.a).fqdn, cycle.rec, cycle.owned),
           UNCHANGED <<record, astray>>, cycle'.pc # "store"
    PROVE  /\ RowsInv' /\ QueueInv' /\ AnchorsOnFile'
           /\ \A a \in Agents : agent[a] # NoRow => agent'[a] # NoRow
           /\ \A a \in Agents \ {cycle.a} : agent'[a] = agent[a]
<1> RowsInv /\ OutsideInv /\ QueueInv /\ EnsureInv /\ AnchorsOnFile
    BY DEF AnchorInv
<1> DEFINE a == cycle.a
           i == cycle.rec
           fqdn == Row(a).fqdn
           back == Reclaimed(i, cycle.owned)
           owned == cycle.owned \/ \E c \in back : c.owned
           rest == cleanups \ back
<1>1. /\ a \in Agents /\ NotYet(a) /\ Row(a) \in Rows /\ fqdn \in Names
      /\ i \in DOMAIN record /\ record[i].name = fqdn /\ i \in 1..MaxRecords /\ i # 0
    <2>1. a \in Agents /\ NotYet(a) /\ i \in DOMAIN record /\ record[i].name = fqdn
        BY DEF EnsureInv
    <2>2. i \in 1..MaxRecords
        BY <2>1, RecordsAre DEF OutsideInv
    <2> QED BY <2>1, <2>2, Kinds DEF NotYet, Adopted
<1>2. /\ back \subseteq cleanups /\ \A c \in back : c.rec = i
      /\ \A c \in rest : c.rec # i
    BY DEF EnsureInv, Reclaimed
\* What is NurProxy's and was nobody's or queued, no agent has.
<1>3. /\ owned => record[i].by = "nurproxy"
      /\ owned => \A b \in Agents : agent[b] # NoRow => agent[b].rec # i
    <2>1. CASE cycle.owned
        BY <2>1 DEF EnsureInv
    <2>2. ASSUME NEW c \in back, c.owned
          PROVE  record[i].by = "nurproxy" /\ \A b \in Agents : agent[b] # NoRow => agent[b].rec # i
        BY <1>1, <1>2, <2>2 DEF RowsInv, QueueInv
    <2> QED BY <2>1, <2>2
<1>4. /\ \A c \in cleanups : c.rec = i /\ c.owned => c \in back
      /\ (\E c \in back : c.owned) => owned
    BY <1>2
<1>5. owned \in BOOLEAN
    BY CycleIs DEF OutsideInv
<1>6. IF agent[a] = NoRow \/ agent[a].fqdn # fqdn
      THEN cleanups' = Stale(rest, a, fqdn, i, owned) /\ UNCHANGED agent
      ELSE cleanups' = rest /\ agent' = [agent EXCEPT ![a].rec = i, ![a].owned = owned]
    BY DEF SetAgentAnchorRecord
<1>7. /\ rest \subseteq Cleanups
      /\ \A c \in rest : c.rec \in DOMAIN record /\ (c.owned => record[c.rec].by = "nurproxy")
      /\ \A c, d \in rest : c.rec = d.rec => c = d
    BY DEF QueueInv
\* Nothing but the record at hand has another keeper now.
<1>8. ASSUME \/ agent'[a] # NoRow /\ agent'[a].rec = i /\ (owned => agent'[a].owned)
             \/ owned => \E c \in cleanups' : c.rec = i /\ c.owned,
             rest \subseteq cleanups', \A b \in Agents \ {a} : agent'[b] = agent[b],
             agent'[a] = agent[a] \/ agent[a].rec = 0
      PROVE  AnchorsOnFile'
    <2> SUFFICES ASSUME NEW j \in Live \ astray, record[j].by = "nurproxy"
                 PROVE  \/ \E b \in Agents : agent'[b] # NoRow /\ agent'[b].rec = j /\ agent'[b].owned
                        \/ \E c \in cleanups' : c.rec = j /\ c.owned
        BY DEF AnchorsOnFile, Live, Reads
    <2>1. j # 0
        BY RecordsAre DEF Live, OutsideInv
    <2>2. ASSUME owned, j = i
          PROVE  \/ \E b \in Agents : agent'[b] # NoRow /\ agent'[b].rec = j /\ agent'[b].owned
                 \/ \E c \in cleanups' : c.rec = j /\ c.owned
        BY <1>1, <1>8, <2>2
    <2>3. ASSUME NEW b \in Agents, agent[b] # NoRow, agent[b].rec = j, agent[b].owned
          PROVE  agent'[b] # NoRow /\ agent'[b].rec = j /\ agent'[b].owned
        BY <1>8, <2>1, <2>3
    <2>4. ASSUME NEW c \in cleanups, c.rec = j, c.owned
          PROVE  (owned /\ j = i) \/ c \in cleanups'
        BY <1>2, <1>4, <1>8, <2>4
    <2>5. CASE cycle.rec = j /\ cycle.owned
        BY <2>2, <2>5
    <2> QED BY <2>2, <2>3, <2>4, <2>5 DEF AnchorsOnFile, Reads
<1>9. CASE agent[a] = NoRow \/ agent[a].fqdn # fqdn
    <2> DEFINE e == [agent |-> a, fqdn |-> fqdn, rec |-> i, owned |-> TRUE, reason |-> "stale", old |-> FALSE]
    <2>1. e \in Cleanups /\ e.rec = i /\ e.owned
        BY <1>1 DEF Cleanups
    <2>2. UNCHANGED agent
        BY <1>6, <1>9
    <2>3. cleanups' = IF owned THEN Queued(rest, e) ELSE rest
        <3> HIDE DEF owned, rest
        <3> QED BY <1>6, <1>9 DEF Stale
    <2> HIDE DEF e, owned, back, rest
    <2>4. Queued(rest, e) = rest \cup {e}
        BY <1>2, <2>1 DEF Queued
    <2>5. cleanups' = IF owned THEN rest \cup {e} ELSE rest
        BY <2>3, <2>4
    <2>6. rest \subseteq cleanups
        BY DEF rest
    <2>7. RowsInv'
        BY <1>3, <2>1, <2>2, <2>5, <2>6 DEF RowsInv
    <2>8. QueueInv'
        BY <1>1, <1>2, <1>3, <1>7, <2>1, <2>5 DEF QueueInv
    <2>9. AnchorsOnFile'
        BY <1>8, <2>1, <2>2, <2>5
    <2> QED BY <2>2, <2>7, <2>8, <2>9
<1>10. CASE agent[a] # NoRow /\ agent[a].fqdn = fqdn
    <2>1. /\ agent[a] \in Rows /\ agent[a].rec = 0 /\ agent \in [Agents -> Rows \cup {NoRow}]
        BY <1>1, <1>10 DEF RowsInv, NotYet
    <2>2. cleanups' = rest /\ agent' = [agent EXCEPT ![a].rec = i, ![a].owned = owned]
        BY <1>6, <1>10
    <2> DEFINE r == [agent[a] EXCEPT !.rec = i, !.owned = owned]
    <2> HIDE DEF owned, rest, back
    <2>3. r \in Rows /\ r.rec = i /\ r.owned = owned /\ r.fqdn = fqdn /\ r # NoRow
        <3>1. i \in 0..MaxRecords
            BY <1>1
        <3>2. r \in Rows /\ r.rec = i /\ r.owned = owned /\ r.fqdn = fqdn
            BY <1>5, <1>10, <2>1, <3>1 DEF Rows
        <3> QED BY <3>2, Kinds
    <2>4. agent' = [agent EXCEPT ![a] = r]
        BY <1>1, <2>1, <2>2
    <2> HIDE DEF r
    <2>5. /\ agent' \in [Agents -> Rows \cup {NoRow}] /\ agent'[a] = r
          /\ \A b \in Agents \ {a} : agent'[b] = agent[b]
        BY <1>1, <2>1, <2>3, <2>4
    <2>6. rest \subseteq cleanups
        BY DEF rest
    <2> HIDE DEF a, i, fqdn
    <2>7. \A b, c \in Agents : agent'[b] # NoRow /\ agent'[c] # NoRow /\ agent'[b].fqdn = agent'[c].fqdn => b = c
        <3>1. \A b \in Agents : agent'[b] # NoRow => agent[b] # NoRow /\ agent'[b].fqdn = agent[b].fqdn
            BY <1>10, <2>3, <2>5
        <3> QED BY <3>1 DEF RowsInv
    <2>8. \A b \in Agents : agent'[b] # NoRow /\ agent'[b].rec # 0 =>
              /\ agent'[b].rec \in DOMAIN record /\ record[agent'[b].rec].name = agent'[b].fqdn
              /\ agent'[b].owned => record[agent'[b].rec].by = "nurproxy"
              /\ \A c \in rest : c.rec # agent'[b].rec
        BY <1>1, <1>2, <1>3, <2>3, <2>5, <2>6 DEF RowsInv
    <2>9. RowsInv'
        BY <2>2, <2>5, <2>7, <2>8 DEF RowsInv
    <2>10. QueueInv'
        BY <1>7, <2>2 DEF QueueInv
    <2>11. AnchorsOnFile'
        BY <1>8, <2>1, <2>2, <2>3, <2>5
    <2> QED BY <1>1, <2>3, <2>5, <2>9, <2>10, <2>11 DEF a
<1> QED BY <1>9, <1>10

LEMMA StoreKeeps == ASSUME AnchorInv, Store PROVE AnchorInv'
<1> RowsInv /\ OutsideInv /\ QueueInv /\ EnsureInv /\ AnchorsOnFile
    BY DEF AnchorInv
<1>1. /\ cycle.pc = "store" /\ cycle' = Goes("anchors") /\ UNCHANGED <<record, domain, request>>
    BY DEF Store, Reads
<1>2. /\ cycle.todo \subseteq Agents /\ cycle.a \in Agents \ cycle.todo
      /\ \A a \in cycle.todo : Adopted(a) /\ (Row(a).rec = 0 => NotYet(a))
    BY <1>1 DEF EnsureInv
<1>3. cycle' \in Cycles /\ cycle'.pc = "anchors" /\ cycle'.rows = cycle.rows /\ cycle'.todo = cycle.todo
    BY <1>1, GoesIs DEF OutsideInv, Pcs
<1>4. ASSUME RowsInv', QueueInv', AnchorsOnFile', \A a \in Agents : agent[a] # NoRow => agent'[a] # NoRow,
             \A a \in Agents \ {cycle.a} : agent'[a] = agent[a]
      PROVE  AnchorInv'
    <2>1. OutsideInv'
        BY <1>1, <1>3, <1>4 DEF OutsideInv
    <2>2. EnsureInv'
        BY <1>2, <1>3, <1>4 DEF EnsureInv, NotYet, Adopted, Row
    <2>3. CleanInv'
        BY <1>3 DEF CleanInv
    <2> QED BY <1>4, <2>1, <2>2, <2>3 DEF AnchorInv
<1>5. CASE SetAgentAnchorRecord(cycle.a, Row(cycle.a).fqdn, cycle.rec, cycle.owned) /\ UNCHANGED astray
    BY <1>1, <1>3, <1>4, <1>5, SetKeeps
<1>6. CASE /\ astray' = (IF cycle.owned THEN astray \cup {cycle.rec} ELSE astray)
           /\ UNCHANGED <<agent, cleanups>>
    <2>1. RowsInv' /\ QueueInv'
        BY <1>1, <1>6 DEF RowsInv, QueueInv
    <2>2. AnchorsOnFile'
        BY <1>1, <1>6 DEF AnchorsOnFile, Live, Reads
    <2> QED BY <1>4, <1>6, <2>1, <2>2
<1> QED BY <1>5, <1>6 DEF Store

LEMMA ListCleanupsKeeps == ASSUME AnchorInv, ListCleanups PROVE AnchorInv'
<1> RowsInv /\ OutsideInv /\ QueueInv
    BY DEF AnchorInv
<1>1. cycle.pc = "anchors" /\ cycle' = [Goes("cleanup") EXCEPT !.rows = agent, !.todo = cleanups]
      /\ UNCHANGED <<agent, cleanups, record, domain, request, astray>>
    BY DEF ListCleanups, Reads, dbVars
<1>2. Goes("cleanup") \in Cycles /\ Goes("cleanup").pc = "cleanup"
    BY GoesIs DEF OutsideInv, Pcs
<1>3. cycle' \in Cycles /\ cycle'.pc = "cleanup" /\ cycle'.rows = agent /\ cycle'.todo = cleanups
    BY <1>1, <1>2 DEF Cycles, RowsInv, QueueInv
<1>4. EnsureInv'
    BY <1>3 DEF EnsureInv
<1>5. CleanInv'
    <2>1. \A c \in cleanups : Listed(c)'
        BY <1>1 DEF Listed, QueueInv
    <2> QED BY <1>1, <1>3, <2>1 DEF CleanInv, QueueInv, OutsideInv, Row
<1> QED BY <1>1, <1>3, <1>4, <1>5, CycleKeeps

LEMMA ExamineKeeps == ASSUME AnchorInv, NEW c \in Cleanups, Examine(c) PROVE AnchorInv'
<1> RowsInv /\ OutsideInv /\ QueueInv /\ CleanInv /\ AnchorsOnFile
    BY DEF AnchorInv
<1>1. cycle.pc = "cleanup" /\ c \in cycle.todo /\ UNCHANGED <<agent, record, domain, request, astray>>
    BY DEF Examine, Reads
<1>2. /\ Next1(c) \in Cycles /\ Next1(c).pc = "cleanup" /\ Next1(c).rows = cycle.rows /\ Next1(c).todo = cycle.todo \ {c}
    BY <1>1, Next1Is DEF OutsideInv
<1>3. /\ \A d \in cycle.todo : Listed(d)
      /\ \A d, e \in cycle.todo : d.rec = e.rec => d = e
      /\ \A a \in Agents : Row(a) = NoRow => domain[a].state # "kept"
    BY <1>1 DEF CleanInv
<1>4. CASE ~c.owned /\ cleanups' = cleanups \ {c} /\ cycle' = Next1(c)
    <2>1. ASSUME NEW d \in cycle.todo \ {c} PROVE Listed(d)'
        <3>1. Listed(d) /\ d.rec # c.rec
            BY <1>1, <1>3
        <3> QED BY <1>1, <1>4, <3>1 DEF Listed
    <2>2. CleanInv'
        BY <1>1, <1>2, <1>3, <1>4, <2>1 DEF CleanInv, Row
    <2>3. EnsureInv'
        BY <1>2, <1>4 DEF EnsureInv
    <2>4. OutsideInv' /\ RowsInv' /\ QueueInv'
        BY <1>1, <1>2, <1>4 DEF OutsideInv, RowsInv, QueueInv
    <2>5. AnchorsOnFile'
        BY <1>1, <1>4 DEF AnchorsOnFile, Live, Reads
    <2> QED BY <2>2, <2>3, <2>4, <2>5 DEF AnchorInv
<1>5. CASE cycle' = Next1(c) /\ UNCHANGED cleanups
    <2>1. \A d : Listed(d) => Listed(d)'
        BY <1>1, <1>5 DEF Listed
    <2>2. CleanInv'
        BY <1>1, <1>2, <1>3, <1>5, <2>1 DEF CleanInv, Row
    <2>3. EnsureInv'
        BY <1>2, <1>5 DEF EnsureInv
    <2> QED BY <1>1, <1>2, <1>5, <2>2, <2>3, CycleKeeps
<1>6. CASE c.owned /\ ~Needed(c) /\ cycle' = [Next1(c) EXCEPT !.pc = "delete", !.a = c] /\ UNCHANGED cleanups
    <2>1. cycle' \in Cycles /\ cycle'.pc = "delete" /\ cycle'.rows = cycle.rows /\ cycle'.todo = cycle.todo \ {c} /\ cycle'.a = c
        BY <1>2, <1>6 DEF Cycles, Pcs
    <2>2. \A d : Listed(d) => Listed(d)'
        BY <1>1, <1>6 DEF Listed
    <2>3. c.reason # "delete" => ~Targeted(c)
        <3>1. c.agent \in Agents
            BY Kinds
        <3>2. c.reason # "delete" => Row(c.agent) = NoRow \/ ~Targeted(c)
            BY <1>6 DEF Needed
        <3> QED BY <1>3, <3>1, <3>2 DEF Targeted
    <2>4. Targeted(c)' = Targeted(c)
        BY <1>1 DEF Targeted
    <2>5. CleanInv'
        BY <1>1, <1>3, <1>6, <2>1, <2>2, <2>3, <2>4 DEF CleanInv, Row, Targeted
    <2>6. EnsureInv'
        BY <2>1 DEF EnsureInv
    <2> QED BY <1>1, <1>6, <2>1, <2>5, <2>6, CycleKeeps
<1> QED BY <1>4, <1>5, <1>6 DEF Examine

LEMMA DeleteRecordKeeps == ASSUME AnchorInv, DeleteRecord PROVE AnchorInv'
<1> RowsInv /\ OutsideInv /\ QueueInv /\ CleanInv /\ AnchorsOnFile
    BY DEF AnchorInv
<1>1. cycle.pc = "delete" /\ UNCHANGED <<agent, cleanups, domain, request, astray>>
    BY DEF DeleteRecord, Reads, dbVars
<1>2. /\ Listed(cycle.a) /\ cycle.a \in Cleanups /\ cycle.a.rec \in DOMAIN record
      /\ \A c \in cycle.todo : Listed(c) /\ c.rec # cycle.a.rec
      /\ \A c, d \in cycle.todo : c.rec = d.rec => c = d
      /\ \A a \in Agents : Row(a) = NoRow => domain[a].state # "kept"
    BY <1>1 DEF CleanInv, Listed
<1>3. record' = Gone(cycle.a.rec) => Evolves /\ DOMAIN record' = DOMAIN record /\ ~record'[cycle.a.rec].live
    BY <1>2, GoneEvolves
<1>4. Evolves /\ DOMAIN record' = DOMAIN record
    <2>1. record' = record => Evolves
        BY DEF Evolves, OutsideInv
    <2> QED BY <1>3, <2>1 DEF DeleteRecord
<1>5. \A c : Listed(c) => Listed(c)'
    BY <1>1, <1>4 DEF Listed, Evolves
<1>6. RowsInv' /\ QueueInv'
    BY <1>1, <1>4, EvolvesKeeps
<1>7. ASSUME cycle' \in Cycles, cycle'.pc \in {"remove", "cleanup"} PROVE OutsideInv' /\ AnchorsOnFile' /\ EnsureInv'
    <2>1. OutsideInv'
        BY <1>1, <1>4, <1>7 DEF OutsideInv, Evolves
    <2>2. AnchorsOnFile'
        BY <1>1, <1>4, EvolvesOnFile
    <2>3. EnsureInv'
        BY <1>7 DEF EnsureInv
    <2> QED BY <2>1, <2>2, <2>3
<1>8. CASE record' = Gone(cycle.a.rec) /\ cycle' = Goes("remove")
    <2>1. /\ cycle' \in Cycles /\ cycle'.pc = "remove" /\ cycle'.rows = cycle.rows /\ cycle'.todo = cycle.todo
          /\ cycle'.a = cycle.a
        BY <1>8, GoesIs DEF OutsideInv, Pcs
    <2>2. CleanInv'
        BY <1>1, <1>2, <1>3, <1>5, <1>8, <2>1 DEF CleanInv, Row
    <2> QED BY <1>6, <1>7, <2>1, <2>2 DEF AnchorInv
<1>9. CASE cycle' = [Goes("cleanup") EXCEPT !.a = Nowhere]
    <2>1. Goes("cleanup") \in Cycles /\ Goes("cleanup").pc = "cleanup" /\ Goes("cleanup").rows = cycle.rows
          /\ Goes("cleanup").todo = cycle.todo
        BY GoesIs DEF OutsideInv, Pcs
    <2>2. cycle' \in Cycles /\ cycle'.pc = "cleanup" /\ cycle'.rows = cycle.rows /\ cycle'.todo = cycle.todo
        BY <1>9, <2>1 DEF Cycles
    <2>3. CleanInv'
        BY <1>1, <1>2, <1>5, <2>2 DEF CleanInv, Row
    <2> QED BY <1>6, <1>7, <2>2, <2>3 DEF AnchorInv
<1> QED BY <1>8, <1>9 DEF DeleteRecord

LEMMA RemoveCleanupKeeps == ASSUME AnchorInv, RemoveCleanup PROVE AnchorInv'
<1> RowsInv /\ OutsideInv /\ QueueInv /\ CleanInv /\ AnchorsOnFile
    BY DEF AnchorInv
<1>1. /\ cycle.pc = "remove" /\ UNCHANGED <<agent, record, domain, request, astray>>
      /\ cycle' = [Goes("cleanup") EXCEPT !.a = Nowhere]
    BY DEF RemoveCleanup, Reads
<1>2. cleanups' \subseteq cleanups /\ \A c \in cleanups : c.rec # cycle.a.rec => c \in cleanups'
    BY DEF RemoveCleanup
<1>3. /\ ~record[cycle.a.rec].live
      /\ \A c \in cycle.todo : Listed(c) /\ c.rec # cycle.a.rec
      /\ \A c, d \in cycle.todo : c.rec = d.rec => c = d
      /\ \A a \in Agents : Row(a) = NoRow => domain[a].state # "kept"
    BY <1>1 DEF CleanInv
<1>4. Goes("cleanup") \in Cycles /\ Goes("cleanup").pc = "cleanup" /\ Goes("cleanup").rows = cycle.rows
      /\ Goes("cleanup").todo = cycle.todo
    BY GoesIs DEF OutsideInv, Pcs
<1>5. cycle' \in Cycles /\ cycle'.pc = "cleanup" /\ cycle'.rows = cycle.rows /\ cycle'.todo = cycle.todo
    BY <1>1, <1>4 DEF Cycles
<1>6. \A c \in cycle.todo : Listed(c)'
    BY <1>1, <1>2, <1>3 DEF Listed
<1>7. CleanInv'
    BY <1>1, <1>3, <1>5, <1>6 DEF CleanInv, Row
<1>8. EnsureInv'
    BY <1>5 DEF EnsureInv
<1>9. OutsideInv' /\ RowsInv' /\ QueueInv'
    BY <1>1, <1>2, <1>5 DEF OutsideInv, RowsInv, QueueInv
<1>10. AnchorsOnFile'
    BY <1>1, <1>2, <1>3 DEF AnchorsOnFile, Live, Reads
<1> QED BY <1>7, <1>8, <1>9, <1>10 DEF AnchorInv

LEMMA EndKeeps == ASSUME AnchorInv, EndCycle PROVE AnchorInv'
<1>1. cycle.pc = "cleanup" /\ cycle' = Off /\ UNCHANGED <<agent, cleanups, record, domain, request, astray>>
    BY DEF EndCycle, Reads, dbVars
<1>2. cycle' \in Cycles /\ EnsureInv' /\ CleanInv'
    BY <1>1, OffIs DEF EnsureInv, CleanInv
<1> QED BY <1>1, <1>2, CycleKeeps

LEMMA StopsKeeps == ASSUME AnchorInv, Stops PROVE AnchorInv'
<1>1. /\ cycle' = Off /\ request' = NoOne /\ UNCHANGED <<agent, cleanups, record, domain>>
      /\ astray' = IF cycle.pc = "store" /\ cycle.owned THEN astray \cup {cycle.rec} ELSE astray
    BY DEF Stops, dbVars, Reads
<1>2. EnsureInv' /\ CleanInv'
    BY <1>1, OffIs DEF EnsureInv, CleanInv
<1>3. OutsideInv' /\ RowsInv' /\ QueueInv'
    BY <1>1, OffIs DEF AnchorInv, OutsideInv, RowsInv, QueueInv
<1>4. AnchorsOnFile'
    BY <1>1 DEF AnchorInv, AnchorsOnFile, Live, Reads
<1> QED BY <1>2, <1>3, <1>4 DEF AnchorInv
-----------------------------------------------------------------------------
(* The theorems. *)

Doomed == doomed \subseteq Agents

LEMMA DoomedKeeps == ASSUME Doomed, AnchorNext PROVE Doomed'
BY DEF Doomed, AnchorNext, Cycle, Api, dbVars, OperatorEdits, Stops, Age, TearDown, Finalize, Retarget, ListAgents,
       Create, Store, ListCleanups, DeleteRecord, RemoveCleanup, EndCycle, LookUp, Follow, Examine,
       ReadAgent, Delete, CascadeDelete, Heartbeat, WriteAgent, Register

LEMMA AnchorStep == AnchorInv /\ Doomed /\ [AnchorNext]_anchorVars => (AnchorInv /\ Doomed)'
<1> SUFFICES ASSUME AnchorInv, Doomed, [AnchorNext]_anchorVars PROVE (AnchorInv /\ Doomed)'
    OBVIOUS
<1>1. CASE UNCHANGED anchorVars
    <2>1. UNCHANGED <<agent, cleanups, doomed, record, domain, cycle, request, astray>>
        BY <1>1 DEF anchorVars, dbVars
    <2>2. OutsideInv' /\ RowsInv' /\ QueueInv'
        BY <2>1 DEF AnchorInv, OutsideInv, RowsInv, QueueInv
    <2>3. EnsureInv'
        BY <2>1 DEF AnchorInv, EnsureInv, NotYet, Adopted, Row
    <2>4. CleanInv'
        BY <2>1 DEF AnchorInv, CleanInv, Listed, Targeted, Row
    <2>5. AnchorsOnFile' /\ Doomed'
        BY <2>1 DEF AnchorInv, AnchorsOnFile, Live, Reads, Doomed
    <2> QED BY <2>2, <2>3, <2>4, <2>5 DEF AnchorInv
<1>2. CASE Cycle
    <2>1. AnchorInv'
        BY <1>2, TearDownKeeps, FinalizeKeeps, RetargetKeeps, ListAgentsKeeps, CreateKeeps, StoreKeeps,
           ListCleanupsKeeps, DeleteRecordKeeps, RemoveCleanupKeeps, EndKeeps, LookUpKeeps, FollowKeeps, ExamineKeeps
           DEF Cycle, Doomed
    <2> QED BY <1>2, <2>1, DoomedKeeps DEF AnchorNext
<1>3. CASE Api
    <2>1. ASSUME NEW a \in Agents, ReadAgent(a) \/ Delete(a) \/ CascadeDelete(a) \/ \E ip \in Addresses : Heartbeat(a, ip)
          PROVE  AnchorInv'
        BY <2>1, ApiKeeps, CascadeKeeps
    <2>2. ASSUME NEW n \in Names, NEW a \in Agents, Register(a, n) PROVE AnchorInv'
        BY <2>2, ApiKeeps
    <2>3. ASSUME NEW n \in Names, WriteAgent(n) PROVE AnchorInv'
        <3>1. request.a \in Agents
            BY <2>3 DEF WriteAgent, AnchorInv, OutsideInv
        <3> QED BY <2>3, <3>1, ApiKeeps
    <2>4. AnchorInv'
        BY <1>3, <2>1, <2>2, <2>3 DEF Api
    <2> QED BY <1>3, <2>4, DoomedKeeps DEF AnchorNext
<1>4. CASE OperatorEdits \/ Stops \/ \E c \in cleanups : Age(c)
    <2>1. AnchorInv'
        BY <1>4, EditsKeep, StopsKeeps, AgeKeeps
    <2> QED BY <1>4, <2>1, DoomedKeeps DEF AnchorNext
<1> QED BY <1>1, <1>2, <1>3, <1>4 DEF AnchorNext

\* A record the cycle is about to delete is NurProxy's, is on no agent's row, and has no CNAME of
\* an agent's domain that leads to it.
LEMMA SparesNow ==
    ASSUME AnchorInv, cycle.pc = "delete"
    PROVE  LET c == cycle.a IN
           /\ record[c.rec].by = "nurproxy"
           /\ \A a \in Agents : agent[a] # NoRow => agent[a].rec # c.rec
           /\ c.reason # "delete" /\ agent[c.agent] # NoRow => ~(domain[c.agent].state = "kept" /\ domain[c.agent].target = c.fqdn)
<1>1. Listed(cycle.a) /\ cycle.a.owned /\ (cycle.a.reason # "delete" => ~Targeted(cycle.a))
    BY DEF AnchorInv, CleanInv
<1>2. PICK d \in cleanups : d.rec = cycle.a.rec
    BY <1>1 DEF Listed
<1>3. cycle.a.rec # 0
    BY <1>1, Kinds DEF Listed
<1>4. \A a \in Agents : agent[a] # NoRow => agent[a].rec # cycle.a.rec
    BY <1>2, <1>3 DEF AnchorInv, RowsInv
<1> QED BY <1>1, <1>4 DEF Listed, Targeted

\* Every address record NurProxy made and that is still there is on file, as its own, through
\* renames, deletions, adoptions, lost answers, failed writes and restarts, but for those whose
\* id no write recorded.
THEOREM FileCorrect == AnchorSpec => []AnchorsOnFile
<1>1. AnchorInit => AnchorInv /\ Doomed
    BY AnchorStart DEF AnchorInit, Doomed
<1>2. AnchorInv => AnchorsOnFile
    BY DEF AnchorInv
<1> QED BY <1>1, <1>2, AnchorStep, PTL DEF AnchorSpec

\* NurProxy deletes an address record only if it made it, if no agent's row names it, and,
\* where the agent was renamed, if no CNAME of its domains leads to it any more, from
\* whatever rows the cycle has read.
THEOREM SparesCorrect == AnchorSpec => SparesWhatIsInUse
<1>1. AnchorInit => AnchorInv /\ Doomed
    BY AnchorStart DEF AnchorInit, Doomed
<1>2. AnchorInv /\ [AnchorNext]_anchorVars =>
          [Reads("delete") /\ record' # record /\ cycle' # cycle =>
              LET c == cycle.a IN
              /\ record[c.rec].by = "nurproxy"
              /\ \A a \in Agents : agent[a] # NoRow => agent[a].rec # c.rec
              /\ c.reason # "delete" /\ agent[c.agent] # NoRow => ~(domain[c.agent].state = "kept" /\ domain[c.agent].target = c.fqdn)]_anchorVars
    BY SparesNow DEF Reads
<1> QED BY <1>1, <1>2, AnchorStep, PTL DEF AnchorSpec, SparesWhatIsInUse
================================================================================
