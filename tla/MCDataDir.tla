------------------------------ MODULE MCDataDir ------------------------------
(* The cases of the data directory: a directory that is new, one in use after a kill, one *)
(* that is a binary behind; archives of another installation, whole, cut short, and       *)
(* without a key.                                                                          *)
EXTENDS DataDir, TLC

MCNew == <<>>
MCInUse == "db" :> File(1, DbState({1}, 1, 1)) @@ "wal" :> File(1, DbState({1}, 1, 2))
             @@ "encryption" :> File(2, 1) @@ "authority" :> File(3, 2) @@ "account" :> File(4, 3)
MCOther == "db" :> DbState({5}, 1, 5) @@ "encryption" :> 5
MCArchives ==
    {[NoArchive EXCEPT !.files = MCOther, !.whole = whole] : whole \in BOOLEAN}
      \cup {[NoArchive EXCEPT !.files = "db" :> DbState({5}, 1, 5), !.whole = TRUE]}
MCAffair(found, archives, targets, starts, writes, kills, copies, restores) ==
    [found |-> found, archives |-> archives, targets |-> targets, starts |-> starts, writes |-> writes,
     kills |-> kills, copies |-> copies, restores |-> restores]
MCAffairs ==
    {MCAffair(MCNew, MCArchives, {1}, 2, 2, 1, 1, 1),
     MCAffair(MCInUse, MCArchives, {1, 2}, 2, 1, 1, 1, 1),
     MCAffair(MCInUse, {}, {1}, 1, 2, 0, 1, 2),
     MCAffair(MCInUse, MCArchives, {1}, 1, 1, 1, 0, 2)}
NoAffair == MCAffair(MCNew, {}, {}, 0, 0, 0, 0, 0)
DataRests ==
    /\ affair = NoAffair /\ dataDir = [n \in FileNames |-> Missing]
    /\ server = Down /\ copying = NotCopying /\ archive = NoArchive /\ restoring = NotRestoring
    /\ mixed = FALSE /\ serial = 10
=============================================================================
