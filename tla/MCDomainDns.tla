------------------------------ MODULE MCDomainDns ------------------------------
(* Small instances of DomainDns.  A cfg chooses the domains, record ids, names   *)
(* and agents as model values, and one of the budgets below.                     *)
EXTENDS DomainDns, TLC

\* How the names are spread over DNS zones.
OneZone == [h \in Hosts |-> "zone"]

Once(L) == [l \in Limits |-> IF l \in L THEN 1 ELSE 0]

\* Every way a call, a statement or the process can fail, beside a takeover, a PUT or
\* neither, and with or without an edit at the provider.
Everything ==
    {Once({"edits", "deletes", "takeovers", "losses"}),
     Once({"deletes", "takeovers", "refusals", "dbfaults", "crashes"}),
     Once({"edits", "takeovers", "dbfaults", "crashes"}),
     Once({"edits", "updates", "deletes", "losses", "crashes"})}
\* No handler but the reconciler writes record ids, and no answer is lost.
Orderly ==
    {Once({"edits", "deletes"}), Once({"edits", "refusals"}), Once({"deletes", "refusals"})}
\* A PUT and an edit, and nothing else.
Move == {Once({"updates", "edits"})}

DomSymmetry == Permutations(Doms)
================================================================================
