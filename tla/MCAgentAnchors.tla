---------------------------- MODULE MCAgentAnchors ----------------------------
(* Instances of AgentAnchors.                                                  *)
EXTENDS AgentAnchors, TLC
CONSTANTS a1, a2, n1, n2, ip1, ip2

Anchor(n, ip, i) == [fqdn |-> n, pending |-> FALSE, ip |-> ip, rec |-> i, owned |-> i # 0]
Its(n, ip, by)  == [name |-> n, kind |-> "A", content |-> ip, by |-> by, live |-> TRUE]

(* One agent with a domain, its record in place, and another to come.          *)
Settled1(events1, n, follows) ==
    [agent |-> (a1 :> Anchor(n1, ip1, 1)) @@ (a2 :> NoRow), record |-> <<Its(n1, ip1, "nurproxy")>>,
     domains |-> {a1}, ddns |-> follows, events |-> events1, budget |-> n]

Faulty   == {"update", "provider", "database", "crash", "address"}
Busy     == {"update", "delete", "register", "address", "edit"}
MCWorlds == {Settled1(Faulty, 3, TRUE), Settled1(Busy, 3, TRUE), Settled1(Busy, 3, FALSE)}
OneAgent == {Settled1({"update", "address"}, 3, FALSE)}
================================================================================
