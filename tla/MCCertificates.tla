---------------------------- MODULE MCCertificates ----------------------------
(* Small instances of Certificates. *)
EXTENDS Certificates
CONSTANTS k1, k2, n1, n2, c1, c2, scan

Plan(first, second, sites, events, count) ==
    [site |-> [d \in {k1, k2} |-> [status |-> IF d = k1 THEN first ELSE second, at |-> n1]],
     sites |-> sites, events |-> events, count |-> count]
\* One host and one or two domains of it, then two hosts.
MCPlans ==
    {Plan("none", "none", {n1}, {"create", "delete", "limit"}, 4),
     Plan("central", "none", {n1}, {"limit", "age", "crash"}, 4),
     Plan("none", "central", {n1, n2}, {"create", "refusal", "dbfault"}, 3),
     Plan("central", "deleting", {n1}, {"contact", "create", "limit"}, 3),
     Plan("plain", "central", {n1, n2}, {"update", "delete", "age"}, 3)}
Leftover == {Plan("none", "none", {n1}, {"create", "delete"}, 2)}
===============================================================================
