---------------------------- MODULE MCRouteSync ----------------------------
(* Instances of RouteSync: what users, operators and failures may do. *)
EXTENDS RouteSync
CONSTANTS d1, d2, s1, bad, e1

Limits(user, edit, fail, lose, restart, total) ==
    [user |-> user, edit |-> edit, fail |-> fail, lose |-> lose, restart |-> restart, total |-> total]
AnyTwo == Limits(1, 1, 1, 1, 1, 2)
Decided == Limits(1, 1, 0, 0, 0, 2)
AnyOne == Limits(1, 1, 1, 1, 1, 1)
============================================================================
