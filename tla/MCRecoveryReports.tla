------------------------- MODULE MCRecoveryReports -------------------------
(* Instances of RecoveryReports: two repairs of two diagnostics, with a lane     *)
(* each and no send that fails, or two of the same, where sends fail or none does. *)
EXTENDS RecoveryReports, TLC
CONSTANTS p1, p2, d1, d2

Case(of, limit, observe, inspect, fail, lose) ==
    [of |-> of, limit |-> limit, fails |-> fail > 0, observe |-> observe, inspect |-> inspect,
     fail |-> fail, lose |-> lose]
Each   == (p1 :> d1) @@ (p2 :> d2)
OfOne  == (p1 :> d1) @@ (p2 :> d1)

MCCases == {Case(Each, 2, 1, 1, 0, 1), Case(OfOne, 1, 1, 1, 1, 0), Case(OfOne, 2, 1, 0, 0, 1)}
Again == {Case(Each, 2, 2, 1, 0, 0)}
============================================================================
