-------------------------- MODULE MCManagedRoutes --------------------------
(* A domain on the agent that moves away and back or is deleted, and a second one that is *)
(* not there yet and takes its name, or another.                                          *)
EXTENDS ManagedRoutes, TLC

CONSTANTS p1, p2, g1, g2, b1, b2

MCTour(start, second, requests, signs, mishaps) ==
    [hosts |-> g1 :> b1 @@ g2 :> second, requests |-> requests, signs |-> signs, mishaps |-> mishaps,
     rows |-> g1 :> start @@ g2 :> [st |-> "unborn", here |-> FALSE]]
MCHere == [st |-> "live", here |-> TRUE]
MCAway == [st |-> "live", here |-> FALSE]
MCTours ==
    {MCTour(MCHere, b1, 3, 2, 0), MCTour(MCHere, b1, 1, 2, 1), MCTour(MCHere, b2, 2, 1, 1)}
NoTour == MCTour(MCAway, b1, 0, 0, 0)
RoutesRest ==
    /\ tour = NoTour /\ entry = tour.rows /\ vhosts = {} /\ tombs = NoTombs /\ intents = <<>> /\ inbox = <<>>
    /\ spoiled = {} /\ calls = [c \in Callers |-> NoCall] /\ pushing = [p \in Pushers |-> NoPush]
    /\ burying = NoBurial /\ worker = NoWork
=============================================================================
