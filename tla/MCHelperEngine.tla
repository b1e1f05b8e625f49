--------------------------- MODULE MCHelperEngine ---------------------------
(* Two managed applies, the second of which supersedes the first, or one and a  *)
(* start of the service, or a start and a reload of it.                         *)
EXTENDS HelperEngine

CONSTANTS apply, again, start, reload, file, link, running, loaded

MCTargets == [o \in Ops |-> IF o = apply THEN {file, link} ELSE IF o = again THEN {link}
                         ELSE IF o = start THEN {running} ELSE {loaded}]

Case(ops, fs, n) == [ops |-> ops, faults |-> fs, budget |-> n]
MCCases == {Case({apply, start}, {"crash", "invalid"}, 2), Case({apply, start}, {"install", "edit"}, 2),
            Case({apply, again}, {"crash", "edit"}, 2), Case({apply, again}, {"invalid"}, 1),
            Case({start, reload}, {"invalid", "disk"}, 2), Case({apply}, {"crash", "disk"}, 2),
             Case({apply, start}, {"crash", "relatch"}, 2),
            Case({apply, again}, {"sync"}, 1)}
=============================================================================
