---------------------------- MODULE MCHelperActions ----------------------------
(* What the root helper does to the host: in each behaviour one managed apply,  *)
(* or one single action.  The other one has nothing to do.                        *)
EXTENDS ManagedApply, HostActions
CONSTANTS m1, m2

\* Hosts as an apply may find them, and what may be asked for on them.
Text0(uses, by) == [uses |-> uses, by |-> by]
Site(file, lnk, cert, auth, legacy) ==
    [vhost |-> file, link |-> lnk, cert |-> cert, auth |-> auth, legacy |-> legacy]

EmptySite   == Site(Absent, Absent, Absent, Absent, Absent)
PlainSite == Site(Marked(Text0({}, "earlier")), OurLink, Absent, Absent, Absent)
WithTls   == Site(Marked(Text0({"cert"}, "earlier")), OurLink, OldSecret, Absent, Absent)
WithAuth  == Site(Marked(Text0({"auth"}, "render")), OurLink, Absent, OldSecret, Absent)
Before147 == Site(Marked(Text0({"legacy"}, "earlier")), OurLink, Absent, Absent, OldSecret)
Leftovers == Site(Absent, Absent, OldSecret, OldSecret, OldSecret)
Foreign   == Site(Plain(Text0({"cert"}, "operator")), TheirLink, OldSecret, OldSecret, Absent)
Exact     == Site(Plain(Text0({}, "render")), OurLink, Absent, Absent, Absent)
ExactOld  == Site(Plain(Text0({"legacy"}, "render")), OurLink, Absent, Absent, OldSecret)
ExactRaw  == Site(Plain(Text0({"auth"}, "raw")), OurLink, Absent, OldSecret, Absent)
NotLinked  == Site(Marked(Text0({"cert"}, "earlier")), Absent, OldSecret, Absent, Absent)
SiteLayouts == {EmptySite, PlainSite, WithTls, WithAuth, Before147, Leftovers, Foreign, Exact, ExactOld,
          ExactRaw, NotLinked}

Want(route, staged, keep) == [route |-> route, staged |-> staged, keep |-> keep]
Route(basic, raw) == [basic |-> basic, raw |-> raw]
Out     == {Want(Unrouted, FALSE, k) : k \in BOOLEAN} \cup {Want(Tombstone, FALSE, FALSE)}
Plains  == {Want(Route(FALSE, Absent), c, c) : c \in BOOLEAN}
Basics  == {Want(Route(TRUE, Absent), c, c) : c \in BOOLEAN}
Raws    == {Want(Route(b, t), FALSE, FALSE) : b \in BOOLEAN,
              t \in {Text0({}, "raw"), Text0({"auth"}, "raw"), Text0({"legacy"}, "raw"), Text0({"legacy"}, "render")}}
Intended  == Out \cup Plains \cup Basics \cup Raws

Others == {[uses |-> {}, scanned |-> TRUE], [uses |-> {}, scanned |-> FALSE],
           [uses |-> {Cert(m1)}, scanned |-> TRUE], [uses |-> {Legacy(m1)}, scanned |-> TRUE]}

Situation(site, wish, prune, oth, fs, n) ==
    [disk |-> [p \in Paths |-> site[p[2]][p[1]]], other |-> oth,
     intent |-> [route |-> [h \in SiteNames |-> wish[h].route], prune |-> prune,
                 staged |-> {h \in SiteNames : wish[h].staged}, keep |-> {h \in SiteNames : wish[h].keep}],
     faults |-> fs, budget |-> n]

PairOf(a, b) == [h \in SiteNames |-> IF h = m1 THEN a ELSE b]

(* One site in every way, and two that share the reload and the rollback.      *)
OneSite == {Situation(PairOf(s, EmptySite), PairOf(w, Want(Unrouted, FALSE, FALSE)), p, o, Faults, 2) :
             s \in SiteLayouts, w \in Intended, p \in BOOLEAN, o \in Others}
Two == {Situation(PairOf(s, t), PairOf(w, v), TRUE, [uses |-> {}, scanned |-> TRUE], Faults \ {"edit"}, 2) :
             s \in {WithTls, Before147, Leftovers}, t \in {EmptySite, WithAuth, WithTls},
             w \in Out \cup Basics, v \in Plains \cup {Want(Tombstone, FALSE, FALSE)}}
Sensible(c) == \A p \in c.other.uses : c.disk[p] # Absent
Considered == {c \in OneSite \cup Two : Sensible(c)}

\* What the single actions may find.
Machine == [ufw |-> TRUE, port |-> [p \in Ports |-> "theirs"], owner |-> TRUE, mode |-> TRUE,
            dropin |-> "absent", paths |-> FALSE, unit |-> TRUE, binary |-> TRUE, offer |-> "safe",
            proxy |-> TRUE, config |-> "good"]
Machines(a) ==
    CASE a = "firewall" -> {[Machine EXCEPT !.port = q] : q \in [Ports -> {"closed", "own", "theirs"}]}
      [] a = "access" -> {[Machine EXCEPT !.owner = o, !.mode = m] : o \in BOOLEAN, m \in BOOLEAN}
      [] a = "sandbox" -> {[Machine EXCEPT !.dropin = d, !.paths = p] : d \in {"absent", "ours", "theirs"}, p \in BOOLEAN}
      [] a = "package" -> {[Machine EXCEPT !.binary = b, !.offer = f] : b \in BOOLEAN, f \in {"safe", "removes"}}
      [] OTHER -> {[Machine EXCEPT !.proxy = b, !.config = c] : b \in BOOLEAN, c \in {"good", "bad"}}
Task(a, n) == {[host |-> h, act |-> a, mishaps |-> Troubles, budget |-> n] : h \in Machines(a)}
AllTasks == UNION {Task(a, 3) : a \in Acts}
OneTask  == Task("sandbox", 0)

TaskRests ==
    /\ host = Machine /\ was = Machine /\ mishaps = {} /\ spare = 0 /\ happened = {}
    /\ task = [act |-> "access", pc |-> "done", plan |-> <<>>, snap |-> <<>>, todo |-> <<>>, mutated |-> FALSE]
ApplyRests ==
    /\ placed = [p \in Paths |-> Absent] /\ other = [uses |-> {}, scanned |-> TRUE]
    /\ inUse = [h \in SiteNames |-> Absent]
    /\ intent = [route |-> [h \in SiteNames |-> Unrouted], staged |-> {}, keep |-> {}, prune |-> FALSE]
    /\ apply = [AtRest EXCEPT !.pc = "rolled_back", !.snap = [p \in {} |-> Absent]]
    /\ looked = {} /\ mayFail = {} /\ remaining = 0 /\ edited = TRUE

HelperRests == ApplyRests /\ TaskRests
HelperInit == (ApplyInit /\ TaskRests) \/ (ApplyRests /\ TaskInit)
HelperNext ==
    \/ apply.pc # "rolled_back" /\ ApplyNext /\ UNCHANGED taskVars
    \/ task.pc # "done" /\ TaskNext /\ UNCHANGED applyVars
HelperSpec == HelperInit /\ [][HelperNext]_<<applyVars, taskVars>>
================================================================================
