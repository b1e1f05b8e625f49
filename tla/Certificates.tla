---------------------------- MODULE Certificates ----------------------------
(***************************************************************************)
(* Central certificates: issued when a domain is created, renewed by a      *)
(* periodic scan, dropped by the teardown of a domain.  The calls share the *)
(* certificates table, one row per host, and the holds a rate limit of the  *)
(* CA leaves.  The scan lists its targets first and issues for them later,  *)
(* under the lock of each host; the teardown takes no lock.                 *)
(*                                                                          *)
(* A host may have several domains, from zones that lie in each other.      *)
(* Pushing a new certificate to its agent is RouteSync's part.              *)
(***************************************************************************)
EXTENDS Naturals, Integers, FiniteSets

CONSTANTS
    Rows,          \* domains
    Sites,         \* host names
    Calls,         \* issuances on creation that may be under way
    Scan,          \* the periodic scan
    MaxAttempts,   \* of one order at the CA
    Cap,           \* the longest hold, in units of the shortest one
    Plans          \* what may happen: in each behaviour one of these

\* A plan: the rows to begin with, the hosts domains may be given, and how much happens.
SiteStates == {"none", "plain", "central", "deleting"}
CertPlans ==
    [site : [Rows -> [status : SiteStates, at : Sites]], sites : SUBSET Sites,
     events : SUBSET {"create", "update", "delete", "refusal", "limit", "dbfault", "age", "contact", "crash"},
     count : Nat]

ASSUME CertificateAssumptions ==
    /\ Scan \notin Calls /\ MaxAttempts \in Nat \ {0} /\ Cap \in Nat \ {0}
    /\ Plans \subseteq CertPlans

VARIABLES
    site,      \* site[d]: the row of domain d
    crt,       \* crt[h]: the certificate on file for host h
    hold,      \* hold[h]: the rate limits in a row, and what is left of the hold
    job,       \* job[w]: the issuance of worker w
    round,     \* the scan: what it has listed, and what was left of the plan when it began
               \* with nothing else under way (history)
    clean,     \* the teardown that is at its certificate
    contact,   \* the ACME contact address is set
    plan       \* what is left of the behaviour's plan

certVars == <<site, crt, hold, job, round, clean, contact, plan>>

-----------------------------------------------------------------------------

Workers == Calls \cup {Scan}
\* blind: the read of the certificate on file failed.
Waiting(h, first) == [pc |-> "wait", at |-> h, first |-> first, blind |-> FALSE, tries |-> 0]
NoJob == [pc |-> "none", at |-> "none", first |-> FALSE, blind |-> FALSE, tries |-> 0]
NoRound == [pc |-> "idle", due |-> {}, central |-> {}, queue |-> {}, calm |-> -1]
NoClean == [pc |-> "none", at |-> "none"]
NoHold == [tries |-> 0, left |-> 0]

CertInit ==
    /\ plan \in Plans
    /\ site = plan.site
    /\ crt = [h \in Sites |-> "none"]
    /\ hold = [h \in Sites |-> NoHold]
    /\ job = [w \in Workers |-> NoJob]
    /\ round = NoRound /\ clean = NoClean
    /\ contact = ("contact" \notin plan.events)

\* A bound: what is left of the plan.
Happens(what) ==
    /\ plan.count > 0 /\ what \in plan.events
    /\ plan' = [plan EXCEPT !.count = @ - 1]

\* Hosts a domain that stays wants a central certificate for, and all it keeps alive.
CentralHosts == {site[d].at : d \in {e \in Rows : site[e].status = "central"}}
ServedHosts == {site[d].at : d \in {e \in Rows : site[e].status \in {"central", "plain"}}}

InBackoff(h) == hold[h].left > 0

\* The lock of a host: from the check to the end of the issuance.
Inside == {"check", "backoff", "order", "limited", "save", "clear"}
Locked(h) == \E w \in Workers : job[w].pc \in Inside /\ job[w].at = h

Goes(w, pc) == job' = [job EXCEPT ![w].pc = pc]
Ends(w) == job' = [job EXCEPT ![w] = NoJob]
Alone == UNCHANGED <<site, round, clean, contact>>

-----------------------------------------------------------------------------
(* One issuance. *)

\* The lock is free.  Only a renewal needs no second look.
MutTakeLock(w) ==
    /\ job[w].pc = "wait" /\ ~Locked(job[w].at)
    /\ Goes(w, IF job[w].first /\ w # Scan THEN "check" ELSE "order")
    /\ Alone /\ UNCHANGED <<crt, hold, plan>>
TakeLock(w) ==
    /\ job[w].pc = "wait" /\ ~Locked(job[w].at)
    /\ Goes(w, IF job[w].first THEN "check" ELSE "order")
    /\ Alone /\ UNCHANGED <<crt, hold, plan>>

\* A certificate on file makes the call a no-op.
TargetForHost(w) ==
    /\ job[w].pc = "check"
    /\ IF crt[job[w].at] # "none" THEN Ends(w) ELSE Goes(w, "backoff")
    /\ Alone /\ UNCHANGED <<crt, hold, plan>>

\* One that cannot be read counts as none.
CertificateUnread(w) ==
    /\ job[w].pc = "check" /\ Happens("dbfault")
    /\ job' = [job EXCEPT ![w].pc = "backoff", ![w].blind = TRUE]
    /\ Alone /\ UNCHANGED <<crt, hold>>

\* And so does a hold.
GetCertBackoff(w) ==
    /\ job[w].pc = "backoff"
    /\ IF InBackoff(job[w].at) THEN Ends(w) ELSE Goes(w, "order")
    /\ Alone /\ UNCHANGED <<crt, hold, plan>>

\* Another statement fails, of the hold, the zones or the provider too, and the issuance
\* ends there.  A certificate already saved stays.
StatementFails(w) ==
    /\ job[w].pc \in {"backoff", "limited", "save", "clear"} /\ Happens("dbfault")
    /\ Ends(w)
    /\ Alone /\ UNCHANGED <<crt, hold>>

\* Without a contact address nothing is ordered, and a scan stops.
NotConfigured(w) ==
    /\ job[w].pc = "order" /\ ~contact
    /\ Ends(w)
    /\ round' = IF w = Scan THEN NoRound ELSE round
    /\ UNCHANGED <<site, crt, hold, clean, contact, plan>>

Issued(w) ==
    /\ job[w].pc = "order" /\ contact /\ Goes(w, "save")
    /\ Alone /\ UNCHANGED <<crt, hold, plan>>

\* A failure that may pass is tried again, a few times.
AttemptFails(w) ==
    /\ job[w].pc = "order" /\ contact /\ Happens("refusal")
    /\ IF job[w].tries + 1 < MaxAttempts THEN job' = [job EXCEPT ![w].tries = @ + 1] ELSE Ends(w)
    /\ Alone /\ UNCHANGED <<crt, hold>>

\* A rate limit is not tried again.
RateLimited(w) ==
    /\ job[w].pc = "order" /\ contact /\ Happens("limit") /\ Goes(w, "limited")
    /\ Alone /\ UNCHANGED <<crt, hold>>

\* The hold doubles while the limits follow each other, up to a cap.  A later time the CA
\* named wins.
NextRateLimitBackoff(n, later) ==
    LET grown == IF 2^(n - 1) \in 1..Cap THEN 2^(n - 1) ELSE Cap
    IN  IF later > grown THEN later ELSE grown

Consecutive(h) == hold[h].tries > 0 /\ hold[h].left > -Cap

MarkRateLimited(w, later) ==
    /\ job[w].pc = "limited"
    /\ LET h == job[w].at
           n == IF Consecutive(h) THEN hold[h].tries + 1 ELSE 1
       IN  hold' = [hold EXCEPT ![h] = [tries |-> n, left |-> NextRateLimitBackoff(n, later)]]
    /\ Ends(w)
    /\ Alone /\ UNCHANGED <<crt, plan>>

\* Saved for the host, whether it still has a domain or not.
SaveRenewed(w) ==
    /\ job[w].pc = "save"
    /\ crt' = [crt EXCEPT ![job[w].at] = "good"]
    /\ Goes(w, "clear")
    /\ Alone /\ UNCHANGED <<hold, plan>>

ClearBackoff(w) ==
    /\ job[w].pc = "clear"
    /\ hold' = [hold EXCEPT ![job[w].at] = NoHold]
    /\ Ends(w)
    /\ Alone /\ UNCHANGED <<crt, plan>>

JobSteps(w) ==
    \/ TakeLock(w) \/ TargetForHost(w) \/ CertificateUnread(w) \/ GetCertBackoff(w) \/ StatementFails(w)
    \/ NotConfigured(w) \/ Issued(w) \/ AttemptFails(w) \/ RateLimited(w) \/ SaveRenewed(w) \/ ClearBackoff(w)
    \/ \E later \in {0, Cap + 1} : MarkRateLimited(w, later)

-----------------------------------------------------------------------------
(* The scan: three lists, one after the other, then the targets one by one. *)

Undisturbed ==
    /\ clean.pc = "none" /\ \A d \in Rows : site[d].status # "deleting"
    /\ \A w \in Workers : job[w].pc = "none"

ScanKeeps == UNCHANGED <<site, crt, hold, clean, contact, plan>>

ListDueCerts ==
    /\ round.pc = "idle"
    /\ round' = [pc |-> "domains", due |-> {h \in Sites : crt[h] = "due"}, central |-> {}, queue |-> {},
                 calm |-> IF Undisturbed THEN plan.count ELSE -1]
    /\ UNCHANGED job /\ ScanKeeps

ListCentral ==
    /\ round.pc = "domains"
    /\ round' = [round EXCEPT !.pc = "resolve", !.central = CentralHosts]
    /\ UNCHANGED job /\ ScanKeeps

\* Due certificates that are still consumed, then hosts without one, or whose one cannot
\* be read.
MutDueForRenewal(unread) ==
    {[at |-> h, first |-> FALSE] : h \in {g \in round.due \cap round.central : ~InBackoff(g)}}
DueForRenewal(unread) ==
    LET renew == {h \in round.due \cap round.central : ~InBackoff(h)}
        issue == {h \in round.central \ renew : (crt[h] = "none" \/ h \in unread) /\ ~InBackoff(h)}
    IN  {[at |-> h, first |-> FALSE] : h \in renew} \cup {[at |-> h, first |-> TRUE] : h \in issue}

Resolve ==
    /\ round.pc = "resolve"
    /\ round' = [round EXCEPT !.pc = "issuing", !.queue = DueForRenewal({})]
    /\ UNCHANGED job /\ ScanKeeps

\* A read fails: of a certificate; of a provider, which leaves the target out; or of one of the
\* lists, which ends the scan.
ScanFails ==
    /\ Happens("dbfault")
    /\ \/ /\ round.pc = "resolve"
          /\ \/ \E h \in Sites : round' = [round EXCEPT !.pc = "issuing", !.queue = DueForRenewal({h})]
             \/ \E t \in DueForRenewal({}) : round' = [round EXCEPT !.pc = "issuing", !.queue = DueForRenewal({}) \ {t}]
       \/ round.pc \in {"domains", "resolve"} /\ round' = NoRound
    /\ UNCHANGED <<site, crt, hold, job, clean, contact>>

\* Renewals come first.
RenewOne(t) ==
    /\ round.pc = "issuing" /\ job[Scan].pc = "none"
    /\ t \in round.queue /\ (t.first => \A u \in round.queue : u.first)
    /\ job' = [job EXCEPT ![Scan] = Waiting(t.at, t.first)]
    /\ round' = [round EXCEPT !.queue = @ \ {t}]
    /\ ScanKeeps

ScanEnds ==
    /\ round.pc = "issuing" /\ job[Scan].pc = "none" /\ round.queue = {}
    /\ round' = NoRound
    /\ UNCHANGED job /\ ScanKeeps

ScanSteps ==
    \/ ListDueCerts \/ ListCentral \/ Resolve \/ ScanFails \/ ScanEnds \/ JobSteps(Scan)
    \/ \E t \in round.queue : RenewOne(t)

-----------------------------------------------------------------------------
(* Domains. *)

OperatorKeeps == UNCHANGED <<crt, hold, round, clean, contact>>

\* A domain with central TLS is issued for at once.
CreateSite(d, h, status) ==
    /\ site[d].status = "none" /\ Happens("create")
    /\ site' = [site EXCEPT ![d] = [status |-> status, at |-> h]]
    /\ IF status = "central"
       THEN \E c \in Calls :
                /\ job[c].pc = "none"
                /\ job' = [job EXCEPT ![c] = Waiting(h, TRUE)]
       ELSE UNCHANGED job
    /\ OperatorKeeps

\* PUT changes the name or the policy, and issues nothing.
UpdateSite(d, h, status) ==
    /\ site[d].status \in {"central", "plain"} /\ Happens("update")
    /\ site' = [site EXCEPT ![d] = [status |-> status, at |-> h]]
    /\ UNCHANGED job /\ OperatorKeeps

DeleteSite(d) ==
    /\ site[d].status \in {"central", "plain"} /\ Happens("delete")
    /\ site' = [site EXCEPT ![d].status = "deleting"]
    /\ UNCHANGED job /\ OperatorKeeps

\* The teardown erases the row first.
EraseSite(d) ==
    /\ clean.pc = "none" /\ site[d].status = "deleting"
    /\ clean' = [pc |-> "lookup", at |-> site[d].at]
    /\ site' = [site EXCEPT ![d].status = "none"]
    /\ UNCHANGED <<crt, hold, job, round, contact, plan>>

CleanKeeps == UNCHANGED <<site, hold, job, round, contact>>
CleanGoes(pc) == clean' = [clean EXCEPT !.pc = pc]

LookupCert ==
    /\ clean.pc = "lookup"
    /\ IF crt[clean.at] = "none" THEN clean' = NoClean ELSE CleanGoes("served")
    /\ UNCHANGED <<crt, plan>> /\ CleanKeeps

HostStillServed ==
    /\ clean.pc = "served"
    /\ IF clean.at \in ServedHosts THEN clean' = NoClean ELSE CleanGoes("drop")
    /\ UNCHANGED <<crt, plan>> /\ CleanKeeps

DeleteCertificate ==
    /\ clean.pc = "drop"
    /\ crt' = [crt EXCEPT ![clean.at] = "none"]
    /\ clean' = NoClean
    /\ UNCHANGED plan /\ CleanKeeps

\* A lookup or the deletion fails: the certificate stays.
CleanFails ==
    /\ clean.pc # "none" /\ Happens("dbfault")
    /\ clean' = NoClean
    /\ UNCHANGED crt /\ CleanKeeps

CleanSteps == LookupCert \/ HostStillServed \/ DeleteCertificate \/ \E d \in Rows : EraseSite(d)

-----------------------------------------------------------------------------
(* Time, the operator's settings, and a restart. *)

\* Time passes.  A hold over for longer than the cap no longer counts.
Elapses ==
    /\ \E h \in Sites : hold[h].left > -Cap
    /\ hold' = [h \in Sites |-> [hold[h] EXCEPT !.left = IF @ > -Cap THEN @ - 1 ELSE @]]
    /\ UNCHANGED <<site, crt, job, round, clean, contact, plan>>

\* A certificate enters the window before its expiry.
Ages(h) ==
    /\ crt[h] = "good" /\ Happens("age")
    /\ crt' = [crt EXCEPT ![h] = "due"]
    /\ UNCHANGED <<site, hold, job, round, clean, contact>>

SetContact ==
    /\ ~contact /\ Happens("contact")
    /\ contact' = TRUE
    /\ UNCHANGED <<site, crt, hold, job, round, clean>>

\* The orchestrator restarts: every call under way is gone, and so is a certificate that
\* was issued and not saved.
OrchestratorRestarts ==
    /\ Happens("crash")
    /\ job' = [w \in Workers |-> NoJob] /\ round' = NoRound /\ clean' = NoClean
    /\ UNCHANGED <<site, crt, hold, contact>>

CertNext ==
    \/ ScanSteps \/ CleanSteps \/ CleanFails \/ Elapses \/ SetContact \/ OrchestratorRestarts
    \/ \E c \in Calls : JobSteps(c)
    \/ \E d \in Rows : DeleteSite(d)
    \/ \E d \in Rows, h \in plan.sites, s \in {"central", "plain"} : CreateSite(d, h, s) \/ UpdateSite(d, h, s)
    \/ \E h \in Sites : Ages(h)

CertSpec == CertInit /\ [][CertNext]_certVars

-----------------------------------------------------------------------------
(* Properties. *)

\* A first order is placed at the CA only while the host has no hold and no certificate, or
\* the read of it failed under the lock (TargetForHost takes any error for no certificate):
\* creation, scan, teardown and a re-creation, whatever the scan could not read before, never
\* spend the CA's quota twice.
FirstOrderOnce ==
    \A w \in Workers :
        job[w].pc = "order" /\ job[w].first =>
            /\ ~InBackoff(job[w].at)
            /\ crt[job[w].at] = "none" \/ job[w].blind

\* A scan that began with nothing else under way, and that nothing disturbed, leaves every
\* host that wants a central certificate with one that is not due, or under a hold.
ScanCovers ==
    [][(round.pc = "issuing" /\ round'.pc = "idle" /\ contact /\ round.calm = plan'.count) =>
           \A h \in CentralHosts : crt[h] = "good" \/ hold[h].tries > 0]_certVars

\* When nothing is under way, every certificate on file belongs to a host that has a domain.
NoOrphans ==
    (clean.pc = "none" /\ \A w \in Workers : job[w].pc = "none") =>
        \A h \in Sites : crt[h] # "none" => \E d \in Rows : site[d].status # "none" /\ site[d].at = h
=============================================================================
