------------------------------ MODULE MCDiagnosis ------------------------------
(* Hosts with every kind of file at every place, and failures of every kind.     *)
EXTENDS Diagnosis

Says(what, at) == [says |-> what, at |-> at]
Fails(phase, cause, lines) == [phase |-> phase, cause |-> cause, lines |-> lines]
TestSays(lines) == Fails("validate", "exit", lines)

\* A test that blames a file, after a warning about another, or before one.
Blames == {TestSays(<<Says("error", p)>>) : p \in FilePlaces} \cup
          {TestSays(<<Says("error", "link"), Says("warning", "main")>>), TestSays(<<Says("warning", "own"), Says("error", "vhost")>>)}
\* What the host refuses.
HostRefuses ==
    {TestSays(<<Says("denied", "link")>>), TestSays(<<Says("denied", "none"), Says("read-only", "none")>>),
     TestSays(<<Says("denied", "none"), Says("acl", "none"), Says("immutable", "none")>>),
     TestSays(<<Says("namespace", "none")>>), TestSays(<<Says("port in use", "none")>>), TestSays(<<Says("sudo", "none")>>),
     Fails("validate", "eacces", <<Says("staging", "none")>>), Fails("reload", "exit", <<>>),
     Fails("reload", "exit", <<Says("no pid", "none")>>), Fails("reload", "absent", <<>>),
     Fails("reload", "sudo", <<Says("no program", "none")>>), Fails("reload", "other error", <<>>)}
\* What is wrong with a certificate.
BadCertificates ==
    {TestSays(<<Says("error", "vhost"), Says(what, "none")>>) : what \in CertificateLines} \cup
    {TestSays(<<Says("no cert", "link"), Says("mismatch", "none")>>), TestSays(<<Says("denied", "none"), Says("no key", "none")>>),
     Fails("cert_install", "exit", <<Says("no cert", "none")>>)}

Host(backend, layout, found, policy, reports, pushes, failures, trouble, count) ==
    [backend |-> backend, layout |-> layout, files |-> found, policy |-> policy, reports |-> reports,
     pushes |-> pushes, failures |-> failures, mishaps |-> trouble, count |-> count]
Debian == [vhost |-> "ours", link |-> "vhost", own |-> "ours", alias |-> "vhost", main |-> "theirs"]
Leftover == [vhost |-> "ours", link |-> "vhost", temp |-> "ours", main |-> "theirs"]
Strange == [vhost |-> "theirs", link |-> "outside", temp |-> "theirs", own |-> "theirs", main |-> "theirs"]
Flat == [vhost |-> "ours", temp |-> "ours", own |-> "theirs", main |-> "theirs"]

Abandoned == [vhost |-> "ours", link |-> "vhost", main |-> "theirs"]
OfLink == {TestSays(<<Says("error", "link")>>)}
OfMain == {TestSays(<<Says("error", "main")>>)}
MCSickHosts ==
    {Host("nginx", "sites", Debian, FALSE, Blames, 1, 1, {"edit"}, 1),
     Host("nginx", "sites", Strange, TRUE, Blames, 1, 1, {"edit"}, 1),
     Host("nginx", "sites", Leftover, TRUE, OfLink, 2, 2, {"refused", "broken"}, 1),
     Host("apache", "sites", Leftover, FALSE, OfLink, 2, 1, {"edit", "broken", "crash"}, 2),
     Host("nginx", "sites", Leftover, FALSE, OfLink, 2, 2, {"unreadable", "broken"}, 2),
     Host("apache", "confd", Flat, FALSE, Blames, 1, 1, {"edit"}, 1),
     Host("nginx", "sites", Abandoned, TRUE, OfLink \cup OfMain, 3, 2, {"refused", "broken"}, 0),
     Host("nginx", "sites", Debian, TRUE, HostRefuses \cup BadCertificates, 1, 1, {}, 0),
     Host("apache", "confd", Flat, TRUE, HostRefuses \cup BadCertificates, 1, 1, {}, 0)}
===============================================================================
