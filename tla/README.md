# NurProxy: formal verification

TLA+ specifications of [NurProxy](../src/README.md), the configurations that
model-check them with TLC, and proofs checked by TLAPS.  Paths below are relative
to the repository root (`src/` here); line numbers are those of the modelled commit.

1. [The system](#1-the-system)
2. [Plan](#2-plan)
3. [Domain DNS](#3-domain-dns)
4. [Agent recovery](#4-agent-recovery)
5. [Route synchronisation](#5-route-synchronisation)
6. [The privileged helper and managed routes](#6-the-privileged-helper-and-managed-routes)
7. [Anchors, agents, certificates, the data directory](#7-anchors-agents-certificates-the-data-directory)
8. [Pushes to a proxy, and what is pushed](#8-pushes-to-a-proxy-and-what-is-pushed)
9. [What the runs show](#9-what-the-runs-show)
10. [Disagreements between the code and its documents](#10-disagreements-between-the-code-and-its-documents)
11. [What is proved](#11-what-is-proved)
12. [What is not modelled](#12-what-is-not-modelled)
13. [Running it](#13-running-it)

## 1. The system

NurProxy runs reverse proxies on many hosts from one place.  One **orchestrator**
(`cmd/nurproxy`, `internal/orchestrator`) keeps a SQLite database of agents, servers,
zones, domains, certificates and config artifacts, talks to the DNS provider and the
ACME authority, and serves a REST API, an MCP server and a dashboard.  One **agent**
per host (`cmd/nurproxy-agent`, `internal/agent`) holds a stream to the orchestrator,
renders the routes it is sent for nginx, Apache, Caddy or a generic proxy, and
acknowledges.  An optional **privileged helper** (`internal/agent/helper`) makes the
changes that need root, as journalled transactions.

    admin / MCP --> api, mcp --+                        +--> DNS provider, ACME
                               v                        |
                          SQLite (db) <----> reconciler, tls
                               ^                 |
          apply-ACK, reports   |                 | intent sets
                  +------------+---- agenthub <--+
                  |                     |
                agent <-- stream -------+
                  |--> proxy holder --> nginx | apache | caddy | generic
                  |--> helper (root): transactions, journal
                  +--> recovery: diagnose, repair, roll back

The components and, for each, its state, its operations, what makes it hard, and what
makes it correct:

| Component | State | Operations | Hard | Correct when |
|---|---|---|---|---|
| **Domain DNS lifecycle** (`reconciler.go`, `db/domains.go`, `api/domains.go`, `mcp/server.go`, `provider/*`) | domain rows (status, name, agent, record id, dns_managed); the zones at the provider | create, PUT, DELETE, cascade, takeover, apply-ACK status; per cycle: tear down, adopt, create, retarget | handlers and reconciler act on snapshots of a row; provider calls fail or lose their answer; restart between a call and its row update; the operator edits the zone too | only records NurProxy created or took over are deleted; teardown completes; records do not leak; every domain ends served or visibly blocked |
| **Route synchronisation** (`agenthub/hub.go`, `reconciler.go`, `api/agents_stream.go`, `agent/stream`) | subscribers and their buffers; desired routes; what the agent has applied; suppression fingerprint | subscribe, evict, publish, intent set, apply, ACK, report, tick | messages dropped on a full buffer, evicted streams, an older set published after a newer one, an ACK for a set that is no longer current, suppressed applies | the live set reaches the desired one once the database is quiet; drifted files and live certificates are never pruned; suppression never skips a needed apply |
| **Agent DNS anchors** (`reconciler.go`, `anchor_cleanup.go`, `ddns`) | A and AAAA records per agent, the cleanup queue, last reported addresses | ensure, update, rename, delete, queue cleanup, report IP | cleanup after the row is gone; retries of lost deletes; address changes while a cycle runs | no anchor leaks; an anchor in use is never cleaned up; anchors follow the last reported address |
| **Certificates** (`tls/`, `reconciler/renewal.go`) | certificates, issuance in flight, backoff | issue on create, renew, import, clean up | issuance finishes after the domain is gone; cleanup checks, then deletes, while a domain is created | a certificate that is served is not deleted; one issuance per host; backoff holds |
| **Config artifacts and drift** (`db/config_artifacts.go`, `api/artifacts*.go`) | artifact versions, drift state, what is accepted | report, accept, reject, roll back, adopt | reports race decisions; a decision on a version no longer current | a drifted file is overwritten only by decision; versions only grow |
| **Managed routes, moves** (`db/managed_route_tombstones.go`, `db/domain_move.go`, `recoverycontrol/managed.go`; `configmove` has no caller) | managed routes, tombstones, generations | sign an apply intent, tombstone, delete, move | an intent signed before a deletion is applied after it; expiry | a deleted route is not resurrected; a tombstone goes only when confirmed |
| **Agent lifecycle** (`api/agents.go`, `db/agents.go`, `adoption`) | agent rows, tokens, adoption state, last heartbeat | register, adopt, reject, delete, heartbeat, go offline | a heartbeat racing the offline scan; restart in mid-adoption | an agent is adopted once; only an adopted agent receives routes |
| **Proxy holder and backends** (`agent/proxy`) | files on disk, enabled links, running configuration, certificate store | apply a batch, validate, reload, roll back, prune, swap backend | one of several writes fails; validation fails; swap during an apply | after a failed apply the earlier configuration is back; foreign files are untouched |
| **Agent recovery** (`agent/recovery`, `recoverycontrol`) | attempts, snapshots, circuit breaker | detect, plan, snapshot, apply, validate, roll back, recover at start | crash between two steps; persisted breaker state; repeated failure | never a repair without a snapshot; at rest it is repaired, rolled back or reported; the breaker limits attempts |
| **Privileged helper** (`agent/helper`, `helperprotocol`, `helperclient`) | journal, transaction state, backups | prepare, commit, confirm, roll back, recover at start | crash at any point; retried request; disconnecting client | a transaction is applied whole or not at all; a repeated request has one effect |
| **Auth, sessions, rate limits** (`shared/auth`, `ratelimit`, `recoveryauth`) | sessions, windows, keys | log in, expire, allow, rotate | window boundaries, concurrent requests | the limit holds in every window |
| **Log broker, metrics, notifier** | bounded subscriptions | publish, subscribe, close | full buffers, close during publish | a slow reader never blocks; nothing is sent to a closed stream |
| **Generators and parsers** (`nginxgen`, `apachegen`, `caddygen`, `nginxparse`) | none | render a route, parse a virtual host | three proxies read their directives differently; text the parser does not represent | clients are answered as intended by each proxy; parser and proxy agree |
| **Data directory** (`cmd/nurproxy/backup.go`, `orchestrator/db`, `dataperms`) | database, sidecars, keys | start, migrate, back up, restore | a process killed between two renames; a start beside a backup | a restore leaves the old state or makes the new one; no database comes without its key |
| **Command line, installer, dashboard** | none | wiring | | not modelled |

The hazards — every place where an order, a failure or a stale value can go wrong and a
test would hardly reach — are in `PROJECT.json`, each at its line with the properties
that cover it.

## 2. Plan

Each component has a module of its own, with its parameters as CONSTANTS and one action
per operation or statement; an `MC` module with the small instances; and, where something
is proved, a `Proofs` module that EXTENDS it.  Components that share no state are
model-checked together, in a module that lets each behaviour be one of them: their cost is
that of the sum, not the product, of their states.  None that is proved about uses RECURSIVE.

| # | Modules | What they model | Section |
|---|---|---|---|
| 1 | `DnsZone`, `DnsOwnership`, `DomainDns` | domain rows and their records; `DnsOwnership` is the abstract promise | 3 |
| 2 | `RouteSync` | from the rows to the files of one agent and back | 5 |
| 3 | `Recovery`; `BreakerState`, `Breaker`; `RecoveryReports`; `RepairFiles`; `Diagnosis` | a repair and its crashes, the breakers, the reports, a repair file by file, the diagnosis | 4 |
| 4 | `HelperEngine`, `HelperPromise`; `ManagedApply`; `HostActions` | the journalled transactions of the root helper, their abstract promise, what they do to the host | 6 |
| 5 | `ManagedRoutes` | tombstones, from the request that takes a route away to the helper's receipt | 6 |
| 6 | `AgentAnchors` | address records, renames, the cleanup queue | 7 |
| 7 | `AgentLifecycle`, `Certificates` | rows of agents; central certificates | 7 |
| 8 | `DataDir` | starts, backups, restores | 7 |
| 9 | `ProxyFiles`, `BuiltInCaddy` | a push, write by write and call by call | 8 |
| 10 | `NginxVhost`, `VirtualHosts` | what three renderers, the helper's policy and the parser make of a route | 8 |

`MCOrchestrator`, `MCProgress` and `MCComponents` compose the instances for the runs.  What
is left: the history of artifact versions and rollback to one; the deferred deletion of
parent rows; the two address families side by side; and a proof of what section 11 lists as
only model-checked.

Bounds: two of a thing where two can interfere (two domains, two names, two agents), one
otherwise; every disturbance of the environment has a budget, given case by case.

## 3. Domain DNS

### Modules

- **`DnsZone`** holds the records at the provider.  A record is known by its id; type and
  content are one value (a CNAME to an agent's FQDN is that agent, anything else is
  `Elsewhere`), since that is all `matchingRecord` tells apart.  `HasRecord`, `At`,
  `Matching`, `Deleted` are the provider calls as the Cloudflare plugin makes them; in
  particular an id is looked up *in the zone of the asking domain*, so a record on file
  for a domain that was renamed into another zone is "not found".  Two components of the
  state are history, and no guard of the program reads them: `basis` (on what basis
  NurProxy acts on a record) and `writer`.
- **`DnsOwnership`** is the promise, over the zone alone: the operator may do anything;
  NurProxy creates only at a free name, edits only a record it has some basis for, and
  deletes only what it created or was ordered to take over.  It says nothing of rows,
  goroutines or snapshots.
- **`DomainDns`** is the program.  **`MCDomainDns`** has the instances,
  **`DomainDnsProofs`** the proofs.

### State

| Variable | In the program |
|---|---|
| `row[d]` | the row of `domains`: `status`, name (`subdomain` + `zone_id`), `agent_id`, `dns_record_id`, `dns_managed`. Ids are AUTOINCREMENT, so `unborn` goes to `gone` once |
| `rc` | the reconciler's goroutine: where it is in `reconcileDeletions` or `reconcileDNS`, the rows *as the phase's SELECT returned them* (`snap`), those still to visit, a record id not yet stored |
| `upd[d]` | the whole row a PUT (or the config forms of it, or the MCP tool) will write back |
| `tak[d]` | a `POST .../dns/takeover` in progress: the name and target it read, records still to delete, an id not yet stored |
| `ack` | domains an apply-ACK has listed and will mark |
| `left` | what is left of the environment's budget |

### Actions

Every database statement and every provider call is a step of its own, since goroutines
interleave there and nowhere else matters.  A call and the in-memory decision on its answer
are one step.

- `ListDeleting`, `KeepRecord`/`DeleteRecord`/`DeferDelete`, `ClearRecord`, `EraseRow` are
  `reconcileDeletions`; whether a record is deleted is decided by `Owns` on the *listed* row.
- `ListLive`, `Visit*`, `Retarget*` are `reconcileDNS`; `Lookup*`, `AdoptRecord`,
  `MarkAdopted`, `Create*`, `StoreCreated` are `ensureDomainCNAME`.  `VisitUnreadable` is the
  transient error that must not be taken for a miss (#66).
- `CreateDomain`, `DeleteDomain`, `ReadForUpdate`+`WriteUpdate`, `ListForAck`+`MarkApplied` are
  the handlers.  `WriteUpdate` writes *every* column of what `ReadForUpdate` saw, as
  `db.UpdateDomain` does.
- `Takeover*` are the steps of `TakeoverDomainDNS`.
- `OperatorAdds/Edits/Removes` are the operator at the provider's dashboard; `Crash` is a
  restart of the orchestrator.

Failures: a *refusal* is a provider call that fails without effect, a *loss* one that
takes effect and whose answer is lost, a *dbfault* a failed write of a record id or failed
removal of a row (the code logs these and goes on).

### Fairness

`FairSpec` adds weak fairness of the reconciler as a whole — `loop` runs `RunOnce` on a
ticker until the context ends (`reconciler.go:543-565`), and within a cycle every domain of
a phase is visited whatever happens to the others — and of the second half of a request
that has begun (`WriteUpdate`, `MarkApplied`, `TakeoverStep`): a goroutine that is running
goes on.  Nothing is assumed of users, agents, the operator or the provider: that a failing
provider comes back is in the budget, not the fairness.

## 4. Agent recovery

When an agent finds its proxy configuration broken in a way it knows how to mend, its
coordinator repairs it; or a user asks the orchestrator to have it repaired.  Five modules
look at sides of it.

### `Recovery`: a repair, its snapshot and a crash

| Variable | In the program |
|---|---|
| `files[r]` | the files of a resource: good, faulty or half written, which writing it was, and by which operation |
| `disk[o]` | the operation's manifest in the snapshot store: its state, and what the snapshot captured |
| `cur` | the operation the coordinator is at, under its lock: the next step of `repairLocked`, `rollbackLocked` or `Recover` |
| `memory`, `found` | `c.operations`, `c.candidates`: lost in a crash |
| `running`, `resuming` | the process; the operations `main` has still to resume |
| `latched` | what a failed rollback leaves in the breaker's file |
| `executed`, `damaged` | history: how often an operation mutated files; resources on which a rollback failed |

`TakeSnapshot`, `Apply`, `Execute`, `Revalidate`, `Validate` and `Succeed` are the stages of
`repairLocked`, each with its manifest transition first; `EnterRollback`, `Restore`, `Check`
and `Conclude` are `rollbackLocked` and the end of `Recover`.  `Crash` may happen between any
two of them and inside those that write (`Interrupted`): a mutation or a restoring half done,
a manifest written and the breaker not yet told.  `Restart` and `Resume` are
`cmd/nurproxy-agent/main.go:467-480`: prune, list what is active, resume each, before
anything else.  `Persisted` and `NotPersisted` are `SnapshotStore.transition`, where
a write may fail, also after it has been renamed into place, and a manifest in another state
than expected is refused.

### `BreakerState`, `Breaker`: the circuit breakers

`BreakerState` is the agent's `breakerState` as operators (`Compact`, `AfterAllow`,
`Permits`, `Recorded`, `Readable`).  `Breaker` runs it against a clock, with restarts that
read `breakers.json` back, and puts beside it what the orchestrator derives from *every*
outcome reported to it (`seen`, `Tripped`), which is how it shows the breaker and refuses
requests.  The two were written apart; whether they agree is the question.  `Faults` says
whether the file cannot be written (`disk`), a request made in time arrives late (`slip`), the
agent crashes in an attempt (`crash`).  Reports arrive at once here.

### `RecoveryReports`: telling the orchestrator

The coordinator enqueues each state of an operation, and snapshots of the active
diagnostics; `BoundedReporter` sends them from a goroutine of its own; the orchestrator
accepts an operation only state by state and under an active diagnostic, and answers anything
else with a conflict, upon which the reporter gives the operation up (`quarantined`).
`EnqueueOp`, `EnqueueSnapshot` are `Enqueue` with its superseding and its limit;
`StartFlush`, `Take`, `Sent`, `NotSent`, `Refused`, `EndFlush` are the statements of `Flush`
between which the lock is released; `Rotate` is its moving a report that must wait behind the
others; `Receive` is `handleRecoveryReport`; a *lost* answer is a report delivered whose
sender believes it was not.

### `RepairFiles`: one repair, file by file

`onDisk[p]` is what is at each path (kind, inode, content): the vhost, its link, an auth
file, a temporary, the certificate and its two keys.  `Inspect` takes the identity of what it
proposes to touch, `Preflight` and the guard look again, the snapshot captures one file after
the other, the repair looks at each a last time (`Aim`), and removes or rewrites it (`Touch`) *only if it was still
what was inspected*, and
a rollback writes them back in reverse.  Between any two of these an operator writes in
place, replaces, removes, or puts a directory there, and the agent may crash.  `job.left` is what the
repair has still to touch, a link before the file it leads to.  `theirs` and `disturbed` are history:
what others left at a path since the repair last found it as inspected, and what they touched after
the rollback looked; `late` is where they wrote between its last look and the rename.

### `Diagnosis`: from a command's output to a repair

A report is the lines a test or reload wrote and how it ended; `FailureOf`, `Classify`,
`LocatedVerdict` and the rest are `proxy/failure.go` and `recovery/classifier.go` decision by
decision.  Around them runs the stream (`BeginPush`, `InspectPush`, `ApplyFails`,
`ObserveFailure`), with `notes` (active diagnostics), `offers` (candidates) and `latches` as
the coordinator keeps them; repairs follow by themselves or on a user's request.  `aged` is history:
the offers that stand without the last inspection having made them.

**Fairness.** `Recovery`: weak fairness of the coordinator, which goes on with a repair it
holds the lock for, and of `Restart` (a service that dies is restarted).  `RecoveryReports`:
weak fairness of the reporter, whose `Run` loops on a ticker for ever, and of a repair under
way.  `Breaker` claims nothing that needs fairness.

## 5. Route synchronisation

`RouteSync` follows one agent: from the rows in the database to the files on its host, and
back by its ACKs and heartbeats.  The operator edits the files, and decides in the dashboard
on what the heartbeats found ("drift").

| Variable | In the program |
|---|---|
| `row[d]` | the domain's row: its status, and what it says of the route |
| `art[d]` | `config_artifacts`, the artifact `dom-<id>`: source, content, `apply_state` (which has `drifted` in it), `drift_content` |
| `auto` | the agent's `auto_reconcile_config` |
| `slot[p]` | a goroutine that builds sets, the reconciler or a request's: the agent and the rows it read, then the set it built |
| `link`, `chan` | the agent's subscription, and the channel behind it |
| `agent` | the stream's goroutine, which applies, then waits for the answer to its ACK |
| `acks`, `beat` | ACKs, stored but not yet marked or not stored at all; a heartbeat |
| `disk`, `managed` | the files; `c.managed`, which says what a heartbeat checks |
| `last`, `fresh` | the suppression gate: `lastApplyFP`, `lastApplyClean`, and whether `suppressionTTL` is over |

A file's content is a text and whether it begins with NurProxy's marker line, since that is
what `Prune`, the stamping of raw content, and the byte-for-byte comparisons look at.

`Listed`, `Build` and `Publish` are the three moments of a push: the agent and its domains are
read, then the artifact of each domain (`buildDesiredRoutes`), then the set is put into the
channel, or dropped.  `BeginTeardown` and `EraseRow` are the two deletions at the end of
`reconcileDeletions`.  `Suppress`, `Apply`, `ApplyFails` and `FinishApply` are `applyIntents`:
rendering, the gate, the prune and the batch, then what is remembered and sent.  Rendering
may fail for any set of routes.  `StoreReports` and `MarkDomains` are the halves of
`handleAgentRoutesAck`; the agent gives up waiting after 15 s (`AckTimesOut`) while the
handler goes on, so that two ACKs can be under way.  `Beat`, `HandleBeat` are
`ManagedChecksums` and `ReconcileArtifactChecksum`.  The requests are the handlers; one that
pushes leaves its goroutine "due".  `Restart` loses what the agent has in memory.

One step each are: the reading of all artifacts in `Build`, the reports of one ACK, the rows
it marks, the two statements of `ReplaceConfig` and of `Accept`.  The prune and the batch are
one step too, as only the agent and the operator write there.  There are two publishers, two
ACKs and one heartbeat under way, one stream, and a buffer of 1 instead of 16 (the reconciler
and a request are enough to fill it).

**Fairness.** The reconciler's loop and its teardown of what is marked deleting (each cycle
begins with it: strong fairness of `BeginTeardown`, since `Tick` may find the goroutine idle
first), goroutines of requests and ACKs that run, the agent's reconnecting loop (strong,
because a push keeps it waiting), its heartbeats, and the clock behind `Expire`.  Nothing is
assumed of users and operators.

## 6. The privileged helper and managed routes

### `HelperPromise` and `HelperEngine`: transactions

`HelperPromise` is what the helper owes the host: an operation takes effect whole, in one
step (`Commit`), or not at all (`Abandon`); where nobody can say, it is in doubt (`Doubt`),
and from then on nothing takes effect.  It has no journal and no process.

`HelperEngine` is `engine.go` and `journal.go` statement by statement:

| Variable | In the program |
|---|---|
| `host` | what is on the host: files, links, services |
| `plan`, `confirmed`, `current`, `receipt` | the orchestrator's tables |
| `journal`, `claims`, `snaps`, `breaker` | the helper's files; the breaker in memory and on disk |
| `hp` | the process: the statement of `Execute`, `rollback` or `Recover` it is at |
| `expired` | plans and grants whose time has run out |
| `wrote`, `executed`, `pruned` | history |

Every write of the journal may fail before or after its rename (`Log`, fault "disk") or be cut short by a kill, which leaves a file
that no later start gets past (`Broken`), every
write to the host before or after it took effect ("install", "sync"), the process may die
anywhere ("crash"), validation may fail ("invalid"), an operator edits ("edit"), and the write
of the breaker during recovery may be lost ("relatch").  `Promise` is the refinement mapping:
what an operation in flight has written is not yet live; in its place is what it displaced.
**Fairness**: the process goes on, and systemd starts one that died.

### `ManagedApply`, `HostActions`: what a transaction does

`ManagedApply` compiles one signed intent on the host as it is (routes, raw routes,
certificates kept and staged, tombstones, pruning that spares what surviving configurations
refer to), commits file by file, validates, reloads, attests, and restores on failure, while
an operator edits, also between the look at a path (`Inspects`, `looked`) and the rename (`Write`).  `inUse` is what the running workers were started with.  `HostActions` has
the single actions (firewall, access, sandbox, package, start, reload, restart) as instances
of one protocol: facts, steps, proof, undo.

### `ManagedRoutes`: tombstones

The helper deletes a virtual host only when a signed intent lists it.  Requests, the teardown
and the goroutines that push are sequences of steps (`calls`, `burying`, `pushing`); the agent's
stream (`inbox`, `worker`) plans, executes and waits for its receipt to be stored; `tombs` is
the table: the ids it has, each with those that are older, as the oldest tombstone of a host is
the one an intent lists.  `spoiled` is history: hosts of a set that was built from rows which had changed
when it was signed, and of a domain that came back before the receipt of its deletion was in.

## 7. Anchors, agents, certificates, the data directory

- **`AgentAnchors`**: a cycle of the reconciler (teardown, retarget, ensure, cleanup queue) with
  the rows it read, requests that write an agent's row from the copy they read, heartbeats,
  the operator's zone edits.  Failures: provider, database, crash.  One address family; A and
  AAAA are tracked apart in the code.
- **`AgentLifecycle`**: `listed` rows, the agent's process and stream, one heartbeat statement by
  statement, operators' requests as read and later full-row write, the offline sweep.  Of what
  an agent reports only its age is kept.
- **`Certificates`**: issuances on creation and the renewal scan under the lock of a host, the
  teardown's cleanup without it, holds after rate limits with their doubling, the contact
  address.  Every statement may fail, those that read a certificate, a hold or a list with
  what the code makes of each: `blind` is history, of a certificate that counts as none for that.
- **`DataDir`**: the files by inode and content; a start makes what is missing, migrates, opens;
  a backup copies beside it; a restore stages, checks and renames.  All three are processes
  that may be killed between any two system calls.

## 8. Pushes to a proxy, and what is pushed

- **`ProxyFiles`** (nginx with sites, nginx or Apache with conf.d, generic): certificates installed
  and scrubbed, routes rendered, orphans pruned, files written, tested, loaded, rolled back, each of
  which the disk may refuse or a crash cut short half way, the rollback's own writes too.  `before`,
  `touched` and `refusals` are history.
- **`BuiltInCaddy`**: every call of the admin API of one push, with what `ClearRoutes` leaves
  behind, the strategies of TLS, the local API and the hot switch.  External: `PUT` replaces and
  certificates are read when `load_files` is set, as the code's comments say.
- **`NginxVhost`, `VirtualHosts`**: a route as a record, the directives the three renderers write
  for it, the allowlists of the helper's policy, the mask `nginxparse` reads back, and, external,
  how each proxy answers a request with those directives.

## 9. What the runs show

`FairSpec` is checked where a run has a liveness property; deadlock is checked in the DNS and
route-synchronisation runs, whose systems never stop (in the others clocks, budgets or
operations end).

| Run | Instance | Shows |
|---|---|---|
| `dns_shared` | 1 domain, 1 name, 2 agents, 4 record ids; four mixes of an edit, a takeover, a DELETE, a PUT, a loss, a refusal, a database error, a restart | `OwnershipHonoured`: every step is one the promise allows. `NeverWedged`: no domain stays "deleting". `Converges`: every surviving domain ends served, or blocked by a record NurProxy may not touch |
| `orchestrator` | in each behaviour one of: DNS with 2 domains, 2 names, 3 record ids, two of an edit, a DELETE, a refusal; 6 lives of an agent; 5 plans of certificates; 4 affairs of the data directory; 3 tours of managed routes | `CreatedOnFile`: a record NurProxy created is on file or about to be. `DecisionsKept`: no stale copy undoes what operators decided. `BeatHeals`: one undisturbed heartbeat makes row and agent agree. `FirstOrderOnce`, `ScanCovers`: the CA is asked once, unless a read fails, and an undisturbed scan leaves no host out. `DataKept`: a restore leaves the old state or makes the new one, and no database comes without its key. `NoneForgotten`: no virtual host is left that neither a row nor a tombstone will have deleted |
| `progress` | 1 resource, an automatic and a user's repair; {crash} or {crash, disk, retention}, 2 faults, 1 other write. Or reports of 2 operations, of one diagnostic or of two, with a lost answer, a refusal, a failed send; of one diagnostic without any of these too | `MutatesOnce`, `UndoesOnlyItsOwn`, `StopsAfterFailedRollback`, `RestoresExactly`, `Concludes`; `ReportsKept`: the reporter's counters are what its queue holds, and states go in sequence; `Delivered`: every outcome arrives, but that of an automatic repair a user's overtakes |
| `sync_faults` | 2 domains; any two of a request, an edit, a failed render or apply, a loss, a restart | `CleanMeansLive`: what is suppressed is live. `KeepsReviewed`: a set built during a review leaves the file alone |
| `sync_settles` | 1 domain, a request and an edit in any order | `Settles`: served as decided, under review, in error for its settings, or gone |
| `helper` | two managed applies, the second superseding the first, a start and a reload of the service; 8 cases of two operations and one or two faults of a choice, a crash within a write of the journal among them | `KeepsPromise` (the refinement), `ExecutedOnce`, `IncidentLatched`, `Concludes` |
| `components` | in each behaviour one of: the breakers (window 2, open time 4, threshold 3; 8 ticks without faults, 5 with all); 3 worlds of anchors; three pushes in each layout of files with two mishaps (sites) or one; two pushes to the built-in Caddy; one managed apply or one single action with every host it distinguishes; one repair with one or two edits by others; every route of a choice in three proxies; nine hosts to diagnose | `LatchHolds`, `BreakersAgree`; `AnchorsOnFile`, `SparesWhatIsInUse`; `Undone`, `NeverBlocked`; `CaddyServes`; `WorkersServed`, `EndsWhole`, `OperatorsKept`; `UndoneExactly`; `EndsAsSaid`; `AnswersAsIntended`, `ReadersAgree`; `RepairsOnlyItsOwn`, `DiagnosedAsIs` |
| `dns_overwrite`, `anchor_wedged`, `cert_orphaned`, `report_order`, `sandbox_paths` | the smallest instance with the behaviour | section 10 |

**Why the bounds are enough to be interesting.**  A refinement or invariant about one row, one
record or one operation meets every stale snapshot with one of them, and a second agent, name
or operation is what it takes to be moved, renamed or superseded.  The number of record ids is
what operator, reconciler and takeover can create under the budget; one of each disturbance
already composes, since the cases mix them.  Window 2 and open time 4 keep the code's order
(threshold failures fit into the window, the window into the open time), and 8 ticks are an
open time, a window, and the boundaries of both.  Two lanes with three states each are what the
reporter's rotation needs to go wrong.  Three pushes are one to set up, one to disturb, one to
see whether the next heals.  The theorems of section 11 remove the bounds where they apply.

**What the budgets leave out, and why.**  `CreatedOnFile` is checked without PUT, takeover, lost
answers, database errors and restarts: with these a record *can* drop off file (section 10),
what is lost that way leaks, but nothing of the operator's is ever deleted.  `Converges` is
checked without renames, which never move the CNAME.  `NoneForgotten` is checked with requests
that do not overlap (`Overlap = FALSE`), `NeverBlocked` only where nothing of the operator's own is
in the way.  Some properties carry such an exception in their statement, as their comments say;
what happens without it is in section 10.

## 10. Disagreements between the code and its documents

Five have a run that expects a violation, of a property that states the document's words:

1. **An adopted record is overwritten** (`dns_overwrite`, `NeverOverwritesForeign`).
   `docs/qa/05-dns-lifecycle-and-ipv6.md:196`: "It **never** overwrites a record it did not
   create."  `reconcileDNS` calls `UpdateRecord` on whatever is on file, without looking at
   `DNSManaged`.
2. **An agent renamed away and back stays without its record** (`anchor_wedged`, `Anchored`): its
   former record has the wrong address for the ensure and is still needed for the cleanup, so
   that neither gives way (`anchor_cleanup.go:125`; two agents that swap names likewise).
3. **A certificate outlives its domain** (`cert_orphaned`, `NoOrphans`): an issuance under way at
   the teardown saves it afterwards, and nothing deletes it; so does a rename.
4. **The reports of an operation overtake each other** (`report_order`, `OrderKept`): one that waits
   for its diagnostic goes to the tail without holding back the next (`reporter.go:184`), which
   is sent first and refused.
5. **The sandbox repair is always rolled back** (`sandbox_paths`, `UndisturbedSucceeds`):
   `parseSystemdProperties` drops `ReadWritePaths`, which its postcondition reads.

Others were met while modelling, and are why a property carries an exception or a run leaves
something out.  The second column says how each shows: a constant or guard to change in the
module named, or "by reading".

**Domain DNS and anchors**

| What happens | Shows with |
|---|---|
| A PUT writes back the `dns_record_id` it read; if the reconciler stored one meanwhile it is lost, the record is adopted as foreign and survives the teardown | `CreatedOnFile` with "updates" in `Orderly` |
| A rename never moves the CNAME: the id of the old name stays on file and only contents are compared | `Converges` with `Hosts = {h1, h2}`, `Renames = {h2}` |
| A DELETE is undone by an apply-ACK that listed the domain before (`WHERE id = ?` only) | by reading: `MarkApplied` writes whatever the status is |
| An anchor whose create answer or database write was lost is later adopted as unowned and never deleted; one deleted out of band is never recreated; in DDNS mode an adopted one follows the agent's address | `AnchorsOnFile` without `astray`; by reading |
| `handleUpdateAgent` writes the whole row from what it read: address, status and name may go back until the next heartbeat | `AgentAnchors.WriteAgent`, `AgentLifecycle.FullWrite` |

**Route synchronisation, managed routes**

| What happens | Shows with |
|---|---|
| An edit that was accepted ("it becomes the new baseline") is replaced by an ACK of a set pushed before, or, when its first line is not the marker, of its own push | by reading: `Stored` |
| A set pushed before an edit was found overwrites it; so does the next push after a failed apply, which clears the drift of an artifact under review | `KeepsReviewed` is about sets built during a review for this reason |
| After a restart a kept file is not among `c.managed`: no heartbeat reports it | by reading: `NowManaged` |
| Reset-to-model stores a placeholder; a heartbeat before the ACK finds a drift nobody caused | by reading: `ResetToModel`, `Compared` |
| A route that fails to render is neither applied nor kept, and its live file is pruned | `Apply` with `bad` not empty |
| An ACK between a teardown's two deletions creates the artifact again | by reading: `Stored` between `BeginTeardown` and `EraseRow` |
| A set built before a deletion and signed after it brings the route back after the confirming receipt; a domain that returns before a deletion's receipt loses its next tombstone | `NoneForgotten` without `spoiled` |
| Overlapping requests for one domain remove each other's tombstone | `NoneForgotten` with `Overlap = TRUE`, `Callers = {1, 2}` |
| A rename on the same agent leaves the old virtual host as a leftover for good; a pending tombstone of nginx wedges every managed apply after a switch to Apache | by reading |

**Recovery**

| What happens | Shows with |
|---|---|
| `compact` drops old failures and leaves `openedAt`; a failure recorded then is written as an open breaker that `NewPersistentBreaker` rejects at the next start | `ReadsBack` as an invariant of `Breaker` |
| One manifest write that fails after its rename keeps an operation "applying" while later ones work; a restart then rolls their work back | `UndoesOnlyItsOwn` without its condition on "disk" |
| A rollback that fails because of its manifest latches nothing | `StopsAfterFailedRollback`, likewise |
| A user's request delivered again after its manifest was pruned is carried out again | `MutatesOnce` without its condition on "retention" |
| A failed rollback's manifest is active for ever; each start records it again | `BreakersAgree` without its condition on manifests |
| A report long under way resolves its diagnostic at arrival, the newer observation is ignored, its operation refused (`db/recovery.go:281`) | by reading |
| A diagnostic seen again is dropped as a duplicate of an older snapshot with a later one queued behind it (`reporter.go:136`): the later one resolves it, and its operation's first report is refused | `ReportsKept` with three operations of two diagnostics, without `DroppedForAnOlder` |
| An automatic repair whose first report comes when the user has asked for another of the same diagnostic is refused with 409 and quarantined: its outcome never arrives, although an admitted operation's sequence is promised to be preserved (`reporter.go:72`) | `Delivered` without `Crossed` |
| The last look at a file (`recoverypath.go:123`, `303`) comes before the rename or unlink (`:129`, `:306`): an edit in between is lost, and the repair says succeeded | `EndsAsSaid` without `late` |
| A user's request accepted between the agent's success and its next snapshot stays "planned" and blocks the resource; one stored before an automatic operation's first report makes those refused | by reading |
| When an inspection failed, an old offer survives a push that wants its host again, and a user's request prunes the live vhost | `RepairsOnlyItsOwn` without `aged` |
| An inspection keeps the offer of an incident's diagnostic (`coordinator.go:196`); when its host comes under review meanwhile and a failure is observed at its vhost, the offer is filed under the new observation too (`:137`), whose breaker key is not latched, and the repair prunes the file under review by itself. The design requires that "No artifact is manual, adopted, drifted, or awaiting operator review" (`safe-agent-recovery-design.md:48`) | `RepairsOnlyItsOwn` without `aged`: TLC needs three pushes and a failed rollback |
| A broken new route is rolled back before it is observed: its absent link is taken for the operator's | by reading: `LocatedVerdict` after `ApplyFails` |
| The stream names no certificate files, so no failure of a managed certificate is ever attributed | by reading: `DesiredResources` |

**The helper**

| What happens | Shows with |
|---|---|
| `ExecuteManagedApply` drops `changed` when a write fails after it took effect: the journal says failed_before_mutation | `Abandon` in `HelperPromise` without the lapse "sync" |
| `Recover` records outcome_indeterminate, then opens the breaker and drops the error: a crash or failed write between loses the latch | `IncidentLatched` without its condition on "relatch" |
| A helper killed within `writeRecord` (`journal.go:841`) leaves a `.journal-*` file among the records, with which `Recover` (`:569`) ends every later start, the breaker open: what was in flight stays so. One among the plans makes every later plan refused (`ensurePlanCapacityLocked`) | `Concludes` without `Broken`; the plans by reading |
| A managed apply looks at a path (`actions_managed_apply_linux.go:1190`, `1254`, `1010`, `1025`), writes and syncs a temporary file, and renames or removes (`:1241`, `1264`, `1015`, `1030`) whatever is there by then, an operator's file too, against "refusing to overwrite operator-owned proxy configuration" (`:1179`) | `OperatorsKept` without `Raced` |
| A transition that fails leaves its record "running" until a restart, while later operations build on what it wrote | `KeepsPromise` with two operations on one file and "disk" (`Apart`, section 11) |
| Managed applies never have full rollback coverage: any managed rollback ends in rollback_failed and the permanent breaker | by reading: `Restorable` |
| A managed apply whose receipt is lost after it changed the host is never planned again under its grant; only a new intent heals it | by reading: `AsksManaged` |
| The firewall's rollback stops at 443 when only 80 was opened, and leaves it open; an access rollback refuses unless both steps took effect | `UndoneExactly` is about rollbacks that succeeded |
| A tombstoned host's auth file goes although another configuration refers to it | by reading: `Preserves` |

**Proxy files, Caddy, virtual hosts**

| What happens | Shows with |
|---|---|
| `Render` overwrites auth files and certificates before the apply whose failure should leave everything as it was; the live path is written before the test; a crash there is the next apply's "prior" state | by reading |
| An operator's link is re-pointed, and stays so after the rollback; the rollback overwrites his edits | `Undone` without "elsewhere" and `touched` |
| An operator's own file in the place of a link makes the apply fail, and the rollback then removes it (`nginx/fileops.go:64`: it was no symlink), although it "is left in place [...] so we never clobber non-managed state" (`:69`) | `Undone` without "copy" |
| What the rollback cannot write or remove is swallowed (`fileops.go:52`, `generic.go:305`) and left half written; a link is removed before the new one is made (`:79`) and may be gone after the rollback. "leaving the proxy serving exactly what it served before" | `Undone` without `refusals` |
| A held file that fails its test, an operator's copy in place of a link, or a file without the marker that does not parse (a half-restored one, say) blocks every apply | `NeverBlocked` without `InTheWay` |
| A crash between the removal of `.crt` and `.key.plain` leaves the plaintext key | by reading |
| The local API writes Caddy without a lock: a push may end clean with a certificate not loaded, and equal pushes are then suppressed for ten minutes | `CaddyServes` without `tampered` and `pure` |
| A push ACKs routes as applied when the backend was switched under it | likewise |
| Apache drops timeouts and web sockets when a path rule is set, nginx and Apache drop the idle timeout, all without the warning `generate.go` promises | by reading |
| Basic auth with an empty user name or password hash passes the API's `ValidateOptions`; nginx and Apache refuse the route, but Caddy's `Render` does not validate, and `generate.go:200` serves it to everybody without a warning. "BasicAuth, when non-nil, gates the route behind HTTP basic auth" (`proxymodel/route.go:164`) | `AnswersAsIntended` without its condition on Caddy in `Asked` |
| nginx runs only the first of strip and rewrite, Caddy both | `AnswersAsIntended` without its condition |
| `nginxparse` says OK for text it does not represent (a lone `deny all`, minutes in a timeout, other headers) | `ReadersAgree` without `Overlooked` |
| Two hosts that differ in "-" and "." share a rate-limit zone and a Caddy route id | by reading: `Slugs` |

**Agents, certificates, the data directory**

| What happens | Shows with |
|---|---|
| A rejected agent that waits never registers again (`docs/qa/04-agent-lifecycle.md:99`); one with a wiped directory waits for good behind its old name | by reading |
| A PUT or reject that read the row before an adoption undoes the adoption | by reading: `FullWrite` |
| Any error of `GetCertificate` counts as "there is no certificate" (`renewal.go:149`, `177`): after a failed read one is ordered that is on file | `FirstOrderOnce` without `blind` |
| A teardown that found no other domain deletes a certificate a domain created meanwhile relies on; there is none until the next scan | by reading: `CleanSteps` |
| A restore cut off between two renames leaves the new database with the old key ("The restore is ATOMIC") | by reading: `RestoresWhole` says nothing of a restore between its renames |
| A backup taken in that moment passes its checks | `DataKept` without `doubtful` |
| `recovery-authority.key` is neither backed up nor restored; a start killed between creating and writing a key file makes every later start fail | by reading: `Archived` |

## 11. What is proved

Each theorem holds for *every* value of the constants that meets the named assumptions of the
modules, which TLC evaluates in every run.  Every inductive invariant below was checked by
TLC, on the run's instance or a smaller one, before it was proved.

| Module | Theorem | States |
|---|---|---|
| `DomainDnsProofs` | `TypeCorrect`, `OwnershipTheorem`, `FiledCorrect` | `[]TypeOK`; `OwnershipHonoured`, i.e. the program implements `DnsOwnership`; `[]CreatedOnFile` |
| `RecoveryProofs` | `TypeCorrect`, `OnceCorrect`, `RestoreCorrect`, `UndoCorrect`, `StopCorrect`, `ReportsCorrect`, `EndsAsSaidCorrect` | `[]TypeOK`, `[]MutatesOnce`, `RestoresExactly`, `UndoesOnlyItsOwn`, `StopsAfterFailedRollback`; of the reports, `[]ReportsKept`; of one repair's files, `[]EndsAsSaid` |
| `BreakerProofs` | `TypeCorrect`, `LatchCorrect`, `AgreeCorrect`, `OwnCorrect`, `DiagnosedCorrect` | `[]TypeOK`, `[]LatchHolds`, `[]BreakersAgree`; of the diagnosis, `[]RepairsOnlyItsOwn`, `DiagnosedAsIs` |
| `RouteSyncProofs` | `TypeCorrect`, `ReviewCorrect`, `CleanCorrect` | `[]TypeOK`, `KeepsReviewed`, `[]CleanMeansLive` |
| `HelperEngineProofs` | `TypeCorrect`, `OnceCorrect`, `LatchCorrect`, `PromiseKept` | `[]TypeOK`, `[]ExecutedOnce`, `[]IncidentLatched`; `KeepsPromise`, i.e. the helper implements `HelperPromise` |
| `AgentAnchorsProofs` | `FileCorrect`, `SparesCorrect` | `[]AnchorsOnFile`, `SparesWhatIsInUse` |
| `HostActionsProofs` | `UndoneCorrect`, `ServesCorrect`, `RollsBackCorrect`, `UnblockedCorrect`, `WorkersServedCorrect`, `EndsWholeCorrect`, `OperatorsKeptCorrect` | `[]UndoneExactly`; of the built-in Caddy, `CaddyServes`; of the pushed files, `Undone`, `NeverBlocked`; of the managed apply, `[]WorkersServed`, `[]EndsWhole`, `OperatorsKept` |
| `OrchestratorProofs` | `RoutesCorrect`, `DecisionsCorrect`, `HealsCorrect`, `OrdersCorrect`, `ScansCorrect`, `DataCorrect` | `[]NoneForgotten`, `[]DecisionsKept`, `BeatHeals`, `[]FirstOrderOnce`, `ScanCovers`, `[]DataKept` |

### Domain DNS

From `NullsDistinct` (null values are not members of the sets they are the nulls of) and
`DomainAssumptions` (the same for rows; renames are names, budgets are natural numbers).  The
refinement mapping is the identity on `zone` and `basis`; each of the 40 actions is, on these
two, an action of the abstract module or a stutter.

`TypeOK` is not enough for that.  That a teardown's `DeleteRecord` is an abstract `Removes` needs
that the record in the reconciler's *snapshot*, marked managed, has basis "created" or
"takeover", although that snapshot may be older than the row, and the row may have been
written back from a PUT's older snapshot still.  `IInv` says that every place a record id is
kept is *grounded*: `RowsGrounded`, `UpdGrounded`, `RcGrounded`, `TakGrounded` (a record id in a
row, in a PUT's copy, in the reconciler's list or about to be stored, or in a takeover,
belongs to a record that was born and has some basis, and if it is kept as managed, one that
permits deletion), and `ZoneNamed` (a live record has a name and a content).  It is inductive
because a basis only ever gets stronger (`Strengthen`) and a record never becomes unborn again,
so that copying an old snapshot preserves it.

`FiledCorrect` says the converse: a record that NurProxy created is on file, from `FileInv`.
There is no duplicate of a name among the rows (`NamesApart`); a created record on file is so
as managed, by the row of its own name (`RowsFiled`); what the reconciler has listed and still
to do is in the row as it was listed, but for its status (`SnapsTrue`); and it takes the record
out of a row, or creates one, only when the row has none that NurProxy created (`WorkSound`).
**The hypothesis `Quiet`**: no PUT that changes a row, no takeover, no lost answer, database
fault or crash; deletes, refusals and any edit of the zone by others are unlimited.  With these a
record can drop off file (sections 9 and 10).

### Agent recovery

`Recovery`, from `RecoveryAssumptions`, for every set of resources and operations and every
combination and number of faults:

- `OnceCorrect` is about behaviours in which no manifest is pruned ("retention").  `OnceInv`
  says that an operation which mutated files has a manifest, so that no snapshot of that name
  can be taken again, and that one about to mutate has a manifest and has not mutated.  That
  manifests stay is `DiskMoves`, the lemma that says all a step can do to one;
- `RestoreCorrect` by `RestoredInv`: while what was restored is checked, and until the outcome
  is written, the files are what the snapshot captured (`CurMoves`: nothing else writes them);
- `UndoCorrect` and `StopCorrect`, where manifests are written ("disk" is no fault), by
  `UndoInv`: the manifest of the operation at work says where it is (`OnRecord`); all that is
  under way is attended to, by the coordinator or by what the restarted agent has still to
  resume, and nothing begins before (`Attended`); what is under way found the files as it
  captured them or has written them itself (`Untouched`); a failed rollback is latched, or
  what will latch it is to come (`Remembered`); and no automatic repair has got past a latch
  that is owed (`KeptOff`).

`RecoveryReports`, from `ReportsAssumptions`, for any diagnostics, repairs, number of states,
limit and case.  `ReportsCorrect` has two halves:

- the counters, whatever fails or is seen again: `LanesInv` adds to `CountsExact` what a lane says
  of its operation (`LaneStates`: one at most is under way, and a lane is terminal when the last
  state was reported), that no report is ahead of its operation (`Reached`), and that what
  is being sent is the head of the queue still, or a snapshot that another one has taken the
  place of (`HeadSent`);
- the sequence, while the run is `Undisturbed`: `InOrder` says that snapshots are queued in the
  order of their numbers (`SnapshotsInOrder`), none names a diagnostic behind a report of an
  operation of it (`NamedBefore`), hence only what is given up for good is ever rotated
  (`BlockedOnly`); that an operation's reports are in order and those the orchestrator does not
  have are all there (`StatesInOrder`); that ahead of a first report the last snapshot names the
  diagnostic, or else the orchestrator has it active (`FirstBacked`, also of the operations yet to
  begin); and that what is queued was seen after it was last resolved (`TimesKept`), so that taking
  it makes it active.

The proof found the second exception of `Undisturbed`, a snapshot dropped for an older one: without it `FirstBacked` is not inductive, and TLC
then found the behaviour on an instance with three operations (section 10).

`Breaker`, from `BreakerAssumptions` and `ModelAssumptions`, for every set of keys, threshold,
window, open time and combination of faults:

- `LatchCorrect` by `LatchInv`: for a key none of whose outcomes was lost on the way to the
  disk, a latch the orchestrator knows of is set at the agent both in memory *and* in the
  file, which a restart reads back;
- `AgreeCorrect`, without faults, by `AgreeInv`: what the agent keeps after any number of
  compactions *tracks* the full history, in memory and in the file.  The failures are in order,
  those it has forgotten are older than the window, and its opening time is that of the last
  failure that can have opened it, so that what it forgot is never what the history still counts.

`Diagnosis`, without any assumption, for any files, layout, reports, policy and mishaps:

- `OwnCorrect` by `OfferInv`: an offer is for a marked temp or a marked vhost, with the link that
  leads to it or without (`OfferForms`), and one for a vhost stands, once the push has inspected,
  only while the host is not wanted, or it is aged (`OffersOwed`).  What is removed is as it was
  inspected, so it is what the offer says.  The proof found the second way to an aged offer: an
  observation may file the offer of another diagnostic, and that one may be kept for an incident
  (section 10);
- `DiagnosedCorrect` needs no invariant: `DiagnosisIsJust` goes through the classifier's decisions.
  That a marked vhost or link of a routed host is never taken for an orphan is `OursAreNamed`: it is
  desired, by exactly one resource.

### Route synchronisation

From `SyncAssumptions`, for any domains, settings, edits, buffer and budget.  `KeepsReviewed`
speaks of the moment a set is applied, `SetsSpare` of all the moments before: every set in a
publisher's slot or in the channel *spares* what was under review when it was built.
`BuiltSpares` says that `buildDesiredRoutes` makes such sets, `SlotMoves` and `ChanMoves` that
sets come from nowhere else, `WriteSpares` that prune and batch leave what is spared.
`CleanMeansLive` is strengthened by `WrittenLive`, the same of the set that has been written and
is not yet remembered.

### The privileged helper

From `HelperAssumptions` and `NullAssumptions`, for any operations, things on the host, targets
and cases (what is called for, which faults occur, how many):

- `OnceCorrect` and `LatchCorrect` by `IInv`: the journal's record says how far the process can
  have come (`OnRecord`), what was mutated has its snapshot (`SnapshotTaken`), a record that may
  begin again is of an operation that has not executed (`OnceRecord`), and an incident on record
  has opened the breaker on the disk, but for the write that is lost in recovery (`LatchRecord`);
- `PromiseKept`: each action is a step of `HelperPromise` or a stutter, under the refinement
  mapping in which what an operation in flight has written is not live and in its place is
  what it displaced.  Nothing is in doubt before the journal says so, and then the host as it is
  becomes live.  What has to be shown is in `RInv`: whatever is displaced was displaced by one
  operation and stands on the host (`Ledger`); one operation is in flight at a time (`Alone`), of
  those called for (`Called`), with the breaker closed (`Latching`); the process knows what it has
  written (`Knows`, `Begun`, `Standing`, `Unmutated`); the snapshot has what was displaced and the
  restore puts it back (`Saves`, `Restored`).
  **The hypothesis `Apart`**: where a write of the journal may fail ("disk"), operations have no
  target in common.  It is needed: with two applies of one file and "disk", TLC finds
  `KeepsPromise` violated.  A failed transition leaves a record in flight, the process goes on, and
  the next operation captures as "prior" what the first wrote and nobody has decided on
  (section 10).  Other faults need no such hypothesis.

`UndoneCorrect`, from `TaskAssumptions`, for any host, action and mishaps: `TaskType` says which
steps of an action, or of its rollback, can be left; `TaskInv` says, action by action, which parts
of the host it has touched (`FirewallInv` only ports that were closed, `SandboxInv` only a drop-in
that was absent) and that each step of the rollback that is no longer left has put back what it
is about, so that none left means that all is back.

### Pushes to the built-in Caddy

From `CaddyAssumptions`, for any sites, sets of intents and number of upsets.  `ServesInv` has two
halves:

- `PushDone`: a push that has met with nothing (no failed call, nobody else at Caddy) has done
  what its phase says.  It is alone at a Caddy that is up (`AloneAt`), the certificates of its set
  are in the store (`CertsStored`), routes are cleared before the TLS strategy is set (`Secured`), and
  from then on the routes that are live are exactly those it has added.  Hence `ServedAtEnd`, and that
  the prune finds no orphan whose certificate it could scrub;
- `MemoHolds`: what is remembered of a clean apply is still served unless others have been at
  Caddy, also after the certificates of an equal set were installed again (`InstallServes`), so that
  such a push is rightly skipped.

### Pushed files

From `FilesAssumptions`, for any hosts, layouts, sets, mishaps and crashes.

- `RollsBackCorrect` by `UndoneInv`: while a push writes, a rollback from where it is `Returns` to
  what was there before.  What it would put back is that (the file `stage` has read just before it
  wrote, although the crash and the operator may have been there since the push began), and what it
  would leave alone is that already.  A file or link that the disk refused is among the `refusals`, for
  itself only;
- `UnblockedCorrect` by `FilesInv`, which follows a push that meets with nothing through its phases:
  the certificates it came with are in (`CertsIn`), what it has drawn asks for them (`SecureIs`), no
  orphan is left (`OrphansGone`), what it has staged is on disk and enabled (`Staging`), and `nginx -t`
  fails only where a file is in the way that the push may neither write nor prune (`OnlyBlocked`); and a push that is
  suppressed follows one whose result is still live (`LastLive`).
  **The hypothesis `Steady`**: a host that is ever sent a certificate is sent one in every set that
  renders it.  It is needed: a set that renders the host without its bundle goes on with the
  certificate on the disk, by design, and that is not the one in the set.

### The managed apply

From `ManagedAssumptions`, for any sites, situations and intents.  An apply plans once and writes
path by path, but what "settled" means is what the same intent would compile to *now*, on a host
the apply has changed meanwhile.  The argument is that it compiles, at every step, to the same
(`Goes`, `Compiles`): whatever the apply has written so far, a virtual host it preserves is
preserved still, a host whose intent it admits it would admit still, and a path it would delete
it has still to delete (`Compiles`).  An apply takes away only what no text it leaves refers to
(`Disposable`), and until the reload only what no worker does (`WorkInv`, `Last`).  `UndoInv` is the same
of the way back.

- `EndsWholeCorrect` and `OperatorsKeptCorrect` need no hypothesis.  What a step writes over is what it
  has `looked` at, or something that came between (`Raced`);
- `WorkersServedCorrect` has **the hypothesis `Sound`**: an enabled virtual host that is on the disk
  when the apply begins finds the auth files it refers to.  Where one was missing before, the
  workers miss it before the apply has done anything.

### The files of one repair

`EndsAsSaidCorrect`, from `RepairAssumptions`, for any host, any edits by others at any moment and
any number of crashes.  `RepairInv` says of every file that was inspected and to which nobody
else has written since (`Unspoiled`) what is at its path, by where the repair is: until it begins
what was inspected; then, of the files it has still to touch, that, and of the others what the repair
was to leave (`ForthInv`, `Touched`), the file it has aimed at included; from the file the rollback
has come to, what was captured, unless a file was not put back and the outcome will say so (`BackInv`).  Where the operation is follows
from its manifest (`PhaseInv`), which is why a crash anywhere changes none of it; and what is
captured is, path by path, what was inspected, each path once (`PathsInv`).  A certificate takes more:
a runtime key may be rewritten although *another* file of its bundle is being edited, so that `Touched`
speaks of the pair only while the certificate is unspoiled.

The attempt found the earlier statement of the property too strong.  It counted an edit as lost
that was undone by whoever made it before the repair came to the file, or that was made to a
candidate dropped since; with two edits TLC finds both behaviours.  `theirs` now forgets
an edit when the repair finds the file as it was inspected, and all of them with the candidate.

### Anchors

From `AnchorAssumptions`, for any agents, names, addresses and worlds that are sound: names are
unique, ids on file are those of records with the agent's name, records NurProxy made are on
file (`SoundWorld`).  `AnchorInv` follows a record's id wherever it is copied: rows (`RowsInv`),
queue (`QueueInv`), the cycle while it ensures (`EnsureInv`: only the cycle stores ids, so that
an agent it found without one has none still) and while it cleans up (`CleanInv`: only it takes
records out, so that what it listed is queued still; and what it has decided to delete, no
CNAME leads to).  `FileCorrect` and `SparesCorrect` follow.

### Managed routes, agents, certificates, the data directory

`RoutesCorrect`, from `RoutesAssumptions` (names are unique in what is there at the start), for
any domains, hosts, pushers, buffer and budget.  An intent signed earlier may still be carried
out, or be repeated, or its receipt may still confirm deletions, while rows and tombstones
change; so `RoutesInv` says of every intent that may still do something what it may still do:

- `ServedInv`: every virtual host has a keeper (a row, a tombstone, or a row the teardown has yet
  to mark), *and so will every one that a runnable intent would create*, also without the
  tombstones that the receipt in flight will remove first (`Beyond`);
- `HeardInv`: no desired domain is among deletions somebody may still confirm; `MarkedInv`,
  `BuriedInv`: a request about to take a route away, and a teardown about to erase a row, have
  left their tombstone, or the host has another keeper (`Replaced`);
- `DeletedInv`, `WorkInv`: an intent deletes nothing it applies; what a carried-out one deleted
  is gone; while the receipt of a superseded one is on its way, none after it has been carried
  out; `CallsInv`, `NamesInv`, `BurialInv`: what requests and the teardown have read is still so.

**The hypothesis `~Overlap`**: two requests for one domain do not overlap, and none comes while
it is being deleted.  Without it one request's abort removes the other's tombstone (section 10).

`DecisionsCorrect` and `HealsCorrect`, from `LifecycleAssumptions`, for any ids, names, number of
requests under way and plan of events.  The first is inductive with types alone: a heartbeat, a
stream or a sweep writes from what it read before, but never the columns operators decide on,
and a full write is an operator's.  The second needs `CalmInv`: as long as nobody has disturbed a
heartbeat, what it has written, statement by statement, is in the row and what it has read is
true.  `OnlyAnswers` says which of the steps is the one that ends it.

`OrdersCorrect` and `ScansCorrect`, from `CertificateAssumptions`, for any rows, calls, plan of
events and number of attempts.  `CertInv` adds to the first that at most one worker is inside
the lock of a host (`OneInside`), so that what one has checked there nobody else changes but
the teardown, which only takes certificates away.  `ScanInv` says of a scan that nothing has
disturbed since it began (`Calm`) that it is alone at work (`OnlyTheScan`), that what it has listed
is still so (`ListsTrue`), and that each host that wants a certificate has one, has a hold, or
is still to come (`Provided`, `Pending`).

`DataCorrect`, from `DataAssumptions` (the directories and archives found are such as an
installation leaves: a database lies next to its key, with a log of its own or none), for any
number of starts, writes, kills, backups and restores.  `DataInv` says when the database in place
is sound: unless a restore was cut off or brought no key ("mixed"), it has its own log, its key,
and committed rows that only get later (`DirSound`).  A server at work has that key loaded, and
no restore is under way (`ServerSound`).  A backup learns from the inode of what it holds open
whether the database was replaced since: if not, what it read, copied and will archive belongs
together (`CopySound`); so what is archived can be restored (`ArchivesUsable`).  A restore has
changed nothing before its commit, and from then on exactly what it has put in place (`RestoreSound`:
`DbPut`, `KeysPut`).

### What stays with TLC

- **Liveness**: `NeverWedged`, `Converges`, `Concludes` (recovery and helper), `Delivered`,
  `Settles`; fairness and ENABLED are beyond TLAPS.
- **Induction over data**: `AnswersAsIntended` and `ReadersAgree` are about what the generators write,
  line by line, for one route, and what a reader makes of the lines (`SelectSeq` and a fold).  What
  these compute for every sequence is out of the provers' reach, and for the sequences of one route
  a proof would repeat what TLC enumerates.

## 12. What is not modelled

Of the orchestrator:

- cert-only domains, which have no public record; the deferred deletion of a parent server or
  agent (`finalizePendingParentDeletions`), which removes rows by FK cascade; TTL and the
  proxied flag of a record; zones or providers that cannot be resolved are a refusal of the
  call that needs them; the database is atomic per statement (SQLite), and serialises;
- the challenge of an issuance (its TXT records), the ACME account, wildcards; the two address
  families of an anchor side by side; the zones of an agent and the copy of its token;
- the history of artifact versions, rollback to one, bulk decisions, adoption of existing files;
- sessions, rate limits, the log broker, metrics, notifications: small, sequential under one
  lock each, and nothing else relies on their order.

Of the agent and the helper:

- certificates in `RouteSync` always install; a heartbeat that is lost is one not sent; streams
  are evicted up to the second;
- the reporter across a restart (its queue is in memory), capability reports, manifests that
  exist and cannot be read, clock skew between agent and orchestrator;
- the temporary files of a repair, an apply or a push that a crash leaves (those of the journal's records are
  modelled);
- the recovery of the built-in Caddy and of the generic backend; parking and draining of logs;
- signatures, peer credentials, the release of a quarantine by hand, the rotation of the
  enrolled authority; managed applies for Apache, whose commands differ;
- tokenizing, quoting and layout in the generators and the parser.

The command line, the installer and the dashboard are wiring.  `PROJECT.json` says for each
component what is left out.  Nobody calls `configmove` in the modelled commit.

## 13. Running it

    tlc -config dns_shared.cfg MCDomainDns            # dns_overwrite.cfg
    tlc -config orchestrator.cfg MCOrchestrator
    tlc -config progress.cfg MCProgress
    tlc -config sync_faults.cfg MCRouteSync           # sync_settles.cfg
    tlc -config helper.cfg MCHelperEngine
    tlc -config components.cfg MCComponents
    tlc -config anchor_wedged.cfg MCAgentAnchors      # each finds what section 10 says
    tlc -config cert_orphaned.cfg MCCertificates
    tlc -config report_order.cfg MCRecoveryReports
    tlc -config sandbox_paths.cfg MCHelperActions
    tlapm DomainDnsProofs.tla                         # and the other *Proofs modules

`PROJECT.json` lists the runs, what each definition stands for in the code (`map`), for each
property a plausible bug of the code that it catches (`mutants`), the findings, the hazards
and the theorems.
