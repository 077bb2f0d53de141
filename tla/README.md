# FluxIP: a TLA+ verification project

FluxIP keeps DNS records, firewall rules and Traefik configuration in step with
the changing IP addresses of devices. The backend (`src/backend`, TypeScript) is
event sourced: every aggregate is a stream in Postgres, its state the fold of
its events, and every writer appends with optimistic concurrency. Redis holds
the job queues (BullMQ) and the read projections. The agent (`src/agent`, Go)
runs beside a Traefik instance and applies the configuration snapshots the
backend publishes for its provider. Owners use the web application
(`src/frontend`, SolidJS).

## Inventory

| Part | State | Operations | What is hard |
|---|---|---|---|
| Event store (`adapters/event-store-postgres`) | event streams | append at an expected sequence number, replay, delete account | concurrent writers; which callers retry; numbers after a deletion |
| Trigger endpoint (`http/routes/trigger.ts`) | – | accept a report: load, append, schedule | two requests between load and append; stop between append and schedule |
| Devices (`http/routes/ip-clients.ts`, `domain/ip-client`) | device stream | register, enable, disable, rotate, preference, decommission | racing the settlement and each other; device limit checked before an await |
| Debounce queue and worker (`queue-bullmq/debounce-*.ts`) | one job per device | schedule, settle: load, append, project, announce, fan out | report during a running settlement; crash in the middle; duplicate run |
| Fan-out (`execution-fanout-worker.ts`) | execution queue | one job per enabled action | duplicates, omissions |
| Execution worker (`action-execution-worker.ts`) | execution stream, jobs | start, call the provider, record, retry with backoff, notify | retries of an old change after a newer one; crash between the provider's call and its record |
| Hetzner firewall (`adapters/actions/hetzner-firewall`) | the provider's rule, Redis lock, owned entries | locked read-modify-write, cleanup | lock expiry during the write; entries nobody owns any more |
| Actions (`http/routes/actions.ts`, `domain/action`) | action stream | attach, reconfigure, enable, disable, detach | changes while an execution is in flight |
| Snapshot publisher and coordinator (`snapshot-publisher.ts`, `snapshot-coordinator.ts`) | provider stream, pending causes | schedule, coalesce, publish, push | change during a publish; publish by a session in between |
| Agent sessions (`agent-session-handler.ts`, `session-registry.ts`, `grpc-agent-server.ts`, `auth-throttle.ts`) | one session per provider, a counter per source | authenticate, hello, report, resync, heartbeat, supersede, close | connection ends during a handler; old and new session interleave; a token withdrawn meanwhile |
| Agent (`src/agent`) | applied version, files | connect, snapshot, report, reload, tick | out-of-date snapshots, reload before the first snapshot, offline, lost reports |
| Providers, credentials, channels (`http/routes`) | their streams | create, rename, revoke, delete | checks before awaits |
| Accounts (`domain/account`) | account stream | provision, limit, close | what runs beside a closure, and the next life under the same name |
| Projections (`src/backend/src/projections`) | Redis hashes | upsert, list, rebuild | partial hash after a flush; older state written last |
| Web application (`src/frontend`) | the open page: wizard, calls, list | open, fill in, confirm, leave, add a credential | answers that arrive late, are lost, or find another wizard |

What makes each part correct: the device stream's changes follow the newest
report and each change runs every enabled action once; an execution ends, with a
recorded outcome and at most one mail, and an older address comes back to the
provider only through an execution that was open when the newer one was
confirmed; no firewall update is lost, and an action takes away nothing it never
asked for; an agent gets the account as it is, in order, its
files are what it believes they are, and FluxIP shows no more than that; a
provider has one live session, a presence that says so, and none whose token
is withdrawn; requests that check before they append let through no more than
what two overlapping requests can bring about; a closed account leaves nothing
behind but what ran beside its closure; and a wizard that is left
unconfirmed has done nothing, one that is confirmed shows what it did.

## Modules

| Module | Models | Variables and the code they stand for |
|---|---|---|
| `ChangeLog` | abstract: confirmed changes without repetition, one execution per change and action | |
| `IpSettlement` | trigger endpoint, debounce queue and worker, fan-out, owner's edits of the device | `device`: the fold of the stream, its length, the last report; `job`: BullMQ's deduplicated job with its delay, runner and stalls; `run`: local state of a worker between awaits; `view`: the Redis hash |
| `ActionExecution` | fan-out jobs and manual runs, worker with attempts and back-off, notification | `jobs`, `queue`: the BullMQ queue; `stream`: `started`, `attempt_failed`, `succeeded`, `failed`, `notification_sent`; `record`: what the provider holds; `latest`: the execution of the newest change, and those open when it was fanned out (history) |
| `FirewallRule` | executions, reconfigurations and detachments that change the rules of one Hetzner firewall, in one or two address families, under the Redis lock | `lock`: the key with its owner; `task`: local state (rules read, entries to remove); `action`: owned entries in the stream; `asked`: what each action ever asked for (history) |
| `SnapshotFeed` | abstract: the published snapshots by version, with gaps; an agent holds one of them as it was published and, while it runs, only moves forward | |
| `SnapshotDelivery` | coordinator, publisher with its mutex and its two-stream reading, registry, session handlers as far as snapshots go, wire, agent's version check | `pending`: the coordinator's map; `calls`: the mutex queue; `stream`: publication events (their place is the version) |
| `ProviderSession` | connections of one provider: throttle, authentication, hello, supersession, resync, report, heartbeat, close, presence events; deletion of the provider and withdrawal of a token | `session`: fields of `AgentSessionHandler` and where its message chain is; `queue`: appends waiting for the mutex of the provider; `throttle`: the Redis counter |
| `TraefikAgent` | the agent process: start, snapshots, offline timer, template reload, files written one by one; its reports, and the delivery status made of them | `agent`: fields of `Agent`; `job`: the apply in progress, which holds the mutex; `reload`: what a `Reload` has read before it asks for the mutex; `recorded`: `lastApplied` and `lastApplyError` of the provider's aggregate |
| `OwnerRequests` | the requests that set up an account, load by load, and the administrator's limit | `device`, `action`, `resource`, `channel`, `account`: folds of the streams with their length; `req`: a handler between two awaits; `due`: providers whose content has changed and which were not scheduled since |
| `AccountLifetime` | an account from its first request to its closure and beyond: provisioning, devices' requests, reports, settlements, limits, the list and its rebuild, the closure in its steps, loss of Redis | `account`, `stream`: the events with their numbers; `shown`, `jobs`: the Redis list and the delayed jobs; `actor`: a request or job between two awaits; `met`: what ran beside what (history) |
| `GuidedFlow` | one tab of the web application: the page shown and the way to others, the mounted wizard, the first-run flow in front of the page, the calls under way, the page's list | `page`, `visit`: what the router mounted, and which time; `gate`: the stored and the session's flag of `OnboardingGate`; `wizard`: `useWizard`'s state and the step data; `calls`: promises, which outlive the component that made them; `made`: what the server did; `list`, `read`: the page's list and its read under way |

Every action is the part of a handler between two awaits: what it reads there,
its early return, and what it writes. A stream is represented by its fold and
its length (`AccountLifetime`: by its numbers); an append compares the length
with the one loaded (`postgres-event-store.ts`: the unique sequence number) and
otherwise throws. Addresses, names and templates are model values; secrets,
formatting, logging and HTTP are left out. Operators whose comment starts with
"Mutant" are variants of the operator below them with a plausible slip;
`PROJECT.json` names the property each of them breaks.

What BullMQ, Postgres, the network and the provider's API do is modelled from
how the code uses them: a job is handed to one worker, its lock may expire while
the worker goes on, a stalled job is handed out again up to a limit, a call may
fail before or after its effect.

### How they fit together

`IpSettlement` ends where the execution jobs are added; `ActionExecution` begins
there. `FirewallRule` is the inside of the call that `ActionExecution` makes in
one step, for the provider where that step is not atomic. A confirmed change or
an owner's request that changes what a provider delivers ends in
`snapshots.schedule`; `OwnerRequests` shows that it does, `SnapshotDelivery`
begins there and ends at the agent's version check, and `TraefikAgent` is what
happens behind that check and how FluxIP learns of it. `ProviderSession` looks at
the same sessions as `SnapshotDelivery`, but at their events and their right to
exist instead of the snapshots. `GuidedFlow` is the client of the requests in
`OwnerRequests`; `AccountLifetime` sets the frame: whatever the other modules
take for granted of a stream (its length is the next number, it is there as
long as somebody works on it) holds until the account is closed.

## Runs

Run with `tlc -config <cfg> <MC module>`. Eleven pass, each within a few
minutes; one looks for a counterexample.

| Run | What it asks | Bounds, and why they are enough |
|---|---|---|
| `ip_concurrent` | Does every interleaving of reports, an owner's edit, two workers and two faults still give a log without repetition, with unique executions, that follows the newest report? | Two requests race each other, one edit races both; two addresses make a change and its reversal; two workers run one job twice when a lock is lost |
| `ip_live` | Is every stored report settled, no change skipped? | Three requests: one settling, one landing in between, one after; no faults, because the code does give up after a conflict or crash (below) |
| `exec_faults` | Are attempts bounded and recorded before they write, and does every job end, under any one fault? | Two attempts: a first and a final one; two workers for the duplicate run |
| `exec_outcomes` | Does every execution end with an outcome, shown and mailed once, and by which executions may an older address come back once the newest change is executed? | Two workers, two changes and a manual run, the smallest number in which a retry or a second worker meets a newer change; a failing call of the provider, every preference |
| `fw_tasks` | Is no update lost, nothing taken away that the action never asked for, and do the rules hold what the actions own, while two tasks of two actions share a firewall? | Both address families; the two devices share an address that had also been entered by hand, and one has two of its own; two rules for a move between them; an action begins new or as an execution has left it, so that two tasks are enough for a third one's effects; one failing call or crash |
| `snapshot_live` | Does an agent that stays connected get the account, whatever one fault does, and only snapshots as they were published; without a fault, is the last version the account, and was the session told? | Two sessions for a replacement; two streams, so that a reading may see one old and one new; two values of each, one of them too large to send; two changes, so that the account may become too large and again what was published at the start, or one and a fault |
| `session_sessions` | Does the newest session live, is each recorded once as connected and then once as disconnected with its reports in between, does none outlive its token, and does a block end? | Two sessions (a third would only meet one of them), one token, a report, a deletion or a withdrawal, one failing call or crash, a throttle of one failure |
| `session_presence` | *Violated.* Is the recorded presence that of the live session? | Two sessions, no faults |
| `agent_files` | Do the files match what the agent believes, does it converge or go stale, and is the status shown true and settled? | Three sets of templates (one file, two files, one that renders neither data nor the stale flag), two versions, an edit, and a signal, a write error or a crash |
| `owner_overlaps` | Do checks before an append fail only for requests that overlap; does anything ended come back; is every change scheduled and shown? | Two requests of any kind but one, the third turns an action on or off or detaches it; a device with one delivery and one DNS action; limit two, so that two registrations exceed it |
| `account_closures` | What is left after a closure, and is the next life whole? | Two devices, two requests or jobs side by side, five in all with crashes, two closures: one to end a life, one that ends the next or comes too late |
| `guided_flows` | Does a wizard that is left leave nothing behind, is every result shown, and by which answers may something typed be lost? | Four pages (two of them routes to the same list) with or without the first-run flow; two wizards one after the other, so that a late answer finds another one; two edits, among them credentials and rows, two confirmations, one lost request or answer; two visits: one change of page or reload (under the first-run flow the page behind it may change as often as one likes) |

The closing of the bounds: `MaxFaults`, `MaxChanges`, `MaxEdits`, `MaxSignals`,
`MaxEvents`, `MaxReports`, `MaxWire`, `MaxStream`, `MaxVersion`, `MaxLives`, `MaxBegun`,
`MaxOpens`, `MaxConfirms` and `MaxVisits` limit what happens how
often; the guards of the actions concerned name them. `Attempts`,
`MaxStalled`, `MaxFailures`, `MaxTokens` and `Limits` are the program's own settings with
small values.

Deadlock checking is off where the modelled requests run out (each occurs once)
and the system then rests; `IpSettlement` lets BullMQ's timers go on for ever and is
checked for deadlock.

### Fairness

Weak fairness of the steps of a handler that has begun: a promise that
Node.js or a goroutine has started goes on. Workers take waiting jobs, delays
and back-offs elapse, BullMQ's stalled check runs, a key with an expiry expires,
heartbeat and resync timers fire. No request, report, edit,
fault, edit of templates or connection is ever forced to happen. The agent has strong fairness for the
timer and for a waiter at its mutex: other holders may come and go in between,
and Go's mutex hands over to a waiter after at most a millisecond (its starvation
mode); and for the arrival of the latest snapshot, which the agent asks for
again with every resync as long as it is connected.

`AccountLifetime`, `GuidedFlow`, `OwnerRequests` and `FirewallRule` claim safety
only: a request or a tab may be left at any moment.

## Proofs

Checked by TLAPS for every value of the constants that satisfies the
module's assumption.

* `IpSettlementProofs`:
  `TypeCorrect` (the type invariant is inductive; it says that a run never counts
  on a version the stream has not reached). `ChangesFollowReports` and
  `SettlementImplementsChangeLog` need `RunInv`: a worker between its load and
  its append, while the stream still has the length it loaded, knows the
  stream's current state (`SettlementOK`), and one that fans out does so for a
  change that is in the log with the values it carries (`FanOutOK`). Without it
  the append could use values of an older stream of the same length, which no
  stream has: streams only grow (`StreamGrows`). `ChangeLogCorrect` is about the
  abstract log: the inductive invariant is its type together with the two properties
  themselves; `known` must equal the last entry, since a new entry is only compared
  with it. `NoDuplicateExecutions` carries it over to the settlement.
  `NoChangeIsSkipped` needs `NoneDropped`: until a change is announced and all its
  executions are added, some worker has it in hand. It is proved of runs without a fault,
  because a crash or error between the append and the fan-out does lose the change.
* `ActionExecutionProofs`, for any number of changes, manual runs, actions of the
  owner and faults. `TypeCorrect`. `AttemptsRecorded` needs `Bounded` (the starts
  recorded, with those about to be, are within what the job has used up: attempts
  made, stalls, and the attempt it is in) and `Recorded` (a run past its start has
  a stream that says so). `OutcomeIsOne` is proved for any number of workers
  while only the provider fails and the action stays enabled: `Settled` says that a job
  has one run at a time, which its record names, and what stream, projection and mail
  server know of the job at each of its steps. After a crash or a lost lock
  a second mail is possible, and an action that was disabled or detached ends its
  job without an outcome, hence the assumptions. `RecordStaysRecent` (`RecordIsRecent`) is
  proved for any number of workers, changes and manual runs, with failing providers
  and stores, crashes and stalls. It needs that who runs a job has its lock (`Held`),
  that every execution that may still write was open at the newest change or came after
  it (`LatestKnown`), and `RecentInv`, which says of a worker that has written for the
  newest change, but not yet recorded it, what the property says of the record. A worker
  that goes on after its lock was lost and an action whose families are changed
  are left out by the two assumptions.
* `FirewallRuleProofs`: `TypeCorrect`, and `UpdatesNotLost` for `MaxExpiries = 0`. The
  strengthening `Exclusive` says that a task between reading and writing holds
  the lock with its own token, and that what it has read is still the
  firewall; `OnlyHolder` then leaves nobody else who could write. With an expiry under
  a working holder the property is false, which is why the assumption is there.
  `ForeignStay` needs `OwnAddresses` (what a task holds are addresses of its action's
  device) and `OwnedIsAsked` (what an action owns, or a task is about to remove, was
  asked for by that action, in this rule or in one it was moved from). `EntriesMatch`
  needs `Serial` (of two tasks of an action under way at once
  one knows of the other) and `OrderlyMatches`, which says at each step of the one task
  of an action by what its list and the entries it owns differ: by what the task has
  yet to write, once it has appended, or yet to append, once it has written. Neither
  theorem restricts the addresses: `ForeignStay` covers those that several actions are
  for or that were entered by hand, too; `EntriesMatch` says nothing of these, for there the
  code keeps no such promise (below).
* `ProviderSessionProofs`, for any number of connections, tokens, reports and
  faults. `TypeCorrect`: besides the types, every append queued at the provider's
  mutex has exactly one handler or request that waits for it (`Queued`), so the
  answer always finds its caller where it left it; the lemma `Steps` says once
  what each action makes of one handler, and the other proofs use nothing else of the actions.
  `NewestLives` is then inductive as it stands. `PairedPresence` needs
  `Presence`, which ties the handlers to the stream: `recorded` says what the
  stream says, a session is greeted only after it was recorded, and the append
  of its end waits until no message of it is under way (`Fits`); without the
  last part a report could follow the end. `WithdrawnAreEnded` (the invariant
  `RevocationEnds`) needs `Pursued`: when the stream holds an event that ends a
  live session recorded before it, the request that appended it has yet to look
  at the registry, and for a withdrawal it names the session's own token, which
  never changes (`TokensKept`).
* `TraefikAgentProofs`, for any directory of templates, any files and versions
  and any number of edits, signals and faults. `TypeCorrect` and `OnlyForward` need
  `Versions` (nobody is ahead of FluxIP). `FilesMatch` is not inductive: `Applying`
  says of the apply under way what its caller asked for, that the templates, which
  the mutex keeps, can render it, and which files already hold it; only then does
  its end establish what the property says. `ShownIsInFiles` needs `Held` (no file is
  older than the agent's snapshot) and `Honest`: of every version that was reported
  or recorded as applied, this process either holds it, or its session began
  after that version was published, so that no older snapshot can reach it.
* `SnapshotDeliveryProofs`, for any number of streams, changes, sessions and
  faults. `TypeCorrect` needs `Coordinated` (the coordinator has one call at the
  publisher exactly while it runs, and sets no timer meanwhile) and
  `Registered` (a registered session has greeted). `DeliveryImplementsFeed`,
  the refinement of `SnapshotFeed`, needs `FeedInv`: whatever a call has loaded,
  the wire carries or the agent holds is in the stream as a publication of that
  version and content. The stream only grows (`StreamGrew`), so what was true
  of a version stays true, and a new version is above all others.
  `CurrentAtRest` needs `Turns` (only the first call has begun to read, and nobody
  publishes meanwhile) and `Current`: while no run is to come, whoever reads, the
  coordinator or a session, reads the account as it is, and the account is
  published as soon as the coordinator does not run. It assumes that only connections are lost
  and agents start again (`OnlyLinksFail`); each of the other faults does lose a run until
  the next resync. `CurrentAndTold` says the same of a run without a fault, and that the
  session knows: it needs `OneSession` (without a fault the registered session is the
  agent's and the only one that has greeted), `Greeted` (nobody is sent a snapshot before
  that) and `Told`, which also covers a session whose first snapshot is on its way.
* `OwnerRequestsProofs`, for any number of requests and objects; all five properties
  of the module. `Base` (the inductive type invariant) adds to the types where a request of a
  kind can be, that what it names exists, and that requests that overlap know of
  each other for ever. `EndsStayFinal` needs `AllLoaded`: what a request has loaded
  is the stream, or the stream at a lower version, so a version that matches
  makes the load current. `ChecksAreMade` needs `AllMet`: a request that is
  checking, or has, either has yet to read a rival, has counted it, or was under way
  together with the request that made it one; only the last is left when it appends.
  `LimitsHold` says the same of the devices and tokens that are counted
  (`AllCounted`, `AllIssues`); the tokens need the stronger fact that no more than
  `MaxTokens` of them are pairwise apart, for a withdrawal may leave only these.
  `ChangesScheduled` needs `AllOwed`, which names for every provider that is due the request
  that will schedule it; a request that changes an action takes over what others
  owed through it. `ShownCurrent` needs `AllShown`: without an overlap, who is about to
  write a projection has reloaded the status as it is. The assumption
  that no device is delivered to a provider twice at the start is that the actions
  there were made one after the other.
* `OwnerRequestsProofs`, second part, is about `GuidedFlow`, the client of these requests,
  for any number of wizards, edits, confirmations, faults and visits and anything an owner
  may type; all three properties of the module. The module's definitions
  are named so that both can be extended (`FlowInit`, `FlowNext`, `FlowSpec`).
  `FlowInv` says of the mounted wizard that the steps before the one shown are valid with
  the data as it is now, which makes a confirmed call complete although each step was
  checked when it was left (`WizardFits`, `ValidStepsComplete`: no step asks for another
  one's field); of a wizard (`Owned`) that it has one call under way at most, and then waits
  for it on the screen or was left busy, that a deed whose answer was not lost is that
  call's or the last it ever asks for (`Settled`), and that its deeds and the call still to be
  served were each confirmed (`Paid`). `NothingIsLeftBehind` follows. `ResultsAreShown`
  needs what the list may lack when a read under way comes back, too (`InList`).
  `TypedWorkIsKept` follows from `Owned`, `CallFits` (a call made on this very visit is of
  a kind that this page offers, so that its answer finds the page's own dialog) and
  `GateFits`: the call of a first-run flow is that of the mounted wizard as long as the
  flow is shown, and of a flow that was left afterwards; its answer then spares the
  page if that is the one it leads to (`WelcomeParts`).
* `AccountLifetimeProofs`, for any number of requests, devices, events, lives and
  crashes; all five properties of the module. `Base` (the inductive type invariant) says
  at which stage a request of a kind can be, and that nothing knows of an id that was not
  taken or is about to be registered (`Unborn`, `FreshIds`). Two that are under
  way and could disturb each other are remembered as a pair (`Paired`), and what
  is remembered is not forgotten (`AlwaysRemembers`); every excuse in the properties
  comes from there. `NothingIsLeft` and `EndedAreRefused` need `Left`: of a device of
  an ended life it says by which kind of request each thing that is there came back
  (`DataLeft`), what each request under way could still bring back (`ActorsLeft`), and
  what came in after the purges of a closure that is about to delete (`Purging`), for the
  deletion turns devices of this life into such devices in one step.
  `StreamsAreWhole` needs that what was loaded is no longer than what is there
  (`VersionHeld`), which a deletion alone could undo. `ListsAreComplete` needs `Complete`:
  a device that is not shown as its stream says, and is not excused, is one that a
  request under way is to put right (`Tells`: its own upsert, a rebuild that has yet
  to write it, a closure that will end it), and what an upsert or a rebuild
  has read is what is there (`ReadIsCurrent`).

Only model-checked: what is temporal beyond safety (`ReportSettles`,
`EveryJobEnds`, `EventuallyCurrent`, `SilenceIsRecorded`, `BlocksEnd`, `Converges`,
`StatusSettles`), which needs fairness and so is
out of TLAPS' reach here. TLC covers it on the instances above. Every safety invariant and
action property that a passing run checks is the conclusion of a theorem.

## What the runs found

A violated run, in `findings`:

* The presence of a provider (`traefik-provider-aggregate.ts:146`, "the newer
  connection stays authoritative"). `channel.close` of a superseded session emits
  an error on the call, whose listener ends the handler without the reason before
  the reason is passed on; its end is recorded as `closed`, after the new
  connection, and the provider counts as disconnected while the new session
  lives. The reason `revoked` is lost the same way.

Met while modelling, and left out of what the properties claim (each property
says which situation it is about):

* A crash between `ip_changed` and the end of the fan-out: the rerun finds the
  addresses known and returns; the change never gets its executions.
* The settlement's append loses against an owner's request and is not retried;
  the report stays unsettled until the device reports again.
* Only the last report of a debounce window is looked at: a family that only
  an earlier one carried is lost.
* The retry of an older execution, one that a second worker runs
  (`backend/tests/integration/horizontal-scale.test.ts`, lines 59 to 72, has two of them), or
  a manual run with addresses loaded earlier writes after a newer execution, and the
  record stays at the older address; specs/001 (spec.md:93) wants only the
  settled, latest address reflected. `RecordIsRecent` says which executions can do this.
* An execution whose action is disabled when it runs ends without an outcome of its own
  kind; a crash after the mail and before the end of the job sends it again.
* The firewall lock is neither renewed nor checked before `set_rules`. A detach
  or reconfiguration while an execution is under way leaves its entry without
  an owner; so does a move to another rule. Entries are removed by value: an
  address that another action has asked for as well, or that was entered by hand, is
  taken with the own one, which specs/007 (spec.md:104, FR-006) rules out.
* A superseded session still publishes at the end of its hello; the live one
  is then told nothing until the resync. The cause of a change is dropped when
  somebody else publishes its content first.
* A session that asks while the account is too large to send is sent nothing. When
  the account returns to what was published last, the publisher finds it unchanged
  and the coordinator pushes nothing, so that session waits for the resync, too
  (rule 3 of contracts/agent-session.proto.md, line 113, has the first snapshot follow the
  greeting; rule 9, line 119, sends nothing only while it is too large).
* A connection between its authentication and its hello is not found by a
  deletion or a withdrawal: it goes live afterwards, and events are appended
  after `deleted`.
* The throttle counts with `INCR` and starts the window with a second command;
  a failure in between leaves the source blocked for good.
* `Agent.Reload` before the first snapshot of a restarted agent replaces the
  kept files by empty groups, although specs/008 (FR-050) has them wait for the first
  snapshot, and FluxIP goes on showing them as applied. Templates that
  render everything but stale data are accepted; an agent that went stale before its
  first snapshot even swaps them in although it cannot render them then, since
  `Reload` tries the empty snapshot without the flag and applies it with it, and the
  files of the previous ones stay. A change of the templates
  between `Start` and the watcher goes unnoticed.
* Names, labels, deliveries, limits and references are checked before an await
  and not again; two overlapping requests can create duplicates, exceed a limit
  by one each, or leave an action that names a removed credential or provider.
* The reload and the write of a projection are two steps: of two overlapping
  requests about one object, the one that reloaded first may write last.
* Renaming a provider does not schedule it, although its name is part of what is sent.
* A closure purges the lists before it deletes the events. A list asked for in
  between is rebuilt from events about to go, and is shown to the owner who
  comes back; a registration or rotation that was loaded for before and is
  appended after survives with its credential. So does a limit, or a second
  closure: the account's stream then begins in the middle, is not empty, and
  so is never registered again; once its length reaches the number it holds,
  nothing can be appended any more, the closure included.
* A list that Redis has lost is rebuilt only if it is read before the first
  write: one upsert makes it exist with that device alone, and it is trusted
  from then on. specs/001 (research.md:55) says projections "can be dropped and
  rebuilt from Postgres at any time with no data loss".
* Of two first requests of a new owner one is answered 500.
* Cancel stays enabled while a confirmed wizard waits. The call goes on, although
  specs/003 (contracts/wizard-shell.md) and the comment at `ActionWizard.tsx:59`
  have a wizard that is left do nothing on the server; when its answer comes it closes whichever
  wizard is open by then, and the credential of a device registered
  that way is shown to nobody.
* A lost answer looks like a failure and the wizard stays: a second confirmation
  creates a second action or device (a provider's name and the channel are
  refused the second time). A first-run flow left while it waited is
  completed by the late answer, which then sends the router to the devices
  (`OnboardingWizard.tsx:58`): a wizard opened meanwhile on another route is
  unmounted with everything typed in it; `/` and `/ip-clients` are two
  routes here, although they show the same page. A page that is left, or a tab that is
  reloaded, while a wizard waits is told nothing: the deed is done, and a credential or
  token that comes with it is never seen. A credential added in a wizard is picked when the list has been
  read again, over whatever was picked meanwhile.

## Not modelled

Authentication at the HTTP edge, configuration, migrations, CLI and logging (no
state that other parts read later, or one transaction); the end of the agents'
sessions when their account is closed or the server shuts down, which is that
of a deleted provider and a crash, respectively; the history pages and the
folds behind them, the forms of the web application that make a single
request, sign-in and layout, reads that fail in the web application and a second tab;
the text of templates and mails; TLS,
encryption and hashing; the wire encoding; metrics. The Hetzner DNS executor is
one call with one outcome. `PROJECT.json` lists each part with its status.

## What is left

1. `DeliveryHistory`: the fold over a provider's stream against a reference
   definition, and the pages that show it.
2. `Migrations`: one transaction per file under the advisory lock.
3. The agents' sessions in `AccountLifetime`, and a graceful shutdown in
   `ProviderSession`.
