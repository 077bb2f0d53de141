----------------------------- MODULE TraefikAgent -----------------------------
(***************************************************************************)
(* The agent beside Traefik: it renders the snapshots it receives through  *)
(* the templates of a directory into files of another one, marks them      *)
(* stale when it has been offline for too long, and swaps templates while  *)
(* it runs.  Snapshots, the offline timer, template reloads and connection *)
(* changes take turns under one mutex; the files are written one by one.   *)
(* What the agent reports of a snapshot becomes the delivery status that   *)
(* FluxIP shows.                                                           *)
(***************************************************************************)
EXTENDS Naturals, FiniteSets

CONSTANTS
  Names,        \* names of generated files
  Sets,         \* sets of templates the directory may hold
  Outputs,      \* Outputs[t]: the files set t generates
  Bad,          \* Bad[t]: "empty", "data", "stale", where t renders invalid files
  None,         \* no file, no set
  MaxVersion,   \* versions FluxIP publishes
  MaxEdits,     \* changes to the templates directory
  MaxSignals,   \* SIGHUPs
  MaxFaults,    \* write errors and ends of the process
  MaxEvents     \* SIGHUPs and faults together

VARIABLES
  dir,        \* the set in the templates directory, and how often it changed
  files,      \* the output directory
  agent,      \* fields of Agent, and whether the process runs
  job,        \* the apply under way, if any; it holds the mutex
  watcher,    \* fsnotify: watching, and an event whose reload has not started
  reload,     \* what each running Reload has loaded
  signals,    \* SIGHUPs so far
  published,  \* the latest version of the snapshot
  since,      \* the version that was published when the session began
  report,     \* the agent's report on its way, if any
  recorded,   \* lastApplied and lastApplyError of the provider's aggregate
  outcome,    \* history: what became of the last apply of this process
  faults      \* faults so far

server == <<published, since, report, recorded>>
vars == <<dir, files, agent, job, watcher, reload, signals, server, outcome, faults>>

-----------------------------------------------------------------------------
Data == [version : 0 .. MaxVersion, stale : BOOLEAN]
File == [set : Sets, data : Data]
Reloaders == {"signal", "watch"}
Agents == [up : BOOLEAN, templates : Sets \cup {None}, last : 0 .. MaxVersion,
           appliedVersion : 0 .. MaxVersion, connected : BOOLEAN, late : BOOLEAN,
           stale : BOOLEAN]
Job == [by : {"start", "snapshot", "tick", "reload"}, data : Data, todo : SUBSET Names]

Report == [version : 1 .. MaxVersion, ok : BOOLEAN]

ASSUME AgentAssumption ==
  /\ None \notin Names \cup Sets \cup File \cup Job \cup Report
  /\ Outputs \in [Sets -> SUBSET Names]
  /\ Bad \in [Sets -> SUBSET {"empty", "data", "stale"}]
  /\ MaxVersion \in Nat \ {0} /\ MaxEdits \in Nat /\ MaxSignals \in Nat
  /\ MaxFaults \in Nat /\ MaxEvents \in Nat

\* emptyData is version 0.
DataOf(version, stale) == [version |-> version, stale |-> stale]

\* renderAll succeeds: every template of the set gives a valid document.
Renders(t, d) ==
  /\ d.version = 0 => "empty" \notin Bad[t]
  /\ d.version > 0 => "data" \notin Bad[t]
  /\ d.stale => "stale" \notin Bad[t]

Rendered(t, d) ==
  [n \in Names |-> IF n \in Outputs[t] THEN [set |-> t, data |-> d] ELSE None]

Managed == {n \in Names : files[n] # None}

Off == [up |-> FALSE, templates |-> None, last |-> 0, appliedVersion |-> 0,
        connected |-> FALSE, late |-> FALSE, stale |-> FALSE]

Init ==
  /\ \E t \in Sets : dir = [set |-> t, edits |-> 0]
  /\ files = [n \in Names |-> None]
  /\ agent = Off
  /\ job = None
  /\ watcher = [on |-> FALSE, event |-> FALSE]
  /\ reload = [r \in Reloaders |-> None]
  /\ signals = 0
  /\ published = 1
  /\ since = 0
  /\ report = None
  /\ recorded = [applied |-> 0, error |-> 0]
  /\ outcome = "none"
  /\ faults = 0

\* The mutex is free.
Idle == agent.up /\ job = None

-----------------------------------------------------------------------------
(* applyLocked                                                               *)

\* Everything is rendered and validated before the first file is touched.
BeginApply(by, t, d) ==
  job' = IF Renders(t, d) THEN [by |-> by, data |-> d, todo |-> Outputs[t]] ELSE None

\* OnSnapshot's report of the job that ends.
ReportOf(j, ok) ==
  report' = IF j.by = "snapshot" THEN [version |-> j.data.version, ok |-> ok] ELSE report

\* writeAtomic
WriteFile ==
  /\ job # None
  /\ \E n \in job.todo :
       /\ files' = [files EXCEPT ![n] = [set |-> agent.templates, data |-> job.data]]
       /\ job' = [job EXCEPT !.todo = @ \ {n}]
  /\ outcome' = "writing"
  /\ UNCHANGED <<dir, agent, watcher, reload, signals, server, faults>>

\* Managed files without a template go last.
RemoveFile ==
  /\ job # None
  /\ job.todo = {}
  /\ \E n \in Managed \ Outputs[agent.templates] : files' = [files EXCEPT ![n] = None]
  /\ outcome' = "writing"
  /\ UNCHANGED <<dir, agent, job, watcher, reload, signals, server, faults>>

\* Mutant of Applied: a snapshot leaves the stale flag as it is.
AppliedStillStale ==
  /\ job # None
  /\ job.todo = {}
  /\ Managed \subseteq Outputs[agent.templates]
  /\ job' = None
  /\ agent' =
       CASE job.by = "snapshot" ->
              [agent EXCEPT !.last = job.data.version, !.appliedVersion = job.data.version,
                            !.late = FALSE]
         [] job.by = "tick" -> [agent EXCEPT !.stale = TRUE]
         [] OTHER -> agent
  /\ ReportOf(job, TRUE)
  /\ outcome' = "ok"
  /\ UNCHANGED <<dir, files, watcher, reload, signals, published, since, recorded, faults>>

\* The caller of applyLocked goes on.
Applied ==
  /\ job # None
  /\ job.todo = {}
  /\ Managed \subseteq Outputs[agent.templates]
  /\ job' = None
  /\ agent' =
       CASE job.by = "snapshot" ->
              [agent EXCEPT !.last = job.data.version, !.appliedVersion = job.data.version,
                            !.stale = FALSE, !.late = FALSE]
         [] job.by = "tick" -> [agent EXCEPT !.stale = TRUE]
         [] OTHER -> agent
  /\ ReportOf(job, TRUE)
  /\ outcome' = "ok"
  /\ UNCHANGED <<dir, files, watcher, reload, signals, published, since, recorded, faults>>

-----------------------------------------------------------------------------
(* The handlers.                                                             *)

\* Agent.Start: files that are there stay.
Start ==
  /\ ~agent.up
  /\ Renders(dir.set, DataOf(0, FALSE))
  /\ agent' = [Off EXCEPT !.up = TRUE, !.templates = dir.set]
  /\ IF Managed # {} THEN UNCHANGED job
                     ELSE BeginApply("start", dir.set, DataOf(0, FALSE))
  /\ UNCHANGED <<dir, files, watcher, reload, signals, server, outcome, faults>>

\* watchTemplates begins once Start is done.
Watch ==
  /\ Idle
  /\ ~watcher.on
  /\ watcher' = [watcher EXCEPT !.on = TRUE]
  /\ UNCHANGED <<dir, files, agent, job, reload, signals, server, outcome, faults>>

OnConnected ==
  /\ Idle
  /\ ~agent.connected
  /\ agent' = [agent EXCEPT !.connected = TRUE]
  /\ since' = published
  /\ UNCHANGED <<dir, files, job, watcher, reload, signals, published, report, recorded,
                 outcome, faults>>

OnDisconnected ==
  /\ Idle
  /\ agent.connected
  /\ agent' = [agent EXCEPT !.connected = FALSE, !.late = FALSE]
  /\ since' = 0
  /\ UNCHANGED <<dir, files, job, watcher, reload, signals, published, report, recorded,
                 outcome, faults>>

\* A snapshot is rendered, or reported as failed.
Receive(v) ==
  /\ BeginApply("snapshot", agent.templates, DataOf(v, FALSE))
  /\ report' = IF Renders(agent.templates, DataOf(v, FALSE)) THEN None
                ELSE [version |-> v, ok |-> FALSE]
  /\ UNCHANGED <<dir, files, agent, watcher, reload, signals, published, since, recorded,
                 outcome, faults>>

\* Mutant of OnSnapshot: any version is applied.
OnSnapshotAny(v) ==
  /\ Idle
  /\ agent.connected
  /\ report = None
  /\ Receive(v)

\* Mutant of OnSnapshot: the version that is applied already is ignored.
OnSnapshotNewer(v) ==
  /\ Idle
  /\ agent.connected
  /\ report = None
  /\ v > agent.appliedVersion
  /\ Receive(v)

\* Agent.OnSnapshot, once its last report has left; a version below the applied one changes nothing.
OnSnapshot(v) ==
  /\ Idle
  /\ agent.connected
  /\ report = None
  /\ v >= agent.appliedVersion
  /\ Receive(v)

\* Mutant of Tick: without a snapshot there is nothing to mark.
TickWithData ==
  /\ Idle
  /\ ~agent.connected
  /\ ~agent.stale
  /\ agent.late
  /\ agent.last > 0
  /\ BeginApply("tick", agent.templates, DataOf(agent.last, TRUE))
  /\ UNCHANGED <<dir, files, agent, watcher, reload, signals, server, outcome, faults>>

\* Agent.Tick once offlineSince is longer ago than MaxOffline
Tick ==
  /\ Idle
  /\ ~agent.connected
  /\ ~agent.stale
  /\ agent.late
  /\ BeginApply("tick", agent.templates, DataOf(agent.last, TRUE))
  /\ UNCHANGED <<dir, files, agent, watcher, reload, signals, server, outcome, faults>>

\* Mutant of LoadDir: the templates are swapped in where they are read.
LoadDirSwaps(r) ==
  /\ agent.up
  /\ reload[r] = None
  /\ reload' = [reload EXCEPT ![r] = dir.set]
  /\ agent' = [agent EXCEPT !.templates = dir.set]
  /\ CASE r = "signal" -> /\ signals < MaxSignals /\ signals + faults < MaxEvents
                          /\ signals' = signals + 1
                          /\ UNCHANGED watcher
       [] r = "watch" -> /\ watcher.event
                         /\ watcher' = [watcher EXCEPT !.event = FALSE]
                         /\ UNCHANGED signals
  /\ UNCHANGED <<dir, files, job, server, outcome, faults>>

\* A Reload reads the directory before it asks for the mutex.
LoadDir(r) ==
  /\ agent.up
  /\ reload[r] = None
  /\ reload' = [reload EXCEPT ![r] = dir.set]
  /\ CASE r = "signal" -> /\ signals < MaxSignals /\ signals + faults < MaxEvents
                          /\ signals' = signals + 1
                          /\ UNCHANGED watcher
       [] r = "watch" -> /\ watcher.event
                         /\ watcher' = [watcher EXCEPT !.event = FALSE]
                         /\ UNCHANGED signals
  /\ UNCHANGED <<dir, files, agent, job, server, outcome, faults>>

\* Mutant of Accepts: new templates are tried with the empty snapshot only.
AcceptsEmpty(t) == Renders(t, DataOf(0, FALSE))

\* FR-057: new templates render the empty and the last snapshot.
Accepts(t) ==
  /\ Renders(t, DataOf(0, FALSE))
  /\ agent.last > 0 => Renders(t, DataOf(agent.last, agent.stale))

\* Agent.Reload under the mutex
Reload(r) ==
  /\ Idle
  /\ reload[r] # None
  /\ reload' = [reload EXCEPT ![r] = None]
  /\ IF Accepts(reload[r])
       THEN /\ agent' = [agent EXCEPT !.templates = reload[r]]
            /\ BeginApply("reload", reload[r], DataOf(agent.last, agent.stale))
       ELSE UNCHANGED <<agent, job>>
  /\ UNCHANGED <<dir, files, watcher, signals, server, outcome, faults>>

-----------------------------------------------------------------------------
(* The surroundings.                                                         *)

\* FluxIP publishes another version.
Publish ==
  /\ published < MaxVersion
  /\ published' = published + 1
  /\ UNCHANGED <<dir, files, agent, job, watcher, reload, signals, since, report, recorded,
                 outcome, faults>>

\* Mutant of RecordReport: an error is logged only.
RecordReportSuccess ==
  /\ report # None
  /\ report' = None
  /\ recorded' = IF report.ok THEN [applied |-> report.version, error |-> 0] ELSE recorded
  /\ UNCHANGED <<dir, files, agent, job, watcher, reload, signals, published, since, outcome,
                 faults>>

\* Mutant of RecordReport: the result is not looked at.
RecordReportOk ==
  /\ report # None
  /\ report' = None
  /\ recorded' = [applied |-> report.version, error |-> 0]
  /\ UNCHANGED <<dir, files, agent, job, watcher, reload, signals, published, since, outcome,
                 faults>>

\* onReport and the reducer
RecordReport ==
  /\ report # None
  /\ report' = None
  /\ recorded' = IF report.ok THEN [applied |-> report.version, error |-> 0]
                  ELSE [recorded EXCEPT !.error = report.version]
  /\ UNCHANGED <<dir, files, agent, job, watcher, reload, signals, published, since, outcome,
                 faults>>

\* The session a report was sent on has ended, and the report with it.
LoseReport ==
  /\ report # None
  /\ ~agent.connected
  /\ report' = None
  /\ UNCHANGED <<dir, files, agent, job, watcher, reload, signals, published, since, recorded,
                 outcome, faults>>

\* MaxOffline passes since offlineSince, which OnDisconnected sets anew.
Expire ==
  /\ agent.up
  /\ ~agent.connected
  /\ ~agent.late
  /\ agent' = [agent EXCEPT !.late = TRUE]
  /\ UNCHANGED <<dir, files, job, watcher, reload, signals, server, outcome, faults>>

\* The user replaces the templates.
Edit(t) ==
  /\ dir.edits < MaxEdits
  /\ t # dir.set
  /\ dir' = [set |-> t, edits |-> dir.edits + 1]
  /\ watcher' = [watcher EXCEPT !.event = @ \/ watcher.on]
  /\ UNCHANGED <<files, agent, job, reload, signals, server, outcome, faults>>

Fault ==
  /\ faults < MaxFaults
  /\ signals + faults < MaxEvents
  /\ faults' = faults + 1

\* The process ends.
Exit ==
  /\ agent' = Off
  /\ job' = None
  /\ watcher' = [on |-> FALSE, event |-> FALSE]
  /\ reload' = [r \in Reloaders |-> None]
  /\ since' = 0
  /\ outcome' = "none"

\* A write or a rename fails; Start gives up then.
WriteFails ==
  /\ Fault
  /\ job # None
  /\ IF job.by = "start"
       THEN Exit
       ELSE /\ job' = None
            /\ outcome' = "failed"
            /\ UNCHANGED <<agent, watcher, reload, since>>
  /\ ReportOf(job, FALSE)
  /\ UNCHANGED <<dir, files, signals, published, recorded>>

Crash ==
  /\ Fault
  /\ agent.up
  /\ Exit
  /\ UNCHANGED <<dir, files, signals, published, report, recorded>>

-----------------------------------------------------------------------------
ApplyStep == WriteFile \/ RemoveFile \/ Applied

Next ==
  \/ ApplyStep
  \/ Start \/ Watch \/ OnConnected \/ OnDisconnected \/ Tick
  \/ \E v \in since .. published : OnSnapshot(v)
  \/ RecordReport \/ LoseReport
  \/ \E r \in Reloaders : LoadDir(r) \/ Reload(r)
  \/ Publish \/ Expire
  \/ \E t \in Sets : Edit(t)
  \/ WriteFails \/ Crash

Spec == Init /\ [][Next]_vars

\* The agent's goroutines go on, time passes, and FluxIP sends the current
\* snapshot again and again; the mutex is handed to every waiter in turn.
Fairness ==
  /\ WF_vars(ApplyStep) /\ WF_vars(Start) /\ WF_vars(Expire) /\ WF_vars(RecordReport)
  /\ SF_vars(Tick)
  /\ SF_vars(OnSnapshot(published))
  /\ \A r \in Reloaders : SF_vars(Reload(r))

FairSpec == Spec /\ Fairness

-----------------------------------------------------------------------------
(* Properties.                                                               *)

\* The shape of every variable; a process that does not run holds nothing.
TypeOK ==
  /\ dir \in [set : Sets, edits : 0 .. MaxEdits]
  /\ files \in [Names -> File \cup {None}]
  /\ agent \in Agents
  /\ job \in Job \cup {None}
  /\ watcher \in [on : BOOLEAN, event : BOOLEAN]
  /\ reload \in [Reloaders -> Sets \cup {None}]
  /\ signals \in 0 .. MaxSignals
  /\ published \in 1 .. MaxVersion
  /\ since \in 0 .. published
  /\ report \in Report \cup {None}
  /\ recorded \in [applied : 0 .. published, error : 0 .. published]
  /\ outcome \in {"none", "writing", "ok", "failed"}
  /\ faults \in 0 .. MaxFaults
  /\ ~agent.up => agent = Off /\ job = None
  /\ job # None => job.todo \subseteq Outputs[agent.templates]

\* FR-048, FR-049: after an apply that succeeded the output directory holds
\* what the active templates make of the last snapshot, and nothing else; FR-057:
\* these can always render what they may be asked for, the empty snapshot and the last.
\* Reload tries the empty snapshot without the stale flag: that the templates
\* it swaps in before the first snapshot render with the flag too is a condition.
FilesMatchState ==
  /\ Idle /\ outcome = "ok" /\ (agent.last > 0 \/ Renders(agent.templates, DataOf(0, agent.stale)))
       => files = Rendered(agent.templates, DataOf(agent.last, agent.stale))
  /\ agent.up =>
       /\ Renders(agent.templates, DataOf(0, FALSE))
       /\ agent.last > 0 => Renders(agent.templates, DataOf(agent.last, FALSE))

\* FR-053: while the process runs, the applied version only grows.
NeverBack == [][agent.up /\ agent'.up => agent'.appliedVersion >= agent.appliedVersion]_vars

\* FR-042, FR-052: an agent that runs and stays connected ends with the latest
\* version in its files, whatever was written halfway before; FR-051: one that
\* stays offline ends with files marked stale, if its templates can be so rendered.
Converges ==
  /\ <>[](agent.up /\ agent.connected) =>
       <>[](agent.up /\ Renders(agent.templates, DataOf(published, FALSE)) =>
              files = Rendered(agent.templates, DataOf(published, FALSE)))
  /\ <>[](agent.up /\ ~agent.connected) =>
       <>[](agent.up /\ Renders(agent.templates, DataOf(agent.last, TRUE)) => agent.stale)

\* deriveDeliveryStatus of an enabled action while the agent is connected
DeliveryStatus ==
  CASE recorded.error >= published -> "error"
    [] recorded.error < published /\ recorded.applied >= published -> "applied"
    [] OTHER -> "pending"

\* FR-054: while an action is shown as applied, an agent that has received a
\* snapshot since its start has the published version in every file, whichever
\* session and process the report came from.
AppliedIsInFiles ==
  DeliveryStatus = "applied" /\ agent.last > 0 =>
    \A n \in Managed : files[n].data.version >= published

\* FR-054: an agent that stays connected is shown as pending only for
\* a while: until its report of the published version is there.
StatusSettles ==
  <>[](agent.up /\ agent.connected) => []<>(DeliveryStatus # "pending")

=============================================================================
