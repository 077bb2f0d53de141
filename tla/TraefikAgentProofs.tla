-------------------------- MODULE TraefikAgentProofs --------------------------
(***************************************************************************)
(* TraefikAgent, for every directory of templates, output directory,       *)
(* version and number of faults: its types; that the files are what the    *)
(* agent believes them to be; that it never goes back; and that what       *)
(* FluxIP shows as applied is in the files.                                *)
(***************************************************************************)
EXTENDS TraefikAgent, TLAPS

-----------------------------------------------------------------------------
(* The inductive invariant. *)

\* A process that runs has templates.
Loaded == agent.up => agent.templates \in Sets

\* No version is ahead of FluxIP.
Versions ==
  /\ agent.last = agent.appliedVersion
  /\ agent.last <= published
  /\ agent.connected => since >= 1
  /\ job # None => job.data.version <= published
  /\ report # None => report.version <= published

\* What the caller of applyLocked asked for.
Asked(j) ==
  /\ j.by = "start" => agent.last = 0 /\ ~agent.stale /\ j.data = DataOf(0, FALSE)
  /\ j.by = "snapshot" => /\ j.data.version >= 1 /\ j.data.version >= agent.last
                          /\ j.data = DataOf(j.data.version, FALSE)
  /\ j.by = "tick" => j.data = DataOf(agent.last, TRUE)
  /\ j.by = "reload" => j.data = DataOf(agent.last, agent.stale)

\* The mutex keeps the templates and the data of an apply until it ends, and
\* what it has written so far is in the files.
Applying ==
  job # None =>
    /\ Asked(job)
    /\ Renders(agent.templates, job.data)
    /\ \A n \in Outputs[agent.templates] \ job.todo :
         files[n] = [set |-> agent.templates, data |-> job.data]

\* The active templates render the empty snapshot and the last one.
Usable ==
  agent.up => /\ Renders(agent.templates, DataOf(0, FALSE))
              /\ agent.last > 0 => Renders(agent.templates, DataOf(agent.last, FALSE))

\* The first part of FilesMatchState.
Match ==
  Idle /\ outcome = "ok" /\ (agent.last > 0 \/ Renders(agent.templates, DataOf(0, agent.stale)))
    => files = Rendered(agent.templates, DataOf(agent.last, agent.stale))

\* A process that has not started has no outcome.
Fresh == ~agent.up => outcome = "none"

\* A version that FluxIP has been told, or is about to be told, to be applied.
Claimed(v) == v = recorded.applied \/ (report # None /\ report.ok /\ v = report.version)

\* Whoever knows a snapshot knows one as new as every claim: this process made
\* the claim, or its session began after the claimed version was published.
Honest ==
  \A v \in 0 .. published : Claimed(v) =>
    /\ agent.connected /\ since < v => agent.last >= v
    /\ agent.last > 0 => agent.last >= v
    /\ job # None /\ job.by = "snapshot" => job.data.version >= v

\* No file is older than the snapshot the agent holds.
Held ==
  agent.last > 0 => \A n \in Names : files[n] # None => files[n].data.version >= agent.last

-----------------------------------------------------------------------------
(* What the steps have in common. *)

\* Tells a job from no job.
LEMMA JobIsSome ==
  ASSUME NEW by \in {"start", "snapshot", "tick", "reload"}, NEW d \in Data,
         NEW todo \in SUBSET Names
  PROVE  /\ [by |-> by, data |-> d, todo |-> todo] \in Job
         /\ [by |-> by, data |-> d, todo |-> todo] # None
  BY AgentAssumption DEF Job

\* What BeginApply leaves: an apply of what was asked, or none.
LEMMA Begun ==
  ASSUME NEW by \in {"start", "snapshot", "tick", "reload"}, NEW t \in Sets, NEW d \in Data,
         BeginApply(by, t, d)
  PROVE  /\ job' \in Job \cup {None}
         /\ job' # None => /\ Renders(t, d) /\ job' \in Job
                           /\ job'.by = by /\ job'.data = d /\ job'.todo = Outputs[t]
         /\ Renders(t, d) => job' # None
<1>1. Outputs[t] \in SUBSET Names
  BY AgentAssumption
<1> QED
  BY <1>1, JobIsSome DEF BeginApply

\* The empty snapshot.
LEMMA EmptyTyped ==
  \A b \in BOOLEAN : DataOf(0, b) \in Data /\ DataOf(0, b).version = 0 /\ DataOf(0, b).stale = b
<1>1. 0 \in 0 .. MaxVersion
  BY AgentAssumption
<1> QED
  BY <1>1 DEF DataOf, Data

\* The data a handler renders.
LEMMA DataTyped ==
  ASSUME NEW v \in 0 .. MaxVersion, NEW b \in BOOLEAN
  PROVE  DataOf(v, b) \in Data /\ DataOf(v, b).version = v /\ DataOf(v, b).stale = b
  BY DEF DataOf, Data

-----------------------------------------------------------------------------
(* Type correctness. *)

LEMMA TypeInit == Init => TypeOK /\ Loaded /\ Versions /\ Fresh
<1> SUFFICES ASSUME Init
             PROVE  TypeOK /\ Loaded /\ Versions /\ Fresh
  OBVIOUS
<1>1. agent = Off /\ agent \in Agents
  BY AgentAssumption DEF Init, Off, Agents
<1>2. reload \in [Reloaders -> Sets \cup {None}] /\ files \in [Names -> File \cup {None}]
  BY DEF Init
<1>3. TypeOK
  BY <1>1, <1>2, AgentAssumption DEF Init, TypeOK
<1> QED
  BY <1>1, <1>3 DEF Loaded, Versions, Fresh, Init, Off

\* Off is an agent, and holds nothing.
LEMMA OffTyped ==
  /\ Off \in Agents /\ ~Off.up /\ ~Off.connected /\ Off.last = 0 /\ Off.appliedVersion = 0
  /\ ~Off.stale
  BY AgentAssumption DEF Off, Agents

\* A step of an apply.
LEMMA WriteTypes ==
  ASSUME TypeOK, Loaded, Versions, WriteFile
  PROVE  TypeOK' /\ Loaded' /\ Versions'
<1>1. job \in Job /\ agent.up /\ agent.templates \in Sets
  BY DEF WriteFile, TypeOK, Loaded
<1>2. PICK n \in job.todo :
        /\ files' = [files EXCEPT ![n] = [set |-> agent.templates, data |-> job.data]]
        /\ job' = [job EXCEPT !.todo = @ \ {n}]
  BY DEF WriteFile
<1>3. [set |-> agent.templates, data |-> job.data] \in File
  BY <1>1 DEF File, Job
<1>4. files' \in [Names -> File \cup {None}]
  BY <1>1, <1>2, <1>3 DEF TypeOK, Job
<1>5. job' \in Job /\ job'.todo \subseteq job.todo /\ job'.data = job.data
  BY <1>1, <1>2 DEF Job
<1> QED
  BY <1>1, <1>4, <1>5 DEF WriteFile, TypeOK, Loaded, Versions, server

LEMMA RemoveTypes ==
  ASSUME TypeOK, Loaded, Versions, RemoveFile
  PROVE  TypeOK' /\ Loaded' /\ Versions'
<1>1. files' \in [Names -> File \cup {None}]
  BY DEF RemoveFile, TypeOK
<1> QED
  BY <1>1 DEF RemoveFile, TypeOK, Loaded, Versions, server

\* The report of an apply that ends.
LEMMA ReportTyped ==
  ASSUME TypeOK, Versions, Applying, NEW b \in BOOLEAN, job # None, ReportOf(job, b)
  PROVE  report' \in Report \cup {None} /\ (report' # None => report'.version <= published)
<1>1. job \in Job
  BY DEF TypeOK
<1>2. CASE job.by = "snapshot"
  <2>1. job.data.version \in 1 .. MaxVersion
    BY <1>1, <1>2 DEF Applying, Asked, Job, Data
  <2> QED
    BY <1>2, <2>1 DEF ReportOf, Report, Versions
<1>3. CASE job.by # "snapshot"
  BY <1>3 DEF ReportOf, TypeOK, Versions
<1> QED
  BY <1>2, <1>3

LEMMA AppliedTypes ==
  ASSUME TypeOK, Loaded, Versions, Applying, Applied
  PROVE  TypeOK' /\ Loaded' /\ Versions'
<1>1. job \in Job /\ agent.up /\ job.data.version \in 0 .. MaxVersion
  BY DEF Applied, TypeOK, Job, Data
<1>2. report' \in Report \cup {None} /\ (report' # None => report'.version <= published)
  BY ReportTyped DEF Applied
<1>3. /\ agent' \in Agents /\ agent'.up /\ agent'.templates = agent.templates
      /\ agent'.last = agent'.appliedVersion /\ agent'.last <= published
      /\ agent'.connected = agent.connected
  <2>1. CASE job.by = "snapshot"
    BY <1>1, <2>1 DEF Applied, TypeOK, Agents, Versions
  <2>2. CASE job.by = "tick"
    BY <1>1, <2>2 DEF Applied, TypeOK, Agents, Versions
  <2>3. CASE job.by \notin {"snapshot", "tick"}
    BY <1>1, <2>3 DEF Applied, TypeOK, Agents, Versions
  <2> QED
    BY <2>1, <2>2, <2>3
<1> QED
  BY <1>1, <1>2, <1>3 DEF Applied, TypeOK, Loaded, Versions

LEMMA StartTypes ==
  ASSUME TypeOK, Loaded, Versions, Start
  PROVE  TypeOK' /\ Loaded' /\ Versions'
<1>1. dir.set \in Sets /\ job = None
  BY DEF Start, TypeOK
<1>2. /\ agent' \in Agents /\ agent'.up /\ agent'.templates = dir.set /\ ~agent'.connected
      /\ agent'.last = 0 /\ agent'.appliedVersion = 0
  BY <1>1, OffTyped DEF Start, Agents
<1>3. /\ job' \in Job \cup {None}
      /\ job' # None => job'.data = DataOf(0, FALSE) /\ job'.todo = Outputs[dir.set]
  <2>1. CASE Managed # {}
    BY <1>1, <2>1 DEF Start
  <2>2. CASE Managed = {}
    <3>1. DataOf(0, FALSE) \in Data
      BY EmptyTyped
    <3> QED
      BY <1>1, <2>2, <3>1, Begun DEF Start
  <2> QED
    BY <2>1, <2>2
<1>4. TypeOK'
  BY <1>1, <1>2, <1>3 DEF Start, TypeOK, server
<1>5. Versions'
  <2>1. published' = published /\ published \in 1 .. MaxVersion /\ report' = report
    BY DEF Start, TypeOK, server
  <2>2. agent'.last = agent'.appliedVersion /\ agent'.last <= published'
    BY <1>2, <2>1, AgentAssumption
  <2>3. job' # None => job'.data.version <= published'
    BY <1>3, <2>1, AgentAssumption DEF DataOf
  <2>4. report' # None => report'.version <= published'
    BY <2>1 DEF Versions
  <2> QED
    BY <1>2, <2>2, <2>3, <2>4 DEF Versions
<1> QED
  BY <1>1, <1>2, <1>4, <1>5 DEF Loaded

LEMMA ConnectionTypes ==
  ASSUME TypeOK, Loaded, Versions, OnConnected \/ OnDisconnected
  PROVE  TypeOK' /\ Loaded' /\ Versions'
<1>1. /\ agent' \in Agents /\ agent'.up /\ agent'.templates = agent.templates
      /\ agent'.last = agent.last /\ agent'.appliedVersion = agent.appliedVersion
  BY DEF OnConnected, OnDisconnected, Idle, TypeOK, Agents
<1>2. CASE OnConnected
  BY <1>1, <1>2 DEF OnConnected, Idle, TypeOK, Loaded, Versions
<1>3. CASE OnDisconnected
  <2>1. ~agent'.connected
    BY <1>3 DEF OnDisconnected, TypeOK, Agents
  <2> QED
    BY <1>1, <1>3, <2>1 DEF OnDisconnected, Idle, TypeOK, Loaded, Versions
<1> QED
  BY <1>2, <1>3

LEMMA SnapshotTypes ==
  ASSUME TypeOK, Loaded, Versions, NEW v \in since .. published, OnSnapshot(v)
  PROVE  TypeOK' /\ Loaded' /\ Versions'
<1>1. v \in 1 .. MaxVersion /\ v \in 0 .. MaxVersion /\ v <= published /\ agent.templates \in Sets
  BY AgentAssumption DEF OnSnapshot, Idle, TypeOK, Loaded, Versions
<1>2. DataOf(v, FALSE) \in Data /\ DataOf(v, FALSE).version = v
  BY <1>1, DataTyped
<1>3. /\ job' \in Job \cup {None}
      /\ job' # None => job'.data.version = v /\ job'.todo = Outputs[agent.templates]
  BY <1>1, <1>2, Begun DEF OnSnapshot, Receive
<1>4. report' \in Report \cup {None} /\ (report' # None => report'.version <= published)
  BY <1>1 DEF OnSnapshot, Receive, Report
<1> QED
  BY <1>1, <1>3, <1>4 DEF OnSnapshot, Receive, Idle, TypeOK, Loaded, Versions

LEMMA TickTypes ==
  ASSUME TypeOK, Loaded, Versions, Tick
  PROVE  TypeOK' /\ Loaded' /\ Versions'
<1>1. agent.last \in 0 .. MaxVersion /\ agent.templates \in Sets
  BY DEF Tick, Idle, TypeOK, Agents, Loaded
<1>2. DataOf(agent.last, TRUE) \in Data /\ DataOf(agent.last, TRUE).version = agent.last
  BY <1>1, DataTyped
<1>3. /\ job' \in Job \cup {None}
      /\ job' # None => job'.data.version = agent.last /\ job'.todo = Outputs[agent.templates]
  BY <1>1, <1>2, Begun DEF Tick
<1> QED
  BY <1>1, <1>3 DEF Tick, Idle, TypeOK, Loaded, Versions, server

LEMMA LoadTypes ==
  ASSUME TypeOK, Loaded, Versions, NEW r \in Reloaders, LoadDir(r)
  PROVE  TypeOK' /\ Loaded' /\ Versions'
<1>1. reload' \in [Reloaders -> Sets \cup {None}]
  BY DEF LoadDir, TypeOK
<1>2. signals' \in 0 .. MaxSignals /\ watcher' \in [on : BOOLEAN, event : BOOLEAN]
  <2>1. CASE r = "signal"
    BY <2>1, AgentAssumption DEF LoadDir, TypeOK
  <2>2. CASE r = "watch"
    BY <2>2 DEF LoadDir, TypeOK
  <2> QED
    BY <2>1, <2>2 DEF Reloaders
<1> QED
  BY <1>1, <1>2 DEF LoadDir, TypeOK, Loaded, Versions, server

LEMMA ReloadTypes ==
  ASSUME TypeOK, Loaded, Versions, NEW r \in Reloaders, Reload(r)
  PROVE  TypeOK' /\ Loaded' /\ Versions'
<1>1. /\ agent.last \in 0 .. MaxVersion /\ agent.stale \in BOOLEAN /\ reload[r] \in Sets
      /\ agent.up /\ job = None
  BY DEF Reload, Idle, TypeOK, Agents
<1>2. reload' \in [Reloaders -> Sets \cup {None}]
  BY DEF Reload, TypeOK
<1>3. CASE Accepts(reload[r])
  <2>1. /\ agent' \in Agents /\ agent'.up /\ agent'.templates = reload[r]
        /\ agent'.last = agent.last /\ agent'.appliedVersion = agent.appliedVersion
        /\ agent'.connected = agent.connected
    BY <1>1, <1>3 DEF Reload, TypeOK, Agents
  <2>2. DataOf(agent.last, agent.stale) \in Data /\ DataOf(agent.last, agent.stale).version = agent.last
    BY <1>1, DataTyped
  <2>3. /\ job' \in Job \cup {None}
        /\ job' # None => job'.data.version = agent.last /\ job'.todo = Outputs[reload[r]]
    BY <1>1, <1>3, <2>2, Begun DEF Reload
  <2> QED
    BY <1>1, <1>2, <2>1, <2>3 DEF Reload, TypeOK, Loaded, Versions, server
<1>4. CASE ~Accepts(reload[r])
  BY <1>1, <1>2, <1>4 DEF Reload, TypeOK, Loaded, Versions, server
<1> QED
  BY <1>3, <1>4

\* The surroundings.
LEMMA WorldTypes ==
  ASSUME TypeOK, Loaded, Versions,
         \/ Watch \/ Publish \/ RecordReport \/ LoseReport \/ Expire \/ (\E t \in Sets : Edit(t))
         \/ UNCHANGED vars
  PROVE  TypeOK' /\ Loaded' /\ Versions'
<1>1. CASE Watch
  BY <1>1 DEF Watch, TypeOK, Loaded, Versions, server
<1>2. CASE Publish
  <2>1. published' \in 1 .. MaxVersion /\ published' >= published
    BY <1>2, AgentAssumption DEF Publish, TypeOK
  <2>2. since' \in 0 .. published' /\ recorded' \in [applied : 0 .. published', error : 0 .. published']
    BY <1>2, <2>1 DEF Publish, TypeOK
  <2>3. Versions'
    <3>1. /\ job # None => job.data.version \in 0 .. MaxVersion
          /\ report # None => report.version \in 1 .. MaxVersion
          /\ agent.last \in 0 .. MaxVersion
      BY DEF TypeOK, Job, Data, Report, Agents
    <3> QED
      BY <1>2, <2>1, <3>1, AgentAssumption DEF Publish, Versions, TypeOK
  <2> QED
    BY <1>2, <2>1, <2>2, <2>3 DEF Publish, TypeOK, Loaded
<1>3. CASE RecordReport
  <2>1. report \in Report /\ report.version \in 0 .. published
    BY <1>3 DEF RecordReport, TypeOK, Report, Versions
  <2>2. recorded' \in [applied : 0 .. published, error : 0 .. published]
    BY <1>3, <2>1 DEF RecordReport, TypeOK, Report
  <2> QED
    BY <1>3, <2>2 DEF RecordReport, TypeOK, Loaded, Versions
<1>4. CASE LoseReport
  BY <1>4 DEF LoseReport, TypeOK, Loaded, Versions
<1>5. CASE Expire
  <2>1. /\ agent' \in Agents /\ agent'.up /\ agent'.templates = agent.templates
        /\ agent'.last = agent.last /\ agent'.appliedVersion = agent.appliedVersion
        /\ agent'.connected = agent.connected
    BY <1>5 DEF Expire, TypeOK, Agents
  <2> QED
    BY <1>5, <2>1 DEF Expire, TypeOK, Loaded, Versions, server
<1>6. ASSUME NEW t \in Sets, Edit(t)
      PROVE  TypeOK' /\ Loaded' /\ Versions'
  <2>1. dir' \in [set : Sets, edits : 0 .. MaxEdits] /\ watcher' \in [on : BOOLEAN, event : BOOLEAN]
    BY <1>6, AgentAssumption DEF Edit, TypeOK
  <2> QED
    BY <1>6, <2>1 DEF Edit, TypeOK, Loaded, Versions, server
<1>7. CASE UNCHANGED vars
  BY <1>7 DEF vars, TypeOK, Loaded, Versions, server
<1> QED
  BY <1>1, <1>2, <1>3, <1>4, <1>5, <1>6, <1>7

\* The end of the process.
LEMMA ExitTypes ==
  ASSUME Exit
  PROVE  /\ agent' = Off /\ agent' \in Agents /\ job' = None /\ since' = 0 /\ outcome' = "none"
         /\ watcher' \in [on : BOOLEAN, event : BOOLEAN]
         /\ reload' \in [Reloaders -> Sets \cup {None}]
  BY OffTyped DEF Exit

LEMMA FaultTypes ==
  ASSUME TypeOK, Loaded, Versions, Applying, WriteFails \/ Crash
  PROVE  TypeOK' /\ Loaded' /\ Versions'
<1>1. faults' \in 0 .. MaxFaults
  <2>1. Fault
    BY DEF WriteFails, Crash
  <2>2. faults \in 0 .. MaxFaults
    BY DEF TypeOK
  <2> QED
    BY <2>1, <2>2, AgentAssumption DEF Fault
<1>2. CASE Crash
  BY <1>1, <1>2, ExitTypes, OffTyped DEF Crash, TypeOK, Loaded, Versions
<1>3. CASE WriteFails
  <2>1. report' \in Report \cup {None} /\ (report' # None => report'.version <= published)
    BY <1>3, ReportTyped DEF WriteFails
  <2>2. CASE job.by = "start"
    BY <1>1, <1>3, <2>1, <2>2, ExitTypes, OffTyped DEF WriteFails, TypeOK, Loaded, Versions
  <2>3. CASE job.by # "start"
    BY <1>1, <1>3, <2>1, <2>3 DEF WriteFails, TypeOK, Loaded, Versions
  <2> QED
    BY <2>2, <2>3
<1> QED
  BY <1>2, <1>3

LEMMA TypeStep ==
  TypeOK /\ Loaded /\ Versions /\ Applying /\ [Next]_vars => TypeOK' /\ Loaded' /\ Versions'
  BY WriteTypes, RemoveTypes, AppliedTypes, StartTypes, ConnectionTypes, SnapshotTypes, TickTypes,
     LoadTypes, ReloadTypes, WorldTypes, FaultTypes DEF Next, ApplyStep

-----------------------------------------------------------------------------
(* The files. *)

FilesInv == Applying /\ Usable /\ Match /\ Fresh /\ Held

LEMMA FilesInit == Init => FilesInv
<1> SUFFICES ASSUME Init
             PROVE  FilesInv
  OBVIOUS
<1>1. agent = Off /\ job = None /\ outcome = "none"
  BY DEF Init
<1>2. ~agent.up /\ agent.last = 0
  BY <1>1, OffTyped
<1>3. Applying /\ Usable /\ Match /\ Fresh
  BY <1>1, <1>2 DEF Applying, Usable, Match, Fresh, Idle
<1>4. Held
  BY <1>2 DEF Held
<1> QED
  BY <1>3, <1>4 DEF FilesInv

\* What renders with the stale flag renders without it.
LEMMA RendersFresh ==
  ASSUME NEW t \in Sets, NEW v \in 0 .. MaxVersion, NEW b \in BOOLEAN, Renders(t, DataOf(v, b))
  PROVE  Renders(t, DataOf(v, FALSE))
  BY DEF Renders, DataOf

\* A step that touches neither the files nor what they are made of.
LEMMA FilesQuiet ==
  ASSUME FilesInv, files' = files, job' = job, outcome' = outcome, agent'.up = agent.up,
         agent'.templates = agent.templates, agent'.last = agent.last, agent'.stale = agent.stale
  PROVE  FilesInv'
<1>1. Applying'
  BY DEF FilesInv, Applying, Asked
<1>2. Usable'
  BY DEF FilesInv, Usable
<1>3. Match'
  BY DEF FilesInv, Match, Idle
<1>4. Fresh' /\ Held'
  BY DEF FilesInv, Fresh, Held
<1> QED
  BY <1>1, <1>2, <1>3, <1>4 DEF FilesInv

\* A step that begins an apply with the templates that are active.
LEMMA FilesBegin ==
  ASSUME TypeOK, Loaded, FilesInv, Idle, NEW by \in {"start", "snapshot", "tick", "reload"},
         NEW d \in Data, BeginApply(by, agent.templates, d), agent' = agent, files' = files,
         outcome' = outcome,
         \A j \in Job : j.by = by /\ j.data = d => Asked(j)
  PROVE  FilesInv'
<1>1. agent.templates \in Sets /\ job = None
  BY DEF Idle, Loaded
<1>2. /\ job' \in Job \cup {None}
      /\ job' # None => /\ Renders(agent.templates, d) /\ job' \in Job
                        /\ job'.by = by /\ job'.data = d /\ job'.todo = Outputs[agent.templates]
  BY <1>1, Begun
<1>3. Applying'
  <2> SUFFICES ASSUME job' # None
               PROVE  /\ Asked(job)'
                      /\ Renders(agent.templates, job'.data)
                      /\ Outputs[agent.templates] \ job'.todo = {}
    BY DEF Applying
  <2>1. Asked(job)'
    BY <1>2 DEF Asked
  <2> QED
    BY <1>2, <2>1
<1>4. Match'
  BY <1>1 DEF FilesInv, Match, Idle
<1>5. Usable' /\ Fresh' /\ Held'
  BY DEF FilesInv, Usable, Fresh, Held
<1> QED
  BY <1>3, <1>4, <1>5 DEF FilesInv

LEMMA FilesSnapshot ==
  ASSUME TypeOK, Loaded, Versions, FilesInv, NEW v \in since .. published, OnSnapshot(v)
  PROVE  FilesInv'
<1>1. v \in 1 .. MaxVersion /\ v \in 0 .. MaxVersion /\ v >= agent.last
  BY AgentAssumption DEF OnSnapshot, Idle, TypeOK, Versions
<1>2. DataOf(v, FALSE) \in Data /\ DataOf(v, FALSE).version = v
  BY <1>1, DataTyped
<1>3. \A j \in Job : j.by = "snapshot" /\ j.data = DataOf(v, FALSE) => Asked(j)
  BY <1>1, <1>2 DEF Asked, DataOf
<1> QED
  BY <1>2, <1>3, FilesBegin DEF OnSnapshot, Receive

LEMMA FilesTick ==
  ASSUME TypeOK, Loaded, FilesInv, Tick
  PROVE  FilesInv'
<1>1. agent.last \in 0 .. MaxVersion
  BY DEF TypeOK, Agents
<1>2. DataOf(agent.last, TRUE) \in Data
  BY <1>1, DataTyped
<1>3. \A j \in Job : j.by = "tick" /\ j.data = DataOf(agent.last, TRUE) => Asked(j)
  BY DEF Asked
<1> QED
  BY <1>2, <1>3, FilesBegin DEF Tick

LEMMA FilesReload ==
  ASSUME TypeOK, Loaded, FilesInv, NEW r \in Reloaders, Reload(r)
  PROVE  FilesInv'
<1>1. /\ agent.last \in 0 .. MaxVersion /\ agent.stale \in BOOLEAN /\ reload[r] \in Sets
      /\ agent.up /\ job = None /\ files' = files /\ outcome' = outcome
  BY DEF Reload, Idle, TypeOK, Agents
<1>2. CASE ~Accepts(reload[r])
  <2>1. agent' = agent /\ job' = job
    BY <1>2 DEF Reload
  <2> QED
    BY <1>1, <2>1, FilesQuiet
<1>3. CASE Accepts(reload[r])
  <2>1. /\ agent'.up /\ agent'.templates = reload[r] /\ agent'.last = agent.last
        /\ agent'.stale = agent.stale
    BY <1>1, <1>3 DEF Reload, TypeOK, Agents
  <2>2. DataOf(agent.last, agent.stale) \in Data
    BY <1>1, DataTyped
  <2>3. /\ job' \in Job \cup {None}
        /\ job' # None => /\ Renders(reload[r], DataOf(agent.last, agent.stale)) /\ job' \in Job
                          /\ job'.by = "reload" /\ job'.data = DataOf(agent.last, agent.stale)
                          /\ job'.todo = Outputs[reload[r]]
        /\ Renders(reload[r], DataOf(agent.last, agent.stale)) => job' # None
    BY <1>1, <1>3, <2>2, Begun DEF Reload
  <2>4. Applying'
    <3> SUFFICES ASSUME job' # None
                 PROVE  /\ Asked(job)'
                        /\ Renders(agent'.templates, job'.data)
                        /\ Outputs[agent'.templates] \ job'.todo = {}
      BY DEF Applying
    <3>1. Asked(job)'
      BY <2>1, <2>3 DEF Asked
    <3> QED
      BY <2>1, <2>3, <3>1
  <2>5. Usable'
    BY <1>1, <1>3, <2>1, RendersFresh DEF Accepts, Usable
  <2>6. Match'
    <3>1. agent.last > 0 \/ Renders(reload[r], DataOf(0, agent.stale))
            => Renders(reload[r], DataOf(agent.last, agent.stale))
      BY <1>1, <1>3 DEF Accepts
    <3> QED
      BY <2>1, <2>3, <3>1 DEF Match, Idle
  <2>7. Fresh' /\ Held'
    BY <1>1, <2>1 DEF FilesInv, Fresh, Held
  <2> QED
    BY <2>4, <2>5, <2>6, <2>7 DEF FilesInv
<1> QED
  BY <1>2, <1>3

LEMMA FilesStart ==
  ASSUME TypeOK, Loaded, FilesInv, Start
  PROVE  FilesInv'
<1>1. /\ dir.set \in Sets /\ job = None /\ outcome = "none" /\ outcome' = "none"
      /\ files' = files /\ Renders(dir.set, DataOf(0, FALSE))
  BY DEF Start, TypeOK, FilesInv, Fresh
<1>2. /\ agent' \in Agents /\ agent'.up /\ agent'.templates = dir.set
      /\ agent'.last = 0 /\ ~agent'.stale
  BY <1>1, OffTyped DEF Start, Agents
<1>3. job' # None => /\ job' \in Job /\ job'.by = "start" /\ job'.data = DataOf(0, FALSE)
                     /\ job'.todo = Outputs[dir.set]
  <2>1. CASE Managed # {}
    BY <1>1, <2>1 DEF Start
  <2>2. CASE Managed = {}
    BY <1>1, <2>2, EmptyTyped, Begun DEF Start
  <2> QED
    BY <2>1, <2>2
<1>4. Applying'
  <2> SUFFICES ASSUME job' # None
               PROVE  /\ Asked(job)'
                      /\ Renders(agent'.templates, job'.data)
                      /\ Outputs[agent'.templates] \ job'.todo = {}
    BY DEF Applying
  <2>1. Asked(job)'
    BY <1>2, <1>3 DEF Asked
  <2> QED
    BY <1>1, <1>2, <1>3, <2>1
<1>5. Usable'
  BY <1>1, <1>2 DEF Usable
<1>6. Match' /\ Fresh'
  BY <1>1, <1>2 DEF Match, Fresh
<1>7. Held'
  BY <1>2 DEF Held
<1> QED
  BY <1>4, <1>5, <1>6, <1>7 DEF FilesInv

LEMMA FilesWrite ==
  ASSUME TypeOK, Loaded, FilesInv, WriteFile
  PROVE  FilesInv'
<1>1. /\ job \in Job /\ agent.up /\ agent' = agent /\ outcome' = "writing"
      /\ agent.last \in 0 .. MaxVersion /\ job.data.version \in 0 .. MaxVersion
  BY DEF WriteFile, TypeOK, Job, Data, Agents
<1>2. PICK n \in job.todo :
        /\ files' = [files EXCEPT ![n] = [set |-> agent.templates, data |-> job.data]]
        /\ job' = [job EXCEPT !.todo = @ \ {n}]
  BY DEF WriteFile
<1>3. /\ n \in Names
      /\ files'[n] = [set |-> agent.templates, data |-> job.data]
      /\ \A m \in Names : m # n => files'[m] = files[m]
  BY <1>1, <1>2 DEF TypeOK, Job
<1>4. job'.by = job.by /\ job'.data = job.data /\ job'.todo = job.todo \ {n}
  BY <1>1, <1>2 DEF Job
<1>5. Asked(job) /\ Renders(agent.templates, job.data)
  BY DEF FilesInv, Applying, WriteFile
<1>6. \A m \in Outputs[agent.templates] \ job.todo :
        files[m] = [set |-> agent.templates, data |-> job.data]
  BY DEF FilesInv, Applying, WriteFile
<1>7. Outputs[agent.templates] \subseteq Names
  BY <1>1, AgentAssumption DEF Loaded
<1>8. Applying'
  <2>1. Asked(job)'
    BY <1>1, <1>4, <1>5 DEF Asked
  <2>2. \A m \in Outputs[agent.templates] \ job'.todo :
          files'[m] = [set |-> agent.templates, data |-> job.data]
    BY <1>3, <1>4, <1>6, <1>7
  <2> QED
    BY <1>1, <1>4, <1>5, <2>1, <2>2 DEF Applying
<1>9. Held'
  <2>1. agent.last > 0 => job.data.version >= agent.last
    <3>1. CASE job.by = "start"
      BY <1>1, <1>5, <3>1 DEF Asked
    <3>2. CASE job.by = "snapshot"
      BY <1>1, <1>5, <3>2 DEF Asked
    <3>3. CASE job.by = "tick" \/ job.by = "reload"
      BY <1>1, <1>5, <3>3 DEF Asked, DataOf
    <3> QED
      BY <1>1, <3>1, <3>2, <3>3 DEF Job
  <2>2. agent.last > 0 => \A m \in Names : files[m] # None => files[m].data.version >= agent.last
    BY DEF FilesInv, Held
  <2> QED
    BY <1>1, <1>3, <2>1, <2>2 DEF Held
<1> QED
  BY <1>1, <1>8, <1>9 DEF FilesInv, Usable, Match, Fresh

LEMMA FilesRemove ==
  ASSUME TypeOK, Loaded, FilesInv, RemoveFile
  PROVE  FilesInv'
<1>1. PICK n \in Managed \ Outputs[agent.templates] : files' = [files EXCEPT ![n] = None]
  BY DEF RemoveFile
<1>2. /\ n \in Names /\ n \notin Outputs[agent.templates] /\ files'[n] = None
      /\ \A m \in Names : m # n => files'[m] = files[m]
  BY <1>1 DEF Managed, TypeOK
<1>3. agent.up /\ agent' = agent /\ job' = job /\ outcome' = "writing"
  BY DEF RemoveFile, TypeOK
<1>4. Outputs[agent.templates] \subseteq Names
  BY <1>3, AgentAssumption DEF Loaded
<1>5. Applying'
  BY <1>2, <1>3, <1>4 DEF FilesInv, Applying, Asked
<1>6. Held'
  BY <1>2, <1>3 DEF FilesInv, Held
<1> QED
  BY <1>3, <1>5, <1>6 DEF FilesInv, Usable, Match, Fresh

LEMMA FilesApplied ==
  ASSUME TypeOK, Loaded, FilesInv, Applied
  PROVE  FilesInv'
<1>1. /\ job \in Job /\ job.todo = {} /\ agent.up /\ agent \in Agents /\ job' = None /\ files' = files
      /\ Managed \subseteq Outputs[agent.templates]
  BY DEF Applied, TypeOK
<1>2. Asked(job) /\ Renders(agent.templates, job.data)
  BY DEF FilesInv, Applying, Applied
<1>3. \A m \in Outputs[agent.templates] :
        files[m] = [set |-> agent.templates, data |-> job.data]
  BY <1>1 DEF FilesInv, Applying, Applied
<1>4. /\ agent'.up /\ agent'.templates = agent.templates
      /\ job.data = DataOf(agent'.last, agent'.stale)
      /\ agent'.last \in 0 .. MaxVersion /\ agent'.stale \in BOOLEAN
      /\ agent'.last = job.data.version
  <2>1. CASE job.by = "snapshot"
    <3>1. /\ agent'.up /\ agent'.templates = agent.templates /\ agent'.last = job.data.version
          /\ agent'.stale = FALSE
      BY <1>1, <2>1 DEF Applied, Agents
    <3>2. job.data = DataOf(job.data.version, FALSE) /\ job.data.version \in 0 .. MaxVersion
      BY <1>1, <1>2, <2>1 DEF Asked, Job, Data
    <3> QED
      BY <3>1, <3>2
  <2>2. CASE job.by = "tick"
    <3>1. /\ agent'.up /\ agent'.templates = agent.templates /\ agent'.last = agent.last
          /\ agent'.stale = TRUE
      BY <1>1, <2>2 DEF Applied, Agents
    <3>2. job.data = DataOf(agent.last, TRUE) /\ agent.last \in 0 .. MaxVersion
      BY <1>1, <1>2, <2>2 DEF Asked, Agents
    <3> QED
      BY <3>1, <3>2, DataTyped
  <2>3. CASE job.by \in {"start", "reload"}
    <3>1. agent' = agent
      BY <1>1, <2>3 DEF Applied
    <3>2. agent.last \in 0 .. MaxVersion /\ agent.stale \in BOOLEAN
      BY <1>1 DEF Agents
    <3>3. job.data = DataOf(agent.last, agent.stale)
      BY <1>2, <2>3, <3>2 DEF Asked
    <3> QED
      BY <1>1, <3>1, <3>2, <3>3, DataTyped
  <2> QED
    BY <1>1, <2>1, <2>2, <2>3 DEF Job
<1>5. files = Rendered(agent'.templates, DataOf(agent'.last, agent'.stale))
  <2>1. \A m \in Names : m \notin Outputs[agent.templates] => files[m] = None
    BY <1>1 DEF Managed
  <2>2. files = [m \in Names |-> files[m]]
    BY DEF TypeOK
  <2> QED
    BY <1>3, <1>4, <2>1, <2>2 DEF Rendered
<1>6. Usable'
  <2>1. Renders(agent.templates, DataOf(0, FALSE)) /\ agent.templates \in Sets
    BY <1>1 DEF FilesInv, Usable, Loaded
  <2>2. Renders(agent.templates, DataOf(agent'.last, FALSE))
    BY <1>2, <1>4, <2>1, RendersFresh
  <2> QED
    BY <1>4, <2>1, <2>2 DEF Usable
<1>7. Held'
  <2>1. \A m \in Names : files[m] # None => files[m].data = job.data
    BY <1>1, <1>3 DEF Managed
  <2> QED
    BY <1>1, <1>4, <2>1 DEF Held
<1> QED
  BY <1>1, <1>4, <1>5, <1>6, <1>7 DEF FilesInv, Applying, Match, Fresh

LEMMA FilesFault ==
  ASSUME TypeOK, Loaded, FilesInv, WriteFails \/ Crash
  PROVE  FilesInv'
<1>1. ASSUME Exit
      PROVE  FilesInv'
  <2>1. agent' = Off /\ job' = None /\ outcome' = "none"
    BY <1>1 DEF Exit
  <2>2. ~agent'.up /\ agent'.last = 0
    BY <2>1, OffTyped
  <2>3. Applying' /\ Usable' /\ Match' /\ Fresh'
    BY <2>1, <2>2 DEF Applying, Usable, Match, Fresh, Idle
  <2>4. Held'
    BY <2>2 DEF Held
  <2> QED
    BY <2>3, <2>4 DEF FilesInv
<1>2. CASE ~Exit
  <2>1. /\ job # None /\ agent' = agent /\ job' = None /\ outcome' = "failed" /\ files' = files
    BY <1>2 DEF WriteFails, Crash
  <2>2. agent.up
    BY <2>1 DEF TypeOK
  <2>3. Applying' /\ Match' /\ Fresh'
    BY <2>1, <2>2 DEF Applying, Match, Fresh
  <2>4. Usable' /\ Held'
    BY <2>1 DEF FilesInv, Usable, Held
  <2> QED
    BY <2>3, <2>4 DEF FilesInv
<1> QED
  BY <1>1, <1>2

LEMMA FilesStep ==
  TypeOK /\ Loaded /\ Versions /\ FilesInv /\ [Next]_vars => FilesInv'
<1> SUFFICES ASSUME TypeOK, Loaded, Versions, FilesInv, [Next]_vars
             PROVE  FilesInv'
  OBVIOUS
<1>1. CASE OnConnected \/ OnDisconnected \/ Expire
  <2>1. /\ agent'.up = agent.up /\ agent'.templates = agent.templates
        /\ agent'.last = agent.last /\ agent'.stale = agent.stale
    BY <1>1 DEF OnConnected, OnDisconnected, Expire, TypeOK, Agents
  <2> QED
    BY <1>1, <2>1, FilesQuiet DEF OnConnected, OnDisconnected, Expire
<1>2. CASE Watch \/ Publish \/ RecordReport \/ LoseReport \/ UNCHANGED vars
  BY <1>2, FilesQuiet DEF Watch, Publish, RecordReport, LoseReport, vars
<1>3. ASSUME NEW r \in Reloaders, LoadDir(r)
      PROVE  FilesInv'
  BY <1>3, FilesQuiet DEF LoadDir
<1>4. ASSUME NEW t \in Sets, Edit(t)
      PROVE  FilesInv'
  BY <1>4, FilesQuiet DEF Edit
<1> QED
  BY <1>1, <1>2, <1>3, <1>4, FilesWrite, FilesRemove, FilesApplied, FilesStart, FilesSnapshot,
     FilesTick, FilesReload, FilesFault DEF Next, ApplyStep

-----------------------------------------------------------------------------
(* The claims. *)

LEMMA HonestInit == Init => Honest
<1> SUFFICES ASSUME Init
             PROVE  Honest
  OBVIOUS
<1>1. agent = Off /\ job = None /\ report = None /\ recorded.applied = 0
  BY DEF Init
<1>2. ~agent.connected /\ agent.last = 0
  BY <1>1, OffTyped
<1>3. \A v \in 0 .. published : Claimed(v) => v = 0
  BY <1>1 DEF Claimed
<1> QED
  BY <1>1, <1>2, <1>3 DEF Honest

\* No claim is ahead of FluxIP.
LEMMA ClaimsBounded ==
  ASSUME TypeOK, Versions
  PROVE  \A v : Claimed(v) => v \in 0 .. published
<1>1. recorded.applied \in 0 .. published
  BY DEF TypeOK
<1>2. report # None => report.version \in 0 .. published
  BY AgentAssumption DEF TypeOK, Report, Versions
<1> QED
  BY <1>1, <1>2 DEF Claimed

\* A step that makes no claim, and after which the agent knows as much in the
\* same session, or has no session and no snapshot.
LEMMA HonestKept ==
  ASSUME TypeOK, Versions, Honest, published' = published,
         \A v : Claimed(v)' => Claimed(v),
         \/ agent'.last = agent.last /\ agent'.connected = agent.connected /\ since' = since
         \/ agent'.last \in {0, agent.last} /\ ~agent'.connected,
         job' # None /\ job'.by = "snapshot" => job # None /\ job'.by = job.by /\ job'.data = job.data
  PROVE  Honest'
<1> SUFFICES ASSUME NEW v \in 0 .. published, Claimed(v)
             PROVE  /\ agent'.connected /\ since' < v => agent'.last >= v
                    /\ agent'.last > 0 => agent'.last >= v
                    /\ job' # None /\ job'.by = "snapshot" => job'.data.version >= v
  BY DEF Honest
<1>1. /\ agent.connected /\ since < v => agent.last >= v
      /\ agent.last > 0 => agent.last >= v
      /\ job # None /\ job.by = "snapshot" => job.data.version >= v
  BY DEF Honest
<1> QED
  BY <1>1

LEMMA HonestPublish ==
  ASSUME TypeOK, Versions, Honest, Publish
  PROVE  Honest'
<1>1. \A v : Claimed(v)' => Claimed(v) /\ v \in 0 .. published
  BY ClaimsBounded DEF Publish, Claimed
<1>2. agent' = agent /\ since' = since /\ job' = job
  BY DEF Publish
<1> SUFFICES ASSUME NEW v \in 0 .. published', Claimed(v)'
             PROVE  /\ agent'.connected /\ since' < v => agent'.last >= v
                    /\ agent'.last > 0 => agent'.last >= v
                    /\ job' # None /\ job'.by = "snapshot" => job'.data.version >= v
  BY DEF Honest
<1> QED
  BY <1>1, <1>2 DEF Honest

LEMMA HonestConnected ==
  ASSUME TypeOK, Versions, Honest, OnConnected
  PROVE  Honest'
<1>1. /\ job' = None /\ agent'.last = agent.last /\ since' = published /\ published' = published
      /\ published \in Nat
  BY AgentAssumption DEF OnConnected, Idle, TypeOK, Agents
<1>2. \A v : Claimed(v)' <=> Claimed(v)
  BY DEF OnConnected, Claimed
<1> QED
  BY <1>1, <1>2 DEF Honest

LEMMA HonestSnapshot ==
  ASSUME TypeOK, Loaded, Versions, Honest, NEW v \in since .. published, OnSnapshot(v)
  PROVE  Honest'
<1>1. /\ v \in 0 .. MaxVersion /\ v >= agent.last /\ v >= since /\ agent.last \in 0 .. MaxVersion
      /\ agent.templates \in Sets /\ since \in Nat
      /\ agent.connected /\ agent' = agent /\ since' = since /\ published' = published
  BY AgentAssumption DEF OnSnapshot, Receive, Idle, TypeOK, Loaded, Versions, Agents
<1>2. \A w : Claimed(w)' => Claimed(w)
  BY DEF OnSnapshot, Receive, Claimed
<1>3. job' # None => job'.data.version = v
  <2>1. DataOf(v, FALSE) \in Data /\ DataOf(v, FALSE).version = v
    BY <1>1, DataTyped
  <2> QED
    BY <1>1, <2>1, Begun DEF OnSnapshot, Receive
<1> SUFFICES ASSUME NEW w \in 0 .. published, Claimed(w)
             PROVE  /\ agent.connected /\ since < w => agent.last >= w
                    /\ agent.last > 0 => agent.last >= w
                    /\ v >= w
  BY <1>1, <1>2, <1>3 DEF Honest
<1>4. /\ agent.connected /\ since < w => agent.last >= w
      /\ agent.last > 0 => agent.last >= w
  BY DEF Honest
<1> QED
  BY <1>1, <1>4

LEMMA HonestApplied ==
  ASSUME TypeOK, Loaded, Versions, Applying, Honest, Applied
  PROVE  Honest'
<1>1. /\ job \in Job /\ job' = None /\ since' = since /\ published' = published
      /\ recorded' = recorded /\ agent \in Agents
  BY DEF Applied, TypeOK
<1>2. CASE job.by = "snapshot"
  <2>1. agent'.last = job.data.version /\ job.data.version \in 0 .. MaxVersion
    BY <1>1, <1>2 DEF Applied, Agents, Job, Data
  <2>2. \A v : Claimed(v)' => Claimed(v) \/ v = job.data.version
    BY <1>1, <1>2 DEF Applied, ReportOf, Claimed
  <2>3. \A v \in 0 .. published : Claimed(v) => job.data.version >= v
    BY <1>2 DEF Honest, Applied
  <2>4. \A v \in 0 .. published : Claimed(v)' => agent'.last >= v
    BY <2>1, <2>2, <2>3
  <2> QED
    BY <1>1, <2>4 DEF Honest
<1>3. CASE job.by # "snapshot"
  <2>1. agent'.last = agent.last /\ agent'.connected = agent.connected
    BY <1>1, <1>3 DEF Applied, Agents
  <2>2. \A v : Claimed(v)' => Claimed(v)
    BY <1>1, <1>3 DEF Applied, ReportOf, Claimed
  <2> QED
    BY <1>1, <2>1, <2>2, HonestKept
<1> QED
  BY <1>2, <1>3

LEMMA HonestFault ==
  ASSUME TypeOK, Versions, Honest, WriteFails \/ Crash
  PROVE  Honest'
<1>1. \A v : Claimed(v)' => Claimed(v)
  <2>1. CASE WriteFails
    BY <2>1 DEF WriteFails, ReportOf, Claimed
  <2>2. CASE Crash
    BY <2>2 DEF Crash, Claimed
  <2> QED
    BY <2>1, <2>2
<1>2. job' = None /\ published' = published
  BY DEF WriteFails, Crash, Exit
<1>3. CASE Exit
  <2>1. agent'.last = 0 /\ ~agent'.connected
    BY <1>3, OffTyped DEF Exit
  <2> QED
    BY <1>1, <1>2, <2>1, HonestKept
<1>4. CASE ~Exit
  BY <1>1, <1>2, <1>4, HonestKept DEF WriteFails, Crash
<1> QED
  BY <1>3, <1>4

LEMMA HonestStart ==
  ASSUME TypeOK, Versions, Honest, Start
  PROVE  Honest'
<1>1. /\ agent'.last = 0 /\ ~agent'.connected /\ published' = published /\ job = None
  BY OffTyped DEF Start, server, Agents, TypeOK
<1>2. \A v : Claimed(v)' => Claimed(v)
  BY DEF Start, server, Claimed
<1>3. job' # None => job'.by # "snapshot"
  <2>1. job' = None \/ BeginApply("start", dir.set, DataOf(0, FALSE))
    BY <1>1 DEF Start
  <2>2. job' = None \/ job'.by = "start"
    BY <2>1 DEF BeginApply, DataOf
  <2> QED
    BY <2>2
<1> QED
  BY <1>1, <1>2, <1>3, HonestKept

\* The steps of an apply and the handlers that begin one without a snapshot.
LEMMA HonestLocal ==
  ASSUME TypeOK, Versions, Honest,
         \/ WriteFile \/ RemoveFile \/ Tick \/ (\E r \in Reloaders : LoadDir(r) \/ Reload(r))
         \/ Watch \/ Expire \/ OnDisconnected \/ (\E t \in Sets : Edit(t)) \/ UNCHANGED vars
  PROVE  Honest'
<1>1. \A v : Claimed(v)' => Claimed(v)
  BY DEF Claimed, WriteFile, RemoveFile, Tick, LoadDir, Reload, Watch, Expire, OnDisconnected, Edit,
         vars, server
<1>2. published' = published
  BY DEF WriteFile, RemoveFile, Tick, LoadDir, Reload, Watch, Expire, OnDisconnected, Edit,
         vars, server
<1>3. agent'.last = agent.last
  BY DEF WriteFile, RemoveFile, Tick, LoadDir, Reload, Watch, Expire, OnDisconnected, Edit,
         vars, server, TypeOK, Agents
<1>4. \/ agent'.connected = agent.connected /\ since' = since
      \/ ~agent'.connected
  BY DEF WriteFile, RemoveFile, Tick, LoadDir, Reload, Watch, Expire, OnDisconnected, Edit,
         vars, server, TypeOK, Agents
<1>5. job' # None /\ job'.by = "snapshot" => job # None /\ job'.by = job.by /\ job'.data = job.data
  <2>1. CASE WriteFile
    BY <2>1 DEF WriteFile, TypeOK, Job
  <2>2. CASE Tick
    <3>1. BeginApply("tick", agent.templates, DataOf(agent.last, TRUE))
      BY <2>2 DEF Tick
    <3> QED
      BY <3>1 DEF BeginApply
  <2>3. ASSUME NEW r \in Reloaders, Reload(r)
        PROVE  job' = job \/ job' = None \/ job'.by = "reload"
    <3>1. job' = job \/ BeginApply("reload", reload[r], DataOf(agent.last, agent.stale))
      BY <2>3 DEF Reload
    <3> QED
      BY <3>1 DEF BeginApply
  <2>4. ASSUME NEW r \in Reloaders, LoadDir(r)
        PROVE  job' = job
    BY <2>4 DEF LoadDir
  <2>5. CASE \/ RemoveFile \/ Watch \/ Expire \/ OnDisconnected \/ (\E t \in Sets : Edit(t))
             \/ UNCHANGED vars
    BY <2>5 DEF RemoveFile, Watch, Expire, OnDisconnected, Edit, vars
  <2> QED
    BY <2>1, <2>2, <2>3, <2>4, <2>5
<1> QED
  BY <1>1, <1>2, <1>3, <1>4, <1>5, HonestKept

LEMMA HonestStep ==
  TypeOK /\ Loaded /\ Versions /\ Applying /\ Honest /\ [Next]_vars => Honest'
<1> SUFFICES ASSUME TypeOK, Loaded, Versions, Applying, Honest, [Next]_vars
             PROVE  Honest'
  OBVIOUS
<1>1. CASE RecordReport \/ LoseReport
  <2>1. \A v : Claimed(v)' => Claimed(v)
    BY <1>1 DEF RecordReport, LoseReport, Claimed, TypeOK
  <2> QED
    BY <1>1, <2>1, HonestKept DEF RecordReport, LoseReport
<1> QED
  BY <1>1, HonestPublish, HonestConnected, HonestSnapshot, HonestApplied, HonestFault, HonestStart,
     HonestLocal DEF Next, ApplyStep

-----------------------------------------------------------------------------
(* The theorems. *)

Inv == TypeOK /\ Loaded /\ Versions /\ FilesInv /\ Honest

LEMMA Invariance == Spec => []Inv
<1>1. Init => Inv
  BY TypeInit, FilesInit, HonestInit DEF Inv
<1>2. Inv /\ [Next]_vars => Inv'
  BY TypeStep, FilesStep, HonestStep DEF Inv, FilesInv
<1> QED
  BY <1>1, <1>2, PTL DEF Spec

\* Every variable of the agent keeps its type; a process that does not run
\* holds neither the mutex nor a connection, whichever fault ended it.
THEOREM TypeCorrect == Spec => []TypeOK
<1>1. Inv => TypeOK
  BY DEF Inv
<1> QED
  BY <1>1, Invariance, PTL

\* FR-048, FR-049, FR-057, applyLocked and Reload: between two handlers, after
\* an apply that succeeded, the output directory holds what the active templates
\* make of what the agent knows, and nothing else; these can always render it.
THEOREM FilesMatch == Spec => []FilesMatchState
<1>1. Inv => FilesMatchState
  BY DEF Inv, FilesInv, Match, Usable, FilesMatchState
<1> QED
  BY <1>1, Invariance, PTL

\* FR-054, onReport and deriveDeliveryStatus: an action is shown as applied only
\* if an agent that has a snapshot has the published version in every file,
\* however late the report came and whichever process sent it.
THEOREM ShownIsInFiles == Spec => []AppliedIsInFiles
<1>1. Inv => AppliedIsInFiles
  <2> SUFFICES ASSUME Inv, DeliveryStatus = "applied", agent.last > 0, NEW n \in Managed
               PROVE  files[n].data.version >= published
    BY DEF AppliedIsInFiles
  <2>1. recorded.applied \in 0 .. published /\ published \in Nat /\ recorded.error \in 0 .. published
    BY AgentAssumption DEF Inv, TypeOK
  <2>2. recorded.applied >= published
    BY <2>1 DEF DeliveryStatus
  <2>3. agent.last >= recorded.applied /\ agent.last \in Nat
    BY <2>1, AgentAssumption DEF Inv, Honest, Claimed, TypeOK, Agents
  <2>4. n \in Names /\ files[n] # None /\ files[n] \in File
    BY DEF Managed, Inv, TypeOK
  <2>5. files[n].data.version >= agent.last /\ files[n].data.version \in Nat
    BY <2>4, AgentAssumption DEF Inv, FilesInv, Held, File, Data
  <2> QED
    BY <2>1, <2>2, <2>3, <2>5
<1> QED
  BY <1>1, Invariance, PTL

\* FR-053, Agent.OnSnapshot: whatever sessions and resyncs deliver, in whichever
\* order, a process never replaces a version by an older one.
THEOREM OnlyForward == Spec => NeverBack
<1>1. Inv /\ [Next]_vars => [agent.up /\ agent'.up => agent'.appliedVersion >= agent.appliedVersion]_vars
  <2> SUFFICES ASSUME Inv, [Next]_vars, agent.up, agent'.up
               PROVE  agent'.appliedVersion >= agent.appliedVersion
    OBVIOUS
  <2>1. agent \in Agents /\ agent.appliedVersion \in Nat
    BY AgentAssumption DEF Inv, TypeOK, Agents
  <2>2. CASE Applied
    <3>1. CASE job.by = "snapshot"
      <4>1. agent'.appliedVersion = job.data.version
        BY <2>1, <2>2, <3>1 DEF Applied, Agents
      <4>2. job.data.version >= agent.last
        BY <2>2, <3>1 DEF Applied, Inv, FilesInv, Applying, Asked
      <4> QED
        BY <4>1, <4>2 DEF Inv, Versions
    <3>2. CASE job.by # "snapshot"
      BY <2>1, <2>2, <3>2 DEF Applied, Agents
    <3> QED
      BY <3>1, <3>2
  <2>3. CASE WriteFails \/ Crash
    <3>1. ~Exit
      BY OffTyped DEF Exit
    <3>2. agent' = agent
      BY <2>3, <3>1 DEF WriteFails, Crash
    <3> QED
      BY <2>1, <3>2
  <2>4. CASE Start
    BY <2>4 DEF Start
  <2>5. CASE ~Applied /\ ~WriteFails /\ ~Crash /\ ~Start
    <3>1. agent'.appliedVersion = agent.appliedVersion
      BY <2>1, <2>5 DEF Next, ApplyStep, vars, WriteFile, RemoveFile, Watch, OnConnected,
         OnDisconnected, Tick, OnSnapshot, Receive, RecordReport, LoseReport, LoadDir, Reload, Publish,
         Expire, Edit, Agents
    <3> QED
      BY <2>1, <3>1
  <2> QED
    BY <2>2, <2>3, <2>4, <2>5
<1> QED
  BY <1>1, Invariance, PTL DEF Spec, NeverBack

=============================================================================
