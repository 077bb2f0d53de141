---------------------------- MODULE IpSettlement ----------------------------
(***************************************************************************)
(* How a trigger device's IP reports become confirmed IP changes and       *)
(* execution jobs: the trigger endpoint, the device's event stream with    *)
(* its optimistic concurrency, the debounce queue, the debounce worker and *)
(* its fan-out.  One device and its actions.                               *)
(*                                                                         *)
(* A stream is represented by its replay: device.version is its length     *)
(* and the other fields are what ipClientReducer folds it to, plus the     *)
(* last ip_report_received event, which the worker looks up in the stream. *)
(***************************************************************************)
EXTENDS Naturals, Sequences

CONSTANTS
  Family,      \* the address families, IPv4 and IPv6
  Addr,        \* the addresses a report may carry
  None,        \* "not reported", "not known", "no runner"
  Actions,     \* the device's Hetzner actions (fan-out skips the traefik ones)
  Requests,    \* trigger requests; each runs once, which bounds the reports
  Edits,       \* owner requests; each runs once, which bounds the edits
  EditKinds,   \* which owner requests occur
  Workers,     \* debounce workers of all backend processes
  MaxStalled,  \* how often BullMQ requeues a stalled job before failing it
  MaxFaults    \* bound on crashes, failed calls and lost job locks

ASSUME IpSettlementAssumption ==
  /\ None \notin Addr
  /\ None \notin Workers
  /\ EditKinds \subseteq {"enable", "disable", "decommission", "prefer", "rotate"}
  /\ MaxStalled \in Nat
  /\ MaxFaults \in Nat

VARIABLES
  device,    \* replay of the device's stream
  changes,   \* values confirmed by the ip_changed events, in stream order
  requests,  \* progress of each trigger request
  edits,     \* progress of each owner request
  job,       \* the device's debounce job, one per deduplication id
  run,       \* what each debounce worker is doing
  actionOn,  \* whether each action is enabled
  jobs,      \* execution jobs ever added to the action-execution queue
  skipped,   \* history: <<change, action>> found disabled by the fan-out
  announced, \* changes handed to the snapshot scheduler
  view,      \* the device's entry in the Redis projection
  faults     \* faults so far

vars == <<device, changes, requests, edits, job, run, actionOn, jobs, skipped,
          announced, view, faults>>
flow == <<changes, job, run, jobs, skipped, announced>>

-----------------------------------------------------------------------------
(* Data. *)

Values == [Family -> Addr \cup {None}]
Unknown == [f \in Family |-> None]
Reports == Values \ {Unknown}
Status == {"enabled", "disabled", "decommissioned"}

Device == [version : Nat, status : Status, known : Values, report : Values]
View == [status : Status, known : Values]
RequestPc == {"new", "append", "schedule", "done"}
Request == [pc : RequestPc, version : Nat, report : Values]
EditPc == {"new", "append", "reload", "project", "done"}
Edit == [pc : EditPc, version : Nat, kind : EditKinds \cup {"prefer"}, view : View]
RunPc == {"idle", "load", "append", "project", "announce", "fanout"}
Run == [pc : RunPc, version : Nat, values : Values, change : Nat,
        todo : SUBSET Actions]
JobState == {"none", "delayed", "waiting", "active"}
Job == [state : JobState, next : BOOLEAN, runner : Workers \cup {None},
        stalls : Nat]
Execution == [change : Nat, action : Actions, values : Values]

\* A family the report does not carry keeps its last known address.
Resolve(report, known) ==
  [f \in Family |-> IF report[f] # None THEN report[f] ELSE known[f]]

Settled(report, known) == Resolve(report, known) = known

\* Mutant of Fresh: appends behind whatever is there, without the constraint.
FreshUnchecked(v) == v <= device.version

\* The append of one event at sequence number v + 1: the unique constraint
\* refuses it when the stream has grown past the version it was built on.
Fresh(v) == device.version = v

IdleRun == [pc |-> "idle", version |-> 0, values |-> Unknown, change |-> 0,
            todo |-> {}]
NoJob == [state |-> "none", next |-> FALSE, runner |-> None, stalls |-> 0]
DelayedJob == [NoJob EXCEPT !.state = "delayed"]

Init ==
  /\ device = [version |-> 1, status |-> "enabled", known |-> Unknown,
               report |-> Unknown]
  /\ changes = <<>>
  /\ requests = [r \in Requests |-> [pc |-> "new", version |-> 0, report |-> Unknown]]
  /\ edits = [e \in Edits |-> [pc |-> "new", version |-> 0, kind |-> "prefer",
                               view |-> [status |-> "enabled", known |-> Unknown]]]
  /\ job = NoJob
  /\ run = [w \in Workers |-> IdleRun]
  /\ actionOn \in [Actions -> BOOLEAN]
  /\ jobs = {}
  /\ skipped = {}
  /\ announced = {}
  /\ view = [status |-> "enabled", known |-> Unknown]
  /\ faults = 0

-----------------------------------------------------------------------------
(* The trigger endpoint: load, append ip_report_received, schedule. *)

RequestLoad(r) ==
  /\ requests[r].pc = "new"
  /\ \E rep \in Reports :
       requests' = [requests EXCEPT ![r] =
         IF device.status = "enabled"
           THEN [pc |-> "append", version |-> device.version, report |-> rep]
           ELSE [@ EXCEPT !.pc = "done"]]
  /\ UNCHANGED <<device, edits, actionOn, view, faults, flow>>

RequestAppend(r) ==
  /\ requests[r].pc = "append"
  /\ IF Fresh(requests[r].version)
       THEN /\ device' = [device EXCEPT !.version = @ + 1,
                                        !.report = requests[r].report]
            /\ requests' = [requests EXCEPT ![r].pc = "schedule"]
       ELSE /\ requests' = [requests EXCEPT ![r].pc = "done"]
            /\ UNCHANGED device
  /\ UNCHANGED <<edits, actionOn, view, faults, flow>>

\* Mutant of AddDebounceJob: no keepLastIfActive.
AddDebounceJobDropped ==
  job' = IF job.state \in {"none", "delayed"} THEN DelayedJob ELSE job

\* queue.add with extend, replace and keepLastIfActive on the device's id.
AddDebounceJob ==
  job' = CASE job.state \in {"none", "delayed"} -> DelayedJob
           [] job.state = "waiting" -> job
           [] job.state = "active" -> [job EXCEPT !.next = TRUE]

RequestSchedule(r) ==
  /\ requests[r].pc = "schedule"
  /\ AddDebounceJob
  /\ requests' = [requests EXCEPT ![r].pc = "done"]
  /\ UNCHANGED <<device, changes, edits, run, actionOn, jobs, skipped,
                 announced, view, faults>>

\* The process dies, or Redis refuses the job, after the report was stored.
RequestLosesSchedule(r) ==
  /\ requests[r].pc = "schedule"
  /\ faults < MaxFaults
  /\ faults' = faults + 1
  /\ requests' = [requests EXCEPT ![r].pc = "done"]
  /\ UNCHANGED <<device, edits, actionOn, view, flow>>

-----------------------------------------------------------------------------
(* The owner's requests on the device: load, append, refresh the projection. *)

StatusAfter(kind, status) ==
  CASE kind = "enable" -> "enabled"
    [] kind = "disable" -> "disabled"
    [] kind = "decommission" -> "decommissioned"
    [] OTHER -> status

EditLoad(e) ==
  /\ edits[e].pc = "new"
  /\ \E k \in EditKinds :
       edits' = [edits EXCEPT ![e] =
         IF k # "prefer" /\ device.status = "decommissioned"
           THEN [@ EXCEPT !.pc = "done"]
           ELSE [@ EXCEPT !.pc = "append", !.version = device.version, !.kind = k]]
  /\ UNCHANGED <<device, requests, actionOn, view, faults, flow>>

EditAppend(e) ==
  /\ edits[e].pc = "append"
  /\ IF Fresh(edits[e].version)
       THEN /\ device' = [device EXCEPT !.version = @ + 1,
                            !.status = StatusAfter(edits[e].kind, @)]
            /\ edits' = [edits EXCEPT ![e].pc =
                           IF edits[e].kind = "rotate" THEN "done" ELSE "reload"]
       ELSE /\ edits' = [edits EXCEPT ![e].pc = "done"]
            /\ UNCHANGED device
  /\ UNCHANGED <<requests, actionOn, view, faults, flow>>

EditReload(e) ==
  /\ edits[e].pc = "reload"
  /\ edits' = [edits EXCEPT ![e].pc = "project",
                 ![e].view = [status |-> device.status, known |-> device.known]]
  /\ UNCHANGED <<device, requests, actionOn, view, faults, flow>>

EditProject(e) ==
  /\ edits[e].pc = "project"
  /\ view' = edits[e].view
  /\ edits' = [edits EXCEPT ![e].pc = "done"]
  /\ UNCHANGED <<device, requests, actionOn, faults, flow>>

\* The action routes: enable and disable of one action of the device.
ToggleAction(a) ==
  /\ actionOn' = [actionOn EXCEPT ![a] = ~@]
  /\ UNCHANGED <<device, requests, edits, view, faults, flow>>

-----------------------------------------------------------------------------
(* The debounce queue and its worker. *)

DelayElapses ==
  /\ job.state = "delayed"
  /\ job' = [job EXCEPT !.state = "waiting"]
  /\ UNCHANGED <<device, changes, requests, edits, run, actionOn, jobs, skipped,
                 announced, view, faults>>

Take(w) ==
  /\ job.state = "waiting"
  /\ run[w].pc = "idle"
  /\ job' = [job EXCEPT !.state = "active", !.runner = w]
  /\ run' = [run EXCEPT ![w].pc = "load"]
  /\ UNCHANGED <<device, changes, requests, edits, actionOn, jobs, skipped,
                 announced, view, faults>>

\* The job ends, completed or failed (one attempt): the deduplication id is
\* free again, or the report that arrived meanwhile gets its own delayed job.
JobAfterEnd == IF job.next THEN DelayedJob ELSE NoJob

\* Worker w's run ends.  Without the job's lock BullMQ refuses its result.
EndRun(w) ==
  /\ run' = [run EXCEPT ![w] = IdleRun]
  /\ job' = IF job.runner = w THEN JobAfterEnd ELSE job

\* Mutant of Load: settles a device whatever its status.
LoadAnyStatus(w) ==
  /\ run[w].pc = "load"
  /\ LET values == Resolve(device.report, device.known) IN
     IF device.report # Unknown /\ values # device.known
       THEN /\ run' = [run EXCEPT ![w].pc = "append", ![w].values = values,
                                  ![w].version = device.version]
            /\ UNCHANGED job
       ELSE EndRun(w)
  /\ UNCHANGED <<device, changes, requests, edits, actionOn, jobs, skipped,
                 announced, view, faults>>

Load(w) ==
  /\ run[w].pc = "load"
  /\ LET values == Resolve(device.report, device.known) IN
     IF device.status = "enabled" /\ device.report # Unknown /\ values # device.known
       THEN /\ run' = [run EXCEPT ![w].pc = "append", ![w].values = values,
                                  ![w].version = device.version]
            /\ UNCHANGED job
       ELSE EndRun(w)
  /\ UNCHANGED <<device, changes, requests, edits, actionOn, jobs, skipped,
                 announced, view, faults>>

AppendChange(w) ==
  /\ run[w].pc = "append"
  /\ IF Fresh(run[w].version)
       THEN /\ device' = [device EXCEPT !.version = @ + 1, !.known = run[w].values]
            /\ changes' = Append(changes, run[w].values)
            /\ run' = [run EXCEPT ![w].pc = "project", ![w].change = Len(changes) + 1]
            /\ UNCHANGED job
       ELSE /\ EndRun(w)
            /\ UNCHANGED <<device, changes>>
  /\ UNCHANGED <<requests, edits, actionOn, jobs, skipped, announced, view, faults>>

\* upsertIpClientProjection(ipClientReducer(state, causationEvent)).
Project(w) ==
  /\ run[w].pc = "project"
  /\ view' = [status |-> "enabled", known |-> run[w].values]
  /\ run' = [run EXCEPT ![w].pc = "announce"]
  /\ UNCHANGED <<device, changes, requests, edits, job, actionOn, jobs, skipped,
                 announced, faults>>

Announce(w) ==
  /\ run[w].pc = "announce"
  /\ announced' = announced \cup {run[w].change}
  /\ run' = [run EXCEPT ![w].pc = "fanout", ![w].todo = Actions]
  /\ UNCHANGED <<device, changes, requests, edits, job, actionOn, jobs, skipped,
                 view, faults>>

\* The job id is built from the change and the action: a second add is a no-op.
Enqueue(e) ==
  IF \E j \in jobs : j.change = e.change /\ j.action = e.action
    THEN jobs
    ELSE jobs \cup {e}

FanOut(w, a) ==
  /\ run[w].pc = "fanout"
  /\ a \in run[w].todo
  /\ IF actionOn[a]
       THEN /\ jobs' = Enqueue([change |-> run[w].change, action |-> a,
                                values |-> run[w].values])
            /\ UNCHANGED skipped
       ELSE /\ skipped' = skipped \cup {<<run[w].change, a>>}
            /\ UNCHANGED jobs
  /\ run' = [run EXCEPT ![w].todo = @ \ {a}]
  /\ UNCHANGED <<device, changes, requests, edits, job, actionOn, announced,
                 view, faults>>

\* Mutant of Finish: the fan-out loop returns at the first disabled action.
FinishAtDisabled(w) ==
  /\ run[w].pc = "fanout"
  /\ \A a \in run[w].todo : \E b \in Actions : <<run[w].change, b>> \in skipped
  /\ EndRun(w)
  /\ UNCHANGED <<device, changes, requests, edits, actionOn, jobs, skipped,
                 announced, view, faults>>

Finish(w) ==
  /\ run[w].pc = "fanout"
  /\ run[w].todo = {}
  /\ EndRun(w)
  /\ UNCHANGED <<device, changes, requests, edits, actionOn, jobs, skipped,
                 announced, view, faults>>

-----------------------------------------------------------------------------
(* Faults of the worker, and BullMQ's recovery of stalled jobs. *)

\* A call to Postgres or Redis throws: the job fails and is not retried.
RunThrows(w) ==
  /\ run[w].pc # "idle"
  /\ faults < MaxFaults
  /\ faults' = faults + 1
  /\ EndRun(w)
  /\ UNCHANGED <<device, changes, requests, edits, actionOn, jobs, skipped,
                 announced, view>>

\* The process dies: its job stays active until the stalled check finds it.
RunCrashes(w) ==
  /\ run[w].pc # "idle"
  /\ faults < MaxFaults
  /\ faults' = faults + 1
  /\ run' = [run EXCEPT ![w] = IdleRun]
  /\ UNCHANGED <<device, changes, requests, edits, job, actionOn, jobs, skipped,
                 announced, view>>

Requeue ==
  job' = IF job.stalls < MaxStalled
           THEN [job EXCEPT !.state = "waiting", !.runner = None, !.stalls = @ + 1]
           ELSE JobAfterEnd

StalledCheck ==
  /\ job.state = "active"
  /\ run[job.runner].pc = "idle"
  /\ Requeue
  /\ UNCHANGED <<device, changes, requests, edits, run, actionOn, jobs, skipped,
                 announced, view, faults>>

\* The worker lives but could not renew the job's lock: the job is taken from
\* it and may run a second time beside the first.
LockLost ==
  /\ job.state = "active"
  /\ run[job.runner].pc # "idle"
  /\ faults < MaxFaults
  /\ faults' = faults + 1
  /\ Requeue
  /\ UNCHANGED <<device, changes, requests, edits, run, actionOn, jobs, skipped,
                 announced, view>>

-----------------------------------------------------------------------------
RequestStep(r) == RequestLoad(r) \/ RequestAppend(r) \/ RequestSchedule(r)
EditStep(e) == EditLoad(e) \/ EditAppend(e) \/ EditReload(e) \/ EditProject(e)
RunStep(w) ==
  \/ Load(w) \/ AppendChange(w) \/ Project(w) \/ Announce(w) \/ Finish(w)
  \/ \E a \in Actions : FanOut(w, a)

Next ==
  \/ \E r \in Requests : RequestStep(r) \/ RequestLosesSchedule(r)
  \/ \E e \in Edits : EditStep(e)
  \/ \E a \in Actions : ToggleAction(a)
  \/ DelayElapses
  \/ \E w \in Workers : Take(w) \/ RunStep(w) \/ RunThrows(w) \/ RunCrashes(w)
  \/ StalledCheck
  \/ LockLost

Spec == Init /\ [][Next]_vars

\* A started request, the delay timer, the stalled check and the workers keep
\* going.  Nobody has to send a report, edit the device or toggle an action.
Fairness ==
  /\ \A r \in Requests : WF_vars(RequestAppend(r)) /\ WF_vars(RequestSchedule(r))
  /\ \A e \in Edits : WF_vars(EditAppend(e) \/ EditReload(e) \/ EditProject(e))
  /\ \A w \in Workers : WF_vars(RunStep(w))
  /\ WF_vars(\E w \in Workers : Take(w))
  /\ WF_vars(DelayElapses)
  /\ WF_vars(StalledCheck)

FairSpec == Spec /\ Fairness

-----------------------------------------------------------------------------
(* Properties. *)

\* The shape of every variable, and that a run which counts on a version of the
\* stream does not count on one the stream has not reached.
TypeOK ==
  /\ device \in Device
  /\ changes \in Seq(Values)
  /\ requests \in [Requests -> Request]
  /\ edits \in [Edits -> Edit]
  /\ job \in Job
  /\ (job.state = "active") <=> (job.runner # None)
  /\ run \in [Workers -> Run]
  /\ actionOn \in [Actions -> BOOLEAN]
  /\ jobs \subseteq Execution
  /\ skipped \subseteq Nat \X Actions
  /\ announced \subseteq Nat
  /\ view \in View
  /\ faults \in 0 .. MaxFaults

\* debounce-worker.ts refines the abstract change log, whatever crashes,
\* stalls, duplicate runs and concurrent writers do: no redundant ip_changed
\* event and at most one execution job per change and action (FR-006, FR-014).
Log == INSTANCE ChangeLog WITH known <- device.known, log <- changes, issued <- jobs

ImplementsChangeLog == Log!LogSpec

\* An ip_changed event resolves the newest report of the stream it extends and
\* is only appended while the device is enabled: a settlement computed from an
\* older report, or before a disable, never gets in (append's unique sequence
\* number).
ChangeFollowsNewestReport ==
  [][changes' # changes =>
       /\ changes' = Append(changes, Resolve(device.report, device.known))
       /\ device.status = "enabled"
       /\ device.report # Unknown]_vars

\* Nothing is on its way: no request, job or run that could still act.
Quiet ==
  /\ job.state = "none"
  /\ \A w \in Workers : run[w].pc = "idle"
  /\ \A r \in Requests : requests[r].pc \in {"new", "done"}
  /\ \A e \in Edits : edits[e].pc \in {"new", "done"}

\* FR-010, FR-014 "nor silently skipped": once nothing is on its way, every
\* confirmed change has reached the snapshot scheduler and has an execution
\* job for every action the fan-out did not find disabled.
NoChangeSkipped ==
  Quiet => \A i \in 1 .. Len(changes) :
             /\ i \in announced
             /\ \A a \in Actions :
                  \/ <<i, a>> \in skipped
                  \/ \E j \in jobs : j.change = i /\ j.action = a

\* FR-014 and research.md section 2 ("retried on conflict"): a stored report is
\* settled, unless a newer one replaces it or the device is switched off.
ReportSettles ==
  \A rep \in Reports :
    (device.report = rep) ~>
      \/ device.report # rep
      \/ device.status # "enabled"
      \/ Settled(rep, device.known)
=============================================================================
