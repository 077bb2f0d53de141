--------------------------- MODULE ActionExecution ---------------------------
(***************************************************************************)
(* The executions of one DNS action: the action-execution queue with its   *)
(* attempts and backoff, the execution worker with the stream it records   *)
(* each execution in, the record at the provider, and the notifications.   *)
(* An address is represented by the number of the confirmed change that    *)
(* introduced it; 0 is "none".                                             *)
(***************************************************************************)
EXTENDS Naturals, Sequences, FiniteSets, SequencesExt

CONSTANTS
  MaxChanges,   \* confirmed IP changes
  Manuals,      \* manual run requests
  ActionEdits,  \* owner requests on the action that occur
  MaxEdits,     \* and how many of them
  Preferences,  \* notification preferences the device may have
  Attempts,     \* BACKEND_ACTION_RETRY_ATTEMPTS
  Workers,      \* execution workers of all backend processes
  None,         \* no runner
  MaxStalled,   \* how often BullMQ requeues a stalled job
  FaultKinds,   \* subset of {"provider", "store", "crash", "lock"}
  MaxFaults     \* bound on faults

ASSUME ActionExecutionAssumption ==
  /\ MaxChanges \in Nat
  /\ ActionEdits \subseteq {"enable", "disable", "detach", "reconfigure"}
  /\ MaxEdits \in Nat
  /\ Preferences \subseteq {"off", "failures_only", "all"}
  /\ Attempts \in Nat \ {0}
  /\ None \notin Workers
  /\ MaxStalled \in Nat
  /\ FaultKinds \subseteq {"provider", "store", "crash", "lock"}
  /\ MaxFaults \in Nat

VARIABLES
  device,      \* number of changes so far and the last known addresses
  latest,      \* (for properties) the execution the newest change was fanned out
               \* to, or 0, and the executions that had not ended by then
  action,      \* status and address families of the action
  edits,       \* owner requests so far
  preference,  \* the device's notification preference (off without a channel)
  manual,      \* progress of each manual run request
  jobs,        \* the jobs ever added, by number
  queue,       \* job numbers waiting, next one first
  stream,      \* the event stream of each job's execution
  shown,       \* the execution's status in the Redis projection
  record,      \* the DNS record: A and AAAA
  sent,        \* notifications handed to the mail server, per job
  run,         \* what each worker is doing
  faults       \* faults so far

owner == <<device, latest, action, edits, preference, manual>>
effects == <<stream, shown, record, sent>>
vars == <<owner, jobs, queue, effects, run, faults>>

-----------------------------------------------------------------------------
Family == {"ipv4", "ipv6"}
Address == 0 .. MaxChanges
Values == [Family -> Address]
Unknown == [f \in Family |-> 0]

JobState == {"waiting", "active", "delayed", "completed", "failed"}
Job == [state : JobState, values : Values, made : Nat,
        runner : Workers \cup {None}, stalls : Nat]
Event == [name : {"started", "succeeded", "failed", "notified"}, attempt : Nat,
          final : BOOLEAN]
Shown == {"absent", "started", "succeeded", "failed"}
RunPc == {"idle", "start", "load", "execute", "outcome", "reload", "project",
          "notify", "record", "end"}
Run == [pc : RunPc, job : Nat, attempt : Nat, seq : Nat, todo : SUBSET Family,
        outcome : {"none", "succeeded", "failed", "missing"}, view : Shown]

IdleRun == [pc |-> "idle", job |-> 0, attempt |-> 0, seq |-> 0, todo |-> {},
            outcome |-> "none", view |-> "absent"]

JobIds == DOMAIN jobs
Ended(j) == jobs[j].state \in {"completed", "failed"}

\* actionExecutionReducer, status only: notification_sent changes nothing.
Status(events) ==
  LET outcomes == {i \in DOMAIN events : events[i].name # "notified"}
  IN  IF outcomes = {} THEN "absent" ELSE events[Max(outcomes)].name

Init ==
  /\ device = [changes |-> 0, known |-> Unknown]
  /\ latest = [job |-> 0, open |-> {}]
  /\ action \in [status : {"enabled"}, families : SUBSET Family \ {{}}]
  /\ edits = 0
  /\ preference \in Preferences
  /\ manual = [m \in Manuals |-> [pc |-> "new", values |-> Unknown]]
  /\ jobs = <<>>
  /\ queue = <<>>
  /\ stream = <<>>
  /\ shown = <<>>
  /\ record = Unknown
  /\ sent = <<>>
  /\ run = [w \in Workers |-> IdleRun]
  /\ faults = 0

-----------------------------------------------------------------------------
(* Jobs are added by the fan-out of a change and by manual runs. *)

AddJob(values) ==
  /\ jobs' = Append(jobs, [state |-> "waiting", values |-> values, made |-> 0,
                           runner |-> None, stalls |-> 0])
  /\ queue' = Append(queue, Len(jobs) + 1)
  /\ stream' = Append(stream, <<>>)
  /\ shown' = Append(shown, "absent")
  /\ sent' = Append(sent, <<>>)

\* A confirmed change of some families and its fan-out.
Change(S) ==
  /\ device.changes < MaxChanges
  /\ device' = [changes |-> device.changes + 1,
                known |-> [f \in Family |-> IF f \in S THEN device.changes + 1
                                                       ELSE device.known[f]]]
  /\ IF action.status = "enabled"
       THEN /\ AddJob(device'.known)
            /\ latest' = [job |-> Len(jobs) + 1, open |-> {j \in JobIds : ~Ended(j)}]
       ELSE /\ latest' = [job |-> 0, open |-> {}]
            /\ UNCHANGED <<jobs, queue, stream, shown, sent>>
  /\ UNCHANGED <<action, edits, preference, manual, record, run, faults>>

\* POST /actions/:id/run: load action and device, then add a job of its own.
ManualLoad(m) ==
  /\ manual[m].pc = "new"
  /\ manual' = [manual EXCEPT ![m] =
       IF action.status = "enabled" /\ device.known # Unknown
         THEN [pc |-> "add", values |-> device.known]
         ELSE [@ EXCEPT !.pc = "done"]]
  /\ UNCHANGED <<device, latest, action, edits, preference, jobs, queue, effects, run, faults>>

ManualAdd(m) ==
  /\ manual[m].pc = "add"
  /\ AddJob(manual[m].values)
  /\ manual' = [manual EXCEPT ![m].pc = "done"]
  /\ UNCHANGED <<device, latest, action, edits, preference, record, run, faults>>

\* Enable and disable are refused on a detached action, reconfigure is not.
EditAction(k) ==
  /\ k \in ActionEdits
  /\ edits < MaxEdits
  /\ edits' = edits + 1
  /\ action.status # "detached" \/ k = "reconfigure"
  /\ IF k = "reconfigure"
       THEN \E S \in SUBSET Family \ {{}} : action' = [action EXCEPT !.families = S]
       ELSE action' = [action EXCEPT !.status =
              CASE k = "enable" -> "enabled" [] k = "disable" -> "disabled"
                [] k = "detach" -> "detached"]
  /\ UNCHANGED <<device, latest, preference, manual, jobs, queue, effects, run, faults>>

SetPreference(p) ==
  /\ p # preference
  /\ edits < MaxEdits
  /\ edits' = edits + 1
  /\ preference' = p
  /\ UNCHANGED <<device, latest, action, manual, jobs, queue, effects, run, faults>>

-----------------------------------------------------------------------------
(* The queue. *)

Take(w) ==
  /\ run[w].pc = "idle"
  /\ queue # <<>>
  /\ LET j == Head(queue) IN
       /\ jobs' = [jobs EXCEPT ![j].state = "active", ![j].runner = w]
       /\ run' = [run EXCEPT ![w] = [IdleRun EXCEPT !.pc = "start", !.job = j,
                                       !.attempt = jobs[j].made + 1]]
  /\ queue' = Tail(queue)
  /\ UNCHANGED <<owner, effects, faults>>

BackoffElapses(j) ==
  /\ jobs[j].state = "delayed"
  /\ jobs' = [jobs EXCEPT ![j].state = "waiting"]
  /\ queue' = Append(queue, j)
  /\ UNCHANGED <<owner, effects, run, faults>>

\* Worker w reports its result; without the job's lock BullMQ refuses it.
CompleteJob(w) ==
  /\ run' = [run EXCEPT ![w] = IdleRun]
  /\ jobs' = IF jobs[run[w].job].runner = w
               THEN [jobs EXCEPT ![run[w].job].state = "completed",
                                 ![run[w].job].runner = None]
               ELSE jobs

\* Mutant of FailJob: the job is retried whatever its attempts.
FailJobAlwaysRetries(w) ==
  /\ run' = [run EXCEPT ![w] = IdleRun]
  /\ jobs' = IF jobs[run[w].job].runner = w
               THEN [jobs EXCEPT ![run[w].job].state = "delayed",
                                 ![run[w].job].runner = None,
                                 ![run[w].job].made =
                                    IF @ + 1 < Attempts THEN @ + 1 ELSE @]
               ELSE jobs

\* Mutant of FailJob: a failed attempt is marked waiting and never queued.
FailJobLosesJob(w) ==
  /\ run' = [run EXCEPT ![w] = IdleRun]
  /\ LET j == run[w].job IN
     jobs' = IF jobs[j].runner = w
               THEN [jobs EXCEPT ![j].made = @ + 1, ![j].runner = None,
                       ![j].state = IF jobs[j].made + 1 < Attempts
                                      THEN "waiting" ELSE "failed"]
               ELSE jobs

FailJob(w) ==
  /\ run' = [run EXCEPT ![w] = IdleRun]
  /\ LET j == run[w].job IN
     jobs' = IF jobs[j].runner = w
               THEN [jobs EXCEPT ![j].made = @ + 1, ![j].runner = None,
                       ![j].state = IF jobs[j].made + 1 < Attempts
                                      THEN "delayed" ELSE "failed"]
               ELSE jobs

\* The stalled check: back to the front of the queue, or failed for good.
Requeue(j) ==
  IF jobs[j].stalls < MaxStalled
    THEN /\ jobs' = [jobs EXCEPT ![j].state = "waiting", ![j].runner = None,
                                 ![j].stalls = @ + 1]
         /\ queue' = <<j>> \o queue
    ELSE /\ jobs' = [jobs EXCEPT ![j].state = "failed", ![j].runner = None]
         /\ UNCHANGED queue

-----------------------------------------------------------------------------
(* The worker.  Every append to the execution's stream reads its length      *)
(* first; the two are separate steps.                                        *)

Go(w, pc) == run' = [run EXCEPT ![w].pc = pc, ![w].seq = 0]

\* Where an exception leads: inside the try block to the catch block, in
\* maybeSendNotification nowhere, otherwise out of the job.
Throw(w) ==
  LET inTry == \/ run[w].pc = "execute"
               \/ /\ run[w].pc \in {"outcome", "reload", "project"}
                  /\ run[w].outcome = "succeeded"
  IN  CASE inTry ->
             /\ run' = [run EXCEPT ![w].pc = "outcome", ![w].seq = 0,
                                   ![w].outcome = "failed"]
             /\ UNCHANGED jobs
        [] run[w].pc \in {"notify", "record"} ->
             /\ Go(w, "end")
             /\ UNCHANGED jobs
        [] OTHER -> FailJob(w)

NextSequence(w) ==
  /\ run[w].pc \in {"start", "outcome", "record"}
  /\ run[w].seq = 0
  /\ run' = [run EXCEPT ![w].seq = Len(stream[run[w].job]) + 1]
  /\ UNCHANGED <<owner, jobs, queue, effects, faults>>

\* The append at run[w].seq, refused if another run of the job was faster.
AppendExecutionEvent(w, name, final, pc) ==
  LET j == run[w].job IN
  /\ run[w].seq # 0
  /\ IF run[w].seq = Len(stream[j]) + 1
       THEN /\ stream' = [stream EXCEPT ![j] = Append(@,
                 [name |-> name, attempt |-> run[w].attempt, final |-> final])]
            /\ Go(w, pc)
            /\ UNCHANGED jobs
       ELSE /\ Throw(w)
            /\ UNCHANGED stream
  /\ UNCHANGED <<owner, queue, shown, record, sent, faults>>

\* Mutant of Started: goes on when the event could not be stored.
StartedUnrecorded(w) ==
  /\ run[w].pc = "start"
  /\ run[w].seq # 0
  /\ Go(w, "load")
  /\ UNCHANGED <<owner, jobs, queue, effects, faults>>

Started(w) ==
  /\ run[w].pc = "start"
  /\ AppendExecutionEvent(w, "started", FALSE, "load")

\* Mutant of LoadAction: an execution lacking a family just returns.
LoadActionIgnoresMissing(w) ==
  /\ run[w].pc = "load"
  /\ IF /\ action.status = "enabled"
        /\ \A f \in action.families : jobs[run[w].job].values[f] # 0
       THEN /\ run' = [run EXCEPT ![w].pc = "execute", ![w].todo = action.families]
            /\ UNCHANGED jobs
       ELSE CompleteJob(w)
  /\ UNCHANGED <<owner, queue, effects, faults>>

\* Mutant of LoadAction: the updates are not awaited before the job is done.
LoadActionUnawaited(w) ==
  /\ run[w].pc = "load" /\ action.status = "enabled"
  /\ run' = [run EXCEPT ![w].pc = "execute", ![w].todo = action.families]
  /\ jobs' = [jobs EXCEPT ![run[w].job].state = "completed", ![run[w].job].runner = None]
  /\ UNCHANGED <<owner, queue, effects, faults>>

LoadAction(w) ==
  /\ run[w].pc = "load"
  /\ LET values == jobs[run[w].job].values IN
     CASE action.status # "enabled" -> CompleteJob(w)
       [] action.status = "enabled" ->
            /\ run' = IF \E f \in action.families : values[f] = 0
                        THEN [run EXCEPT ![w].pc = "outcome", ![w].outcome = "missing"]
                        ELSE [run EXCEPT ![w].pc = "execute",
                                         ![w].todo = action.families]
            /\ UNCHANGED jobs
  /\ UNCHANGED <<owner, queue, effects, faults>>

\* setRecords for A, then AAAA.
Written(w, f) ==
  /\ run[w].pc = "execute"
  /\ f \in run[w].todo
  /\ f = "ipv6" => "ipv4" \notin run[w].todo
  /\ record' = [record EXCEPT ![f] = jobs[run[w].job].values[f]]

\* Mutant of Execute: AAAA is skipped once A is updated.
ExecuteFirstFamily(w, f) ==
  /\ Written(w, f)
  /\ run' = [run EXCEPT ![w].pc = "outcome", ![w].outcome = "succeeded", ![w].todo = {}]
  /\ UNCHANGED <<owner, jobs, queue, stream, shown, sent, faults>>

Execute(w, f) ==
  /\ Written(w, f)
  /\ run' = IF run[w].todo = {f}
              THEN [run EXCEPT ![w].pc = "outcome", ![w].outcome = "succeeded",
                               ![w].todo = {}]
              ELSE [run EXCEPT ![w].todo = @ \ {f}]
  /\ UNCHANGED <<owner, jobs, queue, stream, shown, sent, faults>>

IsFinal(w) == run[w].attempt >= Attempts

Outcome(w) ==
  /\ run[w].pc = "outcome"
  /\ IF run[w].outcome = "succeeded"
       THEN AppendExecutionEvent(w, "succeeded", TRUE, "reload")
       ELSE AppendExecutionEvent(w, "failed", run[w].outcome = "missing" \/ IsFinal(w),
                                 "reload")

Reload(w) ==
  /\ run[w].pc = "reload"
  /\ run' = [run EXCEPT ![w].pc = "project", ![w].view = Status(stream[run[w].job])]
  /\ UNCHANGED <<owner, jobs, queue, effects, faults>>

\* Mutant of Project: every failure is notified, not only the final one.
ProjectNotifiesAll(w) ==
  /\ run[w].pc = "project"
  /\ shown' = [shown EXCEPT ![run[w].job] = run[w].view]
  /\ Go(w, "notify")
  /\ UNCHANGED <<owner, jobs, queue, stream, record, sent, faults>>

Project(w) ==
  /\ run[w].pc = "project"
  /\ shown' = [shown EXCEPT ![run[w].job] = run[w].view]
  /\ Go(w, IF run[w].outcome = "failed" /\ ~IsFinal(w) THEN "end" ELSE "notify")
  /\ UNCHANGED <<owner, jobs, queue, stream, record, sent, faults>>

Notified(w) == IF run[w].outcome = "succeeded" THEN "succeeded" ELSE "failed"

Wanted(outcome) ==
  preference = "all" \/ (preference = "failures_only" /\ outcome = "failed")

Notify(w) ==
  /\ run[w].pc = "notify"
  /\ IF Wanted(Notified(w))
       THEN /\ sent' = [sent EXCEPT ![run[w].job] = Append(@, Notified(w))]
            /\ Go(w, "record")
       ELSE /\ Go(w, "end")
            /\ UNCHANGED sent
  /\ UNCHANGED <<owner, jobs, queue, stream, shown, record, faults>>

NotificationSent(w) ==
  /\ run[w].pc = "record"
  /\ AppendExecutionEvent(w, "notified", FALSE, "end")

\* The catch block rethrows, which fails the attempt; the other paths return.
End(w) ==
  /\ run[w].pc = "end"
  /\ IF run[w].outcome = "failed" THEN FailJob(w) ELSE CompleteJob(w)
  /\ UNCHANGED <<owner, queue, effects, faults>>

-----------------------------------------------------------------------------
(* Faults. *)

Fault(kind) ==
  /\ kind \in FaultKinds
  /\ faults < MaxFaults
  /\ faults' = faults + 1

\* The provider refuses or does not answer, or the credential was revoked.
ProviderFails(w) ==
  /\ Fault("provider")
  /\ run[w].pc = "execute"
  /\ Throw(w)
  /\ UNCHANGED <<owner, queue, effects>>

\* The provider applies the update and its answer is lost.
AnswerLost(w) ==
  /\ Fault("provider")
  /\ \E f \in Family : Written(w, f)
  /\ Throw(w)
  /\ UNCHANGED <<owner, queue, stream, shown, sent>>

\* Postgres, Redis or the mail server throws.
StoreFails(w) ==
  /\ Fault("store")
  /\ run[w].pc \notin {"idle", "execute", "end"}
  /\ Throw(w)
  /\ UNCHANGED <<owner, queue, effects>>

Crash(w) ==
  /\ Fault("crash")
  /\ run[w].pc # "idle"
  /\ run' = [run EXCEPT ![w] = IdleRun]
  /\ UNCHANGED <<owner, jobs, queue, effects>>

StalledCheck(j) ==
  /\ jobs[j].state = "active"
  /\ run[jobs[j].runner].job # j
  /\ Requeue(j)
  /\ UNCHANGED <<owner, effects, run, faults>>

LockLost(j) ==
  /\ Fault("lock")
  /\ jobs[j].state = "active"
  /\ run[jobs[j].runner].job = j
  /\ Requeue(j)
  /\ UNCHANGED <<owner, effects, run>>

-----------------------------------------------------------------------------
WorkerStep(w) ==
  \/ NextSequence(w) \/ Started(w) \/ LoadAction(w)
  \/ \E f \in Family : Execute(w, f)
  \/ Outcome(w) \/ Reload(w) \/ Project(w)
  \/ Notify(w) \/ NotificationSent(w) \/ End(w)

Next ==
  \/ \E S \in SUBSET Family \ {{}} : Change(S)
  \/ \E m \in Manuals : ManualLoad(m) \/ ManualAdd(m)
  \/ \E k \in ActionEdits : EditAction(k)
  \/ \E p \in Preferences : SetPreference(p)
  \/ \E w \in Workers :
       \/ Take(w) \/ WorkerStep(w)
       \/ ProviderFails(w) \/ AnswerLost(w) \/ StoreFails(w) \/ Crash(w)
  \/ \E j \in JobIds : BackoffElapses(j) \/ StalledCheck(j) \/ LockLost(j)

Spec == Init /\ [][Next]_vars

\* Workers keep taking and running jobs, timers fire, stalled jobs are found.
MaxJobs == MaxChanges + Cardinality(Manuals)

Fairness ==
  /\ \A w \in Workers : WF_vars(WorkerStep(w))
  /\ WF_vars(\E w \in Workers : Take(w))
  /\ \A j \in 1 .. MaxJobs :
       /\ WF_vars(j \in JobIds /\ BackoffElapses(j))
       /\ WF_vars(j \in JobIds /\ StalledCheck(j))

FairSpec == Spec /\ Fairness

-----------------------------------------------------------------------------
(* Properties. *)

\* The shape of every variable, with one stream, projection entry and mail
\* count per job, and the queue holding exactly the waiting jobs, once each.
TypeOK ==
  /\ device \in [changes : Nat, known : Values]
  /\ latest.job \in {0} \cup JobIds /\ latest.open \subseteq JobIds
  /\ action \in [status : {"enabled", "disabled", "detached"},
                 families : SUBSET Family \ {{}}]
  /\ edits \in 0 .. MaxEdits
  /\ preference \in Preferences
  /\ manual \in [Manuals -> [pc : {"new", "add", "done"}, values : Values]]
  /\ jobs \in Seq(Job)
  /\ {j \in JobIds : jobs[j].state = "waiting"} = Range(queue)
  /\ IsInjective(queue)
  /\ stream \in [JobIds -> Seq(Event)]
  /\ shown \in [JobIds -> Shown]
  /\ record \in Values
  /\ sent \in [JobIds -> Seq({"succeeded", "failed"})]
  /\ run \in [Workers -> Run]
  /\ faults \in 0 .. MaxFaults

Count(events, name) == Cardinality({i \in DOMAIN events : events[i].name = name})

\* FR-021 and research.md section 5 ("bounded"): an execution is tried at most
\* as often as configured, a stalled job once more per stall; and whatever the
\* provider holds was written by an execution whose stream had been started before.
AttemptsAreRecorded ==
  /\ \A j \in JobIds : Count(stream[j], "started") <= Attempts + jobs[j].stalls
  /\ \A f \in Family : record[f] # 0 =>
       \E j \in JobIds : jobs[j].values[f] = record[f] /\ Count(stream[j], "started") > 0

Quiet ==
  /\ \A w \in Workers : run[w].pc = "idle"
  /\ \A j \in JobIds : Ended(j)

\* FR-011, FR-029, FR-030: once its job has ended, an execution has a final
\* outcome, the projection shows it, and one notification told of it at most:
\* exactly the one the preference asks for, if the owner leaves that alone.
OneOutcome ==
  \A j \in JobIds :
    /\ Len(sent[j]) <= 1
    /\ Quiet => /\ Status(stream[j]) \in {"succeeded", "failed"}
                /\ shown[j] = Status(stream[j])
                /\ \A i \in 1 .. Len(sent[j]) : sent[j][i] = Status(stream[j])
                /\ edits = 0 /\ preference = "all" => Len(sent[j]) = 1
                /\ edits = 0 /\ preference = "off" => sent[j] = <<>>

\* spec.md, edge cases: the record reflects "only the settled/latest IP" once
\* the newest change has been executed, however many workers run however many
\* executions, retries and manual runs at once.  What brings another address
\* back, if anything, is an execution that had not ended when the newest change
\* was fanned out (a retry of an older one writes its own addresses after the
\* newer one has run), or one asked for since: never one that was over by then.
OpenOrLater == latest.open \cup {j \in JobIds : j > latest.job}

RecordIsRecent ==
  latest.job # 0 /\ Status(stream[latest.job]) = "succeeded" =>
    \A f \in action.families :
      record[f] # device.known[f] => \E j \in OpenOrLater : record[f] = jobs[j].values[f]

\* FR-021: every execution job ends, whatever fails, crashes or stalls.
EveryJobEnds ==
  \A j \in 1 .. MaxJobs : (j \in JobIds) ~> (j \in JobIds /\ Ended(j))
=============================================================================
