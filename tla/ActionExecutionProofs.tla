------------------------ MODULE ActionExecutionProofs ------------------------
(***************************************************************************)
(* ActionExecution, for every number of changes, requests, workers,        *)
(* attempts and faults.                                                    *)
(***************************************************************************)
EXTENDS ActionExecution, FiniteSetTheorems, SequenceTheorems, WellFoundedInduction, TLAPS

-----------------------------------------------------------------------------
(* The type invariant, part by part. *)

OwnerTypes ==
  /\ device \in [changes : Nat, known : Values] /\ device.changes <= MaxChanges
  /\ action \in [status : {"enabled", "disabled", "detached"}, families : SUBSET Family \ {{}}]
  /\ edits \in 0 .. MaxEdits
  /\ preference \in Preferences
  /\ manual \in [Manuals -> [pc : {"new", "add", "done"}, values : Values]]
  /\ faults \in 0 .. MaxFaults

\* The queue holds the waiting jobs, and who runs a job is known while it is active.
QueueTypes ==
  /\ jobs \in Seq(Job)
  /\ queue \in Seq(Nat) /\ IsInjective(queue)
  /\ {j \in JobIds : jobs[j].state = "waiting"} = Range(queue)
  /\ \A j \in JobIds : jobs[j].state = "active" <=> jobs[j].runner # None

RunTypes ==
  /\ run \in [Workers -> Run]
  /\ \A w \in Workers : IF run[w].pc = "idle" THEN run[w] = IdleRun ELSE run[w].job \in JobIds

EffectTypes ==
  /\ stream \in Seq(Seq(Event)) /\ Len(stream) = Len(jobs)
  /\ shown \in Seq(Shown) /\ Len(shown) = Len(jobs)
  /\ sent \in Seq(Seq({"succeeded", "failed"})) /\ Len(sent) = Len(jobs)
  /\ record \in Values

TypeInv == OwnerTypes /\ QueueTypes /\ RunTypes /\ EffectTypes

\* What the properties remember of the newest change.
LatestTyped == latest.job \in {0} \cup JobIds /\ latest.open \subseteq JobIds

LEMMA TypesHold == TypeInv /\ LatestTyped => TypeOK
<1> SUFFICES ASSUME TypeInv, LatestTyped
             PROVE  TypeOK
  OBVIOUS
<1>1. /\ JobIds = 1 .. Len(jobs) /\ stream \in [JobIds -> Seq(Event)]
      /\ shown \in [JobIds -> Shown] /\ sent \in [JobIds -> Seq({"succeeded", "failed"})]
  BY LenProperties DEF TypeInv, QueueTypes, EffectTypes, JobIds
<1> QED
  BY <1>1 DEF TypeInv, LatestTyped, OwnerTypes, QueueTypes, RunTypes, EffectTypes, TypeOK

\* What is known of a job and of a run.
LEMMA JobTyped ==
  ASSUME TypeInv, NEW j \in JobIds
  PROVE  /\ jobs[j] \in Job /\ stream[j] \in Seq(Event) /\ sent[j] \in Seq({"succeeded", "failed"})
         /\ j \in DOMAIN stream /\ j \in DOMAIN shown /\ j \in DOMAIN sent
         /\ j \in 1 .. Len(jobs) /\ j \in Nat
  BY LenProperties, ElementOfSeq DEF TypeInv, QueueTypes, EffectTypes, JobIds

LEMMA RunTyped ==
  ASSUME TypeInv, NEW w \in Workers
  PROVE  /\ run[w] \in Run /\ run \in [Workers -> Run]
         /\ run[w].pc # "idle" => run[w].job \in JobIds
  BY DEF TypeInv, RunTypes

LEMMA IdleTyped == IdleRun \in Run /\ IdleRun.pc = "idle" /\ IdleRun.job = 0
  BY DEF IdleRun, Run, RunPc, Shown

-----------------------------------------------------------------------------
(* Queues without repetition. *)

LEMMA QueueTakes ==
  ASSUME NEW q \in Seq(Nat), IsInjective(q), q # <<>>
  PROVE  /\ Tail(q) \in Seq(Nat) /\ IsInjective(Tail(q))
         /\ Head(q) \in Range(q) /\ Range(Tail(q)) = Range(q) \ {Head(q)}
<1>1. /\ Len(q) \in Nat /\ DOMAIN q = 1 .. Len(q) /\ Len(q) # 0 /\ Head(q) = q[1]
      /\ Tail(q) \in Seq(Nat) /\ Len(Tail(q)) = Len(q) - 1 /\ DOMAIN Tail(q) = 1 .. Len(q) - 1
      /\ \A i \in 1 .. Len(q) - 1 : Tail(q)[i] = q[i + 1]
  BY HeadTailProperties, LenProperties, EmptySeq
<1>2. IsInjective(Tail(q))
  BY <1>1 DEF IsInjective
<1>3. Range(Tail(q)) = Range(q) \ {Head(q)}
  <2>1. ASSUME NEW x \in Range(Tail(q))
        PROVE  x \in Range(q) \ {Head(q)}
    <3>1. PICK i \in 1 .. Len(q) - 1 : x = q[i + 1]
      BY <1>1, <2>1 DEF Range
    <3>2. i + 1 \in 1 .. Len(q) /\ i + 1 # 1
      BY <1>1
    <3> QED
      BY <1>1, <3>1, <3>2 DEF IsInjective, Range
  <2>2. ASSUME NEW x \in Range(q) \ {Head(q)}
        PROVE  x \in Range(Tail(q))
    <3>1. PICK i \in 1 .. Len(q) : x = q[i]
      BY <1>1, <2>2 DEF Range
    <3>2. i - 1 \in 1 .. Len(q) - 1 /\ (i - 1) + 1 = i
      BY <1>1, <2>2, <3>1
    <3> QED
      BY <1>1, <3>1, <3>2 DEF Range
  <2> QED
    BY <2>1, <2>2
<1>4. 1 \in DOMAIN q
  BY <1>1
<1> QED
  BY <1>1, <1>2, <1>3, <1>4 DEF Range

LEMMA QueueAdds ==
  ASSUME NEW q \in Seq(Nat), IsInjective(q), NEW j \in Nat, j \notin Range(q)
  PROVE  /\ Append(q, j) \in Seq(Nat) /\ IsInjective(Append(q, j))
         /\ Range(Append(q, j)) = Range(q) \cup {j}
<1>1. /\ Len(q) \in Nat /\ DOMAIN q = 1 .. Len(q)
      /\ Append(q, j) \in Seq(Nat) /\ DOMAIN Append(q, j) = 1 .. Len(q) + 1
      /\ \A i \in 1 .. Len(q) : Append(q, j)[i] = q[i]
      /\ Append(q, j)[Len(q) + 1] = j
  BY AppendProperties, LenProperties
<1>2. \A i \in 1 .. Len(q) + 1 : i \in 1 .. Len(q) \/ i = Len(q) + 1
  BY <1>1
<1>3. \A i \in 1 .. Len(q) : i \in 1 .. Len(q) + 1
  BY <1>1
<1>4. Len(q) + 1 \in 1 .. Len(q) + 1
  BY <1>1
<1> QED
  BY <1>1, <1>2, <1>3, <1>4 DEF IsInjective, Range

LEMMA QueueFront ==
  ASSUME NEW q \in Seq(Nat), IsInjective(q), NEW j \in Nat, j \notin Range(q)
  PROVE  /\ <<j>> \o q \in Seq(Nat) /\ IsInjective(<<j>> \o q)
         /\ Range(<<j>> \o q) = Range(q) \cup {j}
<1>1. <<j>> \in Seq(Nat) /\ Len(<<j>>) = 1 /\ <<j>>[1] = j
  OBVIOUS
<1>2. /\ Len(q) \in Nat /\ DOMAIN q = 1 .. Len(q)
      /\ <<j>> \o q \in Seq(Nat) /\ DOMAIN (<<j>> \o q) = 1 .. 1 + Len(q)
      /\ \A i \in 1 .. 1 + Len(q) : (<<j>> \o q)[i] = IF i <= 1 THEN <<j>>[i] ELSE q[i - 1]
  BY <1>1, ConcatProperties, LenProperties
<1>3. \A i \in 1 .. 1 + Len(q) : i = 1 \/ (i - 1 \in 1 .. Len(q) /\ ~(i <= 1))
  BY <1>2
<1>4. \A i \in 1 .. Len(q) : i + 1 \in 1 .. 1 + Len(q) /\ (i + 1) - 1 = i /\ ~(i + 1 <= 1)
  BY <1>2
<1>5. 1 \in 1 .. 1 + Len(q) /\ 1 <= 1
  BY <1>2
<1> DEFINE s == <<j>> \o q
<1>6. s[1] = j /\ \A i \in 1 .. 1 + Len(q) : i # 1 => s[i] = q[i - 1]
  BY <1>1, <1>2, <1>3, <1>5
<1>7. \A i \in 1 .. Len(q) : s[i + 1] = q[i]
  BY <1>2, <1>4
<1> HIDE DEF s
<1>8. IsInjective(s)
  <2> SUFFICES ASSUME NEW a \in 1 .. 1 + Len(q), NEW b \in 1 .. 1 + Len(q), s[a] = s[b]
               PROVE  a = b
    BY <1>2 DEF IsInjective, s
  <2>1. CASE a = 1 /\ b # 1
    BY <1>2, <1>3, <1>6, <2>1 DEF Range
  <2>2. CASE a # 1 /\ b = 1
    BY <1>2, <1>3, <1>6, <2>2 DEF Range
  <2>3. CASE a # 1 /\ b # 1
    <3>1. /\ a - 1 \in DOMAIN q /\ b - 1 \in DOMAIN q
          /\ q[a - 1] = q[b - 1]
      BY <1>2, <1>3, <1>6, <2>3
    <3>2. a - 1 = b - 1
      BY <3>1 DEF IsInjective
    <3> QED
      BY <3>2
  <2> QED
    BY <2>1, <2>2, <2>3
<1>9. Range(s) = Range(q) \cup {j}
  <2>1. \A x \in Range(s) : x \in Range(q) \cup {j}
    BY <1>2, <1>3, <1>6 DEF Range, s
  <2>2. ASSUME NEW x \in Range(q)
        PROVE  x \in Range(s)
    <3>1. PICK i \in 1 .. Len(q) : x = q[i]
      BY <1>2, <2>2 DEF Range
    <3>2. i + 1 \in DOMAIN s /\ s[i + 1] = x
      BY <1>2, <1>4, <1>7, <3>1 DEF s
    <3> QED
      BY <3>2 DEF Range
  <2>3. j \in Range(s)
    BY <1>2, <1>5, <1>6 DEF Range, s
  <2> QED
    BY <2>1, <2>2, <2>3
<1> QED
  BY <1>2, <1>8, <1>9 DEF s

-----------------------------------------------------------------------------
(* The status a stream amounts to. *)

Outcomes(events) == {i \in DOMAIN events : events[i].name # "notified"}

LEMMA MaxOfNaturals ==
  ASSUME NEW S, NEW n \in Nat, S \subseteq 1 .. n, S # {}
  PROVE  Max(S) \in S /\ \A y \in S : Max(S) >= y
<1> DEFINE T == {n - x : x \in S}
           R == OpToRel(<, Nat)
<1>1. \A x \in S : n - x \in Nat /\ n - x \in T
  OBVIOUS
<1>2. T \subseteq Nat /\ T # {}
  BY <1>1
<1>3. IsWellFoundedOn(R, Nat)
  BY NatLessThanWellFounded
<1>4. \A a, b \in Nat : a < b => <<a, b>> \in R
  BY DEF OpToRel
<1> HIDE DEF R, T
<1>5. PICK m \in T : \A k \in T : <<k, m>> \notin R
  BY <1>2, <1>3, WFMin
<1>6. PICK x \in S : m = n - x
  BY DEF T
<1>7. ASSUME NEW y \in S
      PROVE  x >= y
  <2>1. n - y \in T /\ n - y \in Nat /\ n - x \in Nat
    BY <1>1
  <2>2. ~(n - y < n - x)
    BY <1>4, <1>5, <1>6, <2>1
  <2> QED
    BY <2>1, <2>2
<1> QED
  BY <1>7 DEF Max

LEMMA StatusTyped ==
  ASSUME NEW events \in Seq(Event)
  PROVE  Status(events) \in Shown
<1>1. Len(events) \in Nat /\ DOMAIN events = 1 .. Len(events)
  BY LenProperties
<1>2. CASE Outcomes(events) = {}
  BY <1>2 DEF Status, Outcomes, Shown
<1>3. CASE Outcomes(events) # {}
  <2>1. Max(Outcomes(events)) \in Outcomes(events)
    BY <1>1, <1>3, MaxOfNaturals DEF Outcomes
  <2>2. PICK i \in DOMAIN events : i = Max(Outcomes(events)) /\ events[i].name # "notified"
    BY <2>1 DEF Outcomes
  <2>3. events[i] \in Event
    BY <1>1, ElementOfSeq
  <2>4. Status(events) = events[i].name
    BY <1>3, <2>2 DEF Status, Outcomes
  <2> QED
    BY <2>2, <2>3, <2>4 DEF Event, Shown
<1> QED
  BY <1>2, <1>3

\* A notification changes nothing; any other event is the new status.
LEMMA StatusAppends ==
  ASSUME NEW events \in Seq(Event), NEW e \in Event
  PROVE  Status(Append(events, e)) = IF e.name = "notified" THEN Status(events) ELSE e.name
<1> DEFINE n == Len(events)
           more == Append(events, e)
<1>1. n \in Nat /\ DOMAIN events = 1 .. n
  BY LenProperties
<1>2. /\ more \in Seq(Event) /\ DOMAIN more = 1 .. n + 1 /\ more[n + 1] = e
      /\ \A i \in 1 .. n : more[i] = events[i]
  BY AppendProperties, LenProperties
<1> HIDE DEF n, more
<1>3. CASE e.name = "notified"
  <2>1. Outcomes(more) = Outcomes(events)
    BY <1>1, <1>2, <1>3 DEF Outcomes
  <2>2. CASE Outcomes(events) = {}
    BY <1>3, <2>1, <2>2 DEF Status, Outcomes, more
  <2>3. CASE Outcomes(events) # {}
    <3>1. Max(Outcomes(events)) \in 1 .. n
      BY <1>1, <2>3, MaxOfNaturals DEF Outcomes
    <3>2. more[Max(Outcomes(events))] = events[Max(Outcomes(events))]
      BY <1>2, <3>1
    <3> QED
      BY <1>3, <2>1, <2>3, <3>2 DEF Status, Outcomes, more
  <2> QED
    BY <2>2, <2>3
<1>4. CASE e.name # "notified"
  <2>1. n + 1 \in Outcomes(more) /\ Outcomes(more) \subseteq 1 .. n + 1
    BY <1>1, <1>2, <1>4 DEF Outcomes
  <2>2. /\ Max(Outcomes(more)) \in 1 .. n + 1
        /\ Max(Outcomes(more)) >= n + 1
    BY <1>1, <2>1, MaxOfNaturals
  <2>3. Max(Outcomes(more)) = n + 1
    BY <1>1, <2>2
  <2> QED
    BY <1>2, <1>4, <2>1, <2>3 DEF Status, Outcomes, more
<1> QED
  BY <1>3, <1>4

-----------------------------------------------------------------------------
(* What one step of a worker may do.                                         *)

Busy(w) == run[w].pc # "idle"

\* The run goes on: the same attempt of the same job.
Continues(w) ==
  /\ run' = [run EXCEPT ![w] = run'[w]] /\ run'[w] \in Run
  /\ run'[w].pc # "idle" /\ run'[w].job = run[w].job /\ run'[w].attempt = run[w].attempt
  /\ UNCHANGED jobs

\* The stream is left alone, and a start that was not recorded goes no further ...
Silent(w) ==
  /\ UNCHANGED stream
  /\ run[w].pc = "start" => run'[w].pc \in {"start", "idle"}
  /\ run[w].pc # "start" => run'[w].pc # "start"

\* ... or the run's event is added to it, "started" being what a start records.
Records(w) ==
  /\ \E e \in Event :
       /\ stream' = [stream EXCEPT ![run[w].job] = Append(stream[run[w].job], e)]
       /\ e.name = "started" <=> run[w].pc = "start"
  /\ Continues(w) /\ run'[w].pc # "start"

WorkerActs(w) ==
  /\ Busy(w) /\ UNCHANGED <<owner, queue>>
  /\ Continues(w) \/ CompleteJob(w) \/ FailJob(w)
  /\ Silent(w) \/ Records(w)
  /\ \/ UNCHANGED shown
     \/ \E v \in Shown : shown' = [shown EXCEPT ![run[w].job] = v]
  /\ \/ UNCHANGED sent
     \/ \E o \in {"succeeded", "failed"} :
          sent' = [sent EXCEPT ![run[w].job] = Append(sent[run[w].job], o)]
  /\ \/ UNCHANGED record
     \/ \E f \in Family : /\ record' = [record EXCEPT ![f] = jobs[run[w].job].values[f]]
                          /\ run[w].pc = "execute"

LEMMA GoContinues ==
  ASSUME TypeInv, NEW w \in Workers, Busy(w), NEW pc \in RunPc, pc # "idle", Go(w, pc),
         UNCHANGED jobs
  PROVE  Continues(w) /\ run'[w].pc = pc
<1>1. run[w] \in Run /\ run \in [Workers -> Run]
  BY RunTyped
<1> QED
  BY <1>1 DEF Go, Continues, Run

LEMMA ThrowActs ==
  ASSUME TypeInv, NEW w \in Workers, Busy(w), Throw(w)
  PROVE  \/ FailJob(w)
         \/ Continues(w) /\ run'[w].pc \in {"outcome", "end"} /\ run[w].pc # "start"
<1>1. run[w] \in Run /\ run \in [Workers -> Run]
  BY RunTyped
<1> DEFINE inTry == \/ run[w].pc = "execute"
                    \/ /\ run[w].pc \in {"outcome", "reload", "project"}
                       /\ run[w].outcome = "succeeded"
<1>2. CASE inTry
  <2>1. /\ run' = [run EXCEPT ![w].pc = "outcome", ![w].seq = 0, ![w].outcome = "failed"]
        /\ UNCHANGED jobs
    BY <1>2 DEF Throw
  <2> QED
    BY <1>1, <1>2, <2>1 DEF Continues, Run, RunPc
<1>3. CASE ~inTry /\ run[w].pc \in {"notify", "record"}
  <2>1. Go(w, "end") /\ UNCHANGED jobs
    BY <1>3 DEF Throw
  <2>2. Continues(w) /\ run'[w].pc = "end"
    BY <2>1, GoContinues DEF RunPc
  <2> QED
    BY <1>3, <2>2
<1>4. CASE ~inTry /\ run[w].pc \notin {"notify", "record"}
  BY <1>4 DEF Throw
<1> QED
  BY <1>2, <1>3, <1>4

LEMMA EndsIdle ==
  ASSUME TypeInv, NEW w \in Workers, CompleteJob(w) \/ FailJob(w)
  PROVE  run' = [run EXCEPT ![w] = IdleRun] /\ run'[w] = IdleRun
  BY RunTyped DEF CompleteJob, FailJob

\* A thrown exception leaves a start unrecorded.
LEMMA ThrowSilent ==
  ASSUME TypeInv, NEW w \in Workers, Busy(w), Throw(w), UNCHANGED stream
  PROVE  /\ Continues(w) \/ CompleteJob(w) \/ FailJob(w)
         /\ Silent(w)
<1>1. CASE FailJob(w)
  BY <1>1, EndsIdle, IdleTyped DEF Silent
<1>2. CASE Continues(w) /\ run'[w].pc \in {"outcome", "end"} /\ run[w].pc # "start"
  BY <1>2 DEF Silent
<1> QED
  BY <1>1, <1>2, ThrowActs

LEMMA AppendActs ==
  ASSUME TypeInv, NEW w \in Workers, Busy(w),
         NEW name \in {"started", "succeeded", "failed", "notified"}, NEW final \in BOOLEAN,
         NEW pc \in RunPc, pc \notin {"idle", "start"}, name = "started" <=> run[w].pc = "start",
         AppendExecutionEvent(w, name, final, pc)
  PROVE  WorkerActs(w)
<1> DEFINE j == run[w].job
           e == [name |-> name, attempt |-> run[w].attempt, final |-> final]
<1>1. /\ run[w] \in Run /\ run \in [Workers -> Run] /\ j \in JobIds
      /\ UNCHANGED <<owner, queue, shown, record, sent>>
  BY RunTyped DEF AppendExecutionEvent, Busy
<1>2. CASE run[w].seq = Len(stream[j]) + 1
  <2>1. /\ stream' = [stream EXCEPT ![j] = Append(stream[j], e)]
        /\ Go(w, pc) /\ UNCHANGED jobs
    BY <1>2 DEF AppendExecutionEvent
  <2>2. Continues(w) /\ run'[w].pc = pc
    BY <2>1, GoContinues
  <2>3. e \in Event /\ e.name = name
    BY <1>1 DEF Event, Run
  <2>4. Records(w)
    BY <2>1, <2>2, <2>3 DEF Records
  <2> QED
    BY <1>1, <2>2, <2>4 DEF WorkerActs
<1>3. CASE run[w].seq # Len(stream[j]) + 1
  <2>1. Throw(w) /\ UNCHANGED stream
    BY <1>3 DEF AppendExecutionEvent
  <2> QED
    BY <1>1, <2>1, ThrowSilent DEF WorkerActs
<1> QED
  BY <1>2, <1>3

LEMMA WorkerStepActs ==
  ASSUME TypeInv, NEW w \in Workers,
         WorkerStep(w) \/ ProviderFails(w) \/ AnswerLost(w) \/ StoreFails(w)
  PROVE  WorkerActs(w)
<1>1. run[w] \in Run /\ run \in [Workers -> Run]
  BY RunTyped
<1>2. CASE NextSequence(w)
  <2>1. run' = [run EXCEPT ![w].seq = Len(stream[run[w].job]) + 1] /\ Busy(w) /\ UNCHANGED <<jobs, stream>>
    BY <1>2 DEF NextSequence, effects, Busy
  <2>2. Len(stream[run[w].job]) + 1 \in Nat
    BY <2>1, RunTyped, JobTyped, LenProperties DEF Busy
  <2>3. Continues(w) /\ run'[w].pc = run[w].pc
    BY <1>1, <2>1, <2>2 DEF Continues, Run, Busy
  <2>4. Silent(w)
    BY <2>1, <2>3 DEF Silent
  <2> QED
    BY <1>2, <2>1, <2>3, <2>4 DEF NextSequence, WorkerActs, effects
<1>3. CASE Started(w)
  BY <1>3, AppendActs DEF Started, Busy, RunPc
<1>4. CASE LoadAction(w)
  <2>1. Busy(w) /\ run[w].pc = "load" /\ UNCHANGED <<owner, queue, effects>>
    BY <1>4 DEF LoadAction, Busy
  <2>2. CASE CompleteJob(w)
    <3>1. Silent(w)
      BY <2>1, <2>2, EndsIdle, IdleTyped DEF Silent, effects
    <3> QED
      BY <2>1, <2>2, <3>1 DEF WorkerActs, effects
  <2>3. CASE action.status = "enabled"
    <3>1. UNCHANGED jobs
      BY <1>4, <2>3 DEF LoadAction
    <3>2. action.families \in SUBSET Family
      BY DEF TypeInv, OwnerTypes
    <3>3. \/ run' = [run EXCEPT ![w].pc = "outcome", ![w].outcome = "missing"]
          \/ run' = [run EXCEPT ![w].pc = "execute", ![w].todo = action.families]
      BY <1>4, <2>3 DEF LoadAction
    <3>4. Continues(w) /\ run'[w].pc # "start"
      <4>1. CASE run' = [run EXCEPT ![w].pc = "outcome", ![w].outcome = "missing"]
        BY <1>1, <3>1, <4>1 DEF Continues, Run, RunPc
      <4>2. CASE run' = [run EXCEPT ![w].pc = "execute", ![w].todo = action.families]
        BY <1>1, <3>1, <3>2, <4>2 DEF Continues, Run, RunPc
      <4> QED
        BY <3>3, <4>1, <4>2
    <3>5. Silent(w)
      BY <2>1, <3>4 DEF Silent, effects
    <3> QED
      BY <2>1, <3>4, <3>5 DEF WorkerActs, effects
  <2> QED
    BY <1>4, <2>2, <2>3 DEF LoadAction
<1>5. ASSUME NEW f \in Family, Execute(w, f)
      PROVE  WorkerActs(w)
  <2>1. /\ Busy(w) /\ run[w].pc = "execute" /\ UNCHANGED <<owner, jobs, queue, stream, shown, sent>>
        /\ record' = [record EXCEPT ![f] = jobs[run[w].job].values[f]]
    BY <1>5 DEF Execute, Written, Busy
  <2>2. \/ run' = [run EXCEPT ![w].pc = "outcome", ![w].outcome = "succeeded", ![w].todo = {}]
        \/ run' = [run EXCEPT ![w].todo = run[w].todo \ {f}]
    BY <1>1, <1>5 DEF Execute
  <2>3. Continues(w) /\ run'[w].pc # "start"
    BY <1>1, <2>1, <2>2 DEF Continues, Run, RunPc
  <2> QED
    BY <2>1, <2>3 DEF WorkerActs, Silent
<1>6. CASE Outcome(w)
  BY <1>6, AppendActs DEF Outcome, Busy, RunPc, IsFinal
<1>7. CASE Reload(w)
  <2>1. /\ Busy(w) /\ run[w].pc = "reload" /\ UNCHANGED <<owner, jobs, queue, effects>>
        /\ run' = [run EXCEPT ![w].pc = "project", ![w].view = Status(stream[run[w].job])]
    BY <1>7 DEF Reload, Busy
  <2>2. Status(stream[run[w].job]) \in Shown
    BY <2>1, StatusTyped, RunTyped, JobTyped DEF Busy
  <2>3. Continues(w) /\ run'[w].pc # "start"
    BY <1>1, <2>1, <2>2 DEF Continues, Run, RunPc
  <2> QED
    BY <2>1, <2>3 DEF WorkerActs, Silent, effects
<1>8. CASE Project(w)
  <2>1. /\ Busy(w) /\ run[w].pc = "project" /\ UNCHANGED <<owner, jobs, queue, stream, record, sent>>
        /\ shown' = [shown EXCEPT ![run[w].job] = run[w].view]
        /\ Go(w, "end") \/ Go(w, "notify")
    BY <1>8 DEF Project, Busy
  <2>2. run[w].view \in Shown
    BY <1>1 DEF Run
  <2>3. Continues(w) /\ run'[w].pc # "start"
    BY <2>1, GoContinues DEF RunPc
  <2> QED
    BY <2>1, <2>2, <2>3 DEF WorkerActs, Silent
<1>9. CASE Notify(w)
  <2>1. /\ Busy(w) /\ run[w].pc = "notify" /\ UNCHANGED <<owner, jobs, queue, stream, record, shown>>
        /\ Go(w, "end") \/ Go(w, "record")
        /\ \/ UNCHANGED sent
           \/ sent' = [sent EXCEPT ![run[w].job] = Append(sent[run[w].job], Notified(w))]
    BY <1>9 DEF Notify, Busy
  <2>2. Notified(w) \in {"succeeded", "failed"}
    BY DEF Notified
  <2>3. Continues(w) /\ run'[w].pc # "start"
    BY <2>1, GoContinues DEF RunPc
  <2> QED
    BY <2>1, <2>2, <2>3 DEF WorkerActs, Silent
<1>10. CASE NotificationSent(w)
  BY <1>10, AppendActs DEF NotificationSent, Busy, RunPc
<1>11. CASE End(w)
  <2>1. /\ Busy(w) /\ run[w].pc = "end" /\ UNCHANGED <<owner, queue, effects>>
        /\ CompleteJob(w) \/ FailJob(w)
    BY <1>11 DEF End, Busy
  <2>2. Silent(w)
    BY <2>1, EndsIdle, IdleTyped DEF Silent, effects
  <2> QED
    BY <2>1, <2>2 DEF WorkerActs, effects
<1>12. CASE ProviderFails(w) \/ StoreFails(w)
  <2>1. Busy(w) /\ Throw(w) /\ UNCHANGED <<owner, queue, effects>>
    BY <1>12 DEF ProviderFails, StoreFails, Busy
  <2> QED
    BY <2>1, ThrowSilent DEF WorkerActs, effects
<1>13. CASE AnswerLost(w)
  <2>1. Busy(w) /\ run[w].pc = "execute" /\ Throw(w) /\ UNCHANGED <<owner, queue, stream, shown, sent>>
    BY <1>13 DEF AnswerLost, Written, Busy
  <2>2. \E f \in Family : record' = [record EXCEPT ![f] = jobs[run[w].job].values[f]]
    BY <1>13 DEF AnswerLost, Written
  <2> QED
    BY <2>1, <2>2, ThrowSilent DEF WorkerActs
<1> QED
  BY <1>2, <1>3, <1>4, <1>5, <1>6, <1>7, <1>8, <1>9, <1>10, <1>11, <1>12, <1>13 DEF WorkerStep

-----------------------------------------------------------------------------
(* What a step does to one job.                                              *)

Edited(j) ==
  /\ jobs' = [jobs EXCEPT ![j] = jobs'[j]]
  /\ jobs'[j] \in Job /\ jobs'[j].values = jobs[j].values
  /\ jobs'[j].state = "active" <=> jobs'[j].runner # None

LEMMA EditedJobs ==
  ASSUME TypeInv, NEW j \in JobIds, Edited(j)
  PROVE  /\ jobs' \in Seq(Job) /\ Len(jobs') = Len(jobs) /\ JobIds' = JobIds
         /\ \A i \in JobIds : i # j => jobs'[i] = jobs[i]
         /\ \A i \in JobIds : jobs'[i].values = jobs[i].values
         /\ \A i \in JobIds : jobs'[i].state = "active" <=> jobs'[i].runner # None
<1>1. /\ jobs \in Seq(Job) /\ Len(jobs) \in Nat /\ JobIds = 1 .. Len(jobs)
      /\ \A i \in JobIds : jobs[i].state = "active" <=> jobs[i].runner # None
  BY LenProperties DEF TypeInv, QueueTypes, JobIds
<1>2. jobs' \in Seq(Job) /\ Len(jobs') = Len(jobs)
  BY <1>1, ExceptSeq DEF Edited
<1>3. JobIds' = JobIds
  BY <1>1, <1>2, LenProperties DEF JobIds
<1> QED
  BY <1>1, <1>2, <1>3 DEF Edited

LEMMA EditedQueue ==
  ASSUME TypeInv, NEW j \in JobIds, Edited(j),
         \/ /\ jobs[j].state # "waiting" /\ jobs'[j].state # "waiting" /\ UNCHANGED queue
         \/ /\ queue # <<>> /\ j = Head(queue) /\ jobs'[j].state # "waiting"
            /\ queue' = Tail(queue)
         \/ /\ jobs[j].state # "waiting" /\ jobs'[j].state = "waiting"
            /\ queue' \in {Append(queue, j), <<j>> \o queue}
  PROVE  QueueTypes'
<1>1. /\ jobs' \in Seq(Job) /\ Len(jobs') = Len(jobs) /\ JobIds' = JobIds
      /\ \A i \in JobIds : i # j => jobs'[i] = jobs[i]
      /\ \A i \in JobIds : jobs'[i].state = "active" <=> jobs'[i].runner # None
  BY EditedJobs
<1>2. /\ queue \in Seq(Nat) /\ IsInjective(queue)
      /\ {i \in JobIds : jobs[i].state = "waiting"} = Range(queue)
  BY DEF TypeInv, QueueTypes
<1>3. j \in Nat
  BY JobTyped
<1>4. (\A i \in JobIds : jobs[i].state = "active" <=> jobs[i].runner # None)'
  BY <1>1
<1>5. SUFFICES /\ queue' \in Seq(Nat) /\ IsInjective(queue')
               /\ {i \in JobIds : jobs'[i].state = "waiting"} = Range(queue')
  BY <1>1, <1>4 DEF QueueTypes
<1>6. CASE jobs[j].state # "waiting" /\ jobs'[j].state # "waiting" /\ UNCHANGED queue
  BY <1>1, <1>2, <1>6
<1>7. CASE /\ queue # <<>> /\ j = Head(queue) /\ jobs'[j].state # "waiting"
           /\ queue' = Tail(queue)
  <2>1. Range(queue') = Range(queue) \ {j} /\ queue' \in Seq(Nat) /\ IsInjective(queue')
    BY <1>2, <1>7, QueueTakes
  <2> QED
    BY <1>1, <1>2, <1>7, <2>1
<1>8. CASE /\ jobs[j].state # "waiting" /\ jobs'[j].state = "waiting"
           /\ queue' \in {Append(queue, j), <<j>> \o queue}
  <2>1. j \notin Range(queue)
    BY <1>2, <1>8
  <2>2. Range(queue') = Range(queue) \cup {j} /\ queue' \in Seq(Nat) /\ IsInjective(queue')
    <3>1. CASE queue' = Append(queue, j)
      BY <1>2, <1>3, <2>1, <3>1, QueueAdds
    <3>2. CASE queue' = <<j>> \o queue
      BY <1>2, <1>3, <2>1, <3>2, QueueFront
    <3> QED
      BY <1>8, <3>1, <3>2
  <2> QED
    BY <1>1, <1>2, <1>8, <2>2
<1> QED
  BY <1>6, <1>7, <1>8

LEMMA AddActs ==
  ASSUME TypeInv, NEW values \in Values, AddJob(values)
  PROVE  /\ QueueTypes'
         /\ stream' \in Seq(Seq(Event)) /\ Len(stream') = Len(jobs')
         /\ shown' \in Seq(Shown) /\ Len(shown') = Len(jobs')
         /\ sent' \in Seq(Seq({"succeeded", "failed"})) /\ Len(sent') = Len(jobs')
         /\ JobIds' = JobIds \cup {Len(jobs) + 1} /\ Len(jobs) + 1 \notin JobIds
         /\ \A i \in JobIds : /\ jobs'[i] = jobs[i] /\ stream'[i] = stream[i]
                              /\ shown'[i] = shown[i] /\ sent'[i] = sent[i]
         /\ jobs'[Len(jobs) + 1] = [state |-> "waiting", values |-> values, made |-> 0,
                                   runner |-> None, stalls |-> 0]
         /\ stream'[Len(jobs) + 1] = <<>> /\ sent'[Len(jobs) + 1] = <<>>
<1> DEFINE n == Len(jobs) + 1
           job == [state |-> "waiting", values |-> values, made |-> 0,
                   runner |-> None, stalls |-> 0]
<1>1. job \in Job /\ job.state = "waiting" /\ job.runner = None
  BY DEF Job, JobState
<1> HIDE DEF job
<1>2. /\ jobs \in Seq(Job) /\ Len(jobs) \in Nat /\ JobIds = 1 .. Len(jobs)
      /\ Len(stream) = Len(jobs) /\ Len(shown) = Len(jobs) /\ Len(sent) = Len(jobs)
      /\ stream \in Seq(Seq(Event)) /\ shown \in Seq(Shown)
      /\ sent \in Seq(Seq({"succeeded", "failed"}))
      /\ queue \in Seq(Nat) /\ IsInjective(queue)
      /\ {i \in JobIds : jobs[i].state = "waiting"} = Range(queue)
      /\ \A i \in JobIds : jobs[i].state = "active" <=> jobs[i].runner # None
  BY LenProperties DEF TypeInv, QueueTypes, EffectTypes, JobIds
<1>3. jobs' = Append(jobs, job) /\ queue' = Append(queue, n)
      /\ stream' = Append(stream, <<>>) /\ shown' = Append(shown, "absent") /\ sent' = Append(sent, <<>>)
  BY DEF AddJob, job
<1>4. /\ jobs' \in Seq(Job) /\ Len(jobs') = n /\ DOMAIN jobs' = 1 .. n /\ jobs'[n] = job
      /\ \A i \in 1 .. Len(jobs) : jobs'[i] = jobs[i]
  BY <1>1, <1>2, <1>3, AppendProperties, LenProperties
<1>5. <<>> \in Seq(Event) /\ <<>> \in Seq({"succeeded", "failed"}) /\ "absent" \in Shown
  BY DEF Shown
<1>6. /\ stream' \in Seq(Seq(Event)) /\ Len(stream') = n /\ stream'[n] = <<>>
      /\ \A i \in 1 .. Len(jobs) : stream'[i] = stream[i]
  BY <1>2, <1>3, <1>5, AppendProperties
<1>7. /\ shown' \in Seq(Shown) /\ Len(shown') = n
      /\ \A i \in 1 .. Len(jobs) : shown'[i] = shown[i]
  BY <1>2, <1>3, <1>5, AppendProperties
<1>8. /\ sent' \in Seq(Seq({"succeeded", "failed"})) /\ Len(sent') = n /\ sent'[n] = <<>>
      /\ \A i \in 1 .. Len(jobs) : sent'[i] = sent[i]
  BY <1>2, <1>3, <1>5, AppendProperties
<1>9. n \in Nat /\ n \notin 1 .. Len(jobs) /\ 1 .. n = (1 .. Len(jobs)) \cup {n}
  BY <1>2
<1>10. JobIds' = JobIds \cup {n} /\ n \notin JobIds
  BY <1>2, <1>4, <1>9 DEF JobIds
<1>11. n \notin Range(queue)
  BY <1>2, <1>9
<1>12. Range(queue') = Range(queue) \cup {n} /\ queue' \in Seq(Nat) /\ IsInjective(queue')
  BY <1>2, <1>3, <1>9, <1>11, QueueAdds
<1>13. {i \in JobIds' : jobs'[i].state = "waiting"} = Range(queue')
  BY <1>1, <1>2, <1>4, <1>10, <1>12
<1>14. \A i \in JobIds' : jobs'[i].state = "active" <=> jobs'[i].runner # None
  BY <1>1, <1>2, <1>4, <1>10
<1>15. QueueTypes'
  BY <1>4, <1>12, <1>13, <1>14 DEF QueueTypes
<1> QED
  BY <1>2, <1>4, <1>6, <1>7, <1>8, <1>10, <1>15 DEF job

LEMMA TakeActs ==
  ASSUME TypeInv, NEW w \in Workers, Take(w)
  PROVE  LET j == Head(queue) IN
         /\ j \in JobIds /\ jobs[j].state = "waiting" /\ Edited(j) /\ queue # <<>>
         /\ jobs'[j] = [jobs[j] EXCEPT !.state = "active", !.runner = w]
         /\ run[w].pc = "idle" /\ run' = [run EXCEPT ![w] = run'[w]]
         /\ run'[w] = [IdleRun EXCEPT !.pc = "start", !.job = j, !.attempt = jobs[j].made + 1]
         /\ run'[w] \in Run /\ QueueTypes'
         /\ queue' = Tail(queue) /\ UNCHANGED <<owner, effects, faults>>
<1> DEFINE j == Head(queue)
           r == [IdleRun EXCEPT !.pc = "start", !.job = j, !.attempt = jobs[j].made + 1]
<1>1. /\ run[w].pc = "idle" /\ queue # <<>> /\ queue' = Tail(queue)
      /\ jobs' = [jobs EXCEPT ![j].state = "active", ![j].runner = w]
      /\ run' = [run EXCEPT ![w] = r]
      /\ UNCHANGED <<owner, effects, faults>>
  BY DEF Take
<1>2. j \in Range(queue)
  BY <1>1, QueueTakes DEF TypeInv, QueueTypes
<1>3. j \in JobIds /\ jobs[j].state = "waiting"
  BY <1>2 DEF TypeInv, QueueTypes
<1>4. jobs[j] \in Job /\ j \in Nat /\ jobs \in Seq(Job)
  BY <1>3, JobTyped DEF TypeInv, QueueTypes
<1>5. None \notin Workers
  BY ActionExecutionAssumption
<1> HIDE DEF j
<1>6. jobs'[j] = [jobs[j] EXCEPT !.state = "active", !.runner = w]
  BY <1>1, <1>3, <1>4 DEF JobIds
<1>7. Edited(j) /\ jobs'[j].state # "waiting"
  BY <1>1, <1>3, <1>4, <1>5, <1>6 DEF Edited, Job, JobState, JobIds
<1>8. r \in Run
  <2>1. jobs[j].made + 1 \in Nat
    BY <1>4 DEF Job
  <2> QED
    BY <1>4, <2>1, IdleTyped DEF Run, RunPc
<1>9. run'[w] = r /\ run' = [run EXCEPT ![w] = run'[w]]
  BY <1>1, RunTyped
<1>10. QueueTypes'
  BY <1>1, <1>3, <1>7, EditedQueue DEF j
<1> QED
  BY <1>1, <1>3, <1>6, <1>7, <1>8, <1>9, <1>10 DEF j

LEMMA BackoffActs ==
  ASSUME TypeInv, NEW j \in JobIds, BackoffElapses(j)
  PROVE  /\ Edited(j) /\ QueueTypes' /\ jobs[j].state = "delayed"
         /\ jobs'[j] = [jobs[j] EXCEPT !.state = "waiting"]
         /\ UNCHANGED <<owner, effects, run, faults>>
<1>1. /\ jobs[j].state = "delayed" /\ jobs' = [jobs EXCEPT ![j].state = "waiting"]
      /\ queue' = Append(queue, j) /\ UNCHANGED <<owner, effects, run, faults>>
  BY DEF BackoffElapses
<1>2. jobs[j] \in Job /\ jobs \in Seq(Job) /\ jobs[j].runner = None
  BY <1>1, JobTyped DEF TypeInv, QueueTypes
<1>3. jobs'[j] = [jobs[j] EXCEPT !.state = "waiting"]
  BY <1>1, <1>2 DEF JobIds
<1>4. Edited(j) /\ jobs'[j].state = "waiting"
  BY <1>1, <1>2, <1>3 DEF Edited, Job, JobState, JobIds
<1>5. QueueTypes'
  BY <1>1, <1>4, EditedQueue
<1> QED
  BY <1>1, <1>3, <1>4, <1>5

LEMMA RequeueActs ==
  ASSUME TypeInv, NEW j \in JobIds, jobs[j].state = "active", Requeue(j)
  PROVE  /\ Edited(j) /\ QueueTypes'
         /\ \/ jobs'[j] = [jobs[j] EXCEPT !.state = "waiting", !.runner = None, !.stalls = @ + 1]
            \/ jobs'[j] = [jobs[j] EXCEPT !.state = "failed", !.runner = None]
<1>1. jobs[j] \in Job /\ jobs \in Seq(Job) /\ j \in DOMAIN jobs
  BY JobTyped DEF TypeInv, QueueTypes, JobIds
<1>2. CASE jobs[j].stalls < MaxStalled
  <2>1. /\ jobs' = [jobs EXCEPT ![j].state = "waiting", ![j].runner = None,
                                ![j].stalls = jobs[j].stalls + 1]
        /\ queue' = <<j>> \o queue
    BY <1>2 DEF Requeue
  <2>2. jobs'[j] = [jobs[j] EXCEPT !.state = "waiting", !.runner = None, !.stalls = @ + 1]
    BY <1>1, <2>1
  <2>3. jobs[j].stalls + 1 \in Nat
    BY <1>1 DEF Job
  <2>4. Edited(j) /\ jobs'[j].state = "waiting"
    BY <1>1, <2>1, <2>2, <2>3 DEF Edited, Job, JobState
  <2> QED
    BY <2>1, <2>2, <2>4, EditedQueue
<1>3. CASE ~(jobs[j].stalls < MaxStalled)
  <2>1. jobs' = [jobs EXCEPT ![j].state = "failed", ![j].runner = None] /\ UNCHANGED queue
    BY <1>3 DEF Requeue
  <2>2. jobs'[j] = [jobs[j] EXCEPT !.state = "failed", !.runner = None]
    BY <1>1, <2>1
  <2>3. Edited(j) /\ jobs'[j].state = "failed"
    BY <1>1, <2>1, <2>2 DEF Edited, Job, JobState
  <2> QED
    BY <2>1, <2>2, <2>3, EditedQueue
<1> QED
  BY <1>2, <1>3

\* The result of a run: it counts only while the worker holds the job.
LEMMA ResultActs ==
  ASSUME TypeInv, NEW w \in Workers, Busy(w), CompleteJob(w) \/ FailJob(w), UNCHANGED queue
  PROVE  LET j == run[w].job IN
         /\ QueueTypes'
         /\ \/ UNCHANGED jobs /\ jobs[j].runner # w
            \/ /\ jobs[j].runner = w /\ jobs[j].state = "active" /\ Edited(j)
               /\ \/ /\ CompleteJob(w)
                     /\ jobs'[j] = [jobs[j] EXCEPT !.state = "completed", !.runner = None]
                  \/ /\ FailJob(w)
                     /\ jobs'[j] = [jobs[j] EXCEPT !.made = @ + 1, !.runner = None,
                          !.state = IF jobs[j].made + 1 < Attempts THEN "delayed" ELSE "failed"]
<1> DEFINE j == run[w].job
<1>1. j \in JobIds
  BY RunTyped DEF Busy
<1> HIDE DEF j
<1>2. jobs[j] \in Job /\ jobs \in Seq(Job) /\ j \in DOMAIN jobs /\ QueueTypes
  BY <1>1, JobTyped DEF TypeInv, QueueTypes, JobIds
<1>3. CASE jobs[j].runner # w
  <2>1. UNCHANGED jobs
    BY <1>3 DEF CompleteJob, FailJob, j
  <2>2. QueueTypes'
    BY <1>2, <2>1 DEF QueueTypes, JobIds
  <2> QED
    BY <1>3, <2>1, <2>2 DEF j
<1>4. CASE jobs[j].runner = w
  <2>1. jobs[j].state = "active"
    BY <1>1, <1>4, ActionExecutionAssumption DEF TypeInv, QueueTypes
  <2>2. CASE CompleteJob(w)
    <3>1. jobs' = [jobs EXCEPT ![j].state = "completed", ![j].runner = None]
      BY <1>4, <2>2 DEF CompleteJob, j
    <3>2. jobs'[j] = [jobs[j] EXCEPT !.state = "completed", !.runner = None]
      BY <1>2, <3>1
    <3>3. Edited(j) /\ jobs'[j].state = "completed"
      BY <1>2, <3>1, <3>2 DEF Edited, Job, JobState
    <3>4. QueueTypes'
      BY <1>1, <2>1, <3>3, EditedQueue
    <3> QED
      BY <1>4, <2>1, <2>2, <3>2, <3>3, <3>4 DEF j
  <2>3. CASE FailJob(w)
    <3>1. jobs' = [jobs EXCEPT ![j].made = jobs[j].made + 1, ![j].runner = None,
                     ![j].state = IF jobs[j].made + 1 < Attempts THEN "delayed" ELSE "failed"]
      BY <1>4, <2>3 DEF FailJob, j
    <3>2. jobs'[j] = [jobs[j] EXCEPT !.made = @ + 1, !.runner = None,
                     !.state = IF jobs[j].made + 1 < Attempts THEN "delayed" ELSE "failed"]
      BY <1>2, <3>1
    <3>3. jobs[j].made + 1 \in Nat
      BY <1>2 DEF Job
    <3>4. jobs'[j] \in Job /\ jobs'[j].state \in {"delayed", "failed"} /\ jobs'[j].runner = None
      BY <1>2, <3>2, <3>3 DEF Job, JobState
    <3>5. Edited(j)
      BY <1>2, <3>1, <3>2, <3>4 DEF Edited, Job
    <3>6. QueueTypes'
      BY <1>1, <2>1, <3>4, <3>5, EditedQueue
    <3> QED
      BY <1>4, <2>1, <2>3, <3>2, <3>5, <3>6 DEF j
  <2> QED
    BY <2>2, <2>3
<1> QED
  BY <1>3, <1>4

-----------------------------------------------------------------------------
(* Type correctness. *)


LEMMA InitTyped == Init => TypeInv
<1> SUFFICES ASSUME Init
             PROVE  TypeInv
  OBVIOUS
<1>1. Unknown \in Values
  BY ActionExecutionAssumption DEF Unknown, Values, Address
<1>2. OwnerTypes
  BY <1>1, ActionExecutionAssumption DEF Init, OwnerTypes
<1>3. QueueTypes
  BY DEF Init, QueueTypes, JobIds, IsInjective, Range
<1>4. RunTypes
  BY IdleTyped DEF Init, RunTypes
<1>5. EffectTypes
  BY <1>1 DEF Init, EffectTypes
<1> QED
  BY <1>2, <1>3, <1>4, <1>5 DEF TypeInv

\* A job is added: nobody runs it.
LEMMA AddTypes ==
  ASSUME TypeInv, NEW values \in Values, AddJob(values), UNCHANGED <<run, record>>
  PROVE  QueueTypes' /\ RunTypes' /\ EffectTypes'
<1>1. EffectTypes'
  BY AddActs DEF EffectTypes, TypeInv
<1>2. RunTypes'
  BY AddActs DEF RunTypes, TypeInv
<1> QED
  BY <1>1, <1>2, AddActs

LEMMA OwnerSteps ==
  ASSUME TypeInv,
         \/ \E S \in SUBSET Family \ {{}} : Change(S)
         \/ \E m \in Manuals : ManualLoad(m) \/ ManualAdd(m)
         \/ \E k \in ActionEdits : EditAction(k)
         \/ \E p \in Preferences : SetPreference(p)
  PROVE  TypeInv'
<1>1. ASSUME NEW S \in SUBSET Family \ {{}}, Change(S)
      PROVE  TypeInv'
  <2>1. /\ device.changes \in Nat /\ device.known \in Values /\ device.changes + 1 <= MaxChanges
        /\ device.changes + 1 \in Nat
    BY <1>1, ActionExecutionAssumption DEF Change, TypeInv, OwnerTypes
  <2>2. device' = [changes |-> device.changes + 1,
                   known |-> [f \in Family |-> IF f \in S THEN device.changes + 1
                                                          ELSE device.known[f]]]
    BY <1>1 DEF Change
  <2>3. device'.known \in Values /\ device'.changes = device.changes + 1
    BY <2>1, <2>2 DEF Values, Address
  <2>4. OwnerTypes'
    BY <1>1, <2>1, <2>2, <2>3 DEF Change, TypeInv, OwnerTypes
  <2>5. CASE AddJob(device'.known)
    BY <1>1, <2>3, <2>4, <2>5, AddTypes DEF Change, TypeInv
  <2>6. CASE UNCHANGED <<jobs, queue, stream, shown, sent>>
    BY <1>1, <2>4, <2>6 DEF Change, TypeInv, QueueTypes, JobIds, RunTypes, EffectTypes
  <2> QED
    BY <1>1, <2>5, <2>6 DEF Change
<1>2. ASSUME NEW m \in Manuals, ManualLoad(m)
      PROVE  TypeInv'
  <2>1. manual' \in [Manuals -> [pc : {"new", "add", "done"}, values : Values]]
    <3>1. manual[m] \in [pc : {"new", "add", "done"}, values : Values] /\ device.known \in Values
      BY DEF TypeInv, OwnerTypes
    <3> QED
      BY <1>2, <3>1 DEF ManualLoad, TypeInv, OwnerTypes
  <2> QED
    BY <1>2, <2>1 DEF ManualLoad, TypeInv, OwnerTypes, QueueTypes, JobIds, RunTypes, EffectTypes, effects
<1>3. ASSUME NEW m \in Manuals, ManualAdd(m)
      PROVE  TypeInv'
  <2>1. manual[m] \in [pc : {"new", "add", "done"}, values : Values]
    BY DEF TypeInv, OwnerTypes
  <2>2. QueueTypes' /\ RunTypes' /\ EffectTypes'
    BY <1>3, <2>1, AddTypes DEF ManualAdd
  <2>3. OwnerTypes'
    BY <1>3, <2>1 DEF ManualAdd, TypeInv, OwnerTypes
  <2> QED
    BY <2>2, <2>3 DEF TypeInv
<1>4. ASSUME NEW k \in ActionEdits, EditAction(k)
      PROVE  TypeInv'
  <2>1. action \in [status : {"enabled", "disabled", "detached"}, families : SUBSET Family \ {{}}]
    BY DEF TypeInv, OwnerTypes
  <2>2. action' \in [status : {"enabled", "disabled", "detached"}, families : SUBSET Family \ {{}}]
    <3>1. CASE k = "reconfigure"
      BY <1>4, <2>1, <3>1 DEF EditAction
    <3>2. CASE k # "reconfigure"
      <4>1. k \in {"enable", "disable", "detach"}
        BY <3>2, ActionExecutionAssumption
      <4>2. \E t \in {"enabled", "disabled", "detached"} : action' = [action EXCEPT !.status = t]
        BY <1>4, <3>2, <4>1 DEF EditAction
      <4> QED
        BY <2>1, <4>2
    <3> QED
      BY <3>1, <3>2
  <2>3. edits' \in 0 .. MaxEdits
    BY <1>4, ActionExecutionAssumption DEF EditAction, TypeInv, OwnerTypes
  <2> QED
    BY <1>4, <2>2, <2>3 DEF EditAction, TypeInv, OwnerTypes, QueueTypes, JobIds, RunTypes, EffectTypes, effects
<1>5. ASSUME NEW p \in Preferences, SetPreference(p)
      PROVE  TypeInv'
  <2>1. edits' \in 0 .. MaxEdits
    BY <1>5, ActionExecutionAssumption DEF SetPreference, TypeInv, OwnerTypes
  <2> QED
    BY <1>5, <2>1 DEF SetPreference, TypeInv, OwnerTypes, QueueTypes, JobIds, RunTypes, EffectTypes, effects
<1> QED
  BY <1>1, <1>2, <1>3, <1>4, <1>5

\* Every step that edits one job leaves the set of jobs as it is.
LEMMA EffectsKept ==
  ASSUME TypeInv, Len(jobs') = Len(jobs), UNCHANGED effects
  PROVE  EffectTypes'
  BY DEF TypeInv, EffectTypes, effects

LEMMA RunReplaced ==
  ASSUME TypeInv, NEW w \in Workers, run' = [run EXCEPT ![w] = run'[w]], run'[w] \in Run,
         JobIds' = JobIds, IF run'[w].pc = "idle" THEN run'[w] = IdleRun ELSE run'[w].job \in JobIds
  PROVE  RunTypes'
<1>1. \A v \in Workers : IF run'[v].pc = "idle" THEN run'[v] = IdleRun ELSE run'[v].job \in JobIds
  BY DEF TypeInv, RunTypes
<1>2. run' \in [Workers -> Run]
  BY DEF TypeInv, RunTypes
<1> QED
  BY <1>1, <1>2 DEF RunTypes

LEMMA WorkerTypes ==
  ASSUME TypeInv, NEW w \in Workers, WorkerActs(w), faults' \in 0 .. MaxFaults
  PROVE  TypeInv'
<1> DEFINE j == run[w].job
<1>1. /\ j \in JobIds /\ run[w] \in Run /\ run \in [Workers -> Run] /\ Busy(w) /\ UNCHANGED <<owner, queue>>
  BY RunTyped DEF WorkerActs, Busy
<1>2. OwnerTypes'
  BY <1>1 DEF owner, TypeInv, OwnerTypes
<1>3. /\ QueueTypes' /\ Len(jobs') = Len(jobs) /\ JobIds' = JobIds
  <2>1. CASE UNCHANGED jobs
    BY <1>1, <2>1 DEF TypeInv, QueueTypes, JobIds
  <2>2. CASE ~UNCHANGED jobs
    <3>1. QueueTypes' /\ Edited(j)
      BY <1>1, <2>2, ResultActs DEF WorkerActs, Continues
    <3> QED
      BY <1>1, <3>1, EditedJobs
  <2> QED
    BY <2>1, <2>2
<1>4. RunTypes'
  <2>1. CASE Continues(w)
    BY <1>1, <1>3, <2>1, RunReplaced DEF Continues
  <2>2. CASE CompleteJob(w) \/ FailJob(w)
    BY <1>3, <2>2, EndsIdle, IdleTyped, RunReplaced
  <2> QED
    BY <2>1, <2>2 DEF WorkerActs
<1> HIDE DEF j
<1>5. /\ j \in 1 .. Len(jobs) /\ stream[j] \in Seq(Event) /\ sent[j] \in Seq({"succeeded", "failed"})
      /\ jobs[j].values \in Values
  BY <1>1, JobTyped DEF Job
<1>6. stream' \in Seq(Seq(Event)) /\ Len(stream') = Len(jobs')
  <2>1. CASE UNCHANGED stream
    BY <1>3, <2>1 DEF TypeInv, EffectTypes
  <2>2. CASE \E e \in Event : stream' = [stream EXCEPT ![j] = Append(stream[j], e)]
    <3>1. PICK e \in Event : stream' = [stream EXCEPT ![j] = Append(stream[j], e)]
      BY <2>2
    <3>2. Append(stream[j], e) \in Seq(Event)
      BY <1>5
    <3> QED
      BY <1>3, <1>5, <3>1, <3>2, ExceptSeq DEF TypeInv, EffectTypes
  <2> QED
    BY <2>1, <2>2 DEF WorkerActs, Silent, Records, j
<1>7. shown' \in Seq(Shown) /\ Len(shown') = Len(jobs')
  <2>1. CASE UNCHANGED shown
    BY <1>3, <2>1 DEF TypeInv, EffectTypes
  <2>2. CASE \E v \in Shown : shown' = [shown EXCEPT ![j] = v]
    BY <1>3, <1>5, <2>2, ExceptSeq DEF TypeInv, EffectTypes
  <2> QED
    BY <2>1, <2>2 DEF WorkerActs, j
<1>8. sent' \in Seq(Seq({"succeeded", "failed"})) /\ Len(sent') = Len(jobs')
  <2>1. CASE UNCHANGED sent
    BY <1>3, <2>1 DEF TypeInv, EffectTypes
  <2>2. CASE \E o \in {"succeeded", "failed"} : sent' = [sent EXCEPT ![j] = Append(sent[j], o)]
    <3>1. PICK o \in {"succeeded", "failed"} : sent' = [sent EXCEPT ![j] = Append(sent[j], o)]
      BY <2>2
    <3>2. Append(sent[j], o) \in Seq({"succeeded", "failed"})
      BY <1>5
    <3> QED
      BY <1>3, <1>5, <3>1, <3>2, ExceptSeq DEF TypeInv, EffectTypes
  <2> QED
    BY <2>1, <2>2 DEF WorkerActs, j
<1>9. record' \in Values
  BY <1>5 DEF TypeInv, EffectTypes, WorkerActs, Values, j
<1>10. EffectTypes'
  BY <1>6, <1>7, <1>8, <1>9 DEF EffectTypes
<1> QED
  BY <1>2, <1>3, <1>4, <1>10 DEF TypeInv

LEMMA FaultCounted ==
  ASSUME TypeInv, NEW k, Fault(k)
  PROVE  faults' \in 0 .. MaxFaults
  BY ActionExecutionAssumption DEF Fault, TypeInv, OwnerTypes

LEMMA QueueSteps ==
  ASSUME TypeInv,
         \/ \E w \in Workers : Take(w) \/ Crash(w)
         \/ \E j \in JobIds : BackoffElapses(j) \/ StalledCheck(j) \/ LockLost(j)
  PROVE  TypeInv'
<1>1. ASSUME NEW w \in Workers, Take(w)
      PROVE  TypeInv'
  <2>1. PICK j \in JobIds : j = Head(queue)
    BY <1>1, TakeActs
  <2>2. /\ QueueTypes' /\ Edited(j) /\ run'[w] \in Run /\ run'[w].pc = "start" /\ run'[w].job = j
        /\ run' = [run EXCEPT ![w] = run'[w]] /\ UNCHANGED <<owner, effects, faults>>
    BY <1>1, <2>1, TakeActs DEF IdleRun
  <2>3. Len(jobs') = Len(jobs) /\ JobIds' = JobIds
    BY <2>2, EditedJobs
  <2>4. RunTypes' /\ EffectTypes'
    BY <2>1, <2>2, <2>3, RunReplaced, EffectsKept
  <2> QED
    BY <2>2, <2>4 DEF owner, TypeInv, OwnerTypes
<1>2. ASSUME NEW w \in Workers, Crash(w)
      PROVE  TypeInv'
  <2>1. /\ run' = [run EXCEPT ![w] = IdleRun] /\ UNCHANGED <<owner, jobs, queue, effects>>
        /\ faults' \in 0 .. MaxFaults
    BY <1>2, FaultCounted DEF Crash
  <2>2. RunTypes'
    BY <2>1, IdleTyped, RunTyped, RunReplaced DEF JobIds
  <2> QED
    BY <2>1, <2>2 DEF owner, TypeInv, OwnerTypes, QueueTypes, JobIds, EffectTypes, effects
<1>3. ASSUME NEW j \in JobIds, BackoffElapses(j) \/ StalledCheck(j) \/ LockLost(j)
      PROVE  TypeInv'
  <2>1. /\ QueueTypes' /\ Edited(j) /\ UNCHANGED <<owner, effects, run>>
    BY <1>3, BackoffActs, RequeueActs DEF StalledCheck, LockLost
  <2>2. faults' \in 0 .. MaxFaults
    BY <1>3, FaultCounted DEF BackoffElapses, StalledCheck, LockLost, TypeInv, OwnerTypes
  <2>3. Len(jobs') = Len(jobs) /\ JobIds' = JobIds
    BY <2>1, EditedJobs
  <2>4. RunTypes' /\ EffectTypes'
    BY <2>1, <2>3, EffectsKept DEF RunTypes, TypeInv
  <2> QED
    BY <2>1, <2>2, <2>4 DEF owner, TypeInv, OwnerTypes
<1> QED
  BY <1>1, <1>2, <1>3

LEMMA TypeNext == TypeInv /\ [Next]_vars => TypeInv'
<1> SUFFICES ASSUME TypeInv, [Next]_vars
             PROVE  TypeInv'
  OBVIOUS
<1>1. CASE UNCHANGED vars
  BY <1>1 DEF vars, owner, effects, TypeInv, OwnerTypes, QueueTypes, JobIds, RunTypes, EffectTypes
<1>2. ASSUME NEW w \in Workers, WorkerStep(w)
      PROVE  TypeInv'
  <2>1. UNCHANGED faults
    BY <1>2 DEF WorkerStep, NextSequence, Started, LoadAction, Execute, Outcome, Reload, Project,
              Notify, NotificationSent, End, AppendExecutionEvent
  <2> QED
    BY <1>2, <2>1, WorkerStepActs, WorkerTypes DEF TypeInv, OwnerTypes
<1>3. ASSUME NEW w \in Workers, ProviderFails(w) \/ AnswerLost(w) \/ StoreFails(w)
      PROVE  TypeInv'
  BY <1>3, WorkerStepActs, WorkerTypes, FaultCounted DEF ProviderFails, AnswerLost, StoreFails
<1>4. CASE \/ \E w \in Workers : Take(w) \/ Crash(w)
           \/ \E j \in JobIds : BackoffElapses(j) \/ StalledCheck(j) \/ LockLost(j)
  BY <1>4, QueueSteps
<1>5. CASE \/ \E S \in SUBSET Family \ {{}} : Change(S)
           \/ \E m \in Manuals : ManualLoad(m) \/ ManualAdd(m)
           \/ \E k \in ActionEdits : EditAction(k)
           \/ \E p \in Preferences : SetPreference(p)
  BY <1>5, OwnerSteps
<1> QED
  BY <1>1, <1>2, <1>3, <1>4, <1>5 DEF Next

LEMMA TypeHolds == Spec => []TypeInv
  BY InitTyped, TypeNext, PTL DEF Spec

\* Jobs stay, with the addresses they were added for, and what has ended has ended.
JobsStay ==
  /\ JobIds \subseteq JobIds'
  /\ \A i \in JobIds : jobs'[i].values = jobs[i].values /\ (Ended(i) => Ended(i)')

LEMMA JobsStayed == TypeInv /\ [Next]_vars => JobsStay
<1> SUFFICES ASSUME TypeInv, [Next]_vars
             PROVE  JobsStay
  OBVIOUS
<1>1. ASSUME UNCHANGED jobs
      PROVE  JobsStay
  BY <1>1 DEF JobsStay, JobIds, Ended
<1>2. ASSUME NEW values \in Values, AddJob(values)
      PROVE  JobsStay
  BY <1>2, AddActs DEF JobsStay, Ended
<1>3. ASSUME NEW j \in JobIds, Edited(j), ~Ended(j)
      PROVE  JobsStay
  BY <1>3, EditedJobs DEF JobsStay, Ended
<1>4. CASE \/ UNCHANGED vars
           \/ \E m \in Manuals : ManualLoad(m)
           \/ \E k \in ActionEdits : EditAction(k)
           \/ \E p \in Preferences : SetPreference(p)
           \/ \E w \in Workers : Crash(w)
  BY <1>1, <1>4 DEF vars, ManualLoad, EditAction, SetPreference, Crash
<1>5. ASSUME NEW S \in SUBSET Family \ {{}}, Change(S)
      PROVE  JobsStay
  <2>1. device'.known \in Values
    BY <1>5, OwnerSteps DEF TypeInv, OwnerTypes
  <2> QED
    BY <1>1, <1>2, <1>5, <2>1 DEF Change
<1>6. ASSUME NEW m \in Manuals, ManualAdd(m)
      PROVE  JobsStay
  <2>1. manual[m] \in [pc : {"new", "add", "done"}, values : Values]
    BY DEF TypeInv, OwnerTypes
  <2> QED
    BY <1>2, <1>6, <2>1 DEF ManualAdd
<1>7. ASSUME NEW w \in Workers, Take(w)
      PROVE  JobsStay
  BY <1>3, <1>7, TakeActs DEF Ended
<1>8. ASSUME NEW j \in JobIds, BackoffElapses(j) \/ StalledCheck(j) \/ LockLost(j)
      PROVE  JobsStay
  BY <1>3, <1>8, BackoffActs, RequeueActs DEF StalledCheck, LockLost, Ended
<1>9. ASSUME NEW w \in Workers, WorkerStep(w) \/ ProviderFails(w) \/ AnswerLost(w) \/ StoreFails(w)
      PROVE  JobsStay
  <2>1. WorkerActs(w)
    BY <1>9, WorkerStepActs
  <2>2. CASE Continues(w)
    BY <1>1, <2>2 DEF Continues
  <2>3. CASE CompleteJob(w) \/ FailJob(w)
    <3>1. run[w].job \in JobIds
      BY <2>1, RunTyped DEF WorkerActs, Busy
    <3>2. \/ UNCHANGED jobs
          \/ Edited(run[w].job) /\ jobs[run[w].job].state = "active"
      BY <2>1, <2>3, ResultActs DEF WorkerActs
    <3> QED
      BY <1>1, <1>3, <3>1, <3>2 DEF Ended
  <2> QED
    BY <2>1, <2>2, <2>3 DEF WorkerActs
<1> QED
  BY <1>4, <1>5, <1>6, <1>7, <1>8, <1>9 DEF Next

\* Only a change of the device is newer than the newest.
LEMMA LatestKept ==
  ASSUME TypeInv, [Next]_vars
  PROVE  UNCHANGED <<latest, device>> \/ \E S \in SUBSET Family \ {{}} : Change(S)
<1>1. ASSUME NEW w \in Workers, WorkerStep(w) \/ ProviderFails(w) \/ AnswerLost(w) \/ StoreFails(w)
      PROVE  UNCHANGED <<latest, device>>
  BY <1>1, WorkerStepActs DEF WorkerActs, owner
<1>2. CASE \/ UNCHANGED vars
           \/ \E m \in Manuals : ManualLoad(m) \/ ManualAdd(m)
           \/ \E k \in ActionEdits : EditAction(k)
           \/ \E p \in Preferences : SetPreference(p)
           \/ \E w \in Workers : Take(w) \/ Crash(w)
           \/ \E j \in JobIds : BackoffElapses(j) \/ StalledCheck(j) \/ LockLost(j)
  BY <1>2 DEF vars, ManualLoad, ManualAdd, EditAction, SetPreference, Take, Crash,
              BackoffElapses, StalledCheck, LockLost, owner
<1> QED
  BY <1>1, <1>2 DEF Next

LEMMA LatestNext ==
  ASSUME TypeInv, LatestTyped, [Next]_vars
  PROVE  LatestTyped'
<1>1. JobIds \subseteq JobIds'
  BY JobsStayed DEF JobsStay
<1>2. CASE UNCHANGED <<latest, device>>
  BY <1>1, <1>2 DEF LatestTyped
<1>3. ASSUME NEW S \in SUBSET Family \ {{}}, Change(S)
      PROVE  LatestTyped'
  <2>1. CASE action.status = "enabled"
    <3>1. PICK values \in Values : AddJob(values)
      BY <1>3, <2>1, OwnerSteps DEF Change, TypeInv, OwnerTypes
    <3>2. Len(jobs) + 1 \in JobIds'
      BY <3>1, AddActs
    <3>3. latest' = [job |-> Len(jobs) + 1, open |-> {j \in JobIds : ~Ended(j)}]
      BY <1>3, <2>1 DEF Change
    <3> QED
      BY <1>1, <3>2, <3>3 DEF LatestTyped
  <2>2. CASE action.status # "enabled"
    BY <1>3, <2>2 DEF Change, LatestTyped
  <2> QED
    BY <2>1, <2>2
<1> QED
  BY <1>2, <1>3, LatestKept

\* The variables of the execution worker keep their shape: one stream, one
\* projection entry and one mail count per job, and the queue holds exactly the
\* waiting jobs, each once, however often workers crash, jobs stall or steps fail.
THEOREM TypeCorrect == Spec => []TypeOK
<1>1. Init => LatestTyped
  BY DEF Init, LatestTyped
<1>2. TypeInv /\ LatestTyped /\ [Next]_vars => LatestTyped'
  BY LatestNext
<1> QED
  BY <1>1, <1>2, TypeHolds, TypesHold, PTL DEF Spec

-----------------------------------------------------------------------------
(* Attempts are recorded, and no more of them than the configuration allows: *)
(* an attempt costs a job one of its attempts or, once stalled, one stall.   *)

StartedEvents(events) == {i \in DOMAIN events : events[i].name = "started"}
HasStarted(events) == \E i \in DOMAIN events : events[i].name = "started"

\* The runs about to record their start.
Starting(j) == {w \in Workers : run[w].pc = "start" /\ run[w].job = j}

\* What the job has used up, and the attempt it is in or died in.
Pending(j) == jobs[j].made < Attempts /\ jobs[j].state \notin {"waiting", "delayed"}
Budget(j) == jobs[j].made + jobs[j].stalls + (IF Pending(j) THEN 1 ELSE 0)

JobBounded(j) ==
  /\ jobs[j].made <= Attempts
  /\ jobs[j].state \in {"waiting", "delayed", "active"} => jobs[j].made < Attempts
  /\ IsFiniteSet(Starting(j))
  /\ Cardinality(StartedEvents(stream[j])) + Cardinality(Starting(j)) <= Budget(j)

Bounded == \A j \in JobIds : JobBounded(j)

\* Beyond its start a run is recorded, and so is what it wrote.
Recorded ==
  /\ \A w \in Workers : run[w].pc \notin {"idle", "start"} => HasStarted(stream[run[w].job])
  /\ \A f \in Family : record[f] # 0 =>
       \E j \in JobIds : jobs[j].values[f] = record[f] /\ HasStarted(stream[j])

AttemptInv == Bounded /\ Recorded

LEMMA StartedFinite ==
  ASSUME NEW events \in Seq(Event)
  PROVE  /\ IsFiniteSet(StartedEvents(events)) /\ Cardinality(StartedEvents(events)) \in Nat
         /\ HasStarted(events) => Cardinality(StartedEvents(events)) > 0
         /\ Count(events, "started") = Cardinality(StartedEvents(events))
<1>1. Len(events) \in Nat /\ DOMAIN events = 1 .. Len(events)
  BY LenProperties
<1>2. IsFiniteSet(StartedEvents(events)) /\ Cardinality(StartedEvents(events)) \in Nat
  <2>1. IsFiniteSet(1 .. Len(events))
    BY <1>1, FS_Interval
  <2>2. StartedEvents(events) \in SUBSET (1 .. Len(events))
    BY <1>1 DEF StartedEvents
  <2> QED
    BY <2>1, <2>2, FS_Subset, FS_CardinalityType
<1>3. HasStarted(events) => StartedEvents(events) # {}
  BY DEF HasStarted, StartedEvents
<1>4. Cardinality(StartedEvents(events)) = 0 => StartedEvents(events) = {}
  BY <1>2, FS_EmptySet
<1>5. HasStarted(events) => Cardinality(StartedEvents(events)) > 0
  BY <1>2, <1>3, <1>4
<1> QED
  BY <1>2, <1>5 DEF Count, StartedEvents

LEMMA StartedAppends ==
  ASSUME NEW events \in Seq(Event), NEW e \in Event
  PROVE  /\ Cardinality(StartedEvents(Append(events, e))) =
              Cardinality(StartedEvents(events)) + IF e.name = "started" THEN 1 ELSE 0
         /\ HasStarted(events) \/ e.name = "started" => HasStarted(Append(events, e))
<1> DEFINE n == Len(events)
           more == Append(events, e)
<1>1. /\ n \in Nat /\ DOMAIN events = 1 .. n /\ DOMAIN more = 1 .. n + 1 /\ more[n + 1] = e
      /\ \A i \in 1 .. n : more[i] = events[i]
  BY AppendProperties, LenProperties
<1> HIDE DEF n, more
<1>2. n + 1 \notin 1 .. n /\ 1 .. n + 1 = (1 .. n) \cup {n + 1}
  BY <1>1
<1>3. HasStarted(events) \/ e.name = "started" => HasStarted(more)
  BY <1>1, <1>2 DEF HasStarted
<1>4. CASE e.name = "started"
  <2>1. StartedEvents(more) = StartedEvents(events) \cup {n + 1} /\ n + 1 \notin StartedEvents(events)
    BY <1>1, <1>2, <1>4 DEF StartedEvents
  <2> QED
    BY <1>3, <1>4, <2>1, StartedFinite, FS_AddElement DEF more
<1>5. CASE e.name # "started"
  <2>1. StartedEvents(more) = StartedEvents(events)
    BY <1>1, <1>2, <1>5 DEF StartedEvents
  <2> QED
    BY <1>3, <1>5, <2>1, StartedFinite DEF more
<1> QED
  BY <1>4, <1>5

LEMMA AttemptsHold == TypeInv /\ AttemptInv => AttemptsAreRecorded
<1> SUFFICES ASSUME TypeInv, AttemptInv
             PROVE  AttemptsAreRecorded
  OBVIOUS
<1>1. ASSUME NEW j \in JobIds
      PROVE  Count(stream[j], "started") <= Attempts + jobs[j].stalls
  <2>1. jobs[j] \in Job /\ stream[j] \in Seq(Event)
    BY JobTyped
  <2>2. /\ Count(stream[j], "started") = Cardinality(StartedEvents(stream[j]))
        /\ Cardinality(StartedEvents(stream[j])) \in Nat
    BY <2>1, StartedFinite
  <2>3. Cardinality(Starting(j)) \in Nat /\ JobBounded(j)
    BY FS_CardinalityType DEF AttemptInv, Bounded, JobBounded
  <2>4. jobs[j].made \in Nat /\ jobs[j].stalls \in Nat /\ Attempts \in Nat
    BY <2>1, ActionExecutionAssumption DEF Job
  <2>5. Budget(j) <= Attempts + jobs[j].stalls /\ Budget(j) \in Nat
    BY <2>3, <2>4 DEF JobBounded, Budget, Pending
  <2> QED
    BY <2>2, <2>3, <2>4, <2>5 DEF JobBounded
<1>2. ASSUME NEW f \in Family, record[f] # 0
      PROVE  \E j \in JobIds : jobs[j].values[f] = record[f] /\ Count(stream[j], "started") > 0
  BY <1>2, JobTyped, StartedFinite DEF AttemptInv, Recorded
<1> QED
  BY <1>1, <1>2 DEF AttemptsAreRecorded

\* The bound of one job in terms of the counts before and after a step.
Used(j) == Cardinality(StartedEvents(stream[j])) + Cardinality(Starting(j))

LEMMA UsedTyped ==
  ASSUME TypeInv, NEW j \in JobIds, JobBounded(j)
  PROVE  /\ Cardinality(StartedEvents(stream[j])) \in Nat /\ Cardinality(Starting(j)) \in Nat
         /\ jobs[j].made \in Nat /\ jobs[j].stalls \in Nat
         /\ Used(j) <= Budget(j) /\ Attempts \in Nat
<1>1. jobs[j] \in Job /\ stream[j] \in Seq(Event)
  BY JobTyped
<1> QED
  BY <1>1, StartedFinite, FS_CardinalityType, ActionExecutionAssumption DEF JobBounded, Job, Used

\* A step of a run that leaves or stays out of "start", seen from any job.
LEMMA StartingLeft ==
  ASSUME TypeInv, NEW w \in Workers, run' = [run EXCEPT ![w] = run'[w]], run'[w].pc # "start",
         NEW j
  PROVE  /\ Starting(j)' = Starting(j) \ {w}
         /\ IsFiniteSet(Starting(j)) => /\ IsFiniteSet(Starting(j)')
                                        /\ Cardinality(Starting(j)') =
                                             Cardinality(Starting(j))
                                               - IF w \in Starting(j) THEN 1 ELSE 0
<1>1. \A v \in Workers : v # w => run'[v] = run[v]
  BY DEF TypeInv, RunTypes
<1>2. Starting(j)' = Starting(j) \ {w}
  BY <1>1 DEF Starting
<1>3. ASSUME IsFiniteSet(Starting(j))
      PROVE  /\ IsFiniteSet(Starting(j) \ {w})
             /\ Cardinality(Starting(j) \ {w}) =
                  IF w \in Starting(j) THEN Cardinality(Starting(j)) - 1 ELSE Cardinality(Starting(j))
  BY <1>3, FS_RemoveElement
<1>4. ASSUME IsFiniteSet(Starting(j))
      PROVE  Cardinality(Starting(j)) \in Nat
  BY <1>4, FS_CardinalityType
<1> QED
  BY <1>2, <1>3, <1>4

LEMMA StartingSame ==
  ASSUME TypeInv, NEW w \in Workers, run' = [run EXCEPT ![w] = run'[w]],
         run'[w].pc = "start" <=> run[w].pc = "start", run'[w].job = run[w].job, NEW j
  PROVE  Starting(j)' = Starting(j)
<1>1. \A v \in Workers : v # w => run'[v] = run[v]
  BY DEF TypeInv, RunTypes
<1> QED
  BY <1>1 DEF Starting

LEMMA BoundedQueue ==
  ASSUME TypeInv, Bounded,
         \/ \E w \in Workers : Take(w) \/ Crash(w)
         \/ \E j \in JobIds : BackoffElapses(j) \/ StalledCheck(j) \/ LockLost(j)
  PROVE  Bounded'
<1>1. ASSUME NEW w \in Workers, Take(w)
      PROVE  Bounded'
  <2>1. PICK j \in JobIds : j = Head(queue)
    BY <1>1, TakeActs
  <2>2. /\ jobs[j].state = "waiting" /\ Edited(j) /\ run[w].pc = "idle" /\ run'[w].pc = "start"
        /\ jobs'[j] = [jobs[j] EXCEPT !.state = "active", !.runner = w] /\ run'[w].job = j
        /\ run' = [run EXCEPT ![w] = run'[w]] /\ UNCHANGED stream
    BY <1>1, <2>1, TakeActs DEF IdleRun, effects
  <2>3. JobIds' = JobIds /\ \A i \in JobIds : i # j => jobs'[i] = jobs[i]
    BY <2>2, EditedJobs
  <2>4. \A v \in Workers : v # w => run'[v] = run[v]
    BY <2>2 DEF TypeInv, RunTypes
  <2>5. ASSUME NEW i \in JobIds, i # j
        PROVE  JobBounded(i)'
    <3>1. Starting(i)' = Starting(i)
      BY <2>2, <2>4, <2>5 DEF Starting
    <3>2. JobBounded(i)
      BY DEF Bounded
    <3> QED
      BY <2>2, <2>3, <2>5, <3>1, <3>2 DEF JobBounded, Budget, Pending
  <2>6. JobBounded(j)'
    <3>1. Starting(j)' = Starting(j) \cup {w} /\ w \notin Starting(j)
      BY <2>2, <2>4, RunTyped DEF Starting
    <3>2. JobBounded(j)
      BY DEF Bounded
    <3>3. IsFiniteSet(Starting(j)') /\ Cardinality(Starting(j)') = Cardinality(Starting(j)) + 1
      BY <3>1, <3>2, FS_AddElement DEF JobBounded
    <3>4. /\ jobs'[j].made = jobs[j].made /\ jobs'[j].stalls = jobs[j].stalls
          /\ jobs'[j].state = "active" /\ jobs[j].made < Attempts
      BY <2>2, <3>2, JobTyped DEF Job, JobBounded
    <3>5. Budget(j) = jobs[j].made + jobs[j].stalls
      BY <2>2, <3>2, UsedTyped DEF Budget, Pending
    <3>6. Budget(j)' = jobs[j].made + jobs[j].stalls + 1
      BY <3>4 DEF Budget, Pending
    <3>7. Cardinality(StartedEvents(stream'[j])) + Cardinality(Starting(j)') <= Budget(j)'
      BY <2>2, <3>2, <3>3, <3>5, <3>6, UsedTyped DEF Used
    <3> QED
      BY <2>2, <3>2, <3>3, <3>4, <3>7 DEF JobBounded
  <2> QED
    BY <2>3, <2>5, <2>6 DEF Bounded
<1>2. ASSUME NEW w \in Workers, Crash(w)
      PROVE  Bounded'
  <2>1. run' = [run EXCEPT ![w] = IdleRun] /\ UNCHANGED <<jobs, stream>>
    BY <1>2 DEF Crash, effects
  <2>2. run'[w].pc # "start" /\ run' = [run EXCEPT ![w] = run'[w]]
    BY <2>1, RunTyped, IdleTyped
  <2>3. ASSUME NEW i \in JobIds
        PROVE  JobBounded(i)'
    <3>1. JobBounded(i)
      BY DEF Bounded
    <3>2. IsFiniteSet(Starting(i)') /\ Cardinality(Starting(i)') <= Cardinality(Starting(i))
          /\ Cardinality(Starting(i)') \in Nat
      BY <2>2, <3>1, StartingLeft, UsedTyped, FS_CardinalityType DEF JobBounded
    <3>3. Budget(i)' = Budget(i)
      BY <2>1 DEF Budget, Pending
    <3>4. Budget(i) \in Nat
      BY <3>1, UsedTyped DEF Budget
    <3>5. Cardinality(StartedEvents(stream'[i])) + Cardinality(Starting(i)') <= Budget(i)'
      BY <2>1, <3>1, <3>2, <3>3, <3>4, UsedTyped DEF Used
    <3> QED
      BY <2>1, <3>1, <3>2, <3>5 DEF JobBounded
  <2> QED
    BY <2>1, <2>3 DEF Bounded, JobIds
<1>3. ASSUME NEW j \in JobIds, BackoffElapses(j) \/ StalledCheck(j) \/ LockLost(j)
      PROVE  Bounded'
  <2>1. Edited(j) /\ UNCHANGED <<stream, run>>
    BY <1>3, BackoffActs, RequeueActs DEF StalledCheck, LockLost, effects
  <2>2. JobIds' = JobIds /\ \A i \in JobIds : i # j => jobs'[i] = jobs[i]
    BY <2>1, EditedJobs
  <2>3. \A i \in JobIds : Starting(i)' = Starting(i) /\ JobBounded(i)
    BY <2>1 DEF Starting, Bounded
  <2>4. ASSUME NEW i \in JobIds, i # j
        PROVE  JobBounded(i)'
    BY <2>1, <2>2, <2>3, <2>4 DEF JobBounded, Budget, Pending
  <2>5. JobBounded(j)'
    <3>1. jobs[j] \in Job
      BY JobTyped
    <3>2. \/ /\ jobs[j].state = "delayed" /\ jobs'[j] = [jobs[j] EXCEPT !.state = "waiting"]
          \/ /\ jobs[j].state = "active"
             /\ jobs'[j] = [jobs[j] EXCEPT !.state = "waiting", !.runner = None, !.stalls = @ + 1]
          \/ /\ jobs[j].state = "active"
             /\ jobs'[j] = [jobs[j] EXCEPT !.state = "failed", !.runner = None]
      BY <1>3, BackoffActs, RequeueActs DEF StalledCheck, LockLost
    <3>3. /\ jobs'[j].made = jobs[j].made /\ jobs[j].made < Attempts
          /\ Budget(j)' = Budget(j)
      <4>1. jobs[j].made < Attempts
        BY <2>3, <3>2 DEF JobBounded
      <4>2. CASE jobs[j].state = "delayed" /\ jobs'[j] = [jobs[j] EXCEPT !.state = "waiting"]
        BY <3>1, <4>1, <4>2 DEF Job, Budget, Pending
      <4>3. CASE /\ jobs[j].state = "active"
                 /\ jobs'[j] = [jobs[j] EXCEPT !.state = "waiting", !.runner = None, !.stalls = @ + 1]
        <5>1. /\ jobs'[j].made = jobs[j].made /\ jobs'[j].stalls = jobs[j].stalls + 1
              /\ jobs'[j].state = "waiting"
          BY <3>1, <4>3 DEF Job
        <5>2. Budget(j) = jobs[j].made + jobs[j].stalls + 1
          BY <4>1, <4>3 DEF Budget, Pending
        <5>3. Budget(j)' = jobs[j].made + (jobs[j].stalls + 1) + 0
          BY <5>1 DEF Budget, Pending
        <5> QED
          BY <3>1, <4>1, <5>1, <5>2, <5>3 DEF Job
      <4>4. CASE /\ jobs[j].state = "active"
                 /\ jobs'[j] = [jobs[j] EXCEPT !.state = "failed", !.runner = None]
        BY <3>1, <4>1, <4>4 DEF Job, Budget, Pending
      <4> QED
        BY <3>2, <4>2, <4>3, <4>4
    <3> QED
      BY <2>1, <2>3, <3>3 DEF JobBounded
  <2> QED
    BY <2>2, <2>4, <2>5 DEF Bounded
<1> QED
  BY <1>1, <1>2, <1>3

LEMMA BoundedWorker ==
  ASSUME TypeInv, Bounded, NEW w \in Workers, WorkerActs(w)
  PROVE  Bounded'
<1> DEFINE j == run[w].job
<1>1. j \in JobIds /\ Busy(w) /\ stream[j] \in Seq(Event) /\ j \in DOMAIN stream
  BY RunTyped, JobTyped DEF WorkerActs, Busy
<1> HIDE DEF j
<1>2. CASE Continues(w) /\ Silent(w)
  <2>1. /\ run' = [run EXCEPT ![w] = run'[w]] /\ run'[w].job = run[w].job
        /\ run'[w].pc = "start" <=> run[w].pc = "start"
        /\ UNCHANGED <<jobs, stream>>
    BY <1>2 DEF Continues, Silent
  <2>2. ASSUME NEW i \in JobIds
        PROVE  JobBounded(i)'
    <3>1. Starting(i)' = Starting(i)
      BY <2>1, StartingSame
    <3>2. JobBounded(i)
      BY DEF Bounded
    <3> QED
      BY <2>1, <3>1, <3>2 DEF JobBounded, Budget, Pending
  <2> QED
    BY <2>1, <2>2 DEF Bounded, JobIds
<1>3. CASE Records(w)
  <2>1. PICK e \in Event :
          /\ stream' = [stream EXCEPT ![j] = Append(stream[j], e)]
          /\ e.name = "started" <=> run[w].pc = "start"
    BY <1>3 DEF Records, j
  <2>2. /\ run' = [run EXCEPT ![w] = run'[w]] /\ run'[w].pc # "start" /\ UNCHANGED jobs
    BY <1>3 DEF Records, Continues
  <2>3. ASSUME NEW i \in JobIds
        PROVE  JobBounded(i)'
    <3>1. JobBounded(i)
      BY DEF Bounded
    <3>2. Budget(i)' = Budget(i) /\ Budget(i) \in Nat
      BY <2>2, <3>1, UsedTyped DEF Budget, Pending
    <3>3. /\ IsFiniteSet(Starting(i)')
          /\ Cardinality(Starting(i)') = Cardinality(Starting(i)) - IF w \in Starting(i) THEN 1 ELSE 0
      BY <2>2, <3>1, StartingLeft DEF JobBounded
    <3>4. w \in Starting(i) <=> i = j /\ run[w].pc = "start"
      BY DEF Starting, j
    <3>5. Cardinality(StartedEvents(stream'[i])) = Cardinality(StartedEvents(stream[i]))
             + IF w \in Starting(i) THEN 1 ELSE 0
      <4>1. CASE i = j
        <5>1. stream'[i] = Append(stream[i], e)
          BY <1>1, <2>1, <4>1
        <5> QED
          BY <1>1, <2>1, <3>4, <4>1, <5>1, StartedAppends
      <4>2. CASE i # j
        <5>1. stream'[i] = stream[i]
          BY <2>1, <4>2, JobTyped
        <5> QED
          BY <3>1, <3>4, <4>2, <5>1, UsedTyped
      <4> QED
        BY <4>1, <4>2
    <3>6. Cardinality(StartedEvents(stream'[i])) + Cardinality(Starting(i)') <= Budget(i)'
      BY <3>1, <3>2, <3>3, <3>5, UsedTyped DEF Used
    <3> QED
      BY <2>2, <3>1, <3>3, <3>6 DEF JobBounded
  <2> QED
    BY <2>2, <2>3 DEF Bounded, JobIds
<1>4. CASE (CompleteJob(w) \/ FailJob(w)) /\ Silent(w)
  <2>1. UNCHANGED <<queue, stream>>
    BY <1>4 DEF WorkerActs, Silent
  <2>2. run' = [run EXCEPT ![w] = run'[w]] /\ run'[w].pc # "start"
    BY <1>4, EndsIdle, IdleTyped
  <2>3. \/ UNCHANGED jobs
        \/ /\ jobs[j].state = "active" /\ Edited(j)
           /\ \/ jobs'[j] = [jobs[j] EXCEPT !.state = "completed", !.runner = None]
              \/ jobs'[j] = [jobs[j] EXCEPT !.made = @ + 1, !.runner = None,
                   !.state = IF jobs[j].made + 1 < Attempts THEN "delayed" ELSE "failed"]
    BY <1>1, <1>4, <2>1, ResultActs DEF j
  <2>4. JobIds' = JobIds /\ \A i \in JobIds : i # j => jobs'[i] = jobs[i]
    BY <1>1, <2>3, EditedJobs DEF JobIds
  <2>5. ASSUME NEW i \in JobIds
        PROVE  JobBounded(i)'
    <3>1. JobBounded(i)
      BY DEF Bounded
    <3>2. /\ IsFiniteSet(Starting(i)')
          /\ Cardinality(Starting(i)') <= Cardinality(Starting(i)) /\ Cardinality(Starting(i)') \in Nat
      BY <2>2, <3>1, StartingLeft, UsedTyped, FS_CardinalityType DEF JobBounded
    <3>3. /\ Budget(i) \in Nat /\ Budget(i)' = Budget(i)
          /\ jobs'[i].made <= Attempts
          /\ jobs'[i].state \in {"waiting", "delayed", "active"} => jobs'[i].made < Attempts
      <4>1. Budget(i) \in Nat
        BY <3>1, UsedTyped DEF Budget
      <4>2. CASE jobs'[i] = jobs[i]
        BY <3>1, <4>1, <4>2 DEF JobBounded, Budget, Pending
      <4>3. CASE jobs'[i] # jobs[i]
        <5>1. /\ i = j /\ jobs[i].state = "active" /\ jobs[i] \in Job
              /\ \/ jobs'[i] = [jobs[i] EXCEPT !.state = "completed", !.runner = None]
                 \/ jobs'[i] = [jobs[i] EXCEPT !.made = @ + 1, !.runner = None,
                      !.state = IF jobs[i].made + 1 < Attempts THEN "delayed" ELSE "failed"]
          BY <2>3, <2>4, <4>3, JobTyped
        <5>2. jobs[i].made < Attempts /\ jobs[i].made \in Nat /\ jobs[i].stalls \in Nat /\ Attempts \in Nat
          BY <3>1, <5>1, UsedTyped DEF JobBounded
        <5>3. Budget(i) = jobs[i].made + jobs[i].stalls + 1
          BY <5>1, <5>2 DEF Budget, Pending
        <5>4. CASE jobs'[i] = [jobs[i] EXCEPT !.state = "completed", !.runner = None]
          BY <4>1, <5>1, <5>2, <5>3, <5>4 DEF Budget, Pending, Job
        <5>5. CASE jobs'[i] = [jobs[i] EXCEPT !.made = @ + 1, !.runner = None,
                      !.state = IF jobs[i].made + 1 < Attempts THEN "delayed" ELSE "failed"]
          <6>1. /\ jobs'[i].made = jobs[i].made + 1 /\ jobs'[i].stalls = jobs[i].stalls
                /\ jobs'[i].state = IF jobs[i].made + 1 < Attempts THEN "delayed" ELSE "failed"
            BY <5>1, <5>5 DEF Job
          <6>2. Budget(i)' = (jobs[i].made + 1) + jobs[i].stalls + 0
            <7>1. ~Pending(i)'
              BY <5>2, <6>1 DEF Pending
            <7> QED
              BY <6>1, <7>1 DEF Budget
          <6> QED
            BY <4>1, <5>2, <5>3, <6>1, <6>2
        <5> QED
          BY <5>1, <5>4, <5>5
      <4> QED
        BY <4>2, <4>3
    <3>4. Cardinality(StartedEvents(stream'[i])) + Cardinality(Starting(i)') <= Budget(i)'
      BY <2>1, <3>1, <3>2, <3>3, UsedTyped DEF Used
    <3> QED
      BY <3>2, <3>3, <3>4 DEF JobBounded
  <2> QED
    BY <2>4, <2>5 DEF Bounded
<1> QED
  BY <1>2, <1>3, <1>4 DEF WorkerActs, Records

LEMMA BoundedNext == TypeInv /\ Bounded /\ [Next]_vars => Bounded'
<1> SUFFICES ASSUME TypeInv, Bounded, [Next]_vars
             PROVE  Bounded'
  OBVIOUS
<1>1. ASSUME UNCHANGED <<jobs, stream, run>>
      PROVE  Bounded'
  BY <1>1 DEF Bounded, JobBounded, Budget, Pending, Starting, JobIds
<1>2. ASSUME NEW values \in Values, AddJob(values), UNCHANGED run
      PROVE  Bounded'
  <2>1. JobIds' = JobIds \cup {Len(jobs) + 1}
    BY <1>2, AddActs
  <2>2. \A i : Starting(i)' = Starting(i)
    BY <1>2 DEF Starting
  <2>3. ASSUME NEW i \in JobIds
        PROVE  JobBounded(i)'
    <3>1. jobs'[i] = jobs[i] /\ stream'[i] = stream[i] /\ Starting(i)' = Starting(i) /\ JobBounded(i)
      BY <1>2, <2>2, AddActs DEF Bounded
    <3> QED
      BY <3>1 DEF JobBounded, Budget, Pending
  <2>4. ASSUME NEW n, n = Len(jobs) + 1
        PROVE  JobBounded(n)'
    <3>1. /\ n \notin JobIds /\ stream'[n] = <<>>
          /\ jobs'[n] = [state |-> "waiting", values |-> values, made |-> 0,
                         runner |-> None, stalls |-> 0]
      BY <1>2, <2>4, AddActs
    <3>2. Starting(n)' = {}
      BY <2>2, <3>1, RunTyped DEF Starting
    <3>3. StartedEvents(stream'[n]) = {}
      BY <3>1 DEF StartedEvents
    <3>4. /\ IsFiniteSet(Starting(n)') /\ Cardinality(Starting(n)') = 0
          /\ Cardinality(StartedEvents(stream'[n])) = 0
      BY <3>2, <3>3, FS_EmptySet
    <3>5. Budget(n)' = 0 /\ jobs'[n].made = 0 /\ Attempts \in Nat \ {0}
      BY <3>1, ActionExecutionAssumption DEF Budget, Pending
    <3>6. Cardinality(StartedEvents(stream'[n])) + Cardinality(Starting(n)') <= Budget(n)'
      BY <3>4, <3>5
    <3> QED
      BY <3>4, <3>5, <3>6 DEF JobBounded
  <2> QED
    BY <2>1, <2>3, <2>4 DEF Bounded
<1>3. CASE UNCHANGED vars
  BY <1>1, <1>3 DEF vars, effects
<1>4. ASSUME NEW S \in SUBSET Family \ {{}}, Change(S)
      PROVE  Bounded'
  <2>1. CASE AddJob(device'.known)
    <3>1. device'.known \in Values
      BY <1>4, OwnerSteps DEF TypeInv, OwnerTypes
    <3> QED
      BY <1>2, <1>4, <2>1, <3>1 DEF Change
  <2>2. CASE UNCHANGED <<jobs, queue, stream, shown, sent>>
    BY <1>1, <1>4, <2>2 DEF Change
  <2> QED
    BY <1>4, <2>1, <2>2 DEF Change
<1>5. ASSUME NEW m \in Manuals, ManualAdd(m)
      PROVE  Bounded'
  <2>1. manual[m] \in [pc : {"new", "add", "done"}, values : Values]
    BY DEF TypeInv, OwnerTypes
  <2> QED
    BY <1>2, <1>5, <2>1 DEF ManualAdd
<1>6. CASE \/ \E m \in Manuals : ManualLoad(m)
           \/ \E k \in ActionEdits : EditAction(k)
           \/ \E p \in Preferences : SetPreference(p)
  BY <1>1, <1>6 DEF ManualLoad, EditAction, SetPreference, effects
<1>7. ASSUME NEW w \in Workers,
             WorkerStep(w) \/ ProviderFails(w) \/ AnswerLost(w) \/ StoreFails(w)
      PROVE  Bounded'
  BY <1>7, WorkerStepActs, BoundedWorker
<1>8. CASE \/ \E w \in Workers : Take(w) \/ Crash(w)
           \/ \E j \in JobIds : BackoffElapses(j) \/ StalledCheck(j) \/ LockLost(j)
  BY <1>8, BoundedQueue
<1> QED
  BY <1>3, <1>4, <1>5, <1>6, <1>7, <1>8 DEF Next

\* A start, once recorded, stays recorded.
LEMMA StartedStays ==
  ASSUME TypeInv, NEW w \in Workers, WorkerActs(w), NEW i \in JobIds, HasStarted(stream[i])
  PROVE  HasStarted(stream'[i])
<1>1. CASE UNCHANGED stream
  BY <1>1
<1>2. ASSUME NEW e \in Event, stream' = [stream EXCEPT ![run[w].job] = Append(stream[run[w].job], e)]
      PROVE  HasStarted(stream'[i])
  <2>1. stream'[i] = stream[i] \/ stream'[i] = Append(stream[i], e)
    BY <1>2, JobTyped
  <2>2. stream[i] \in Seq(Event)
    BY JobTyped
  <2> QED
    BY <2>1, <2>2, StartedAppends
<1> QED
  BY <1>1, <1>2 DEF WorkerActs, Silent, Records

LEMMA RecordedWorker ==
  ASSUME TypeInv, Recorded, NEW w \in Workers, WorkerActs(w)
  PROVE  Recorded'
<1> DEFINE j == run[w].job
<1>1. j \in JobIds /\ run \in [Workers -> Run] /\ stream[j] \in Seq(Event) /\ j \in DOMAIN stream
  BY RunTyped, JobTyped DEF WorkerActs, Busy
<1>2. JobIds' = JobIds /\ \A i \in JobIds : jobs'[i].values = jobs[i].values
  <2>1. CASE UNCHANGED jobs
    BY <2>1 DEF JobIds
  <2>2. CASE ~UNCHANGED jobs
    BY <1>1, <2>2, ResultActs, EditedJobs DEF WorkerActs, Continues
  <2> QED
    BY <2>1, <2>2
<1>3. \A v \in Workers : v # w => run'[v] = run[v]
  BY <1>1, EndsIdle DEF WorkerActs, Continues
<1>4. run'[w].pc \notin {"idle", "start"} => HasStarted(stream'[run'[w].job])
  <2> SUFFICES ASSUME run'[w].pc \notin {"idle", "start"}
               PROVE  HasStarted(stream'[run'[w].job])
    OBVIOUS
  <2>1. Continues(w) /\ run'[w].job = j
    BY EndsIdle, IdleTyped DEF WorkerActs, Continues
  <2>2. CASE run[w].pc = "start"
    <3>1. PICK e \in Event : stream' = [stream EXCEPT ![j] = Append(stream[j], e)] /\ e.name = "started"
      BY <2>2 DEF WorkerActs, Silent, Records
    <3> QED
      BY <1>1, <2>1, <3>1, StartedAppends
  <2>3. CASE run[w].pc # "start"
    BY <1>1, <2>1, <2>3, StartedStays DEF Recorded, WorkerActs, Busy
  <2> QED
    BY <2>2, <2>3
<1>5. ASSUME NEW v \in Workers, run'[v].pc \notin {"idle", "start"}
      PROVE  HasStarted(stream'[run'[v].job])
  <2>1. CASE v = w
    BY <1>4, <1>5, <2>1
  <2>2. CASE v # w
    <3>1. run'[v] = run[v] /\ run[v].job \in JobIds /\ HasStarted(stream[run[v].job])
      BY <1>3, <1>5, <2>2, RunTyped DEF Recorded
    <3> QED
      BY <3>1, StartedStays
  <2> QED
    BY <2>1, <2>2
<1>6. ASSUME NEW f \in Family, record'[f] # 0
      PROVE  \E i \in JobIds : jobs'[i].values[f] = record'[f] /\ HasStarted(stream'[i])
  <2>1. CASE record'[f] = record[f]
    <3>1. PICK i \in JobIds : jobs[i].values[f] = record[f] /\ HasStarted(stream[i])
      BY <1>6, <2>1 DEF Recorded
    <3> QED
      BY <1>2, <2>1, <3>1, StartedStays
  <2>2. CASE record'[f] # record[f]
    <3>1. record'[f] = jobs[j].values[f] /\ run[w].pc = "execute"
      BY <1>6, <2>2 DEF WorkerActs, TypeInv, EffectTypes, Values
    <3>2. HasStarted(stream[j])
      BY <3>1 DEF Recorded
    <3> QED
      BY <1>1, <1>2, <3>1, <3>2, StartedStays
  <2> QED
    BY <2>1, <2>2
<1> QED
  BY <1>2, <1>5, <1>6 DEF Recorded

LEMMA RecordedNext == TypeInv /\ Recorded /\ [Next]_vars => Recorded'
<1> SUFFICES ASSUME TypeInv, Recorded, [Next]_vars
             PROVE  Recorded'
  OBVIOUS
\* Steps that add jobs or edit one, and start or end runs at most.
<1>1. ASSUME \A i \in JobIds : /\ i \in JobIds' /\ jobs'[i].values = jobs[i].values
                               /\ stream'[i] = stream[i],
             \A v \in Workers : run'[v] = run[v] \/ run'[v].pc \in {"idle", "start"},
             UNCHANGED record
      PROVE  Recorded'
  <2>1. ASSUME NEW v \in Workers, run'[v].pc \notin {"idle", "start"}
        PROVE  HasStarted(stream'[run'[v].job])
    BY <1>1, <2>1, RunTyped DEF Recorded
  <2>2. ASSUME NEW f \in Family, record'[f] # 0
        PROVE  \E i \in JobIds' : jobs'[i].values[f] = record'[f] /\ HasStarted(stream'[i])
    BY <1>1, <2>2 DEF Recorded
  <2> QED
    BY <2>1, <2>2 DEF Recorded
<1>2. ASSUME NEW values \in Values, AddJob(values), UNCHANGED <<run, record>>
      PROVE  Recorded'
  BY <1>1, <1>2, AddActs
<1>3. CASE UNCHANGED vars
  BY <1>1, <1>3 DEF vars, effects, JobIds
<1>4. ASSUME NEW S \in SUBSET Family \ {{}}, Change(S)
      PROVE  Recorded'
  <2>1. CASE AddJob(device'.known)
    <3>1. device'.known \in Values
      BY <1>4, OwnerSteps DEF TypeInv, OwnerTypes
    <3> QED
      BY <1>2, <1>4, <2>1, <3>1 DEF Change
  <2>2. CASE UNCHANGED <<jobs, queue, stream, shown, sent>>
    BY <1>1, <1>4, <2>2 DEF Change, JobIds
  <2> QED
    BY <1>4, <2>1, <2>2 DEF Change
<1>5. ASSUME NEW m \in Manuals, ManualAdd(m)
      PROVE  Recorded'
  <2>1. manual[m] \in [pc : {"new", "add", "done"}, values : Values]
    BY DEF TypeInv, OwnerTypes
  <2> QED
    BY <1>2, <1>5, <2>1 DEF ManualAdd
<1>6. CASE \/ \E m \in Manuals : ManualLoad(m)
           \/ \E k \in ActionEdits : EditAction(k)
           \/ \E p \in Preferences : SetPreference(p)
  BY <1>1, <1>6 DEF ManualLoad, EditAction, SetPreference, effects, JobIds
<1>7. ASSUME NEW w \in Workers,
             WorkerStep(w) \/ ProviderFails(w) \/ AnswerLost(w) \/ StoreFails(w)
      PROVE  Recorded'
  BY <1>7, WorkerStepActs, RecordedWorker
<1>8. ASSUME NEW w \in Workers, Take(w)
      PROVE  Recorded'
  <2>1. PICK j \in JobIds : j = Head(queue)
    BY <1>8, TakeActs
  <2>2. /\ Edited(j) /\ run' = [run EXCEPT ![w] = run'[w]] /\ run'[w].pc = "start"
        /\ UNCHANGED effects
    BY <1>8, <2>1, TakeActs DEF IdleRun
  <2> QED
    BY <1>1, <2>2, EditedJobs DEF effects, TypeInv, RunTypes
<1>9. ASSUME NEW w \in Workers, Crash(w)
      PROVE  Recorded'
  BY <1>1, <1>9, IdleTyped DEF Crash, effects, JobIds, TypeInv, RunTypes
<1>10. ASSUME NEW j \in JobIds, BackoffElapses(j) \/ StalledCheck(j) \/ LockLost(j)
       PROVE  Recorded'
  <2>1. Edited(j) /\ UNCHANGED <<effects, run>>
    BY <1>10, BackoffActs, RequeueActs DEF StalledCheck, LockLost
  <2> QED
    BY <1>1, <2>1, EditedJobs DEF effects
<1> QED
  BY <1>3, <1>4, <1>5, <1>6, <1>7, <1>8, <1>9, <1>10 DEF Next

LEMMA InitAttempts == Init => AttemptInv
  BY DEF Init, AttemptInv, Bounded, Recorded, JobIds, IdleRun, Unknown

\* However often an execution fails, is retried, stalls or is run by a worker that
\* has lost its lock, it is started at most as often as configured, once more per
\* stall, and nothing reaches the provider before the stream tells of a start.
THEOREM AttemptsRecorded == Spec => []AttemptsAreRecorded
<1>1. TypeInv /\ AttemptInv /\ [Next]_vars => AttemptInv'
  BY BoundedNext, RecordedNext DEF AttemptInv
<1> QED
  BY <1>1, InitAttempts, AttemptsHold, TypeHolds, PTL DEF Spec

-----------------------------------------------------------------------------
(* One outcome.  While no worker crashes, loses its lock or finds a store    *)
(* down, and the action stays enabled, a job has one run at a time, so that  *)
(* run's progress says what stream, projection and mail server were told.    *)

StaysEnabled == ActionEdits \subseteq {"enable", "reconfigure"}
Quietly == FaultKinds \subseteq {"provider"} /\ StaysEnabled

\* What the owner has been told of job j agrees with its stream and preference.
Told(j) ==
  /\ Len(sent[j]) <= 1
  /\ \A i \in 1 .. Len(sent[j]) : sent[j][i] = Status(stream[j])
  /\ edits = 0 /\ preference = "all" => Len(sent[j]) = 1
  /\ edits = 0 /\ preference = "off" => sent[j] = <<>>

JobSettled(j) ==
  /\ Ended(j) => /\ Status(stream[j]) \in {"succeeded", "failed"}
                 /\ shown[j] = Status(stream[j]) /\ Told(j)
  /\ jobs[j].state \in {"waiting", "delayed"} => sent[j] = <<>>
  /\ jobs[j].state = "active" => run[jobs[j].runner].pc # "idle" /\ run[jobs[j].runner].job = j

\* The attempt is the last one of its execution.
Final(w) == run[w].outcome \in {"succeeded", "missing"} \/ IsFinal(w)

RunSettled(w) ==
  LET j == run[w].job IN
  run[w].pc # "idle" =>
    /\ jobs[j].runner = w /\ run[w].attempt = jobs[j].made + 1
    /\ run[w].seq \in {0, Len(stream[j]) + 1}
    /\ run[w].pc \in {"outcome", "reload", "project", "notify", "record", "end"} =>
         run[w].outcome # "none"
    /\ run[w].pc \in {"reload", "project", "notify", "record", "end"} =>
         Status(stream[j]) = Notified(w)
    /\ run[w].pc = "project" => run[w].view = Notified(w)
    /\ run[w].pc \in {"notify", "record", "end"} => shown[j] = Notified(w)
    /\ run[w].pc \in {"notify", "record"} => Final(w)
    /\ run[w].pc \notin {"record", "end"} => sent[j] = <<>>
    /\ run[w].pc = "record" => /\ sent[j] = <<Notified(w)>>
                               /\ edits = 0 => preference # "off"
    /\ run[w].pc = "end" => IF Final(w) THEN Told(j) ELSE sent[j] = <<>>

Settled ==
  /\ action.status = "enabled"
  /\ \A j \in JobIds : JobSettled(j)
  /\ \A w \in Workers : RunSettled(w)

LEMMA SettledHolds == TypeInv /\ Settled => OneOutcome
<1> SUFFICES ASSUME TypeInv, Settled, NEW j \in JobIds
             PROVE  /\ Len(sent[j]) <= 1
                    /\ Quiet => /\ Status(stream[j]) \in {"succeeded", "failed"}
                                /\ shown[j] = Status(stream[j])
                                /\ Told(j)
  BY DEF OneOutcome, Told
<1>1. jobs[j] \in Job /\ JobSettled(j)
  BY JobTyped DEF Settled
<1>2. CASE Ended(j)
  BY <1>1, <1>2 DEF JobSettled, Told
<1>3. CASE jobs[j].state \in {"waiting", "delayed"}
  BY <1>1, <1>3 DEF JobSettled, Quiet, Ended
<1>4. CASE jobs[j].state = "active"
  <2>1. PICK w \in Workers : w = jobs[j].runner
    BY <1>1, <1>4 DEF TypeInv, QueueTypes, Job
  <2>2. run[w].pc # "idle" /\ run[w].job = j /\ RunSettled(w) /\ run[w] \in Run
    BY <1>1, <1>4, <2>1, RunTyped DEF JobSettled, Settled
  <2>3. Len(sent[j]) <= 1
    <3>1. CASE run[w].pc = "end"
      <4>1. IF Final(w) THEN Told(j) ELSE sent[j] = <<>>
        BY <2>2, <3>1 DEF RunSettled
      <4> QED
        BY <4>1 DEF Told
    <3>2. CASE run[w].pc = "record"
      <4>1. sent[j] = <<Notified(w)>>
        BY <2>2, <3>2 DEF RunSettled
      <4> QED
        BY <4>1
    <3>3. CASE run[w].pc \notin {"record", "end"}
      <4>1. sent[j] = <<>>
        BY <2>2, <3>3 DEF RunSettled
      <4> QED
        BY <4>1
    <3> QED
      BY <3>1, <3>2, <3>3
  <2> QED
    BY <2>2, <2>3 DEF Quiet
<1> QED
  BY <1>1, <1>2, <1>3, <1>4 DEF Job, JobState, Ended

\* A run's step concerns its own job alone.
LEMMA OthersSettled ==
  ASSUME TypeInv, Settled, NEW w \in Workers, Busy(w), NEW j, j = run[w].job,
         UNCHANGED owner, JobIds' = JobIds, run' = [run EXCEPT ![w] = run'[w]],
         \A i \in JobIds : i # j => /\ jobs'[i] = jobs[i] /\ stream'[i] = stream[i]
                                    /\ shown'[i] = shown[i] /\ sent'[i] = sent[i],
         RunSettled(w)', JobSettled(j)'
  PROVE  Settled'
<1>1. /\ \A v \in Workers : v # w => run'[v] = run[v]
      /\ action' = action /\ edits' = edits /\ preference' = preference
  BY DEF TypeInv, RunTypes, owner
<1>2. ASSUME NEW v \in Workers, v # w
      PROVE  RunSettled(v)'
  <2>1. RunSettled(v) /\ run'[v] = run[v] /\ jobs[j].runner = w
    BY <1>1, <1>2 DEF Settled, RunSettled, Busy
  <2>2. CASE run[v].pc = "idle"
    BY <2>1, <2>2 DEF RunSettled
  <2>3. CASE run[v].pc # "idle"
    <3>1. run[v].job \in JobIds /\ run[v].job # j
      BY <1>2, <2>1, <2>3, RunTyped DEF RunSettled
    <3>2. /\ jobs'[run[v].job] = jobs[run[v].job] /\ stream'[run[v].job] = stream[run[v].job]
          /\ shown'[run[v].job] = shown[run[v].job] /\ sent'[run[v].job] = sent[run[v].job]
      BY <3>1
    <3> QED
      BY <1>1, <2>1, <3>2 DEF RunSettled, Notified, Final, IsFinal, Told
  <2> QED
    BY <2>2, <2>3
<1>3. ASSUME NEW i \in JobIds, i # j
      PROVE  JobSettled(i)'
  <2>1. /\ jobs'[i] = jobs[i] /\ stream'[i] = stream[i] /\ shown'[i] = shown[i] /\ sent'[i] = sent[i]
        /\ JobSettled(i) /\ jobs[i] \in Job
    BY <1>3, JobTyped DEF Settled
  <2>2. jobs[i].state = "active" => run'[jobs[i].runner] = run[jobs[i].runner]
    <3> SUFFICES ASSUME jobs[i].state = "active"
                 PROVE  run'[jobs[i].runner] = run[jobs[i].runner]
      OBVIOUS
    <3>1. jobs[i].runner \in Workers
      BY <2>1 DEF TypeInv, QueueTypes, Job
    <3>2. jobs[i].runner # w
      BY <1>3, <2>1 DEF JobSettled
    <3> QED
      BY <1>1, <3>1, <3>2
  <2> QED
    BY <1>1, <2>1, <2>2 DEF JobSettled, Ended, Told
<1>4. \A i \in JobIds' : JobSettled(i)'
  BY <1>3
<1>5. \A v \in Workers : RunSettled(v)'
  BY <1>2
<1> QED
  BY <1>1, <1>4, <1>5 DEF Settled

\* While the run goes on its job stays active.
LEMMA ContinuesSettled ==
  ASSUME TypeInv, Settled, NEW w \in Workers, Busy(w), Continues(w), UNCHANGED owner,
         \A i \in JobIds : i # run[w].job => /\ stream'[i] = stream[i]
                                             /\ shown'[i] = shown[i] /\ sent'[i] = sent[i],
         RunSettled(w)'
  PROVE  Settled'
<1> PICK j \in JobIds : j = run[w].job
  BY RunTyped DEF Busy
<1>1. jobs[j].runner = w /\ jobs[j].state = "active" /\ JobSettled(j)
  BY ActionExecutionAssumption DEF Busy, Settled, RunSettled, TypeInv, QueueTypes
<1>2. UNCHANGED jobs /\ run' = [run EXCEPT ![w] = run'[w]] /\ run'[w].pc # "idle" /\ run'[w].job = j
  BY DEF Continues
<1>3. JobSettled(j)'
  BY <1>1, <1>2 DEF JobSettled, Ended
<1> QED
  BY <1>2, <1>3, OthersSettled DEF JobIds

LEMMA GoFields ==
  ASSUME TypeInv, NEW w \in Workers, NEW pc, Go(w, pc)
  PROVE  run'[w] = [run[w] EXCEPT !.pc = pc, !.seq = 0]
  BY RunTyped DEF Go

\* Nobody else appends to the stream: the append is never refused.
LEMMA AppendSucceeds ==
  ASSUME TypeInv, Settled, NEW w \in Workers, Busy(w),
         NEW name \in {"started", "succeeded", "failed", "notified"}, NEW final \in BOOLEAN,
         NEW pc \in RunPc, pc # "idle", AppendExecutionEvent(w, name, final, pc)
  PROVE  LET j == run[w].job IN
         /\ Continues(w) /\ run'[w] = [run[w] EXCEPT !.pc = pc, !.seq = 0]
         /\ UNCHANGED <<owner, jobs, queue, shown, record, sent, faults>>
         /\ \A i \in JobIds : i # j => stream'[i] = stream[i]
         /\ Status(stream'[j]) = IF name = "notified" THEN Status(stream[j]) ELSE name
<1> DEFINE j == run[w].job
           e == [name |-> name, attempt |-> run[w].attempt, final |-> final]
<1>1. /\ j \in JobIds /\ stream[j] \in Seq(Event) /\ j \in DOMAIN stream /\ run[w] \in Run
  BY RunTyped, JobTyped DEF Busy
<1>2. run[w].seq # 0 /\ run[w].seq = Len(stream[j]) + 1
  BY DEF AppendExecutionEvent, Settled, RunSettled, Busy
<1>3. /\ stream' = [stream EXCEPT ![j] = Append(stream[j], e)]
      /\ Go(w, pc) /\ UNCHANGED <<owner, jobs, queue, shown, record, sent, faults>>
  BY <1>2 DEF AppendExecutionEvent
<1>4. e \in Event /\ e.name = name
  BY <1>1 DEF Event, Run
<1> HIDE DEF j, e
<1>5. stream'[j] = Append(stream[j], e) /\ \A i \in JobIds : i # j => stream'[i] = stream[i]
  BY <1>1, <1>3, JobTyped
<1>6. Status(stream'[j]) = IF name = "notified" THEN Status(stream[j]) ELSE name
  BY <1>1, <1>4, <1>5, StatusAppends
<1>7. Continues(w) /\ run'[w] = [run[w] EXCEPT !.pc = pc, !.seq = 0]
  BY <1>3, GoContinues, GoFields
<1> QED
  BY <1>3, <1>5, <1>6, <1>7 DEF j

\* The steps before the outcome is appended.
LEMMA EarlySettled ==
  ASSUME TypeInv, Settled, NEW w \in Workers,
         \/ NextSequence(w) \/ Started(w) \/ LoadAction(w)
         \/ \E f \in Family : Execute(w, f)
         \/ ProviderFails(w) \/ AnswerLost(w)
  PROVE  Settled'
<1>1. Busy(w)
  BY WorkerStepActs DEF WorkerActs, WorkerStep
<1> PICK j \in JobIds : j = run[w].job
  BY <1>1, RunTyped DEF Busy
<1>2. run[w] \in Run /\ run \in [Workers -> Run] /\ stream[j] \in Seq(Event) /\ RunSettled(w)
  BY RunTyped, JobTyped DEF Settled
\* Nothing but the run itself changes.
<1>3. ASSUME Continues(w), UNCHANGED <<owner, stream, shown, sent>>,
             run'[w].seq \in {0, Len(stream[j]) + 1},
             \/ run'[w].pc \in {"start", "load", "execute"} /\ run[w].pc \notin {"record", "end"}
             \/ /\ run'[w].pc = "outcome" /\ run'[w].outcome # "none"
                /\ run[w].pc \notin {"record", "end"}
             \/ run'[w] = [run[w] EXCEPT !.seq = run'[w].seq]
      PROVE  Settled'
  <2>1. run'[w].pc # "idle" /\ run'[w].job = j /\ run'[w].attempt = run[w].attempt /\ UNCHANGED jobs
    BY <1>3 DEF Continues
  <2>2. /\ UNCHANGED <<edits, preference>> /\ jobs'[j].runner = w /\ run'[w].attempt = jobs'[j].made + 1
    BY <1>1, <1>2, <1>3, <2>1 DEF owner, RunSettled, Busy
  <2>3. CASE run'[w].pc \in {"start", "load", "execute"} /\ run[w].pc \notin {"record", "end"}
    <3>1. RunSettled(w)'
      BY <1>1, <1>2, <1>3, <2>1, <2>2, <2>3 DEF RunSettled, Busy
    <3> QED
      BY <1>1, <1>3, <3>1, ContinuesSettled
  <2>4. CASE run'[w].pc = "outcome" /\ run'[w].outcome # "none" /\ run[w].pc \notin {"record", "end"}
    <3>1. RunSettled(w)'
      BY <1>1, <1>2, <1>3, <2>1, <2>2, <2>4 DEF RunSettled, Busy
    <3> QED
      BY <1>1, <1>3, <3>1, ContinuesSettled
  <2>5. CASE run'[w] = [run[w] EXCEPT !.seq = run'[w].seq]
    <3>1. /\ run'[w].pc = run[w].pc /\ run'[w].outcome = run[w].outcome
          /\ run'[w].view = run[w].view
      BY <1>2, <2>5 DEF Run
    <3>2. Notified(w)' = Notified(w) /\ Final(w)' = Final(w) /\ Told(j)' = Told(j)
      BY <1>3, <2>1, <2>2, <3>1 DEF Notified, Final, IsFinal, Told
    <3>3. RunSettled(w)'
      BY <1>1, <1>2, <1>3, <2>1, <2>2, <3>1, <3>2 DEF RunSettled, Busy
    <3> QED
      BY <1>1, <1>3, <3>3, ContinuesSettled
  <2> QED
    BY <1>3, <2>3, <2>4, <2>5
<1>4. CASE NextSequence(w)
  <2>1. /\ run' = [run EXCEPT ![w].seq = Len(stream[j]) + 1]
        /\ UNCHANGED <<owner, jobs, queue, effects, faults>>
    BY <1>4 DEF NextSequence
  <2>2. run'[w] = [run[w] EXCEPT !.seq = Len(stream[j]) + 1] /\ run'[w].seq = Len(stream[j]) + 1
    BY <1>2, <2>1 DEF Run
  <2>3. Continues(w)
    <3>1. Len(stream[j]) + 1 \in Nat
      BY <1>2, LenProperties
    <3> QED
      BY <1>1, <1>2, <2>1, <2>2, <3>1 DEF Continues, Run, Busy
  <2> QED
    BY <1>3, <2>1, <2>2, <2>3 DEF effects
<1>5. CASE Started(w)
  <2>1. run[w].pc = "start" /\ AppendExecutionEvent(w, "started", FALSE, "load")
    BY <1>5 DEF Started
  <2>2. /\ Continues(w) /\ run'[w] = [run[w] EXCEPT !.pc = "load", !.seq = 0]
        /\ UNCHANGED <<owner, jobs, queue, shown, record, sent, faults>>
        /\ \A i \in JobIds : i # j => stream'[i] = stream[i]
    BY <1>1, <2>1, AppendSucceeds DEF RunPc
  <2>3. /\ run'[w].pc = "load" /\ run'[w].seq = 0 /\ run'[w].job = j
        /\ run'[w].attempt = run[w].attempt
    BY <1>2, <2>2 DEF Run
  <2>4. RunSettled(w)'
    BY <1>1, <1>2, <2>1, <2>2, <2>3 DEF RunSettled, Busy
  <2> QED
    BY <1>1, <2>2, <2>4, ContinuesSettled
<1>6. CASE LoadAction(w)
  <2>1. /\ run[w].pc = "load" /\ action.status = "enabled" /\ UNCHANGED <<owner, queue, effects>>
    BY <1>6 DEF LoadAction, Settled
  <2>2. /\ UNCHANGED jobs
        /\ \/ run' = [run EXCEPT ![w].pc = "outcome", ![w].outcome = "missing"]
           \/ run' = [run EXCEPT ![w].pc = "execute", ![w].todo = action.families]
    BY <1>6, <2>1 DEF LoadAction
  <2>3. /\ run'[w].job = j /\ run'[w].attempt = run[w].attempt /\ run'[w].seq = run[w].seq
        /\ run' = [run EXCEPT ![w] = run'[w]]
        /\ \/ run'[w].pc = "outcome" /\ run'[w].outcome = "missing"
           \/ run'[w].pc = "execute"
    BY <1>2, <2>2 DEF Run
  <2>4. Continues(w)
    BY <1>6, <2>3, WorkerStepActs, EndsIdle, IdleTyped DEF WorkerActs, WorkerStep
  <2>5. run[w].seq \in {0, Len(stream[j]) + 1}
    BY <1>1, <1>2 DEF RunSettled, Busy
  <2> QED
    BY <1>3, <2>1, <2>3, <2>4, <2>5 DEF effects
<1>7. ASSUME NEW f \in Family, Execute(w, f)
      PROVE  Settled'
  <2>1. run[w].pc = "execute" /\ UNCHANGED <<owner, jobs, queue, stream, shown, sent>>
    BY <1>7 DEF Execute, Written
  <2>2. \/ run' = [run EXCEPT ![w].pc = "outcome", ![w].outcome = "succeeded", ![w].todo = {}]
        \/ run' = [run EXCEPT ![w].todo = run[w].todo \ {f}]
    BY <1>7 DEF Execute
  <2>3. /\ run'[w].job = j /\ run'[w].seq = run[w].seq
        /\ \/ run'[w].pc = "outcome" /\ run'[w].outcome = "succeeded"
           \/ run'[w].pc = "execute"
    BY <1>2, <2>1, <2>2 DEF Run
  <2>4. Continues(w)
    BY <1>7, <2>3, WorkerStepActs, EndsIdle, IdleTyped DEF WorkerActs, WorkerStep
  <2>5. run[w].seq \in {0, Len(stream[j]) + 1}
    BY <1>1, <1>2 DEF RunSettled, Busy
  <2> QED
    BY <1>3, <2>1, <2>3, <2>4, <2>5
<1>8. CASE ProviderFails(w) \/ AnswerLost(w)
  <2>1. run[w].pc = "execute" /\ Throw(w) /\ UNCHANGED <<owner, queue, stream, shown, sent>>
    BY <1>8 DEF ProviderFails, AnswerLost, Written, effects
  <2>2. /\ run' = [run EXCEPT ![w].pc = "outcome", ![w].seq = 0, ![w].outcome = "failed"]
        /\ UNCHANGED jobs
    BY <2>1 DEF Throw
  <2>3. run'[w].job = j /\ run'[w].seq = 0 /\ run'[w].pc = "outcome" /\ run'[w].outcome = "failed"
    BY <1>2, <2>2 DEF Run
  <2>4. Continues(w)
    BY <1>8, <2>3, WorkerStepActs, EndsIdle, IdleTyped DEF WorkerActs, WorkerStep
  <2> QED
    BY <1>3, <2>1, <2>3, <2>4
<1> QED
  BY <1>4, <1>5, <1>6, <1>7, <1>8

\* The steps from the outcome on.
LEMMA LateSettled ==
  ASSUME TypeInv, Settled, NEW w \in Workers,
         Outcome(w) \/ Reload(w) \/ Project(w) \/ Notify(w) \/ NotificationSent(w)
  PROVE  Settled'
<1>1. Busy(w)
  BY WorkerStepActs DEF WorkerActs, WorkerStep
<1> PICK j \in JobIds : j = run[w].job
  BY <1>1, RunTyped DEF Busy
<1>2. /\ run[w] \in Run /\ run \in [Workers -> Run] /\ stream[j] \in Seq(Event) /\ RunSettled(w)
      /\ j \in DOMAIN shown /\ j \in DOMAIN sent
  BY RunTyped, JobTyped DEF Settled
<1>3. CASE Outcome(w)
  <2> DEFINE name == Notified(w)
             final == IF run[w].outcome = "succeeded" THEN TRUE
                      ELSE run[w].outcome = "missing" \/ IsFinal(w)
  <2>1. run[w].pc = "outcome" /\ AppendExecutionEvent(w, name, final, "reload")
    BY <1>3 DEF Outcome, Notified
  <2>2. name \in {"succeeded", "failed"} /\ final \in BOOLEAN
    BY DEF Notified, IsFinal
  <2> HIDE DEF name, final
  <2>3. /\ Continues(w) /\ run'[w] = [run[w] EXCEPT !.pc = "reload", !.seq = 0]
        /\ UNCHANGED <<owner, jobs, queue, shown, record, sent, faults>>
        /\ \A i \in JobIds : i # j => stream'[i] = stream[i]
        /\ Status(stream'[j]) = name
    BY <1>1, <2>1, <2>2, AppendSucceeds DEF RunPc
  <2>4. /\ run'[w].pc = "reload" /\ run'[w].seq = 0 /\ run'[w].job = j
        /\ run'[w].attempt = run[w].attempt /\ run'[w].outcome = run[w].outcome
    BY <1>2, <2>3 DEF Run
  <2>5. Notified(w)' = name
    BY <2>4 DEF Notified, name
  <2>6. RunSettled(w)'
    BY <1>1, <1>2, <2>1, <2>3, <2>4, <2>5 DEF RunSettled, Busy
  <2> QED
    BY <1>1, <2>3, <2>6, ContinuesSettled
<1>4. CASE Reload(w)
  <2>1. /\ run[w].pc = "reload" /\ UNCHANGED <<owner, jobs, queue, effects, faults>>
        /\ run' = [run EXCEPT ![w].pc = "project", ![w].view = Status(stream[j])]
    BY <1>4 DEF Reload
  <2>2. /\ run'[w].pc = "project" /\ run'[w].seq = run[w].seq /\ run'[w].job = j
        /\ run'[w].attempt = run[w].attempt /\ run'[w].outcome = run[w].outcome
        /\ run'[w].view = Status(stream[j])
    BY <1>2, <2>1 DEF Run
  <2>3. Continues(w)
    BY <1>4, <2>2, WorkerStepActs, EndsIdle, IdleTyped DEF WorkerActs, WorkerStep
  <2>4. Notified(w)' = Notified(w)
    BY <2>2 DEF Notified
  <2>5. RunSettled(w)'
    BY <1>1, <1>2, <2>1, <2>2, <2>4 DEF RunSettled, Busy, effects
  <2> QED
    BY <1>1, <2>1, <2>3, <2>5, ContinuesSettled DEF effects
<1>5. CASE Project(w)
  <2> DEFINE pc == IF run[w].outcome = "failed" /\ ~IsFinal(w) THEN "end" ELSE "notify"
  <2>1. /\ run[w].pc = "project" /\ UNCHANGED <<owner, jobs, queue, stream, record, sent, faults>>
        /\ shown' = [shown EXCEPT ![j] = run[w].view] /\ Go(w, pc)
    BY <1>5 DEF Project
  <2>2. run'[w] = [run[w] EXCEPT !.pc = pc, !.seq = 0] /\ pc \in {"end", "notify"}
    BY <2>1, GoFields
  <2>3. /\ run'[w].pc = pc /\ run'[w].seq = 0 /\ run'[w].job = j
        /\ run'[w].attempt = run[w].attempt /\ run'[w].outcome = run[w].outcome
    BY <1>2, <2>2 DEF Run
  <2>4. Continues(w)
    BY <1>5, <2>2, <2>3, WorkerStepActs, EndsIdle, IdleTyped DEF WorkerActs, WorkerStep
  <2>5. Notified(w)' = Notified(w) /\ Final(w)' = Final(w)
    BY <2>3 DEF Notified, Final, IsFinal
  <2>6. /\ run[w].view = Notified(w) /\ run[w].outcome # "none" /\ Status(stream[j]) = Notified(w)
        /\ sent[j] = <<>> /\ jobs[j].runner = w /\ run[w].attempt = jobs[j].made + 1
    BY <1>1, <1>2, <2>1 DEF RunSettled, Busy
  <2>7. shown'[j] = Notified(w)
    BY <1>2, <2>1, <2>6
  <2>8. IF pc = "notify" THEN Final(w) ELSE ~Final(w)
    BY <1>2, <2>6 DEF Final, Run
  <2> HIDE DEF pc
  <2>9. RunSettled(w)'
    BY <2>1, <2>2, <2>3, <2>5, <2>6, <2>7, <2>8 DEF RunSettled
  <2>10. \A i \in JobIds : i # j => shown'[i] = shown[i]
    BY <2>1, JobTyped
  <2> QED
    BY <1>1, <2>1, <2>4, <2>9, <2>10, ContinuesSettled
<1>6. CASE Notify(w)
  <2>1. run[w].pc = "notify" /\ UNCHANGED <<owner, jobs, queue, stream, shown, record, faults>>
    BY <1>6 DEF Notify
  <2>2. /\ Status(stream[j]) = Notified(w) /\ shown[j] = Notified(w) /\ Final(w) /\ sent[j] = <<>>
        /\ jobs[j].runner = w /\ run[w].attempt = jobs[j].made + 1 /\ run[w].outcome # "none"
    BY <1>1, <1>2, <2>1 DEF RunSettled, Busy
  <2>3. Continues(w)
    BY <1>6, WorkerStepActs, EndsIdle, IdleTyped, GoContinues, <1>1, <2>1 DEF Notify, RunPc
  <2>4. CASE Wanted(Notified(w))
    <3>1. sent' = [sent EXCEPT ![j] = Append(sent[j], Notified(w))] /\ Go(w, "record")
      BY <1>6, <2>4 DEF Notify
    <3>2. run'[w] = [run[w] EXCEPT !.pc = "record", !.seq = 0]
      BY <3>1, GoFields
    <3>3. /\ run'[w].pc = "record" /\ run'[w].seq = 0 /\ run'[w].job = j
          /\ run'[w].attempt = run[w].attempt /\ run'[w].outcome = run[w].outcome
      BY <1>2, <3>2 DEF Run
    <3>4. Notified(w)' = Notified(w) /\ Final(w)' = Final(w)
      BY <3>3 DEF Notified, Final, IsFinal
    <3>5. sent'[j] = <<Notified(w)>> /\ \A i \in JobIds : i # j => sent'[i] = sent[i]
      BY <1>2, <2>2, <3>1, JobTyped
    <3>6. preference # "off" /\ preference' = preference
      BY <2>1, <2>4 DEF Wanted, owner
    <3>7. RunSettled(w)'
      BY <2>1, <2>2, <3>3, <3>4, <3>5, <3>6 DEF RunSettled
    <3> QED
      BY <1>1, <2>1, <2>3, <3>5, <3>7, ContinuesSettled
  <2>5. CASE ~Wanted(Notified(w))
    <3>1. UNCHANGED sent /\ Go(w, "end")
      BY <1>6, <2>5 DEF Notify
    <3>2. run'[w] = [run[w] EXCEPT !.pc = "end", !.seq = 0]
      BY <3>1, GoFields
    <3>3. /\ run'[w].pc = "end" /\ run'[w].seq = 0 /\ run'[w].job = j
          /\ run'[w].attempt = run[w].attempt /\ run'[w].outcome = run[w].outcome
      BY <1>2, <3>2 DEF Run
    <3>4. Notified(w)' = Notified(w) /\ Final(w)' = Final(w)
      BY <3>3 DEF Notified, Final, IsFinal
    <3>5. preference # "all" /\ preference' = preference
      BY <2>1, <2>5 DEF Wanted, owner
    <3>6. Told(j)'
      BY <2>2, <3>1, <3>5 DEF Told
    <3>7. RunSettled(w)'
      BY <2>1, <2>2, <3>1, <3>3, <3>4, <3>6 DEF RunSettled
    <3> QED
      BY <1>1, <2>1, <2>3, <3>1, <3>7, ContinuesSettled
  <2> QED
    BY <2>4, <2>5
<1>7. CASE NotificationSent(w)
  <2>1. run[w].pc = "record" /\ AppendExecutionEvent(w, "notified", FALSE, "end")
    BY <1>7 DEF NotificationSent
  <2>2. /\ Continues(w) /\ run'[w] = [run[w] EXCEPT !.pc = "end", !.seq = 0]
        /\ UNCHANGED <<owner, jobs, queue, shown, record, sent, faults>>
        /\ \A i \in JobIds : i # j => stream'[i] = stream[i]
        /\ Status(stream'[j]) = Status(stream[j])
    BY <1>1, <2>1, AppendSucceeds DEF RunPc
  <2>3. /\ run'[w].pc = "end" /\ run'[w].seq = 0 /\ run'[w].job = j
        /\ run'[w].attempt = run[w].attempt /\ run'[w].outcome = run[w].outcome
    BY <1>2, <2>2 DEF Run
  <2>4. Notified(w)' = Notified(w) /\ Final(w)' = Final(w)
    BY <2>3 DEF Notified, Final, IsFinal
  <2>5. /\ Status(stream[j]) = Notified(w) /\ shown[j] = Notified(w) /\ Final(w)
        /\ sent[j] = <<Notified(w)>> /\ (edits = 0 => preference # "off")
        /\ jobs[j].runner = w /\ run[w].attempt = jobs[j].made + 1 /\ run[w].outcome # "none"
    BY <1>1, <1>2, <2>1 DEF RunSettled, Busy
  <2>6. edits' = edits /\ preference' = preference
    BY <2>2 DEF owner
  <2>7. Told(j)'
    BY <2>2, <2>5, <2>6 DEF Told
  <2>8. RunSettled(w)'
    BY <2>2, <2>3, <2>4, <2>5, <2>7 DEF RunSettled
  <2> QED
    BY <1>1, <2>2, <2>8, ContinuesSettled
<1> QED
  BY <1>3, <1>4, <1>5, <1>6, <1>7

LEMMA EndSettled ==
  ASSUME TypeInv, Settled, NEW w \in Workers, End(w)
  PROVE  Settled'
<1>1. Busy(w) /\ run[w].pc = "end" /\ UNCHANGED <<owner, queue, effects>>
  BY DEF End, Busy
<1> PICK j \in JobIds : j = run[w].job
  BY <1>1, RunTyped DEF Busy
<1>2. /\ run[w] \in Run /\ RunSettled(w) /\ jobs[j] \in Job /\ jobs[j].runner = w
      /\ run[w].attempt = jobs[j].made + 1
      /\ Status(stream[j]) = Notified(w) /\ shown[j] = Notified(w) /\ run[w].outcome # "none"
      /\ IF Final(w) THEN Told(j) ELSE sent[j] = <<>>
  BY <1>1, RunTyped, JobTyped DEF Settled, RunSettled, Busy
<1>3. /\ run'[w] = IdleRun /\ run' = [run EXCEPT ![w] = run'[w]] /\ run'[w].pc = "idle"
  BY EndsIdle, IdleTyped DEF End
<1>4. /\ Edited(j)
      /\ \/ /\ run[w].outcome # "failed" /\ jobs'[j].state = "completed"
         \/ /\ run[w].outcome = "failed"
            /\ jobs'[j].state = IF jobs[j].made + 1 < Attempts THEN "delayed" ELSE "failed"
  <2>1. CASE run[w].outcome = "failed"
    <3>1. FailJob(w)
      BY <2>1 DEF End
    <3>2. jobs' = [jobs EXCEPT ![j].made = jobs[j].made + 1, ![j].runner = None,
                       ![j].state = IF jobs[j].made + 1 < Attempts THEN "delayed" ELSE "failed"]
      BY <1>2, <3>1 DEF FailJob
    <3>3. jobs'[j].state = IF jobs[j].made + 1 < Attempts THEN "delayed" ELSE "failed"
      BY <1>2, <3>2 DEF Job, TypeInv, QueueTypes, JobIds
    <3>4. Edited(j)
      BY <1>1, <1>2, <3>1, ResultActs
    <3> QED
      BY <2>1, <3>3, <3>4
  <2>2. CASE run[w].outcome # "failed"
    <3>1. CompleteJob(w)
      BY <2>2 DEF End
    <3>2. jobs' = [jobs EXCEPT ![j].state = "completed", ![j].runner = None]
      BY <1>2, <3>1 DEF CompleteJob
    <3>3. jobs'[j].state = "completed"
      BY <1>2, <3>2 DEF Job, TypeInv, QueueTypes, JobIds
    <3>4. Edited(j)
      BY <1>1, <1>2, <3>1, ResultActs
    <3> QED
      BY <2>2, <3>3, <3>4
  <2> QED
    BY <2>1, <2>2
<1>5. JobIds' = JobIds /\ \A i \in JobIds : i # j => jobs'[i] = jobs[i]
  BY <1>4, EditedJobs
<1>6. /\ stream' = stream /\ shown' = shown /\ sent' = sent
      /\ edits' = edits /\ preference' = preference
  BY <1>1 DEF effects, owner
<1>7. Told(j)' <=> Told(j)
  BY <1>6 DEF Told
<1>8. Status(stream[j]) \in {"succeeded", "failed"}
  BY <1>2 DEF Notified
<1>9. JobSettled(j)'
  <2>1. CASE run[w].outcome # "failed" /\ jobs'[j].state = "completed"
    <3>1. Told(j)'
      BY <1>2, <1>7, <2>1 DEF Final, Run
    <3> QED
      BY <1>2, <1>6, <1>8, <2>1, <3>1 DEF JobSettled, Ended
  <2>2. CASE /\ run[w].outcome = "failed" /\ jobs[j].made + 1 < Attempts
             /\ jobs'[j].state = "delayed"
    <3>1. jobs[j].made \in Nat /\ Attempts \in Nat
      BY <1>2, ActionExecutionAssumption DEF Job
    <3>2. ~Final(w)
      BY <1>2, <2>2, <3>1 DEF Final, IsFinal
    <3>3. sent[j] = <<>>
      BY <1>2, <3>2
    <3> QED
      BY <1>6, <2>2, <3>3 DEF JobSettled, Ended
  <2>3. CASE /\ run[w].outcome = "failed" /\ ~(jobs[j].made + 1 < Attempts)
             /\ jobs'[j].state = "failed"
    <3>1. jobs[j].made \in Nat /\ Attempts \in Nat
      BY <1>2, ActionExecutionAssumption DEF Job
    <3>2. Final(w)
      BY <1>2, <2>3, <3>1 DEF Final, IsFinal
    <3>3. Told(j)'
      BY <1>2, <1>7, <3>2
    <3> QED
      BY <1>2, <1>6, <1>8, <2>3, <3>3 DEF JobSettled, Ended
  <2> QED
    BY <1>4, <2>1, <2>2, <2>3
<1>10. RunSettled(w)'
  BY <1>3 DEF RunSettled
<1> QED
  BY <1>1, <1>3, <1>5, <1>6, <1>9, <1>10, OthersSettled

LEMMA TakeSettled ==
  ASSUME TypeInv, Settled, NEW w \in Workers, Take(w)
  PROVE  Settled'
<1>1. PICK j \in JobIds : j = Head(queue)
  BY TakeActs
<1>2. /\ jobs[j].state = "waiting" /\ Edited(j)
      /\ jobs'[j] = [jobs[j] EXCEPT !.state = "active", !.runner = w]
      /\ run[w].pc = "idle" /\ run' = [run EXCEPT ![w] = run'[w]]
      /\ run'[w] = [IdleRun EXCEPT !.pc = "start", !.job = j, !.attempt = jobs[j].made + 1]
      /\ UNCHANGED <<owner, effects>>
  BY <1>1, TakeActs
<1>3. /\ run'[w].pc = "start" /\ run'[w].job = j /\ run'[w].attempt = jobs[j].made + 1
      /\ run'[w].seq = 0
  BY <1>2 DEF IdleRun
<1>4. /\ jobs[j] \in Job /\ JobSettled(j) /\ sent[j] = <<>>
      /\ jobs'[j].state = "active" /\ jobs'[j].runner = w /\ jobs'[j].made = jobs[j].made
  BY <1>2, JobTyped DEF Settled, JobSettled, Job
<1>5. JobIds' = JobIds /\ \A i \in JobIds : i # j => jobs'[i] = jobs[i]
  BY <1>2, EditedJobs
<1>6. /\ stream' = stream /\ shown' = shown /\ sent' = sent /\ action' = action
      /\ edits' = edits /\ preference' = preference
  BY <1>2 DEF effects, owner
<1>7. \A v \in Workers : v # w => run'[v] = run[v]
  BY <1>2 DEF TypeInv, RunTypes
<1>8. ASSUME NEW i \in JobIds
      PROVE  JobSettled(i)'
  <2>1. CASE i = j
    BY <1>3, <1>4, <2>1 DEF JobSettled, Ended
  <2>2. CASE i # j
    <3>1. jobs'[i] = jobs[i] /\ JobSettled(i) /\ jobs[i] \in Job
      BY <1>5, <2>2, JobTyped DEF Settled
    <3>2. jobs[i].state = "active" => run'[jobs[i].runner] = run[jobs[i].runner]
      <4> SUFFICES ASSUME jobs[i].state = "active"
                   PROVE  run'[jobs[i].runner] = run[jobs[i].runner]
        OBVIOUS
      <4>1. jobs[i].runner \in Workers /\ jobs[i].runner # w
        BY <1>2, <3>1 DEF TypeInv, QueueTypes, Job, JobSettled
      <4> QED
        BY <1>7, <4>1
    <3> QED
      BY <1>6, <3>1, <3>2 DEF JobSettled, Ended, Told
  <2> QED
    BY <2>1, <2>2
<1>9. ASSUME NEW v \in Workers
      PROVE  RunSettled(v)'
  <2>1. CASE v = w
    <3>1. /\ run'[v].pc = "start" /\ run'[v].job = j /\ run'[v].attempt = jobs'[j].made + 1
          /\ run'[v].seq = 0 /\ jobs'[j].runner = v /\ sent'[j] = <<>>
      BY <1>3, <1>4, <1>6, <2>1
    <3> QED
      BY <3>1 DEF RunSettled
  <2>2. CASE v # w /\ run[v].pc = "idle"
    BY <1>7, <2>2 DEF RunSettled
  <2>3. CASE v # w /\ run[v].pc # "idle"
    <3>1. run'[v] = run[v] /\ RunSettled(v) /\ run[v].job \in JobIds
      BY <1>7, <2>3, RunTyped DEF Settled
    <3>2. jobs[j].runner = None
      BY <1>2 DEF TypeInv, QueueTypes
    <3>3. jobs'[run[v].job] = jobs[run[v].job]
      BY <1>5, <2>3, <3>1, <3>2, ActionExecutionAssumption DEF RunSettled
    <3> QED
      BY <1>6, <3>1, <3>3 DEF RunSettled, Notified, Final, IsFinal, Told
  <2> QED
    BY <2>1, <2>2, <2>3
<1> QED
  BY <1>5, <1>6, <1>8, <1>9 DEF Settled

\* A job's state may change as long as nobody runs it.
LEMMA BackoffSettled ==
  ASSUME TypeInv, Settled, NEW j \in JobIds, BackoffElapses(j)
  PROVE  Settled'
<1>1. /\ Edited(j) /\ jobs[j].state = "delayed" /\ UNCHANGED <<owner, effects, run>>
      /\ jobs'[j] = [jobs[j] EXCEPT !.state = "waiting"]
  BY BackoffActs
<1>2. JobIds' = JobIds /\ \A i \in JobIds : i # j => jobs'[i] = jobs[i]
  BY <1>1, EditedJobs
<1>3. /\ stream' = stream /\ shown' = shown /\ sent' = sent /\ action' = action
      /\ edits' = edits /\ preference' = preference
  BY <1>1 DEF effects, owner
<1>4. jobs'[j].state = "waiting" /\ sent[j] = <<>> /\ jobs[j].runner = None
  BY <1>1, JobTyped DEF Settled, JobSettled, Job, TypeInv, QueueTypes
<1>5. ASSUME NEW i \in JobIds
      PROVE  JobSettled(i)'
  <2>1. CASE i = j
    BY <1>3, <1>4, <2>1 DEF JobSettled, Ended
  <2>2. CASE i # j
    <3>1. jobs'[i] = jobs[i] /\ JobSettled(i)
      BY <1>2, <2>2 DEF Settled
    <3> QED
      BY <1>1, <1>3, <3>1 DEF JobSettled, Ended, Told
  <2> QED
    BY <2>1, <2>2
<1>6. ASSUME NEW v \in Workers
      PROVE  RunSettled(v)'
  <2>1. CASE run[v].pc = "idle"
    BY <1>1, <2>1 DEF RunSettled
  <2>2. CASE run[v].pc # "idle"
    <3>1. RunSettled(v) /\ run[v].job \in JobIds
      BY <2>2, RunTyped DEF Settled
    <3>2. jobs'[run[v].job] = jobs[run[v].job]
      BY <1>2, <1>4, <2>2, <3>1, ActionExecutionAssumption DEF RunSettled
    <3> QED
      BY <1>1, <1>3, <3>1, <3>2 DEF RunSettled, Notified, Final, IsFinal, Told
  <2> QED
    BY <2>1, <2>2
<1> QED
  BY <1>2, <1>3, <1>5, <1>6 DEF Settled

\* The owner's steps: jobs, runs and effects stay; an edit ends every promise
\* about the preference.
LEMMA OwnerSettled ==
  ASSUME TypeInv, Settled, UNCHANGED <<jobs, run, stream, shown, sent>>, action'.status = "enabled",
         UNCHANGED preference \/ edits' # 0, edits' = 0 => edits = 0
  PROVE  Settled'
<1>1. ASSUME NEW i \in JobIds, Told(i)
      PROVE  Told(i)'
  BY <1>1 DEF Told
<1>2. ASSUME NEW i \in JobIds
      PROVE  JobSettled(i)'
  <2>1. JobSettled(i) /\ (Told(i) => Told(i)')
    BY <1>1 DEF Settled
  <2> QED
    BY <2>1 DEF JobSettled, Ended
<1>3. ASSUME NEW v \in Workers
      PROVE  RunSettled(v)'
  <2>1. CASE run[v].pc = "idle"
    BY <2>1 DEF RunSettled
  <2>2. CASE run[v].pc # "idle"
    <3>1. PICK i \in JobIds : i = run[v].job
      BY <2>2, RunTyped
    <3>2. RunSettled(v) /\ (Told(i) => Told(i)')
      BY <1>1 DEF Settled
    <3>3. Notified(v)' = Notified(v) /\ Final(v)' = Final(v)
      BY DEF Notified, Final, IsFinal
    <3> QED
      BY <2>2, <3>1, <3>2, <3>3 DEF RunSettled
  <2> QED
    BY <2>1, <2>2
<1> QED
  BY <1>2, <1>3 DEF Settled, JobIds

LEMMA AddSettled ==
  ASSUME TypeInv, Settled, NEW values \in Values, AddJob(values),
         UNCHANGED <<run, action, edits, preference>>
  PROVE  Settled'
<1>1. ASSUME NEW i \in JobIds
      PROVE  JobSettled(i)'
  <2>1. /\ jobs'[i] = jobs[i] /\ stream'[i] = stream[i] /\ shown'[i] = shown[i] /\ sent'[i] = sent[i]
        /\ JobSettled(i)
    BY AddActs DEF Settled
  <2> QED
    BY <2>1 DEF JobSettled, Ended, Told
<1>2. ASSUME NEW n, n = Len(jobs) + 1
      PROVE  JobSettled(n)'
  <2>1. /\ sent'[n] = <<>>
        /\ jobs'[n] = [state |-> "waiting", values |-> values, made |-> 0,
                       runner |-> None, stalls |-> 0]
    BY <1>2, AddActs
  <2> QED
    BY <2>1 DEF JobSettled, Ended
<1>3. ASSUME NEW v \in Workers
      PROVE  RunSettled(v)'
  <2>1. CASE run[v].pc = "idle"
    BY <2>1 DEF RunSettled
  <2>2. CASE run[v].pc # "idle"
    <3>1. PICK i \in JobIds : i = run[v].job
      BY <2>2, RunTyped
    <3>2. /\ jobs'[i] = jobs[i] /\ stream'[i] = stream[i] /\ shown'[i] = shown[i] /\ sent'[i] = sent[i]
          /\ RunSettled(v)
      BY AddActs DEF Settled
    <3> QED
      BY <2>2, <3>1, <3>2 DEF RunSettled, Notified, Final, IsFinal, Told
  <2> QED
    BY <2>1, <2>2
<1>4. JobIds' = JobIds \cup {Len(jobs) + 1}
  BY AddActs
<1> QED
  BY <1>1, <1>2, <1>3, <1>4 DEF Settled

LEMMA HarmlessFaults ==
  ASSUME TypeInv, NEW k, Fault(k), FaultKinds \subseteq {"provider"} \/ faults' = 0
  PROVE  k = "provider"
  BY DEF Fault, TypeInv, OwnerTypes

LEMMA SettledNext ==
  ASSUME StaysEnabled, TypeInv, Settled, [Next]_vars,
         FaultKinds \subseteq {"provider"} \/ faults' = 0
  PROVE  Settled'
<1>1. CASE UNCHANGED vars
  BY <1>1, OwnerSettled DEF vars, owner, effects, Settled
<1>2. ASSUME NEW S \in SUBSET Family \ {{}}, Change(S)
      PROVE  Settled'
  <2>1. AddJob(device'.known) /\ UNCHANGED <<run, action, edits, preference>>
    BY <1>2 DEF Change, Settled
  <2>2. device'.known \in Values
    BY <1>2, OwnerSteps DEF TypeInv, OwnerTypes
  <2> QED
    BY <2>1, <2>2, AddSettled
<1>3. ASSUME NEW m \in Manuals, ManualAdd(m)
      PROVE  Settled'
  <2>1. manual[m] \in [pc : {"new", "add", "done"}, values : Values]
    BY DEF TypeInv, OwnerTypes
  <2> QED
    BY <1>3, <2>1, AddSettled DEF ManualAdd
<1>4. ASSUME NEW m \in Manuals, ManualLoad(m)
      PROVE  Settled'
  BY <1>4, OwnerSettled DEF ManualLoad, effects, Settled
<1>5. ASSUME NEW k \in ActionEdits, EditAction(k)
      PROVE  Settled'
  <2>1. k \in {"enable", "reconfigure"} /\ edits \in Nat
    BY DEF StaysEnabled, TypeInv, OwnerTypes
  <2>2. action \in [status : {"enabled", "disabled", "detached"}, families : SUBSET Family \ {{}}]
        /\ action.status = "enabled"
    BY DEF TypeInv, OwnerTypes, Settled
  <2>3. action'.status = "enabled"
    BY <1>5, <2>1, <2>2 DEF EditAction
  <2> QED
    BY <1>5, <2>1, <2>3, OwnerSettled DEF EditAction, effects
<1>6. ASSUME NEW p \in Preferences, SetPreference(p)
      PROVE  Settled'
  <2>1. edits \in Nat
    BY DEF TypeInv, OwnerTypes
  <2> QED
    BY <1>6, <2>1, OwnerSettled DEF SetPreference, effects, Settled
<1>7. ASSUME NEW w \in Workers, WorkerStep(w)
      PROVE  Settled'
  BY <1>7, EarlySettled, LateSettled, EndSettled DEF WorkerStep
<1>8. ASSUME NEW w \in Workers, ProviderFails(w) \/ AnswerLost(w)
      PROVE  Settled'
  BY <1>8, EarlySettled
<1>9. ASSUME NEW w \in Workers, Take(w)
      PROVE  Settled'
  BY <1>9, TakeSettled
<1>10. ASSUME NEW j \in JobIds, BackoffElapses(j)
       PROVE  Settled'
  BY <1>10, BackoffSettled
<1>11. ASSUME NEW j \in JobIds, StalledCheck(j)
       PROVE  FALSE
  BY <1>11 DEF StalledCheck, Settled, JobSettled
<1>12. ASSUME NEW j \in JobIds, LockLost(j)
       PROVE  FALSE
  BY <1>12, HarmlessFaults DEF LockLost
<1>13. ASSUME NEW w \in Workers, StoreFails(w) \/ Crash(w)
       PROVE  FALSE
  BY <1>13, HarmlessFaults DEF StoreFails, Crash
<1> QED
  BY <1>1, <1>2, <1>3, <1>4, <1>5, <1>6, <1>7, <1>8, <1>9, <1>10, <1>11, <1>12, <1>13 DEF Next

\* Whatever the provider does and however often it is retried, an execution that
\* has ended has one final outcome, the projection shows it, and the owner was told
\* of it at most once and as the preference asks: with any number of workers, as
\* long as none crashes, loses a lock or finds a store down, and the action is
\* neither disabled nor detached while its executions run.
THEOREM OutcomeIsOne ==
  ASSUME Quietly
  PROVE  Spec => []OneOutcome
<1>1. Init => Settled
  BY DEF Init, Settled, RunSettled, IdleRun, JobIds
<1>2. TypeInv /\ Settled /\ [Next]_vars => Settled'
  BY SettledNext DEF Quietly
<1> QED
  BY <1>1, <1>2, SettledHolds, TypeHolds, PTL DEF Spec

-----------------------------------------------------------------------------
(* The record is recent.  While no job loses its lock to a worker that is    *)
(* still alive, only executions that have not ended write, so whatever comes *)
(* after the newest change's own addresses comes from one that was not over  *)
(* when it was fanned out, or from a later one.                              *)

Undisturbed == "lock" \notin FaultKinds /\ "reconfigure" \notin ActionEdits

\* Who runs a job holds it.
Held == \A w \in Workers : Busy(w) => jobs[run[w].job].state = "active" /\ jobs[run[w].job].runner = w

\* The newest change's execution carries what the device knows, and every
\* earlier one was open then or is over.
LatestKnown ==
  latest.job # 0 =>
    /\ latest.job \in JobIds /\ latest.open \subseteq JobIds
    /\ jobs[latest.job].values = device.known
    /\ \A i \in JobIds : i < latest.job => i \in latest.open \/ Ended(i)

Recent(f) ==
  record[f] # device.known[f] => \E j \in OpenOrLater : record[f] = jobs[j].values[f]

\* The attempt that w is making has written the addresses of family f.
HasWritten(w, f) ==
  \/ run[w].pc = "execute" /\ f \notin run[w].todo
  \/ run[w].pc = "outcome" /\ run[w].outcome = "succeeded"

Succeeded(j) == Status(stream[j]) = "succeeded"

RecentInv ==
  latest.job # 0 =>
    /\ Succeeded(latest.job) => \A f \in action.families : Recent(f)
    /\ \A w \in Workers : run[w].job = latest.job =>
         \A f \in action.families : HasWritten(w, f) => Recent(f)

LEMMA ThrowWrites ==
  ASSUME TypeInv, NEW w \in Workers, Throw(w), NEW f
  PROVE  ~HasWritten(w, f)'
<1>1. run[w] \in Run /\ run \in [Workers -> Run]
  BY RunTyped
<1>2. CASE run' = [run EXCEPT ![w].pc = "outcome", ![w].seq = 0, ![w].outcome = "failed"]
  BY <1>1, <1>2 DEF HasWritten, Run
<1>3. CASE Go(w, "end")
  <2>1. run'[w] = [run[w] EXCEPT !.pc = "end", !.seq = 0]
    BY <1>3, GoFields
  <2>2. run'[w].pc = "end"
    BY <1>1, <2>1 DEF Run
  <2> QED
    BY <2>2 DEF HasWritten
<1>4. CASE FailJob(w)
  BY <1>1, <1>4, IdleTyped DEF HasWritten, FailJob
<1> QED
  BY <1>2, <1>3, <1>4 DEF Throw

\* A step of an attempt has written what it had, or writes it now; and a stream
\* tells of a success only once everything is written.
LEMMA WorkerWrites ==
  ASSUME TypeInv, NEW w \in Workers, Busy(w), NEW j \in JobIds, j = run[w].job,
         WorkerStep(w) \/ ProviderFails(w) \/ AnswerLost(w) \/ StoreFails(w)
  PROVE  /\ \A f \in action.families :
              HasWritten(w, f)' => HasWritten(w, f) \/ record' = [record EXCEPT ![f] = jobs[j].values[f]]
         /\ Succeeded(j)' => Succeeded(j) \/ \A f \in action.families : HasWritten(w, f)
<1> DEFINE Goal == /\ \A f \in action.families :
                        HasWritten(w, f)' => HasWritten(w, f) \/ record' = [record EXCEPT ![f] = jobs[j].values[f]]
                   /\ Succeeded(j)' => Succeeded(j) \/ \A f \in action.families : HasWritten(w, f)
<1> SUFFICES Goal
  OBVIOUS
<1>1. /\ run[w] \in Run /\ run \in [Workers -> Run]
      /\ stream[j] \in Seq(Event) /\ j \in DOMAIN stream
  BY RunTyped, JobTyped
<1>2. ASSUME UNCHANGED stream, \A f \in action.families : ~HasWritten(w, f)'
      PROVE  Goal
  BY <1>2 DEF Succeeded
<1>3. ASSUME NEW name \in {"started", "succeeded", "failed", "notified"}, NEW final \in BOOLEAN,
             NEW pc \in {"load", "reload", "end"}, AppendExecutionEvent(w, name, final, pc),
             name = "succeeded" => run[w].pc = "outcome" /\ run[w].outcome = "succeeded"
      PROVE  Goal
  <2>1. CASE run[w].seq = Len(stream[j]) + 1
    <3> DEFINE e == [name |-> name, attempt |-> run[w].attempt, final |-> final]
    <3>1. stream' = [stream EXCEPT ![j] = Append(stream[j], e)] /\ Go(w, pc)
      BY <1>3, <2>1 DEF AppendExecutionEvent
    <3>2. e \in Event /\ e.name = name
      BY <1>1 DEF Event, Run
    <3> HIDE DEF e
    <3>3. stream'[j] = Append(stream[j], e)
      BY <1>1, <3>1
    <3>4. Succeeded(j)' => Succeeded(j) \/ name = "succeeded"
      BY <1>1, <3>2, <3>3, StatusAppends DEF Succeeded
    <3>5. run'[w] = [run[w] EXCEPT !.pc = pc, !.seq = 0]
      BY <3>1, GoFields
    <3>6. run'[w].pc = pc
      BY <1>1, <3>5 DEF Run
    <3> QED
      BY <1>3, <3>4, <3>6 DEF HasWritten
  <2>2. CASE run[w].seq # Len(stream[j]) + 1
    BY <1>2, <1>3, <2>2, ThrowWrites DEF AppendExecutionEvent
  <2> QED
    BY <2>1, <2>2
<1>4. CASE NextSequence(w)
  <2>1. /\ run' = [run EXCEPT ![w].seq = Len(stream[j]) + 1] /\ UNCHANGED stream
    BY <1>4 DEF NextSequence, effects
  <2>2. /\ run'[w].pc = run[w].pc /\ run'[w].outcome = run[w].outcome /\ run'[w].todo = run[w].todo
    BY <1>1, <2>1 DEF Run
  <2> QED
    BY <2>1, <2>2 DEF HasWritten, Succeeded
<1>5. CASE Started(w)
  BY <1>3, <1>5 DEF Started
<1>6. CASE LoadAction(w)
  <2>1. UNCHANGED stream
    BY <1>6 DEF LoadAction, effects
  <2>2. CASE run' = [run EXCEPT ![w].pc = "outcome", ![w].outcome = "missing"]
    <3>1. run'[w].pc = "outcome" /\ run'[w].outcome = "missing"
      BY <1>1, <2>2 DEF Run
    <3> QED
      BY <1>2, <2>1, <3>1 DEF HasWritten
  <2>3. CASE run' = [run EXCEPT ![w].pc = "execute", ![w].todo = action.families]
    <3>1. run'[w].pc = "execute" /\ run'[w].todo = action.families
      BY <1>1, <2>3 DEF Run
    <3> QED
      BY <1>2, <2>1, <3>1 DEF HasWritten
  <2>4. CASE CompleteJob(w)
    BY <1>1, <1>2, <2>1, <2>4, IdleTyped DEF HasWritten, CompleteJob
  <2> QED
    BY <1>6, <2>2, <2>3, <2>4 DEF LoadAction
<1>7. ASSUME NEW f \in Family, Execute(w, f)
      PROVE  Goal
  <2>1. /\ run[w].pc = "execute" /\ UNCHANGED stream
        /\ record' = [record EXCEPT ![f] = jobs[j].values[f]]
    BY <1>7 DEF Execute, Written
  <2>2. ASSUME NEW g \in action.families, HasWritten(w, g)', g # f
        PROVE  HasWritten(w, g)
    <3>1. CASE run[w].todo = {f}
      BY <2>1, <2>2, <3>1 DEF HasWritten
    <3>2. CASE run[w].todo # {f}
      <4>1. run' = [run EXCEPT ![w].todo = run[w].todo \ {f}]
        BY <1>7, <3>2 DEF Execute
      <4>2. run'[w].pc = "execute" /\ run'[w].todo = run[w].todo \ {f}
        BY <1>1, <2>1, <4>1 DEF Run
      <4> QED
        BY <2>1, <2>2, <4>2 DEF HasWritten
    <3> QED
      BY <3>1, <3>2
  <2> QED
    BY <2>1, <2>2 DEF Succeeded
<1>8. CASE Outcome(w)
  BY <1>3, <1>8 DEF Outcome, IsFinal
<1>9. CASE NotificationSent(w)
  BY <1>3, <1>9 DEF NotificationSent
<1>10. CASE Reload(w)
  <2>1. run' = [run EXCEPT ![w].pc = "project", ![w].view = Status(stream[j])] /\ UNCHANGED stream
    BY <1>10 DEF Reload, effects
  <2>2. run'[w].pc = "project"
    BY <1>1, <2>1 DEF Run
  <2> QED
    BY <1>2, <2>1, <2>2 DEF HasWritten
<1>11. CASE Project(w) \/ Notify(w)
  <2>1. PICK pc \in {"end", "notify", "record"} : Go(w, pc) /\ UNCHANGED stream
    BY <1>11 DEF Project, Notify
  <2>2. run'[w] = [run[w] EXCEPT !.pc = pc, !.seq = 0]
    BY <2>1, GoFields
  <2>3. run'[w].pc = pc
    BY <1>1, <2>2 DEF Run
  <2> QED
    BY <1>2, <2>1, <2>3 DEF HasWritten
<1>12. CASE End(w)
  BY <1>1, <1>2, <1>12, IdleTyped DEF End, CompleteJob, FailJob, HasWritten, effects
<1>13. CASE ProviderFails(w) \/ AnswerLost(w) \/ StoreFails(w)
  BY <1>2, <1>13, ThrowWrites DEF ProviderFails, AnswerLost, StoreFails, effects
<1> QED
  BY <1>4, <1>5, <1>6, <1>7, <1>8, <1>9, <1>10, <1>11, <1>12, <1>13 DEF WorkerStep

\* A job is run by the worker that holds it, and by nobody else.
LEMMA HeldNext ==
  ASSUME Undisturbed, TypeInv, Held, [Next]_vars
  PROVE  Held'
<1>1. ASSUME NEW v \in Workers, run[v].pc # "idle", run'[v].job = run[v].job,
             jobs'[run[v].job] = jobs[run[v].job]
      PROVE  Busy(v)' => jobs'[run'[v].job].state = "active" /\ jobs'[run'[v].job].runner = v
  BY <1>1 DEF Held, Busy
<1>2. ASSUME UNCHANGED <<jobs, run>>
      PROVE  Held'
  BY <1>2 DEF Held, Busy
<1>3. ASSUME NEW values \in Values, AddJob(values), UNCHANGED run
      PROVE  Held'
  <2>1. \A v \in Workers : Busy(v) => run[v].job \in JobIds
    BY RunTyped DEF Busy
  <2> QED
    BY <1>3, <2>1, AddActs DEF Held, Busy
<1>4. ASSUME NEW j \in JobIds, Edited(j), UNCHANGED run, \A v \in Workers : Busy(v) => run[v].job # j
      PROVE  Held'
  <2>1. \A v \in Workers : Busy(v) => run[v].job \in JobIds
    BY RunTyped DEF Busy
  <2> QED
    BY <1>4, <2>1, EditedJobs DEF Held, Busy
<1>5. CASE \/ UNCHANGED vars
           \/ \E m \in Manuals : ManualLoad(m)
           \/ \E k \in ActionEdits : EditAction(k)
           \/ \E p \in Preferences : SetPreference(p)
  BY <1>2, <1>5 DEF vars, ManualLoad, EditAction, SetPreference
<1>6. ASSUME NEW S \in SUBSET Family \ {{}}, Change(S)
      PROVE  Held'
  <2>1. device'.known \in Values
    BY <1>6, OwnerSteps DEF TypeInv, OwnerTypes
  <2> QED
    BY <1>2, <1>3, <1>6, <2>1 DEF Change
<1>7. ASSUME NEW m \in Manuals, ManualAdd(m)
      PROVE  Held'
  <2>1. manual[m] \in [pc : {"new", "add", "done"}, values : Values]
    BY DEF TypeInv, OwnerTypes
  <2> QED
    BY <1>3, <1>7, <2>1 DEF ManualAdd
<1>8. ASSUME NEW w \in Workers, Take(w)
      PROVE  Held'
  <2>1. PICK j \in JobIds : j = Head(queue)
    BY <1>8, TakeActs
  <2>2. /\ jobs[j].state = "waiting" /\ Edited(j) /\ run' = [run EXCEPT ![w] = run'[w]]
        /\ run'[w].job = j
        /\ jobs'[j] = [jobs[j] EXCEPT !.state = "active", !.runner = w]
    BY <1>8, <2>1, TakeActs DEF IdleRun
  <2>3. jobs'[j].state = "active" /\ jobs'[j].runner = w
    BY <2>2, JobTyped DEF Job
  <2>4. ASSUME NEW v \in Workers, v # w, Busy(v)'
        PROVE  jobs'[run'[v].job].state = "active" /\ jobs'[run'[v].job].runner = v
    <3>1. run'[v] = run[v] /\ Busy(v) /\ run[v].job \in JobIds
      BY <2>2, <2>4, RunTyped DEF Busy
    <3>2. run[v].job # j
      BY <2>2, <3>1 DEF Held
    <3> QED
      BY <2>2, <3>1, <3>2, EditedJobs DEF Held
  <2> QED
    BY <2>2, <2>3, <2>4 DEF Held
<1>9. ASSUME NEW w \in Workers, Crash(w)
      PROVE  Held'
  BY <1>9, IdleTyped DEF Crash, Held, Busy, TypeInv, RunTypes
<1>10. ASSUME NEW j \in JobIds, BackoffElapses(j) \/ StalledCheck(j)
       PROVE  Held'
  <2>1. Edited(j) /\ UNCHANGED run
    BY <1>10, BackoffActs, RequeueActs DEF StalledCheck
  <2>2. CASE BackoffElapses(j)
    <3>1. jobs[j].state = "delayed"
      BY <2>2, BackoffActs
    <3>2. \A v \in Workers : Busy(v) => run[v].job # j
      BY <3>1 DEF Held
    <3> QED
      BY <1>4, <2>1, <3>2
  <2>3. CASE StalledCheck(j)
    <3>1. \A v \in Workers : Busy(v) => run[v].job # j
      BY <2>3 DEF StalledCheck, Held
    <3> QED
      BY <1>4, <2>1, <3>1
  <2> QED
    BY <1>10, <2>2, <2>3
<1>11. ASSUME NEW j \in JobIds, LockLost(j)
       PROVE  FALSE
  BY <1>11 DEF LockLost, Fault, Undisturbed
<1>12. ASSUME NEW w \in Workers, WorkerStep(w) \/ ProviderFails(w) \/ AnswerLost(w) \/ StoreFails(w)
       PROVE  Held'
  <2>1. WorkerActs(w) /\ Busy(w)
    BY <1>12, WorkerStepActs DEF WorkerActs
  <2>2. CASE Continues(w)
    BY <2>1, <2>2, RunTyped DEF Continues, Held, Busy
  <2>3. CASE CompleteJob(w) \/ FailJob(w)
    <3>1. run' = [run EXCEPT ![w] = IdleRun]
      BY <2>3 DEF CompleteJob, FailJob
    <3>2. PICK j \in JobIds : j = run[w].job
      BY <2>1, RunTyped DEF Busy
    <3>3. \/ UNCHANGED jobs
          \/ Edited(j) /\ jobs[j].runner = w
      BY <2>1, <2>3, <3>2, ResultActs DEF WorkerActs
    <3>4. ASSUME NEW v \in Workers, Busy(v)'
          PROVE  jobs'[run'[v].job].state = "active" /\ jobs'[run'[v].job].runner = v
      <4>1. v # w /\ run'[v] = run[v] /\ Busy(v) /\ run[v].job \in JobIds
        BY <3>1, <3>4, IdleTyped, RunTyped DEF Busy
      <4>2. run[v].job # j \/ UNCHANGED jobs
        BY <3>3, <4>1 DEF Held
      <4> QED
        BY <3>3, <4>1, <4>2, EditedJobs DEF Held
    <3> QED
      BY <3>4 DEF Held
  <2> QED
    BY <2>1, <2>2, <2>3 DEF WorkerActs
<1> QED
  BY <1>5, <1>6, <1>7, <1>8, <1>9, <1>10, <1>11, <1>12 DEF Next

\* What the newest change left open stays the only exception.
LEMMA LatestStays ==
  ASSUME TypeInv, TypeInv', LatestKnown, JobsStay, UNCHANGED <<latest, device>>
  PROVE  LatestKnown'
<1> SUFFICES ASSUME latest.job # 0
             PROVE  LatestKnown'
  BY DEF LatestKnown
<1>1. JobIds = 1 .. Len(jobs) /\ JobIds' = 1 .. Len(jobs') /\ Len(jobs) \in Nat /\ Len(jobs') \in Nat
  BY LenProperties DEF TypeInv, QueueTypes, JobIds
<1>2. latest.job \in JobIds /\ latest.open \subseteq JobIds /\ JobIds \subseteq JobIds'
  BY DEF LatestKnown, JobsStay
<1>3. ASSUME NEW i \in JobIds', i < latest.job
      PROVE  i \in latest.open \/ Ended(i)'
  <2>1. i \in JobIds
    BY <1>1, <1>2, <1>3
  <2> QED
    BY <1>3, <2>1 DEF LatestKnown, JobsStay
<1>4. jobs'[latest.job].values = device.known
  BY <1>2 DEF LatestKnown, JobsStay
<1> QED
  BY <1>2, <1>3, <1>4 DEF LatestKnown

LEMMA RecentStays ==
  ASSUME JobsStay, UNCHANGED <<latest, device>>, LatestKnown, latest.job # 0,
         NEW f \in Family, record'[f] = record[f], Recent(f)
  PROVE  Recent(f)'
  BY DEF JobsStay, LatestKnown, Recent, OpenOrLater

\* Whoever has not ended may write.
LEMMA WritesRecent ==
  ASSUME TypeInv, JobsStay, UNCHANGED <<latest, device>>, LatestKnown, latest.job # 0,
         NEW j \in JobIds, ~Ended(j), NEW f \in Family, record'[f] = jobs[j].values[f]
  PROVE  Recent(f)'
<1>1. j \in Nat /\ latest.job \in Nat /\ latest.job \in JobIds
  BY JobTyped DEF LatestKnown
<1>2. j \in OpenOrLater \/ j = latest.job
  BY <1>1 DEF LatestKnown, OpenOrLater
<1>3. CASE j = latest.job
  BY <1>3 DEF LatestKnown, Recent
<1>4. CASE j \in OpenOrLater
  <2>1. j \in OpenOrLater' /\ jobs'[j].values = jobs[j].values
    BY <1>4 DEF OpenOrLater, JobsStay
  <2> QED
    BY <2>1 DEF Recent
<1> QED
  BY <1>2, <1>3, <1>4

LEMMA WorkerRecent ==
  ASSUME TypeInv, Held, LatestKnown, RecentInv, JobsStay, NEW w \in Workers,
         WorkerStep(w) \/ ProviderFails(w) \/ AnswerLost(w) \/ StoreFails(w)
  PROVE  RecentInv'
<1>1. WorkerActs(w) /\ Busy(w) /\ UNCHANGED <<latest, device, action>>
  BY WorkerStepActs DEF WorkerActs, owner
<1> SUFFICES ASSUME latest.job # 0
             PROVE  RecentInv'
  BY <1>1 DEF RecentInv
<1>2. PICK j \in JobIds : j = run[w].job
  BY <1>1, RunTyped DEF Busy
<1>3. /\ action.families \subseteq Family /\ ~Ended(j) /\ latest.job \in JobIds
      /\ record \in [Family -> Address]
  BY <1>1, <1>2 DEF Held, Ended, LatestKnown, TypeInv, OwnerTypes, EffectTypes, Values
<1>4. \A f \in Family : record'[f] = record[f] \/ record'[f] = jobs[j].values[f]
  BY <1>1, <1>2, <1>3 DEF WorkerActs
<1>5. ASSUME NEW f \in action.families, Recent(f)
      PROVE  Recent(f)'
  BY <1>1, <1>3, <1>4, <1>5, RecentStays, WritesRecent
<1>6. /\ \A f \in action.families :
           HasWritten(w, f)' => HasWritten(w, f) \/ record' = [record EXCEPT ![f] = jobs[j].values[f]]
      /\ Succeeded(j)' => Succeeded(j) \/ \A f \in action.families : HasWritten(w, f)
  BY <1>1, <1>2, WorkerWrites
<1>7. ASSUME NEW i \in JobIds, i # j
      PROVE  stream'[i] = stream[i]
  BY <1>1, <1>2, <1>7, JobTyped DEF WorkerActs, Silent, Records
<1>8. /\ \A v \in Workers : v # w => run'[v] = run[v]
      /\ run'[w].pc = "idle" \/ run'[w].job = j
  BY <1>1, <1>2, EndsIdle, IdleTyped, RunTyped DEF WorkerActs, Continues, CompleteJob, FailJob
<1>9. ASSUME Succeeded(latest.job)', NEW f \in action.families
      PROVE  Recent(f)'
  <2>1. CASE latest.job = j
    <3>1. Succeeded(j)'
      BY <1>1, <1>9, <2>1 DEF Succeeded
    <3>2. Recent(f)
      BY <1>2, <1>6, <2>1, <3>1 DEF RecentInv
    <3> QED
      BY <1>5, <3>2
  <2>2. CASE latest.job # j
    BY <1>1, <1>3, <1>5, <1>7, <1>9, <2>2 DEF RecentInv, Succeeded
  <2> QED
    BY <2>1, <2>2
<1>10. ASSUME NEW v \in Workers, run'[v].job = latest.job, NEW f \in action.families, HasWritten(v, f)'
       PROVE  Recent(f)'
  <2>1. CASE v # w
    BY <1>5, <1>8, <1>10, <2>1 DEF RecentInv, HasWritten
  <2>2. CASE v = w
    <3>1. latest.job = j
      BY <1>8, <1>10, <2>2 DEF HasWritten
    <3>2. CASE HasWritten(w, f)
      BY <1>2, <1>5, <3>1, <3>2 DEF RecentInv
    <3>3. CASE record' = [record EXCEPT ![f] = jobs[j].values[f]]
      <4>1. f \in Family /\ record'[f] = jobs[j].values[f]
        BY <1>3, <3>3
      <4> QED
        BY <1>1, <1>3, <4>1, WritesRecent
    <3> QED
      BY <1>6, <1>10, <2>2, <3>2, <3>3
  <2> QED
    BY <2>1, <2>2
<1>11. Succeeded(latest.job)' => \A f \in action.families : Recent(f)'
  BY <1>9
<1>12. \A v \in Workers : run'[v].job = latest.job =>
         \A f \in action.families : HasWritten(v, f)' => Recent(f)'
  BY <1>10
<1> QED
  BY <1>1, <1>11, <1>12 DEF RecentInv, Succeeded

LEMMA ChangeRecent ==
  ASSUME TypeInv, TypeInv', JobsStay, NEW S \in SUBSET Family \ {{}}, Change(S)
  PROVE  LatestKnown' /\ RecentInv'
<1>1. CASE action.status # "enabled"
  BY <1>1 DEF Change, LatestKnown, RecentInv
<1>2. CASE action.status = "enabled"
  <2>1. PICK n : n = Len(jobs) + 1
    OBVIOUS
  <2>2. /\ AddJob(device'.known) /\ UNCHANGED run
        /\ latest' = [job |-> n, open |-> {j \in JobIds : ~Ended(j)}]
    BY <1>2, <2>1 DEF Change
  <2>3. PICK values \in Values : values = device'.known
    BY DEF TypeInv, OwnerTypes
  <2>4. /\ JobIds' = JobIds \cup {n} /\ n \notin JobIds /\ stream'[n] = <<>>
        /\ jobs'[n] = [state |-> "waiting", values |-> values, made |-> 0,
                       runner |-> None, stalls |-> 0]
    BY <2>1, <2>2, <2>3, AddActs
  <2>5. latest'.job = n /\ latest'.open = {j \in JobIds : ~Ended(j)} /\ jobs'[n].values = device'.known
    BY <2>2, <2>3, <2>4
  <2>6. \A i \in JobIds' : i < n => i \in latest'.open \/ Ended(i)'
    <3>1. n \in Nat
      BY <2>1, LenProperties DEF TypeInv, QueueTypes
    <3> QED
      BY <2>4, <2>5, <3>1 DEF JobsStay
  <2>7. LatestKnown'
    BY <2>4, <2>5, <2>6 DEF LatestKnown
  <2>8. ~Succeeded(n)'
    BY <2>4 DEF Succeeded, Status
  <2>9. ASSUME NEW v \in Workers, run'[v].job = n, NEW f
        PROVE  ~HasWritten(v, f)'
    <3>1. run[v].pc = "idle"
      BY <2>2, <2>4, <2>9, RunTyped
    <3> QED
      BY <2>2, <3>1 DEF HasWritten
  <2>10. RecentInv'
    BY <2>5, <2>8, <2>9 DEF RecentInv, Succeeded
  <2> QED
    BY <2>7, <2>10
<1> QED
  BY <1>1, <1>2

LEMMA RecentNext ==
  ASSUME Undisturbed, TypeInv, TypeInv', Held, LatestKnown, RecentInv, [Next]_vars
  PROVE  LatestKnown' /\ RecentInv'
<1>1. JobsStay
  BY JobsStayed
<1>2. ASSUME NEW S \in SUBSET Family \ {{}}, Change(S)
      PROVE  LatestKnown' /\ RecentInv'
  BY <1>1, <1>2, ChangeRecent
<1> SUFFICES ASSUME UNCHANGED <<latest, device>>
             PROVE  LatestKnown' /\ RecentInv'
  BY <1>2, LatestKept
<1>3. LatestKnown'
  BY <1>1, LatestStays
\* Every step but a worker's leaves streams and record alone, and writes nothing.
<1>4. ASSUME UNCHANGED record, action'.families = action.families,
             \A i \in JobIds : stream'[i] = stream[i],
             \A v \in Workers : run'[v] = run[v] \/ run'[v].pc \in {"idle", "start"}
      PROVE  RecentInv'
  <2> SUFFICES ASSUME latest.job # 0
               PROVE  RecentInv'
    BY DEF RecentInv
  <2>1. latest.job \in JobIds /\ action.families \subseteq Family
    BY DEF LatestKnown, TypeInv, OwnerTypes
  <2>2. \A f \in action.families : Recent(f) => Recent(f)'
    BY <1>1, <1>4, <2>1, RecentStays
  <2>3. Succeeded(latest.job)' => Succeeded(latest.job)
    BY <1>4, <2>1 DEF Succeeded
  <2>4. ASSUME NEW v \in Workers, run'[v].job = latest.job, NEW f \in action.families, HasWritten(v, f)'
        PROVE  run[v].job = latest.job /\ HasWritten(v, f)
    BY <1>4, <2>4 DEF HasWritten
  <2>5. Succeeded(latest.job)' => \A f \in action.families : Recent(f)'
    BY <2>2, <2>3 DEF RecentInv
  <2>6. \A v \in Workers : run'[v].job = latest.job =>
          \A f \in action.families : HasWritten(v, f)' => Recent(f)'
    BY <2>2, <2>4 DEF RecentInv
  <2> QED
    BY <1>4, <2>5, <2>6 DEF RecentInv, Succeeded
<1>5. CASE UNCHANGED vars
  <2>1. UNCHANGED <<record, action, stream, run>>
    BY <1>5 DEF vars, owner, effects
  <2>2. /\ action'.families = action.families /\ \A i \in JobIds : stream'[i] = stream[i]
        /\ \A v \in Workers : run'[v] = run[v]
    BY <2>1
  <2> QED
    BY <1>3, <1>4, <2>1, <2>2
<1>6. ASSUME NEW m \in Manuals, ManualAdd(m)
      PROVE  RecentInv'
  <2>1. manual[m] \in [pc : {"new", "add", "done"}, values : Values]
    BY DEF TypeInv, OwnerTypes
  <2>2. \A i \in JobIds : stream'[i] = stream[i]
    BY <1>6, <2>1, AddActs DEF ManualAdd
  <2> QED
    BY <1>4, <1>6, <2>2 DEF ManualAdd
<1>7. CASE \/ \E m \in Manuals : ManualLoad(m)
           \/ \E p \in Preferences : SetPreference(p)
  <2>1. UNCHANGED <<record, action, stream, run>>
    BY <1>7 DEF ManualLoad, SetPreference, effects
  <2>2. /\ action'.families = action.families /\ \A i \in JobIds : stream'[i] = stream[i]
        /\ \A v \in Workers : run'[v] = run[v]
    BY <2>1
  <2> QED
    BY <1>3, <1>4, <2>1, <2>2
<1>8. ASSUME NEW k \in ActionEdits, EditAction(k)
      PROVE  RecentInv'
  <2>1. k # "reconfigure" /\ UNCHANGED <<effects, run>>
    BY <1>8 DEF Undisturbed, EditAction
  <2>2. action'.families = action.families
    BY <1>8, <2>1 DEF EditAction, TypeInv, OwnerTypes
  <2> QED
    BY <1>4, <2>1, <2>2 DEF effects
<1>9. ASSUME NEW w \in Workers, Take(w)
      PROVE  RecentInv'
  <2>1. /\ run' = [run EXCEPT ![w] = run'[w]] /\ run'[w].pc = "start" /\ UNCHANGED <<owner, effects>>
    BY <1>9, TakeActs DEF IdleRun
  <2> QED
    BY <1>4, <2>1 DEF owner, effects, TypeInv, RunTypes
<1>10. ASSUME NEW w \in Workers, Crash(w)
       PROVE  RecentInv'
  BY <1>4, <1>10, IdleTyped DEF Crash, owner, effects, TypeInv, RunTypes
<1>11. ASSUME NEW j \in JobIds, BackoffElapses(j) \/ StalledCheck(j) \/ LockLost(j)
       PROVE  RecentInv'
  BY <1>4, <1>11 DEF BackoffElapses, StalledCheck, LockLost, owner, effects
<1>12. ASSUME NEW w \in Workers, WorkerStep(w) \/ ProviderFails(w) \/ AnswerLost(w) \/ StoreFails(w)
       PROVE  RecentInv'
  BY <1>1, <1>12, WorkerRecent
<1> QED
  BY <1>2, <1>3, <1>5, <1>6, <1>7, <1>8, <1>9, <1>10, <1>11, <1>12 DEF Next

\* Once the newest change has been executed, an older address is at the provider
\* only through an execution that had not ended when the change was fanned out,
\* or one asked for since: at any number of workers, changes and manual runs, with
\* failing providers and stores, crashes, stalls and retries, and an action that is
\* enabled, disabled or detached.  Two things are left out: a worker that goes on
\* after its job lost the lock, and an action whose families are changed.
THEOREM RecordStaysRecent ==
  ASSUME "lock" \notin FaultKinds, "reconfigure" \notin ActionEdits
  PROVE  Spec => []RecordIsRecent
<1>1. Undisturbed
  BY DEF Undisturbed
<1>2. Init => Held /\ LatestKnown /\ RecentInv
  BY DEF Init, Held, LatestKnown, RecentInv, Busy, IdleRun
<1>3. TypeInv /\ TypeInv' /\ Held /\ LatestKnown /\ RecentInv /\ [Next]_vars
        => Held' /\ LatestKnown' /\ RecentInv'
  BY <1>1, HeldNext, RecentNext
<1>4. RecentInv => RecordIsRecent
  BY DEF RecentInv, RecordIsRecent, Recent, Succeeded
<1> QED
  BY <1>2, <1>3, <1>4, TypeHolds, PTL DEF Spec
=============================================================================
