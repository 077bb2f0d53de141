------------------------- MODULE IpSettlementProofs -------------------------
(***************************************************************************)
(* Type correctness of IpSettlement, the optimistic-concurrency invariant  *)
(* it rests on, that no change is skipped while nothing fails, what        *)
(* ChangeLog promises, and that IpSettlement implements it.                *)
(***************************************************************************)
EXTENDS IpSettlement, TLAPS

-----------------------------------------------------------------------------
(* Type correctness. *)

LEMMA ResolveType ==
  ASSUME NEW report \in Values, NEW known \in Values
  PROVE  Resolve(report, known) \in Values
BY DEF Resolve, Values

LEMMA RecordTypes ==
  /\ Unknown \in Values
  /\ IdleRun \in Run
  /\ NoJob \in Job /\ DelayedJob \in Job
  /\ NoJob.state # "active" /\ NoJob.runner = None
  /\ DelayedJob.state # "active" /\ DelayedJob.runner = None
BY DEF Unknown, Values, IdleRun, Run, RunPc, NoJob, DelayedJob, Job, JobState

LEMMA RequeueType ==
  ASSUME job \in Job, Requeue
  PROVE  job' \in Job /\ (job'.state = "active" <=> job'.runner # None)
<1>1. CASE job.stalls < MaxStalled
  <2>1. job.stalls + 1 \in Nat
    BY DEF Job
  <2>2. QED
    BY <1>1, <2>1 DEF Requeue, Job, JobState
<1>2. CASE ~(job.stalls < MaxStalled)
  BY <1>2, RecordTypes DEF Requeue, JobAfterEnd
<1>3. QED
  BY <1>1, <1>2

LEMMA TypeInit == Init => TypeOK
BY IpSettlementAssumption, RecordTypes
   DEF Init, TypeOK, Device, Status, View, Execution, Request, RequestPc, Edit, EditPc

LEMMA TypeNext == TypeOK /\ [Next]_vars => TypeOK'
<1> SUFFICES ASSUME TypeOK, [Next]_vars
             PROVE  TypeOK'
  OBVIOUS
<1>device. device \in Device
  BY DEF TypeOK
<1>requests. requests \in [Requests -> Request]
  BY DEF TypeOK
<1>edits. edits \in [Edits -> Edit]
  BY DEF TypeOK
<1>run. run \in [Workers -> Run]
  BY DEF TypeOK
<1>job. job \in Job /\ (job.state = "active" <=> job.runner # None)
  BY DEF TypeOK
<1>consts. None \notin Workers /\ MaxFaults \in Nat
  BY IpSettlementAssumption
<1>1. ASSUME NEW r \in Requests, RequestLoad(r)
       PROVE  TypeOK'
  <2>1. requests' \in [Requests -> Request]
    BY <1>1, <1>requests, <1>device DEF RequestLoad, Request, RequestPc,
       Reports, Device
  <2>2. QED
    BY <1>1, <2>1 DEF RequestLoad, TypeOK, flow
<1>2. ASSUME NEW r \in Requests, RequestAppend(r)
       PROVE  TypeOK'
  <2>1. requests' \in [Requests -> Request]
    BY <1>2, <1>requests DEF RequestAppend, Request, RequestPc
  <2>2. requests[r].report \in Values /\ device.version + 1 \in Nat
    BY <1>requests, <1>device DEF Request, Device
  <2>3. device' \in Device
    BY <1>2, <2>2, <1>device DEF RequestAppend, Device
  <2>4. QED
    BY <1>2, <2>1, <2>2, <2>3 DEF RequestAppend, TypeOK, flow
<1>3. ASSUME NEW r \in Requests, RequestSchedule(r)
       PROVE  TypeOK'
  <2>1. requests' \in [Requests -> Request]
    BY <1>3, <1>requests DEF RequestSchedule, Request, RequestPc
  <2>2. job' \in Job /\ (job'.state = "active" <=> job'.runner # None)
    BY <1>3, <1>job, RecordTypes DEF RequestSchedule, AddDebounceJob, Job,
       JobState
  <2>3. QED
    BY <1>3, <2>1, <2>2 DEF RequestSchedule, TypeOK
<1>4. ASSUME NEW r \in Requests, RequestLosesSchedule(r)
       PROVE  TypeOK'
  <2>1. requests' \in [Requests -> Request]
    BY <1>4, <1>requests DEF RequestLosesSchedule, Request, RequestPc
  <2>2. faults' \in 0 .. MaxFaults
    BY <1>4, <1>consts DEF RequestLosesSchedule, TypeOK
  <2>3. QED
    BY <1>4, <2>1, <2>2 DEF RequestLosesSchedule, TypeOK, flow
<1>5. ASSUME NEW e \in Edits, EditLoad(e)
       PROVE  TypeOK'
  <2>1. PICK k \in EditKinds :
         edits' = [edits EXCEPT ![e] =
           IF k # "prefer" /\ device.status = "decommissioned"
             THEN [@ EXCEPT !.pc = "done"]
             ELSE [@ EXCEPT !.pc = "append", !.version = device.version,
                            !.kind = k]]
    BY <1>5 DEF EditLoad
  <2>2. edits[e] \in Edit /\ device.version \in Nat
    BY <1>edits, <1>device DEF Device
  <2>3. [edits[e] EXCEPT !.pc = "done"] \in Edit
    BY <2>2 DEF Edit, EditPc
  <2>4. [edits[e] EXCEPT !.pc = "append", !.version = device.version, !.kind = k]
         \in Edit
    BY <2>2 DEF Edit, EditPc
  <2>5. edits' \in [Edits -> Edit]
    BY <2>1, <2>3, <2>4, <1>edits
  <2>6. QED
    BY <1>5, <2>1, <2>2, <2>3, <2>4, <2>5 DEF EditLoad, TypeOK, flow
<1>6. ASSUME NEW e \in Edits, EditAppend(e)
       PROVE  TypeOK'
  <2>1. StatusAfter(edits[e].kind, device.status) \in Status
    BY <1>device DEF StatusAfter, Status, Device
  <2>2. edits' \in [Edits -> Edit]
    BY <1>6, <1>edits DEF EditAppend, Edit, EditPc
  <2>3. device.version + 1 \in Nat
    BY <1>device DEF Device
  <2>4. device' \in Device
    BY <1>6, <2>1, <2>3, <1>device DEF EditAppend, Device
  <2>5. QED
    BY <1>6, <2>1, <2>2, <2>3, <2>4 DEF EditAppend, TypeOK, flow
<1>7. ASSUME NEW e \in Edits, EditReload(e)
       PROVE  TypeOK'
  <2>1. [status |-> device.status, known |-> device.known] \in View
    BY <1>device DEF Device, View
  <2>2. edits' \in [Edits -> Edit]
    BY <1>7, <2>1, <1>edits DEF EditReload, Edit, EditPc
  <2>3. QED
    BY <1>7, <2>1, <2>2 DEF EditReload, TypeOK, flow
<1>8. ASSUME NEW e \in Edits, EditProject(e)
       PROVE  TypeOK'
  <2>1. edits' \in [Edits -> Edit] /\ view' \in View
    BY <1>8, <1>edits DEF EditProject, Edit, EditPc
  <2>2. QED
    BY <1>8, <2>1 DEF EditProject, TypeOK, flow
<1>9. ASSUME NEW a \in Actions, ToggleAction(a)
       PROVE  TypeOK'
  BY <1>9 DEF ToggleAction, TypeOK, flow
<1>10. ASSUME DelayElapses
       PROVE  TypeOK'
  <2>1. job' \in Job /\ (job'.state = "active" <=> job'.runner # None)
    BY <1>10, <1>job DEF DelayElapses, Job, JobState
  <2>2. QED
    BY <1>10, <2>1 DEF DelayElapses, TypeOK
<1>11. ASSUME NEW w \in Workers, Take(w)
       PROVE  TypeOK'
  <2>1. job' \in Job /\ (job'.state = "active" <=> job'.runner # None)
    BY <1>11, <1>job, <1>consts DEF Take, Job, JobState
  <2>2. run' \in [Workers -> Run]
    BY <1>11, <1>run DEF Take, Run, RunPc
  <2>3. QED
    BY <1>11, <2>1, <2>2 DEF Take, TypeOK
<1>12. ASSUME NEW w \in Workers, Load(w)
       PROVE  TypeOK'
  <2>1. Resolve(device.report, device.known) \in Values
    BY <1>device, ResolveType DEF Device
  <2>2. run' \in [Workers -> Run]
    BY <1>12, <2>1, <1>run, <1>device, RecordTypes DEF Load, EndRun, Run,
       RunPc, Device
  <2>3. job' \in Job /\ (job'.state = "active" <=> job'.runner # None)
    BY <1>12, <1>job, RecordTypes DEF Load, EndRun, JobAfterEnd
  <2>4. QED
    BY <1>12, <2>1, <2>2, <2>3 DEF Load, TypeOK
<1>13. ASSUME NEW w \in Workers, AppendChange(w)
       PROVE  TypeOK'
  <2>1. changes \in Seq(Values) /\ run[w].values \in Values
    BY <1>run DEF Run, TypeOK
  <2>2. Len(changes) + 1 \in Nat /\ Append(changes, run[w].values) \in Seq(Values)
    BY <2>1
  <2>3. [run[w] EXCEPT !.pc = "project", !.change = Len(changes) + 1] \in Run
    BY <2>2, <1>run DEF Run, RunPc
  <2>4. run' \in [Workers -> Run]
    BY <1>13, <2>3, <1>run, RecordTypes DEF AppendChange, EndRun
  <2>5. device.version + 1 \in Nat
    BY <1>device DEF Device
  <2>6. device' \in Device
    BY <1>13, <2>1, <2>5, <1>device DEF AppendChange, Device
  <2>7. job' \in Job /\ (job'.state = "active" <=> job'.runner # None)
    BY <1>13, <1>job, RecordTypes DEF AppendChange, EndRun, JobAfterEnd
  <2>8. QED
    BY <1>13, <2>1, <2>2, <2>3, <2>4, <2>5, <2>6, <2>7 DEF AppendChange, TypeOK
<1>14. ASSUME NEW w \in Workers, Project(w)
       PROVE  TypeOK'
  <2>1. run' \in [Workers -> Run]
    BY <1>14, <1>run DEF Project, Run, RunPc
  <2>2. view' \in View
    BY <1>14, <1>run DEF Project, Run, View, Status
  <2>3. QED
    BY <1>14, <2>1, <2>2 DEF Project, TypeOK
<1>15. ASSUME NEW w \in Workers, Announce(w)
       PROVE  TypeOK'
  <2>1. run' \in [Workers -> Run]
    BY <1>15, <1>run DEF Announce, Run, RunPc
  <2>2. announced' \subseteq Nat
    BY <1>15, <1>run DEF Announce, Run, TypeOK
  <2>3. QED
    BY <1>15, <2>1, <2>2 DEF Announce, TypeOK
<1>16. ASSUME NEW w \in Workers, NEW a \in Actions, FanOut(w, a)
       PROVE  TypeOK'
  <2>1. run' \in [Workers -> Run]
    BY <1>16, <1>run DEF FanOut, Run
  <2>2. jobs' \subseteq Execution
    BY <1>16, <1>run DEF FanOut, Enqueue, Execution, Run, TypeOK
  <2>3. skipped' \subseteq Nat \X Actions
    BY <1>16, <1>run DEF FanOut, Run, TypeOK
  <2>4. QED
    BY <1>16, <2>1, <2>2, <2>3 DEF FanOut, TypeOK
<1>17. ASSUME NEW w \in Workers, Finish(w)
       PROVE  TypeOK'
  <2>1. run' \in [Workers -> Run] /\ job' \in Job /\ (job'.state = "active" <=> job'.runner # None)
    BY <1>17, <1>run, <1>job, RecordTypes DEF Finish, EndRun, JobAfterEnd
  <2>2. QED
    BY <1>17, <2>1 DEF Finish, TypeOK
<1>18. ASSUME NEW w \in Workers, RunThrows(w)
       PROVE  TypeOK'
  <2>1. run' \in [Workers -> Run] /\ job' \in Job /\ (job'.state = "active" <=> job'.runner # None)
    BY <1>18, <1>run, <1>job, RecordTypes DEF RunThrows, EndRun, JobAfterEnd
  <2>2. faults' \in 0 .. MaxFaults
    BY <1>18, <1>consts DEF RunThrows, TypeOK
  <2>3. QED
    BY <1>18, <2>1, <2>2 DEF RunThrows, TypeOK
<1>19. ASSUME NEW w \in Workers, RunCrashes(w)
       PROVE  TypeOK'
  <2>1. run' \in [Workers -> Run]
    BY <1>19, <1>run, RecordTypes DEF RunCrashes
  <2>2. faults' \in 0 .. MaxFaults
    BY <1>19, <1>consts DEF RunCrashes, TypeOK
  <2>3. QED
    BY <1>19, <2>1, <2>2 DEF RunCrashes, TypeOK
<1>20. ASSUME StalledCheck
       PROVE  TypeOK'
  <2>1. job' \in Job /\ (job'.state = "active" <=> job'.runner # None)
    BY <1>20, <1>job, RequeueType DEF StalledCheck
  <2>2. QED
    BY <1>20, <2>1 DEF StalledCheck, TypeOK
<1>21. ASSUME LockLost
       PROVE  TypeOK'
  <2>1. job' \in Job /\ (job'.state = "active" <=> job'.runner # None)
    BY <1>21, <1>job, RequeueType DEF LockLost
  <2>2. faults' \in 0 .. MaxFaults
    BY <1>21, <1>consts DEF LockLost, TypeOK
  <2>3. QED
    BY <1>21, <2>1, <2>2 DEF LockLost, TypeOK
<1>22. CASE UNCHANGED vars
  BY <1>22 DEF vars, TypeOK
<1>23. QED
  BY <1>1, <1>2, <1>3, <1>4, <1>5, <1>6, <1>7, <1>8, <1>9, <1>10, <1>11,
     <1>12, <1>13, <1>14, <1>15, <1>16, <1>17, <1>18, <1>19, <1>20, <1>21,
     <1>22
     DEF Next, RequestStep, EditStep, RunStep

\* Every reachable state of the settlement pipeline is well formed: in
\* particular a job has a runner exactly while it is active.
THEOREM TypeCorrect == Spec => []TypeOK
BY TypeInit, TypeNext, PTL DEF Spec

-----------------------------------------------------------------------------
(* The optimistic-concurrency invariant: a settlement computed from the      *)
(* stream is exact as long as the stream has not grown, and a run that got   *)
(* its event in holds the values of that event.                              *)

SettlementOK(w) ==
  run[w].pc = "append" =>
    /\ run[w].version <= device.version
    /\ run[w].version = device.version =>
         /\ device.status = "enabled"
         /\ device.report # Unknown
         /\ run[w].values = Resolve(device.report, device.known)
         /\ run[w].values # device.known

FanOutOK(w) ==
  run[w].pc \in {"project", "announce", "fanout"} =>
    /\ run[w].change \in 1 .. Len(changes)
    /\ run[w].values = changes[run[w].change]

RunInv == \A w \in Workers : SettlementOK(w) /\ FanOutOK(w)

LEMMA RunInvInit == Init => RunInv
BY DEF Init, RunInv, SettlementOK, FanOutOK, IdleRun

\* A step that leaves the runs alone and only lets the stream grow.
LEMMA StreamGrows ==
  ASSUME TypeOK, RunInv, run' = run, changes' = changes,
         device' = device \/ device'.version = device.version + 1
  PROVE  RunInv'
<1>1. device.version \in Nat /\ \A w \in Workers : run[w].version \in Nat
  BY DEF TypeOK, Device, Run
<1>2. QED
  BY <1>1 DEF RunInv, SettlementOK, FanOutOK

\* A step that leaves the stream alone and sets run w so that it is either not
\* at a point the invariant speaks of, or at a later one of the same change.
LEMMA RunMoves ==
  ASSUME RunInv, NEW w \in Workers, run \in [Workers -> Run],
         device' = device, changes' = changes,
         NEW r \in Run, run' = [run EXCEPT ![w] = r],
         \/ r.pc \in {"idle", "load"}
         \/ /\ r.pc \in {"announce", "fanout"}
            /\ run[w].pc \in {"project", "announce", "fanout"}
            /\ r.change = run[w].change
            /\ r.values = run[w].values
  PROVE  RunInv'
<1>1. ASSUME NEW u \in Workers, u # w
      PROVE  SettlementOK(u)' /\ FanOutOK(u)'
  BY <1>1 DEF RunInv, SettlementOK, FanOutOK
<1>2. SettlementOK(w)' /\ FanOutOK(w)'
  BY DEF RunInv, SettlementOK, FanOutOK
<1>3. QED
  BY <1>1, <1>2 DEF RunInv

LEMMA RunInvNext == TypeOK /\ RunInv /\ [Next]_vars => RunInv'
<1> SUFFICES ASSUME TypeOK, RunInv, [Next]_vars
             PROVE  RunInv'
  OBVIOUS
<1>run. run \in [Workers -> Run]
  BY DEF TypeOK
<1>device. device \in Device
  BY DEF TypeOK
<1>1. ASSUME NEW r \in Requests, RequestStep(r) \/ RequestLosesSchedule(r)
      PROVE  RunInv'
  <2>1. run' = run /\ changes' = changes
    BY <1>1 DEF RequestStep, RequestLoad, RequestAppend, RequestSchedule,
       RequestLosesSchedule, flow
  <2>2. device' = device \/ device'.version = device.version + 1
    BY <1>1, <1>device DEF RequestStep, RequestLoad, RequestAppend,
       RequestSchedule, RequestLosesSchedule, Device
  <2>3. QED
    BY <2>1, <2>2, StreamGrows
<1>2. ASSUME NEW e \in Edits, EditStep(e)
      PROVE  RunInv'
  <2>1. run' = run /\ changes' = changes
    BY <1>2 DEF EditStep, EditLoad, EditAppend, EditReload, EditProject, flow
  <2>2. device' = device \/ device'.version = device.version + 1
    BY <1>2, <1>device DEF EditStep, EditLoad, EditAppend, EditReload,
       EditProject, Device
  <2>3. QED
    BY <2>1, <2>2, StreamGrows
<1>3. ASSUME \/ \E a \in Actions : ToggleAction(a)
             \/ DelayElapses \/ StalledCheck \/ LockLost
             \/ UNCHANGED vars
      PROVE  RunInv'
  <2>1. run' = run /\ changes' = changes /\ device' = device
    BY <1>3 DEF ToggleAction, DelayElapses, StalledCheck, LockLost, vars, flow
  <2>2. QED
    BY <2>1, StreamGrows
<1>4. ASSUME NEW w \in Workers, Take(w)
      PROVE  RunInv'
  <2>1. [run[w] EXCEPT !.pc = "load"] \in Run
    BY <1>run DEF Run, RunPc
  <2>2. run' = [run EXCEPT ![w] = [run[w] EXCEPT !.pc = "load"]]
    BY <1>4 DEF Take
  <2>3. [run[w] EXCEPT !.pc = "load"].pc = "load"
    BY <1>run DEF Run
  <2>4. device' = device /\ changes' = changes
    BY <1>4 DEF Take
  <2>5. QED
    BY <2>1, <2>2, <2>3, <2>4, <1>run, RunMoves
<1>5. ASSUME NEW w \in Workers, EndRun(w), device' = device, changes' = changes
      PROVE  RunInv'
  BY <1>5, <1>run, RecordTypes, RunMoves DEF EndRun, IdleRun
<1>6. ASSUME NEW w \in Workers, Load(w)
      PROVE  RunInv'
  <2>1. CASE EndRun(w)
    BY <1>5, <1>6, <2>1 DEF Load
  <2>2. CASE ~EndRun(w)
    <3> DEFINE values == Resolve(device.report, device.known)
    <3>1. /\ device.status = "enabled" /\ device.report # Unknown
          /\ values # device.known
          /\ run' = [run EXCEPT ![w].pc = "append", ![w].values = values,
                                ![w].version = device.version]
          /\ device' = device /\ changes' = changes
      BY <1>6, <2>2 DEF Load
    <3>2. /\ run'[w].pc = "append" /\ run'[w].version = device.version
          /\ run'[w].values = values
          /\ \A u \in Workers \ {w} : run'[u] = run[u]
      BY <3>1, <1>run DEF Run
    <3>3. SettlementOK(w)' /\ FanOutOK(w)'
      BY <3>1, <3>2, <1>device DEF SettlementOK, FanOutOK, Device
    <3>4. ASSUME NEW u \in Workers \ {w}
          PROVE  SettlementOK(u)' /\ FanOutOK(u)'
      BY <3>1, <3>2 DEF RunInv, SettlementOK, FanOutOK
    <3>5. QED
      BY <3>3, <3>4 DEF RunInv
  <2>3. QED
    BY <2>1, <2>2
<1>7. ASSUME NEW w \in Workers, AppendChange(w)
      PROVE  RunInv'
  <2>1. CASE ~Fresh(run[w].version)
    BY <1>5, <1>7, <2>1 DEF AppendChange
  <2>2. CASE Fresh(run[w].version)
    <3>1. /\ changes' = Append(changes, run[w].values)
          /\ run' = [run EXCEPT ![w].pc = "project", ![w].change = Len(changes) + 1]
      BY <1>7, <2>2 DEF AppendChange
    <3>2. /\ changes \in Seq(Values) /\ run[w].values \in Values
          /\ \A u \in Workers : run[u].version \in Nat
          /\ device.version \in Nat
      BY <1>device DEF TypeOK, Run, Device
    <3>3. device'.version = device.version + 1
      BY <1>7, <2>2, <1>device DEF AppendChange, Device
    <3>4. /\ Len(changes') = Len(changes) + 1
          /\ changes'[Len(changes) + 1] = run[w].values
          /\ \A i \in 1 .. Len(changes) : changes'[i] = changes[i]
      BY <3>1, <3>2
    <3>5. /\ run'[w].pc = "project" /\ run'[w].change = Len(changes) + 1
          /\ run'[w].values = run[w].values
          /\ \A u \in Workers \ {w} : run'[u] = run[u]
      BY <3>1, <1>run DEF Run
    <3>6. SettlementOK(w)' /\ FanOutOK(w)'
      BY <3>2, <3>4, <3>5 DEF SettlementOK, FanOutOK
    <3>7. ASSUME NEW u \in Workers \ {w}
          PROVE  SettlementOK(u)' /\ FanOutOK(u)'
      BY <3>2, <3>3, <3>4, <3>5 DEF RunInv, SettlementOK, FanOutOK
    <3>8. QED
      BY <3>6, <3>7 DEF RunInv
  <2>3. QED
    BY <2>1, <2>2
<1>8. ASSUME NEW w \in Workers,
             Project(w) \/ Announce(w) \/ \E a \in Actions : FanOut(w, a)
      PROVE  RunInv'
  <2>1. PICK pc \in {"announce", "fanout"}, todo \in SUBSET Actions :
          run' = [run EXCEPT ![w] = [run[w] EXCEPT !.pc = pc, !.todo = todo]]
    <3>1. run[w].todo \in SUBSET Actions /\ run[w] \in Run
      BY <1>run DEF Run
    <3>2. CASE Project(w)
      <4>1. run' = [run EXCEPT ![w] =
                      [run[w] EXCEPT !.pc = "announce", !.todo = run[w].todo]]
        BY <3>1, <3>2, <1>run DEF Project, Run
      <4>2. QED
        BY <3>1, <4>1
    <3>3. CASE Announce(w)
      BY <3>3, <1>run DEF Announce
    <3>4. ASSUME NEW a \in Actions, FanOut(w, a)
          PROVE  run' = [run EXCEPT ![w] =
                      [run[w] EXCEPT !.pc = "fanout", !.todo = run[w].todo \ {a}]]
      BY <3>1, <3>4, <1>run DEF FanOut, Run
    <3>5. QED
      BY <1>8, <3>1, <3>2, <3>3, <3>4
  <2>2. device' = device /\ changes' = changes
    BY <1>8 DEF Project, Announce, FanOut
  <2>3. run[w].pc \in {"project", "announce", "fanout"}
    BY <1>8 DEF Project, Announce, FanOut
  <2> DEFINE r == [run[w] EXCEPT !.pc = pc, !.todo = todo]
  <2>4. /\ r \in Run /\ r.pc = pc
        /\ r.change = run[w].change /\ r.values = run[w].values
    BY <1>run DEF Run, RunPc
  <2>5. QED
    BY <2>1, <2>2, <2>3, <2>4, <1>run, RunMoves
<1>9. ASSUME NEW w \in Workers, Finish(w) \/ RunThrows(w)
      PROVE  RunInv'
  BY <1>5, <1>9 DEF Finish, RunThrows
<1>10. ASSUME NEW w \in Workers, RunCrashes(w)
       PROVE  RunInv'
  BY <1>10, <1>run, RecordTypes, RunMoves DEF RunCrashes, IdleRun
<1>11. QED
  BY <1>1, <1>2, <1>3, <1>4, <1>6, <1>7, <1>8, <1>9, <1>10 DEF Next, RunStep

LEMMA RunInvariant == Spec => [](TypeOK /\ RunInv)
BY TypeInit, TypeNext, RunInvInit, RunInvNext, PTL DEF Spec

-----------------------------------------------------------------------------
(* No confirmed change is skipped while nothing fails: until it is announced *)
(* and fanned out, some worker has it in hand.                               *)

\* Change i has reached action a, or has been found to find it disabled.
Reached(i, a) == <<i, a>> \in skipped \/ \E j \in jobs : j.change = i /\ j.action = a

InHand(i) == \E w \in Workers : run[w].pc \in {"project", "announce"} /\ run[w].change = i

FannedOut(i) ==
  /\ i \in announced
  /\ \A a \in Actions :
       Reached(i, a) \/ \E w \in Workers : /\ run[w].pc = "fanout" /\ run[w].change = i
                                           /\ a \in run[w].todo

NoneDropped == faults = 0 => \A i \in 1 .. Len(changes) : InHand(i) \/ FannedOut(i)

\* Nothing that was reached is lost.
LEMMA ReachedStays ==
  ASSUME [Next]_vars, NEW i, NEW a
  PROVE  /\ announced \subseteq announced'
         /\ Reached(i, a) => Reached(i, a)'
<1>1. /\ announced \subseteq announced' /\ skipped \subseteq skipped'
      /\ jobs \subseteq jobs'
  BY DEF Next, vars, flow, RequestStep, RequestLoad, RequestAppend,
     RequestSchedule, RequestLosesSchedule, EditStep, EditLoad, EditAppend,
     EditReload, EditProject, ToggleAction, DelayElapses, Take, RunStep, Load,
     AppendChange, Project, Announce, FanOut, Enqueue, Finish, RunThrows, RunCrashes,
     StalledCheck, LockLost
<1> QED
  BY <1>1 DEF Reached

\* A step that adds no change and leaves every run that has one in hand alone.
LEMMA DroppedByNone ==
  ASSUME NoneDropped, [Next]_vars, changes' = changes, faults' = 0 => faults = 0,
         \A w \in Workers : run[w].pc \in {"project", "announce", "fanout"} => run'[w] = run[w]
  PROVE  NoneDropped'
BY ReachedStays DEF NoneDropped, InHand, FannedOut

LEMMA NoneDroppedNext == TypeOK /\ RunInv /\ NoneDropped /\ [Next]_vars => NoneDropped'
<1> SUFFICES ASSUME TypeOK, RunInv, NoneDropped, [Next]_vars
             PROVE  NoneDropped'
  OBVIOUS
<1>run. run \in [Workers -> Run] /\ faults \in Nat /\ changes \in Seq(Values)
  BY IpSettlementAssumption DEF TypeOK
<1>1. ASSUME NEW w \in Workers, EndRun(w), changes' = changes, faults' = faults,
             run[w].pc \in {"load", "append"}
      PROVE  NoneDropped'
  BY <1>1, <1>run, DroppedByNone DEF EndRun
<1>2. ASSUME NEW w \in Workers, Take(w) \/ Load(w)
      PROVE  NoneDropped'
  BY <1>1, <1>2, <1>run, DroppedByNone DEF Take, Load
<1>3. ASSUME NEW w \in Workers, AppendChange(w)
      PROVE  NoneDropped'
  <2>1. CASE ~Fresh(run[w].version)
    BY <1>1, <1>3, <2>1 DEF AppendChange
  <2>2. CASE Fresh(run[w].version)
    <3>1. /\ changes' = Append(changes, run[w].values) /\ faults' = faults
          /\ run' = [run EXCEPT ![w].pc = "project", ![w].change = Len(changes) + 1]
          /\ run[w].pc = "append" /\ run[w].values \in Values
      BY <1>3, <2>2, <1>run DEF AppendChange, Run
    <3>2. /\ run'[w].pc = "project" /\ run'[w].change = Len(changes) + 1
          /\ \A u \in Workers : run[u].pc \in {"project", "announce", "fanout"} => run'[u] = run[u]
      BY <3>1, <1>run DEF Run
    <3>3. Len(changes') = Len(changes) + 1 /\ Len(changes) \in Nat
      BY <3>1, <1>run
    <3>4. ASSUME NEW i, i = Len(changes) + 1
          PROVE  InHand(i)'
      BY <3>2, <3>4 DEF InHand
    <3>5. ASSUME faults = 0, NEW i \in 1 .. Len(changes)
          PROVE  (InHand(i) \/ FannedOut(i))'
      BY <3>2, <3>5, ReachedStays DEF NoneDropped, InHand, FannedOut
    <3> QED
      BY <3>1, <3>3, <3>4, <3>5 DEF NoneDropped
  <2> QED
    BY <2>1, <2>2
<1>4. ASSUME NEW w \in Workers, Project(w)
      PROVE  NoneDropped'
  <2>1. /\ changes' = changes /\ faults' = faults /\ run[w].pc = "project"
        /\ run'[w].pc = "announce" /\ run'[w].change = run[w].change
        /\ \A u \in Workers \ {w} : run'[u] = run[u]
    BY <1>4, <1>run DEF Project, Run
  <2>2. \A i : InHand(i) => InHand(i)'
    BY <2>1 DEF InHand
  <2>3. \A u \in Workers : run[u].pc = "fanout" => run'[u] = run[u]
    BY <2>1
  <2> QED
    BY <2>1, <2>2, <2>3, ReachedStays DEF NoneDropped, FannedOut
<1>5. ASSUME NEW w \in Workers, Announce(w)
      PROVE  NoneDropped'
  <2>1. /\ changes' = changes /\ faults' = faults /\ run[w].pc = "announce"
        /\ run'[w].pc = "fanout" /\ run'[w].change = run[w].change /\ run'[w].todo = Actions
        /\ announced' = announced \cup {run[w].change}
        /\ \A u \in Workers \ {w} : run'[u] = run[u]
    BY <1>5, <1>run DEF Announce, Run
  <2>2. FannedOut(run[w].change)'
    BY <2>1 DEF FannedOut
  <2>3. \A i : InHand(i) => InHand(i)' \/ i = run[w].change
    BY <2>1 DEF InHand
  <2>4. \A u \in Workers : run[u].pc = "fanout" => run'[u] = run[u]
    BY <2>1
  <2> QED
    BY <2>1, <2>2, <2>3, <2>4, ReachedStays DEF NoneDropped, FannedOut
<1>6. ASSUME NEW w \in Workers, NEW b \in Actions, FanOut(w, b)
      PROVE  NoneDropped'
  <2>1. /\ changes' = changes /\ faults' = faults /\ run[w].pc = "fanout" /\ run'[w].pc = "fanout"
        /\ run'[w].change = run[w].change /\ run'[w].todo = run[w].todo \ {b}
        /\ \A u \in Workers \ {w} : run'[u] = run[u]
    BY <1>6, <1>run DEF FanOut, Run
  <2>2. Reached(run[w].change, b)'
    <3>1. CASE actionOn[b] /\ ~\E j \in jobs : j.change = run[w].change /\ j.action = b
      <4> DEFINE e == [change |-> run[w].change, action |-> b, values |-> run[w].values]
      <4>1. e \in jobs' /\ e.change = run[w].change /\ e.action = b
        BY <1>6, <3>1 DEF FanOut, Enqueue
      <4> QED
        BY <2>1, <4>1 DEF Reached
    <3>2. CASE actionOn[b] /\ \E j \in jobs : j.change = run[w].change /\ j.action = b
      BY <1>6, <2>1, <3>2 DEF FanOut, Enqueue, Reached
    <3>3. CASE ~actionOn[b]
      BY <1>6, <2>1, <3>3 DEF FanOut, Reached
    <3> QED
      BY <3>1, <3>2, <3>3
  <2>3. \A i : InHand(i) => InHand(i)'
    BY <2>1 DEF InHand
  <2>4. \A i : FannedOut(i) => FannedOut(i)'
    BY <2>1, <2>2, ReachedStays DEF FannedOut
  <2> QED
    BY <2>1, <2>3, <2>4 DEF NoneDropped
<1>7. ASSUME NEW w \in Workers, Finish(w)
      PROVE  NoneDropped'
  <2>1. /\ changes' = changes /\ faults' = faults /\ run[w].pc = "fanout" /\ run[w].todo = {}
        /\ \A u \in Workers \ {w} : run'[u] = run[u]
    BY <1>7, <1>run DEF Finish, EndRun
  <2>2. \A i : InHand(i) => InHand(i)'
    BY <2>1 DEF InHand
  <2>3. \A i : FannedOut(i) => FannedOut(i)'
    BY <2>1, ReachedStays DEF FannedOut
  <2> QED
    BY <2>1, <2>2, <2>3 DEF NoneDropped
<1>8. ASSUME NEW w \in Workers, RunThrows(w) \/ RunCrashes(w)
      PROVE  NoneDropped'
  BY <1>8, <1>run DEF RunThrows, RunCrashes, NoneDropped
<1>9. ASSUME \/ \E r \in Requests : RequestStep(r) \/ RequestLosesSchedule(r)
             \/ \E e \in Edits : EditStep(e)
             \/ \E a \in Actions : ToggleAction(a)
             \/ DelayElapses \/ StalledCheck \/ LockLost
             \/ UNCHANGED vars
      PROVE  NoneDropped'
  <2>1. run' = run /\ changes' = changes
    BY <1>9 DEF RequestStep, RequestLoad, RequestAppend, RequestSchedule, RequestLosesSchedule,
       EditStep, EditLoad, EditAppend, EditReload, EditProject, ToggleAction, DelayElapses,
       StalledCheck, LockLost, vars, flow
  <2>2. faults' = faults \/ faults' = faults + 1
    BY <1>9 DEF RequestStep, RequestLoad, RequestAppend, RequestSchedule, RequestLosesSchedule,
       EditStep, EditLoad, EditAppend, EditReload, EditProject, ToggleAction, DelayElapses,
       StalledCheck, LockLost, vars, flow
  <2> QED
    BY <2>1, <2>2, <1>run, DroppedByNone
<1> QED
  BY <1>2, <1>3, <1>4, <1>5, <1>6, <1>7, <1>8, <1>9 DEF Next, RunStep

\* While no call fails, no worker ends early and no lock is lost, every confirmed
\* change has reached the snapshot scheduler and every enabled action by the time
\* nothing is under way, whatever requests, edits and workers interleave.
THEOREM NoChangeIsSkipped == Spec => [](faults = 0 => NoChangeSkipped)
<1>1. Init => NoneDropped
  BY DEF Init, NoneDropped
<1>2. NoneDropped => (faults = 0 => NoChangeSkipped)
  <2> SUFFICES ASSUME NoneDropped, faults = 0, Quiet, NEW i \in 1 .. Len(changes)
               PROVE  i \in announced /\ \A a \in Actions : Reached(i, a)
    BY DEF NoChangeSkipped, Reached
  <2> QED
    BY DEF NoneDropped, Quiet, InHand, FannedOut
<1> QED
  BY <1>1, <1>2, RunInvariant, NoneDroppedNext, PTL DEF Spec

-----------------------------------------------------------------------------
(* IpSettlement implements ChangeLog. *)

\* An ip_changed event enters the stream only through AppendChange.
LEMMA ChangeStep ==
  ASSUME TypeOK, [Next]_vars
  PROVE  \/ changes' = changes /\ device'.known = device.known
         \/ \E w \in Workers : AppendChange(w) /\ Fresh(run[w].version)
<1>device. device \in Device
  BY DEF TypeOK
<1>1. ASSUME NEW r \in Requests, RequestStep(r) \/ RequestLosesSchedule(r)
      PROVE  changes' = changes /\ device'.known = device.known
  BY <1>1, <1>device DEF RequestStep, RequestLoad, RequestAppend, RequestSchedule,
     RequestLosesSchedule, flow, Device
<1>2. ASSUME NEW e \in Edits, EditStep(e)
      PROVE  changes' = changes /\ device'.known = device.known
  BY <1>2, <1>device DEF EditStep, EditLoad, EditAppend, EditReload, EditProject,
     flow, Device
<1>3. ASSUME NEW w \in Workers, AppendChange(w)
      PROVE  \/ changes' = changes /\ device'.known = device.known
             \/ Fresh(run[w].version)
  BY <1>3 DEF AppendChange
<1>4. ASSUME \/ \E a \in Actions : ToggleAction(a)
             \/ DelayElapses \/ StalledCheck \/ LockLost \/ UNCHANGED vars
             \/ \E w \in Workers :
                  \/ Take(w) \/ Load(w) \/ Project(w) \/ Announce(w)
                  \/ \E a \in Actions : FanOut(w, a)
                  \/ Finish(w) \/ RunThrows(w) \/ RunCrashes(w)
      PROVE  changes' = changes /\ device' = device
  BY <1>4 DEF ToggleAction, DelayElapses, StalledCheck, LockLost, vars, flow, Take,
     Load, Project, Announce, FanOut, Finish, RunThrows, RunCrashes
<1>5. QED
  BY <1>1, <1>2, <1>3, <1>4 DEF Next, RunStep

\* A fresh append writes what the newest report resolves to, on an enabled device.
LEMMA FreshAppend ==
  ASSUME TypeOK, RunInv, NEW w \in Workers, AppendChange(w), Fresh(run[w].version)
  PROVE  /\ device.status = "enabled" /\ device.report # Unknown
         /\ changes' = Append(changes, Resolve(device.report, device.known))
         /\ device'.known = run[w].values
         /\ run[w].values = Resolve(device.report, device.known)
         /\ run[w].values # device.known
         /\ jobs' = jobs
<1>1. run[w].pc = "append" /\ run[w].version = device.version
  BY DEF AppendChange, Fresh
<1>2. device \in Device
  BY DEF TypeOK
<1>3. SettlementOK(w)
  BY DEF RunInv
<1>4. QED
  BY <1>1, <1>2, <1>3 DEF SettlementOK, AppendChange, Device

\* A settlement computed from an older report or before a disable never gets
\* into the stream, for any number of writers, workers and faults.
THEOREM ChangesFollowReports == Spec => ChangeFollowsNewestReport
<1>1. ASSUME TypeOK, RunInv, [Next]_vars
      PROVE  [changes' # changes =>
                /\ changes' = Append(changes, Resolve(device.report, device.known))
                /\ device.status = "enabled"
                /\ device.report # Unknown]_vars
  BY <1>1, ChangeStep, FreshAppend
<1>2. QED
  BY RunInvariant, <1>1, PTL DEF Spec, ChangeFollowsNewestReport

LEMMA RefineInit == Init => Log!LogInit
BY DEF Init, Log!LogInit

LEMMA RefineNext ==
  TypeOK /\ RunInv /\ [Next]_vars => [Log!LogNext]_(Log!logVars)
<1> SUFFICES ASSUME TypeOK, RunInv, [Next]_vars
             PROVE  [Log!LogNext]_(Log!logVars)
  OBVIOUS
<1>1. ASSUME NEW w \in Workers, AppendChange(w), Fresh(run[w].version)
      PROVE  Log!LogNext
  <2>1. run[w].values \in Values
    BY DEF TypeOK, Run
  <2>2. Log!Confirm(run[w].values)
    BY <1>1, FreshAppend DEF Log!Confirm
  <2>3. QED
    BY <2>1, <2>2 DEF Log!LogNext
<1>2. ASSUME NEW w \in Workers, NEW a \in Actions, FanOut(w, a)
      PROVE  [Log!LogNext]_(Log!logVars)
  <2>1. device' = device /\ changes' = changes
    BY <1>2 DEF FanOut
  <2>2. CASE jobs' = jobs
    BY <2>1, <2>2 DEF Log!logVars
  <2>3. CASE jobs' # jobs
    <3>1. /\ run[w].change \in 1 .. Len(changes)
          /\ run[w].values = changes[run[w].change]
      BY <1>2 DEF RunInv, FanOutOK, FanOut
    <3>2. /\ \A j \in jobs : j.change # run[w].change \/ j.action # a
          /\ jobs' = jobs \cup {[change |-> run[w].change, action |-> a,
                                 values |-> run[w].values]}
      BY <1>2, <2>3 DEF FanOut, Enqueue
    <3>3. Log!Issue(run[w].change, a)
      BY <2>1, <3>1, <3>2 DEF Log!Issue
    <3>4. QED
      BY <3>1, <3>3 DEF Log!LogNext
  <2>4. QED
    BY <2>2, <2>3
<1>3. CASE changes' = changes /\ device'.known = device.known /\ jobs' = jobs
  BY <1>3 DEF Log!logVars
<1>4. jobs' = jobs \/ \E w \in Workers, a \in Actions : FanOut(w, a)
  BY DEF Next, vars, flow, RequestStep, RequestLoad, RequestAppend,
     RequestSchedule, RequestLosesSchedule, EditStep, EditLoad, EditAppend,
     EditReload, EditProject, ToggleAction, DelayElapses, Take, RunStep, Load,
     AppendChange, Project, Announce, Finish, RunThrows, RunCrashes,
     StalledCheck, LockLost
<1>5. QED
  BY <1>1, <1>2, <1>3, <1>4, ChangeStep

\* The debounce pipeline implements the abstract change log for every set of
\* requests, edits, workers, actions and addresses and any number of faults.
THEOREM SettlementImplementsChangeLog == Spec => ImplementsChangeLog
BY RunInvariant, RefineInit, RefineNext, PTL
   DEF Spec, ImplementsChangeLog, Log!LogSpec

LEMMA UnknownIsValue == Unknown \in Values
BY RecordTypes

-----------------------------------------------------------------------------
(* What a change log promises. *)

LogInv == Log!LogTypeOK /\ Log!NoRedundantChange /\ Log!OneExecutionPerChange

\* Log entries keep their place when one is appended.
LEMMA AppendKeeps ==
  ASSUME NEW s \in Seq(Values), NEW v \in Values
  PROVE  /\ Append(s, v) \in Seq(Values)
         /\ Len(Append(s, v)) = Len(s) + 1
         /\ Append(s, v)[Len(s) + 1] = v
         /\ \A i \in 1 .. Len(s) : Append(s, v)[i] = s[i]
  OBVIOUS

LEMMA LogInvInit == Log!LogInit => LogInv
  BY UnknownIsValue DEF Log!LogInit, LogInv, Log!LogTypeOK, Log!NoRedundantChange,
     Log!OneExecutionPerChange, Log!Before

LEMMA LogInvNext == LogInv /\ [Log!LogNext]_(Log!logVars) => LogInv'
<1> SUFFICES ASSUME LogInv, [Log!LogNext]_(Log!logVars)
             PROVE  LogInv'
  OBVIOUS
<1> USE DEF LogInv
<1>1. ASSUME NEW v \in Values, Log!Confirm(v)
      PROVE  LogInv'
  <2>1. /\ changes' \in Seq(Values)
        /\ Len(changes') = Len(changes) + 1
        /\ changes'[Len(changes) + 1] = v
        /\ \A i \in 1 .. Len(changes) : changes'[i] = changes[i]
    BY <1>1, AppendKeeps DEF Log!Confirm, Log!LogTypeOK
  <2>2. Log!LogTypeOK'
    BY <1>1, <2>1 DEF Log!Confirm, Log!LogTypeOK
  <2>3. Log!NoRedundantChange'
    BY <1>1, <2>1 DEF Log!Confirm, Log!LogTypeOK, Log!NoRedundantChange, Log!Before
  <2>4. Log!OneExecutionPerChange'
    BY <1>1, <2>1 DEF Log!Confirm, Log!LogTypeOK, Log!OneExecutionPerChange
  <2>5. QED
    BY <2>2, <2>3, <2>4
<1>2. ASSUME NEW i \in 1 .. Len(changes), NEW a \in Actions, Log!Issue(i, a)
      PROVE  LogInv'
  <2>1. changes[i] \in Values
    BY DEF Log!LogTypeOK
  <2>2. Log!LogTypeOK'
    BY <1>2, <2>1 DEF Log!Issue, Log!LogTypeOK
  <2>3. Log!NoRedundantChange'
    BY <1>2 DEF Log!Issue, Log!NoRedundantChange, Log!Before
  <2>4. Log!OneExecutionPerChange'
    BY <1>2 DEF Log!Issue, Log!LogTypeOK, Log!OneExecutionPerChange
  <2>5. QED
    BY <2>2, <2>3, <2>4
<1>3. CASE UNCHANGED Log!logVars
  BY <1>3 DEF Log!logVars, Log!LogTypeOK, Log!NoRedundantChange, Log!OneExecutionPerChange, Log!Before
<1>4. QED
  BY <1>1, <1>2, <1>3 DEF Log!LogNext

\* In every change log, of any length and over any addresses, no entry repeats
\* the one before it, and executions are unique per change and action (FR-006,
\* FR-014 of debounce-worker.ts and execution-fanout-worker.ts).
THEOREM ChangeLogCorrect ==
  Log!LogSpec => [](Log!NoRedundantChange /\ Log!OneExecutionPerChange)
<1>1. LogInv => Log!NoRedundantChange /\ Log!OneExecutionPerChange
  BY DEF LogInv
<1>2. QED
  BY LogInvInit, LogInvNext, <1>1, PTL DEF Log!LogSpec

\* Hence no ip_changed event repeats the addresses known before it, and there is
\* at most one execution job per change and action, with that change's addresses.
THEOREM NoDuplicateExecutions ==
  Spec => [](Log!NoRedundantChange /\ Log!OneExecutionPerChange)
BY SettlementImplementsChangeLog, ChangeLogCorrect, PTL
   DEF ImplementsChangeLog
=============================================================================
