------------------------- MODULE FirewallRuleProofs -------------------------
(***************************************************************************)
(* Type correctness of FirewallRule; and, while no lock expires under a    *)
(* working holder: mutual exclusion of the firewall lock, that no update   *)
(* of the firewall is lost, that an action only takes away what it has     *)
(* itself asked for, and that lists and owned entries agree once the tasks *)
(* of an action are done.                                                  *)
(***************************************************************************)
EXTENDS FirewallRule, TLAPS

-----------------------------------------------------------------------------
(* Type correctness. *)

LEMMA EntryTypes ==
  /\ NoEntries \in Entries
  /\ \A e \in Entries : Given(e) \in SUBSET Cidr
  /\ \A r \in Rules, l \in Lists, rem \in SUBSET Cidr, add \in SUBSET Cidr :
       [l EXCEPT ![r] = Replaced(@, rem, add)] \in Lists
  /\ None \notin Cidr
BY FirewallAssumption DEF NoEntries, Entries, Entry, Given, Lists, Replaced

LEMMA OwnedType ==
  ASSUME NEW a \in Actions, NEW S \in SUBSET Family, action \in [Actions -> Action]
  PROVE  OwnedOf(a, S) \in SUBSET Cidr
BY DEF OwnedOf, Action, Entries, Entry

LEMMA TypeInit == Init => TypeOK
<1> SUFFICES ASSUME Init
             PROVE  TypeOK
  OBVIOUS
<1>1. firewall \in Lists /\ lock \in Token \cup {None}
  <2>1. \A r \in Rules : Static \cup {c \in Cidr : \E a \in Actions : <<r, c>> \in asked[a]}
                            \in SUBSET Cidr
    BY FirewallAssumption
  <2> QED
    BY <2>1 DEF Init, Lists
<1>2. action \in [Actions -> Action]
  <2>1. \A a \in Actions : Attached(a) \subseteq Action
    BY EntryTypes DEF Attached, Action, Reports
  <2>2. \A a \in Actions : action[a] \in Action
    BY <2>1 DEF Init
  <2>3. action = [a \in Actions |-> action[a]]
    BY DEF Init
  <2> QED
    BY <2>2, <2>3
<1>3. task \in [Tasks -> Task]
  <2>1. (CHOOSE a \in Actions : TRUE) \in Actions /\ (CHOOSE r \in Rules : TRUE) \in Rules
    BY FirewallAssumption
  <2>2. [r \in Rules |-> {}] \in Lists /\ 1 \in 1 .. Attempts
    BY FirewallAssumption DEF Lists
  <2>3. NewTask \in Task
    BY <2>1, <2>2, EntryTypes DEF NewTask, Task, Pc, Kind
  <2>4. QED
    BY <2>3 DEF Init
<1>4. asked \in [Actions -> SUBSET (Rules \X Cidr)]
  <2>1. \A a \in Actions : action[a].rule \in Rules /\ Given(action[a].owned) \in SUBSET Cidr
    BY <1>2, EntryTypes DEF Action
  <2>2. \A a \in Actions : {action[a].rule} \X Given(action[a].owned) \in SUBSET (Rules \X Cidr)
    BY <2>1
  <2> QED
    BY <2>2 DEF Init
<1>6. expiries \in 0 .. MaxExpiries /\ faults \in 0 .. MaxFaults
  BY FirewallAssumption DEF Init
<1>5. QED
  BY <1>1, <1>2, <1>3, <1>4, <1>6 DEF TypeOK

\* A task that only moves on keeps its type.
LEMMA MoveType ==
  ASSUME TypeOK, NEW t \in Tasks, NEW pc \in Pc
  PROVE  [task EXCEPT ![t].pc = pc] \in [Tasks -> Task]
<1> task \in [Tasks -> Task]
  BY DEF TypeOK
<1>1. [task[t] EXCEPT !.pc = pc] \in Task
  BY DEF Task
<1> QED
  BY <1>1

LEMMA RetriedType ==
  ASSUME TypeOK, NEW t \in Tasks, Retried(t)
  PROVE  task' \in [Tasks -> Task]
<1> DEFINE T == task[t]
<1>t. task \in [Tasks -> Task] /\ T \in Task
  BY DEF TypeOK
<1>n. T.token + 1 \in Nat /\ (T.attempt < Attempts => T.attempt + 1 \in 1 .. Attempts)
  BY <1>t, FirewallAssumption DEF Task
<1>1. T.attempt < Attempts =>
        [T EXCEPT !.pc = "load", !.attempt = @ + 1, !.token = @ + 1] \in Task
  BY <1>t, <1>n DEF Task, Pc
<1>2. [T EXCEPT !.pc = "done", !.clean = FALSE] \in Task
  BY <1>t DEF Task, Pc
<1> QED
  BY <1>t, <1>1, <1>2 DEF Retried

LEMMA TypeNext == TypeOK /\ [Next]_vars => TypeOK'
<1> SUFFICES ASSUME TypeOK, [Next]_vars
             PROVE  TypeOK'
  OBVIOUS
<1>f. firewall \in Lists
  BY DEF TypeOK
<1>a. action \in [Actions -> Action]
  BY DEF TypeOK
<1>t. task \in [Tasks -> Task]
  BY DEF TypeOK
<1>l. lock \in Token \cup {None}
  BY DEF TypeOK
<1>d. asked \in [Actions -> SUBSET (Rules \X Cidr)]
  BY DEF TypeOK
<1>e. expiries \in 0 .. MaxExpiries
  BY DEF TypeOK
<1>u. faults \in 0 .. MaxFaults
  BY DEF TypeOK
<1>0. CASE UNCHANGED vars
  BY <1>0 DEF TypeOK, vars
<1>1. ASSUME NEW t \in Tasks, Begin(t)
      PROVE  TypeOK'
  <2>t. task[t] \in Task
    BY <1>t
  <2>a. ASSUME NEW a \in Actions
        PROVE  Alone(t, a) \in BOOLEAN
    BY DEF Alone
  <2>1. ASSUME NEW a \in Actions, NEW k \in Kind, NEW b \in BOOLEAN
        PROVE  [task[t] EXCEPT !.pc = "load", !.action = a, !.kind = k, !.clean = b] \in Task
    BY <2>t DEF Task, Pc
  <2>v. ASSUME NEW a \in Actions, NEW k \in Kind, NEW b \in BOOLEAN, NEW v \in Entries
        PROVE  [task[t] EXCEPT !.pc = "load", !.action = a, !.kind = k, !.clean = b,
                               !.values = v] \in Task
    BY <2>t DEF Task, Pc
  <2>r. ASSUME NEW a \in Actions, NEW k \in Kind, NEW b \in BOOLEAN,
               NEW S \in SUBSET Family, NEW r \in Rules
        PROVE  [task[t] EXCEPT !.pc = "load", !.action = a, !.kind = k, !.clean = b,
                               !.families = S, !.target = r] \in Task
    BY <2>t DEF Task, Pc
  <2>2. \A a \in Actions : Reports(a) \subseteq Entries
    BY DEF Reports
  <2>3. task' \in [Tasks -> Task]
    <3>1. PICK k \in Kinds, a \in Actions :
            \/ /\ k = "execute"
               /\ \E v \in Reports(a) :
                    task' = [task EXCEPT ![t].pc = "load", ![t].action = a, ![t].kind = k,
                                         ![t].clean = Alone(t, a), ![t].values = v]
            \/ /\ k = "detach"
               /\ task' = [task EXCEPT ![t].pc = "load", ![t].action = a, ![t].kind = k,
                                       ![t].clean = Alone(t, a)]
            \/ /\ k = "reconfigure"
               /\ \E S \in SUBSET Family \ {{}}, r \in Rules :
                    task' = [task EXCEPT ![t].pc = "load", ![t].action = a,
                                         ![t].kind = k,
                                         ![t].clean = Alone(t, a), ![t].families = S, ![t].target = r]
      BY <1>1 DEF Begin
    <3>2. k \in Kind
      BY FirewallAssumption DEF Kind
    <3>3. CASE k = "execute"
      <4>1. PICK v \in Entries :
              task' = [task EXCEPT ![t].pc = "load", ![t].action = a,
                                   ![t].kind = k, ![t].clean = Alone(t, a), ![t].values = v]
        BY <3>1, <3>3, <2>2
      <4> QED
        BY <1>t, <4>1, <2>v, <2>a, <3>2
    <3>4. CASE k = "detach"
      <4>1. task' = [task EXCEPT ![t].pc = "load", ![t].action = a, ![t].kind = k,
                                 ![t].clean = Alone(t, a)]
        BY <3>1, <3>4
      <4> QED
        BY <1>t, <4>1, <2>1, <2>a, <3>2
    <3>5. CASE k = "reconfigure"
      <4>1. PICK S \in SUBSET Family, r \in Rules :
              task' = [task EXCEPT ![t].pc = "load", ![t].action = a,
                                   ![t].kind = k,
                                   ![t].clean = Alone(t, a), ![t].families = S, ![t].target = r]
        BY <3>1, <3>5
      <4> QED
        BY <1>t, <4>1, <2>r, <2>a, <3>2
    <3> QED
      BY <3>1, <3>3, <3>4, <3>5
  <2> QED
    BY <1>1, <2>3 DEF TypeOK, Begin, Token
<1>2. ASSUME NEW t \in Tasks, LoadExecution(t)
      PROVE  TypeOK'
  <2> DEFINE a == task[t].action
             V == [f \in Family |-> IF f \in action[a].families
                                       THEN task[t].values[f] ELSE None]
  <2>t. task[t] \in Task /\ a \in Actions
    BY <1>t DEF Task
  <2>a. action[a].families \in SUBSET Family /\ action[a].rule \in Rules
    BY <1>a, <2>t DEF Action
  <2>r. OwnedOf(a, action[a].families) \in SUBSET Cidr
    BY <1>a, <2>t, <2>a, OwnedType
  <2>v. V \in Entries
    BY <2>t DEF Task, Entries, Entry
  <2>1. [task[t] EXCEPT !.pc = "lock", !.rule = action[a].rule, !.add = V,
                        !.remove = OwnedOf(a, action[a].families)] \in Task
    <3> HIDE DEF V
    <3> QED
      BY <2>t, <2>a, <2>r, <2>v DEF Task, Pc
  <2>2. [task EXCEPT ![t].pc = "done"] \in [Tasks -> Task]
    BY MoveType DEF Pc
  <2>3. task' \in [Tasks -> Task]
    BY <1>2, <1>t, <2>1, <2>2 DEF LoadExecution
  <2> QED
    BY <1>2, <2>3 DEF TypeOK, LoadExecution, Token
<1>3. ASSUME NEW t \in Tasks, LoadEdit(t)
      PROVE  TypeOK'
  <2> DEFINE a == task[t].action
             R == OwnedOf(a, IF task[t].kind = "detach" THEN Family
                             ELSE action[a].families \ task[t].families)
  <2>t. task[t] \in Task /\ a \in Actions
    BY <1>t DEF Task
  <2>a. /\ action[a].families \in SUBSET Family /\ action[a].rule \in Rules
        /\ action[a].version \in Nat
    BY <1>a, <2>t DEF Action
  <2>r. R \in SUBSET Cidr
    BY <1>a, <2>t, <2>a, OwnedType
  <2>1. [task[t] EXCEPT !.pc = "append", !.version = action[a].version,
                        !.rule = action[a].rule, !.remove = R] \in Task
    <3> HIDE DEF R
    <3> QED
      BY <2>t, <2>a, <2>r DEF Task, Pc
  <2>2. [task EXCEPT ![t].pc = "done"] \in [Tasks -> Task]
    BY MoveType DEF Pc
  <2>3. task' \in [Tasks -> Task]
    BY <1>3, <1>t, <2>1, <2>2 DEF LoadEdit
  <2> QED
    BY <1>3, <2>3 DEF TypeOK, LoadEdit, Token
<1>4. ASSUME NEW t \in Tasks, AppendEdit(t)
      PROVE  TypeOK'
  <2> DEFINE a == task[t].action
  <2>t. task[t] \in Task /\ a \in Actions /\ action[a] \in Action
    BY <1>t, <1>a DEF Task
  <2>n. action[a].version + 1 \in Nat
    BY <2>t DEF Action
  <2>1. [action[a] EXCEPT !.version = @ + 1, !.status = "detached"] \in Action
    BY <2>t, <2>n DEF Action
  <2>2. [action[a] EXCEPT !.version = @ + 1, !.rule = task[t].target,
                          !.families = task[t].families] \in Action
    BY <2>t, <2>n DEF Action, Task
  <2>3. action' \in [Actions -> Action]
    BY <1>4, <1>a, <2>t, <2>1, <2>2 DEF AppendEdit
  <2>4. task' \in [Tasks -> Task]
    <3>1. \A pc \in {"done", "lock"} : [task EXCEPT ![t].pc = pc] \in [Tasks -> Task]
      BY MoveType DEF Pc
    <3> QED
      BY <1>4, <3>1 DEF AppendEdit
  <2> QED
    BY <1>4, <2>3, <2>4 DEF TypeOK, AppendEdit, Token
<1>m. ASSUME NEW t \in Tasks, NEW pc \in Pc
      PROVE  [task EXCEPT ![t].pc = pc] \in [Tasks -> Task]
  BY MoveType
<1>k. \A t \in Tasks : TokenOf(t) \in Token
  BY <1>t DEF TokenOf, Token, Task
<1>5. ASSUME NEW t \in Tasks, Acquire(t)
      PROVE  TypeOK'
  <2>1. task' \in [Tasks -> Task] /\ lock' \in Token
    BY <1>5, <1>m, <1>k DEF Acquire, Pc
  <2> QED
    BY <1>5, <2>1 DEF TypeOK, Acquire, Token
<1>6. ASSUME NEW t \in Tasks, WaitTooLong(t)
      PROVE  TypeOK'
  <2>1. task' \in [Tasks -> Task]
    BY <1>6, RetriedType DEF WaitTooLong
  <2> QED
    BY <1>6, <2>1 DEF TypeOK, WaitTooLong, Token
<1>7. ASSUME NEW t \in Tasks, GetFirewall(t)
      PROVE  TypeOK'
  <2>t. task[t] \in Task
    BY <1>t
  <2>1. [task[t] EXCEPT !.pc = "write", !.seen = firewall] \in Task
    BY <2>t, <1>f DEF Task, Pc
  <2>2. task' \in [Tasks -> Task]
    BY <1>7, <1>t, <2>1 DEF GetFirewall
  <2> QED
    BY <1>7, <2>2 DEF TypeOK, GetFirewall, Token
<1>s. ASSUME NEW t \in Tasks, SetRules(t)
      PROVE  firewall' \in Lists /\ asked' \in [Actions -> SUBSET (Rules \X Cidr)]
  <2>t. /\ task[t].seen \in Lists /\ task[t].rule \in Rules /\ task[t].remove \in SUBSET Cidr
        /\ Given(task[t].add) \in SUBSET Cidr /\ task[t].action \in Actions
    BY <1>t, EntryTypes DEF Task
  <2>1. Apply(t, task[t].seen) \in Lists
    BY <2>t, EntryTypes DEF Apply
  <2>2. asked' \in [Actions -> SUBSET (Rules \X Cidr)]
    BY <1>s, <1>d, <2>t DEF SetRules
  <2> QED
    BY <1>s, <2>1, <2>2 DEF SetRules
<1>8. ASSUME NEW t \in Tasks, SetFirewallRules(t)
      PROVE  TypeOK'
  <2>1. task' \in [Tasks -> Task]
    BY <1>8, <1>m DEF SetFirewallRules, Pc
  <2> QED
    BY <1>8, <2>1, <1>s DEF TypeOK, SetFirewallRules, Token
<1>9. ASSUME NEW t \in Tasks, Release(t)
      PROVE  TypeOK'
  <2>1. task' \in [Tasks -> Task]
    BY <1>9, <1>m DEF Release, Pc
  <2> QED
    BY <1>9, <2>1 DEF TypeOK, Release, Freed, Token
<1>10. ASSUME NEW t \in Tasks, ReleaseFailed(t)
       PROVE  TypeOK'
  <2>1. task' \in [Tasks -> Task]
    BY <1>10, RetriedType DEF ReleaseFailed
  <2> QED
    BY <1>10, <2>1 DEF TypeOK, ReleaseFailed, Freed, Token
<1>11. ASSUME NEW t \in Tasks, ReloadAction(t)
       PROVE  TypeOK'
  <2>t. task[t] \in Task /\ action[task[t].action].version \in Nat
    BY <1>t, <1>a DEF Task, Action
  <2>1. [task[t] EXCEPT !.pc = "applied", !.version = action[task[t].action].version] \in Task
    BY <2>t DEF Task, Pc
  <2>2. task' \in [Tasks -> Task]
    BY <1>11, <1>t, <2>1 DEF ReloadAction
  <2> QED
    BY <1>11, <2>2 DEF TypeOK, ReloadAction, Token
<1>12. ASSUME NEW t \in Tasks, AppendApplied(t)
       PROVE  TypeOK'
  <2> DEFINE a == task[t].action
             O == [f \in Family |-> IF task[t].add[f] # None
                                       THEN task[t].add[f] ELSE action[a].owned[f]]
  <2>t. task[t] \in Task /\ a \in Actions /\ action[a] \in Action
    BY <1>t, <1>a DEF Task
  <2>n. action[a].version + 1 \in Nat
    BY <2>t DEF Action
  <2>o. O \in Entries
    BY <2>t DEF Task, Action, Entries, Entry
  <2>1. [action[a] EXCEPT !.version = @ + 1, !.owned = O] \in Action
    <3> HIDE DEF O
    <3> QED
      BY <2>t, <2>n, <2>o DEF Action
  <2>2. action' \in [Actions -> Action]
    BY <1>12, <1>a, <2>t, <2>1 DEF AppendApplied
  <2>3. \A pc \in Pc : [task[t] EXCEPT !.pc = pc, !.again = TRUE] \in Task
    BY <2>t DEF Task
  <2>4. task' \in [Tasks -> Task]
    <3>1. CASE action[a].version = task[t].version
      <4>1. task' = [task EXCEPT ![t].pc = "done"]
        BY <1>12, <3>1 DEF AppendApplied
      <4> QED
        BY <4>1, <1>m DEF Pc
    <3>2. CASE action[a].version # task[t].version
      <4> DEFINE pc == IF task[t].again THEN "done" ELSE "record"
      <4>1. [task[t] EXCEPT !.pc = pc, !.again = TRUE] \in Task
        BY <2>3 DEF Pc
      <4>2. task' = [task EXCEPT ![t].pc = pc, ![t].again = TRUE]
        BY <1>12, <3>2 DEF AppendApplied
      <4> HIDE DEF pc
      <4> QED
        BY <1>t, <4>1, <4>2
    <3> QED
      BY <3>1, <3>2
  <2> QED
    BY <1>12, <2>2, <2>4 DEF TypeOK, AppendApplied, Token
<1>13. ASSUME NEW t \in Tasks, CallFails(t)
       PROVE  TypeOK'
  <2>1. task' \in [Tasks -> Task]
    BY <1>13, <1>m DEF CallFails, Pc
  <2> QED
    BY <1>13, <2>1, FirewallAssumption DEF TypeOK, CallFails, Fault, Token
<1>14. ASSUME NEW t \in Tasks, AnswerLost(t)
       PROVE  TypeOK'
  <2>1. task' \in [Tasks -> Task]
    BY <1>14, <1>m DEF AnswerLost, Pc
  <2> QED
    BY <1>14, <2>1, <1>s, FirewallAssumption DEF TypeOK, AnswerLost, Fault, Token
<1>15. ASSUME NEW t \in Tasks, Crash(t)
       PROVE  TypeOK'
  <2>t. task[t] \in Task /\ task[t].token + 1 \in Nat
    BY <1>t DEF Task
  <2>1. [task[t] EXCEPT !.pc = "load", !.token = @ + 1, !.again = FALSE] \in Task
    BY <2>t DEF Task, Pc
  <2>d. [task[t] EXCEPT !.pc = "done", !.clean = FALSE] \in Task
    BY <2>t DEF Task, Pc
  <2>2. task' \in [Tasks -> Task]
    BY <1>15, <1>t, <2>1, <2>d DEF Crash
  <2> QED
    BY <1>15, <2>2, FirewallAssumption DEF TypeOK, Crash, Fault, Token
<1>16. CASE Expire
  BY <1>16, FirewallAssumption DEF TypeOK, Expire, Token
<1> QED
  BY <1>0, <1>1, <1>2, <1>3, <1>4, <1>5, <1>6, <1>7, <1>8, <1>9, <1>10, <1>11, <1>12,
     <1>13, <1>14, <1>15, <1>16 DEF Next, TaskStep

\* The variables of the firewall model keep their types for any families, rules,
\* addresses, actions, tasks, attempts, expiries and faults.
THEOREM TypeCorrect == Spec => []TypeOK
<1>1. Init => TypeOK
  BY TypeInit
<1>2. TypeOK /\ [Next]_vars => TypeOK'
  BY TypeNext
<1> QED
  BY <1>1, <1>2, PTL DEF Spec

-----------------------------------------------------------------------------
(* While no lock expires under a working holder, the tasks at work on the    *)
(* firewall hold the lock, hence only one is, and what it read still holds   *)
(* when it writes.                                                           *)

\* A task between its acquisition and its release holds the lock.
WorkerHolds == \A t \in Tasks : task[t].pc \in Holding => lock = TokenOf(t)

\* A task about to write saw the firewall as it is.
ReadIsCurrent == \A t \in Tasks : task[t].pc = "write" => task[t].seen = firewall

Exclusive == TypeOK /\ WorkerHolds /\ ReadIsCurrent

LEMMA ExclusiveInit == Init => Exclusive
<1> SUFFICES ASSUME Init
             PROVE  Exclusive
  OBVIOUS
<1>1. \A t \in Tasks : task[t].pc = "new"
  BY DEF Init, NewTask
<1> QED
  BY <1>1, TypeInit DEF Exclusive, WorkerHolds, ReadIsCurrent, Holding

\* A step that takes one task out of the lock or keeps it out, and leaves the
\* firewall and the lock alone, keeps the lock exclusive.
LEMMA OutsideStep ==
  ASSUME Exclusive, NEW t \in Tasks,
         \A u \in Tasks \ {t} : task'[u] = task[u],
         task'[t].pc \notin Holding,
         UNCHANGED <<firewall, lock>>
  PROVE  WorkerHolds' /\ ReadIsCurrent'
BY DEF Exclusive, WorkerHolds, ReadIsCurrent, TokenOf, Holding

LEMMA OnlyHolder ==
  ASSUME Exclusive, NEW t \in Tasks, task[t].pc \in Holding,
         NEW u \in Tasks \ {t}
  PROVE  task[u].pc \notin Holding
BY DEF Exclusive, WorkerHolds, TokenOf

LEMMA ExclusiveNext ==
  ASSUME MaxExpiries = 0, Exclusive, [Next]_vars
  PROVE  Exclusive'
<1>t. task \in [Tasks -> Task] /\ TypeOK'
  BY TypeNext DEF Exclusive, TypeOK
<1> SUFFICES WorkerHolds' /\ ReadIsCurrent'
  BY <1>t DEF Exclusive
<1>0. CASE UNCHANGED vars
  BY <1>0 DEF Exclusive, WorkerHolds, ReadIsCurrent, TokenOf, vars
<1>r. ASSUME NEW t \in Tasks, Retried(t)
      PROVE  task'[t].pc \notin Holding /\ \A u \in Tasks \ {t} : task'[u] = task[u]
  BY <1>r, <1>t DEF Retried, Holding, Task
<1>1. ASSUME NEW t \in Tasks,
             Begin(t) \/ LoadExecution(t) \/ LoadEdit(t) \/ AppendEdit(t)
               \/ ReloadAction(t) \/ AppendApplied(t)
      PROVE  WorkerHolds' /\ ReadIsCurrent'
  <2>1. /\ task'[t].pc \notin Holding
        /\ \A u \in Tasks \ {t} : task'[u] = task[u]
        /\ UNCHANGED <<firewall, lock>>
    <3>1. CASE Begin(t)
      <4>t. task[t] \in Task
        BY <1>t
      <4>1. task'[t].pc = "load" /\ \A u \in Tasks \ {t} : task'[u] = task[u]
        <5>1. PICK k \in Kinds, a \in Actions :
                \/ /\ k = "execute"
                   /\ \E v \in Reports(a) :
                        task' = [task EXCEPT ![t].pc = "load", ![t].action = a, ![t].kind = k,
                                             ![t].clean = Alone(t, a), ![t].values = v]
                \/ /\ k = "detach"
                   /\ task' = [task EXCEPT ![t].pc = "load", ![t].action = a, ![t].kind = k,
                                           ![t].clean = Alone(t, a)]
                \/ /\ k = "reconfigure"
                   /\ \E S \in SUBSET Family \ {{}}, r \in Rules :
                        task' = [task EXCEPT ![t].pc = "load", ![t].action = a, ![t].kind = k,
                                             ![t].clean = Alone(t, a),
                                             ![t].families = S, ![t].target = r]
          BY <3>1 DEF Begin
        <5>2. ASSUME NEW v, task' = [task EXCEPT ![t].pc = "load", ![t].action = a,
                                                 ![t].kind = k,
                                                 ![t].clean = Alone(t, a), ![t].values = v]
              PROVE  task'[t].pc = "load" /\ \A u \in Tasks \ {t} : task'[u] = task[u]
          BY <5>2, <1>t, <4>t DEF Task
        <5>3. CASE task' = [task EXCEPT ![t].pc = "load", ![t].action = a, ![t].kind = k,
                                        ![t].clean = Alone(t, a)]
          BY <5>3, <1>t, <4>t DEF Task
        <5>4. ASSUME NEW S, NEW r,
                     task' = [task EXCEPT ![t].pc = "load", ![t].action = a,
                                          ![t].kind = k,
                                          ![t].clean = Alone(t, a), ![t].families = S, ![t].target = r]
              PROVE  task'[t].pc = "load" /\ \A u \in Tasks \ {t} : task'[u] = task[u]
          BY <5>4, <1>t, <4>t DEF Task
        <5> QED
          BY <5>1, <5>2, <5>3, <5>4
      <4> QED
        BY <3>1, <4>1 DEF Begin, Holding
    <3>2. CASE LoadExecution(t)
      BY <3>2, <1>t DEF LoadExecution, Holding, Task
    <3>3. CASE LoadEdit(t)
      BY <3>3, <1>t DEF LoadEdit, Holding, Task
    <3>4. CASE AppendEdit(t)
      BY <3>4, <1>t DEF AppendEdit, Holding, Task
    <3>5. CASE ReloadAction(t)
      BY <3>5, <1>t DEF ReloadAction, Holding, Task
    <3>6. CASE AppendApplied(t)
      BY <3>6, <1>t DEF AppendApplied, Holding, Task
    <3> QED
      BY <1>1, <3>1, <3>2, <3>3, <3>4, <3>5, <3>6
  <2> QED
    BY <2>1, OutsideStep
<1>2. ASSUME NEW t \in Tasks, WaitTooLong(t)
      PROVE  WorkerHolds' /\ ReadIsCurrent'
  BY <1>2, <1>r, OutsideStep DEF WaitTooLong
<1>3. ASSUME NEW t \in Tasks, Crash(t)
      PROVE  WorkerHolds' /\ ReadIsCurrent'
  <2>1. task'[t].pc \notin Holding /\ \A u \in Tasks \ {t} : task'[u] = task[u]
    BY <1>3, <1>t DEF Crash, Holding, Task
  <2> QED
    BY <1>3, <2>1, OutsideStep DEF Crash
<1>4. ASSUME NEW t \in Tasks, Acquire(t)
      PROVE  WorkerHolds' /\ ReadIsCurrent'
  <2>1. \A u \in Tasks : task[u].pc \notin Holding
    <3>1. \A u \in Tasks : TokenOf(u) # None
      BY <1>t, FirewallAssumption DEF TokenOf, Task
    <3> QED
      BY <1>4, <3>1 DEF Acquire, Exclusive, WorkerHolds
  <2> QED
    BY <1>4, <1>t, <2>1 DEF Acquire, WorkerHolds, ReadIsCurrent, TokenOf, Holding, Task
<1>5. ASSUME NEW t \in Tasks, GetFirewall(t)
      PROVE  WorkerHolds' /\ ReadIsCurrent'
  BY <1>5, <1>t DEF GetFirewall, Exclusive, WorkerHolds, ReadIsCurrent, TokenOf, Holding, Task
<1>6. ASSUME NEW t \in Tasks, SetFirewallRules(t) \/ AnswerLost(t) \/ CallFails(t)
      PROVE  WorkerHolds' /\ ReadIsCurrent'
  <2>1. task[t].pc \in Holding
    BY <1>6 DEF SetFirewallRules, AnswerLost, CallFails, SetRules, Holding
  <2>2. \A u \in Tasks \ {t} : task[u].pc \notin Holding
    BY <2>1, OnlyHolder
  <2>3. /\ task'[t].pc \in {"release", "fail"} /\ task'[t].token = task[t].token
        /\ \A u \in Tasks \ {t} : task'[u] = task[u]
        /\ lock' = lock
    BY <1>6, <1>t DEF SetFirewallRules, AnswerLost, CallFails, Task
  <2> QED
    BY <2>1, <2>2, <2>3 DEF Exclusive, WorkerHolds, ReadIsCurrent, TokenOf, Holding
<1>7. ASSUME NEW t \in Tasks, Release(t) \/ ReleaseFailed(t)
      PROVE  WorkerHolds' /\ ReadIsCurrent'
  <2>1. task[t].pc \in Holding
    BY <1>7 DEF Release, ReleaseFailed, Holding
  <2>2. \A u \in Tasks \ {t} : task[u].pc \notin Holding
    BY <2>1, OnlyHolder
  <2>3. task'[t].pc \notin Holding /\ \A u \in Tasks \ {t} : task'[u] = task[u]
    <3>1. CASE Release(t)
      BY <3>1, <1>t DEF Release, Holding, Task
    <3>2. CASE ReleaseFailed(t)
      BY <3>2, <1>r DEF ReleaseFailed
    <3> QED
      BY <1>7, <3>1, <3>2
  <2> QED
    BY <2>2, <2>3 DEF WorkerHolds, ReadIsCurrent, Holding
<1>8. CASE Expire
  <2>1. ~HolderAlive
    BY <1>8, <1>t DEF Expire, Exclusive, TypeOK
  <2>2. \A u \in Tasks : task[u].pc \notin Holding
    BY <2>1 DEF HolderAlive, Exclusive, WorkerHolds
  <2> QED
    BY <1>8, <2>2 DEF Expire, WorkerHolds, ReadIsCurrent, Holding
<1> QED
  BY <1>0, <1>1, <1>2, <1>3, <1>4, <1>5, <1>6, <1>7, <1>8 DEF Next, TaskStep

\* FR-009 for any number of tasks, actions and rules: as long as no lock expires
\* under a working holder, a write changes only what its task means to change.
THEOREM UpdatesNotLost ==
  ASSUME MaxExpiries = 0
  PROVE  Spec => NoLostUpdate
<1> DEFINE Own == \E t \in Tasks : task[t].pc = "write" /\ firewall' = Apply(t, firewall)
<1>1. Init => Exclusive
  BY ExclusiveInit
<1>2. Exclusive /\ [Next]_vars => Exclusive'
  BY ExclusiveNext
<1>3. Exclusive /\ [Next]_vars => [firewall' # firewall => Own]_vars
  <2> SUFFICES ASSUME Exclusive, [Next]_vars, firewall' # firewall
               PROVE  Own
    OBVIOUS
  <2>0. ASSUME NEW t \in Tasks, Begin(t)
        PROVE  FALSE
    BY <2>0 DEF Begin
  <2>1. PICK t \in Tasks : SetRules(t)
    BY <2>0 DEF Next, TaskStep, vars, LoadExecution, LoadEdit, AppendEdit, Acquire,
           WaitTooLong, GetFirewall, SetFirewallRules, Release, ReleaseFailed,
           ReloadAction, AppendApplied, CallFails, AnswerLost, Crash, Expire
  <2> QED
    BY <2>1 DEF SetRules, Exclusive, ReadIsCurrent, Apply
<1> QED
  BY <1>1, <1>2, <1>3, PTL DEF Spec, NoLostUpdate

-----------------------------------------------------------------------------
(* What an action adds, owns and removes are addresses of its own device.    *)

\* What a task works with are addresses of its action's device.
OwnTask(T) ==
  /\ Given(T.add) \subseteq Addresses(T.action)
  /\ T.remove \subseteq Addresses(T.action)
  /\ T.kind = "execute" => Given(T.values) \subseteq Addresses(T.action) /\ T.pc # "append"
  /\ T.kind # "execute" => T.add = NoEntries /\ T.pc \notin {"new", "record", "applied"}
  /\ T.pc = "new" => T.remove = {} /\ T.add = NoEntries

OwnAddresses ==
  /\ \A a \in Actions : Given(action[a].owned) \subseteq Addresses(a)
  /\ \A t \in Tasks : OwnTask(task[t])

LEMMA NothingGiven == Given(NoEntries) = {} /\ NoEntries \in Entries
BY DEF Given, NoEntries, Entries, Entry

LEMMA ReportedAddresses ==
  ASSUME NEW a \in Actions, NEW v \in Reports(a)
  PROVE  v \in Entries /\ Given(v) \subseteq Addresses(a)
BY DEF Reports, Given, Addresses

LEMMA OwnedAddresses ==
  ASSUME OwnAddresses, NEW a \in Actions, NEW S \in SUBSET Family
  PROVE  OwnedOf(a, S) \subseteq Addresses(a)
BY DEF OwnAddresses, OwnedOf, Given

LEMMA OwnInit == Init => OwnAddresses
<1> SUFFICES ASSUME Init
             PROVE  OwnAddresses
  OBVIOUS
<1>1. ASSUME NEW a \in Actions
      PROVE  Given(action[a].owned) \subseteq Addresses(a)
  <2>1. action[a].owned \in Reports(a)
    BY DEF Init, Attached
  <2> QED
    BY <2>1, ReportedAddresses
<1>2. OwnTask(NewTask)
  BY NothingGiven DEF OwnTask, NewTask
<1> QED
  BY <1>1, <1>2 DEF Init, OwnAddresses

\* A task that only moves on works with the same addresses.
LEMMA OwnMoves ==
  ASSUME NEW T \in Task, NEW U \in Task, OwnTask(T),
         U.action = T.action, U.kind = T.kind, U.values = T.values,
         U.add = T.add, U.remove = T.remove,
         U.pc # "new",
         U.kind = "execute" => U.pc # "append",
         U.kind # "execute" => U.pc \notin {"record", "applied"}
  PROVE  OwnTask(U)
BY DEF OwnTask

\* A step of a task that is under way leaves the other tasks and the other
\* actions alone, and the task keeps what it was begun with.
AnyStep(t) == TaskStep(t) \/ CallFails(t) \/ AnswerLost(t) \/ Crash(t)

LEMMA RetriedKeeps ==
  ASSUME TypeOK, NEW t \in Tasks, Retried(t)
  PROVE  /\ \A u \in Tasks \ {t} : task'[u] = task[u]
         /\ task'[t].action = task[t].action /\ task'[t].kind = task[t].kind
         /\ task'[t].values = task[t].values
         /\ task'[t].add = task[t].add /\ task'[t].remove = task[t].remove
         /\ task'[t].pc \in {"load", "done"}
         /\ task'[t].pc = "done" => task'[t].clean = FALSE
         /\ task'[t].pc = "load" => task[t].kind = "execute"
         /\ task'[t].clean => task[t].clean
<1>t. task \in [Tasks -> Task] /\ task[t] \in Task
  BY DEF TypeOK
<1>1. CASE task[t].kind = "execute" /\ task[t].attempt < Attempts
  <2>1. task' = [task EXCEPT ![t].pc = "load", ![t].attempt = @ + 1, ![t].token = @ + 1]
    BY <1>1 DEF Retried
  <2> QED
    BY <1>1, <1>t, <2>1 DEF Task
<1>2. CASE ~(task[t].kind = "execute" /\ task[t].attempt < Attempts)
  <2>1. task' = [task EXCEPT ![t].pc = "done", ![t].clean = FALSE]
    BY <1>2 DEF Retried
  <2> QED
    BY <1>2, <1>t, <2>1 DEF Task
<1> QED
  BY <1>1, <1>2

LEMMA StepFrame ==
  ASSUME TypeOK, NEW t \in Tasks, AnyStep(t)
  PROVE  /\ \A u \in Tasks \ {t} : task'[u] = task[u]
         /\ Busy(t)
         /\ task'[t].action = task[t].action /\ task'[t].kind = task[t].kind
         /\ task'[t].values = task[t].values
         /\ task'[t].pc # "new"
         /\ task'[t].clean => task[t].clean
         /\ \A b \in Actions \ {task[t].action} : action'[b] = action[b]
<1>t. task \in [Tasks -> Task] /\ task[t] \in Task
  BY DEF TypeOK
<1>a. action \in [Actions -> Action]
  BY DEF TypeOK
<1>1. CASE LoadExecution(t)
  BY <1>1, <1>t DEF LoadExecution, Busy, Task
<1>2. CASE LoadEdit(t)
  BY <1>2, <1>t DEF LoadEdit, Busy, Task
<1>3. CASE AppendEdit(t)
  <2>1. Busy(t) /\ \A b \in Actions \ {task[t].action} : action'[b] = action[b]
    BY <1>3, <1>a DEF AppendEdit, Busy
  <2> DEFINE pc == IF task[t].remove = {} THEN "done" ELSE "lock"
             clean == /\ task[t].clean
                      /\ task[t].kind = "reconfigure" =>
                            task[t].target = action[task[t].action].rule
  <2>2. \/ task' = [task EXCEPT ![t].pc = pc, ![t].clean = clean]
        \/ task' = [task EXCEPT ![t].pc = "done"]
    BY <1>3 DEF AppendEdit
  <2>3. pc # "new" /\ (clean => task[t].clean)
    OBVIOUS
  <2> HIDE DEF pc, clean
  <2> QED
    BY <1>t, <2>1, <2>2, <2>3 DEF Task
<1>4. CASE Acquire(t)
  BY <1>4, <1>t DEF Acquire, Busy, Task
<1>5. CASE WaitTooLong(t)
  BY <1>5, RetriedKeeps DEF WaitTooLong, Busy
<1>6. CASE GetFirewall(t)
  BY <1>6, <1>t DEF GetFirewall, Busy, Task
<1>7. CASE SetFirewallRules(t)
  BY <1>7, <1>t DEF SetFirewallRules, SetRules, Busy, Task
<1>8. CASE Release(t)
  BY <1>8, <1>t DEF Release, Busy, Task
<1>9. CASE ReleaseFailed(t)
  BY <1>9, RetriedKeeps DEF ReleaseFailed, Busy
<1>10. CASE ReloadAction(t)
  BY <1>10, <1>t DEF ReloadAction, Busy, Task
<1>11. CASE AppendApplied(t)
  <2>1. Busy(t) /\ \A b \in Actions \ {task[t].action} : action'[b] = action[b]
    BY <1>11, <1>a DEF AppendApplied, Busy
  <2> QED
    BY <1>11, <1>t, <2>1 DEF AppendApplied, Task
<1>12. CASE CallFails(t)
  BY <1>12, <1>t DEF CallFails, Busy, Task
<1>13. CASE AnswerLost(t)
  BY <1>13, <1>t DEF AnswerLost, SetRules, Busy, Task
<1>14. CASE Crash(t)
  BY <1>14, <1>t DEF Crash, Busy, Task
<1> QED
  BY <1>1, <1>2, <1>3, <1>4, <1>5, <1>6, <1>7, <1>8, <1>9, <1>10, <1>11, <1>12, <1>13, <1>14
     DEF AnyStep, TaskStep

\* A new task is given an action, and the addresses of its device if it executes.
LEMMA BeginEffect ==
  ASSUME TypeOK, NEW t \in Tasks, Begin(t)
  PROVE  /\ task[t].pc = "new"
         /\ \A u \in Tasks \ {t} : task'[u] = task[u]
         /\ task'[t].pc = "load"
         /\ task'[t].add = task[t].add /\ task'[t].remove = task[t].remove
         /\ task'[t].clean => Alone(t, task'[t].action)
         /\ task'[t].kind \in Kind
         /\ task'[t].kind = "execute" => task'[t].values \in Reports(task'[t].action)
         /\ UNCHANGED <<firewall, action, lock, asked, expiries, faults>>
<1>t. task \in [Tasks -> Task] /\ task[t] \in Task
  BY DEF TypeOK
<1>1. PICK k \in Kinds, a \in Actions :
        \/ /\ k = "execute"
           /\ \E v \in Reports(a) :
                task' = [task EXCEPT ![t].pc = "load", ![t].action = a, ![t].kind = k,
                                     ![t].clean = Alone(t, a), ![t].values = v]
        \/ /\ k = "detach"
           /\ task' = [task EXCEPT ![t].pc = "load", ![t].action = a, ![t].kind = k,
                                   ![t].clean = Alone(t, a)]
        \/ /\ k = "reconfigure"
           /\ \E S \in SUBSET Family \ {{}}, r \in Rules :
                task' = [task EXCEPT ![t].pc = "load", ![t].action = a, ![t].kind = k,
                                     ![t].clean = Alone(t, a),
                                     ![t].families = S, ![t].target = r]
  BY DEF Begin
<1>2. k \in Kind
  BY FirewallAssumption DEF Kind
<1>3. PICK alone : alone = Alone(t, a)
  OBVIOUS
<1>4. alone => Alone(t, a)
  BY <1>3
<1>5. CASE k = "execute"
  <2>1. PICK v \in Reports(a) :
          task' = [task EXCEPT ![t].pc = "load", ![t].action = a, ![t].kind = k,
                               ![t].clean = alone, ![t].values = v]
    BY <1>1, <1>3, <1>5
  <2>2. /\ task'[t].action = a /\ task'[t].values = v /\ task'[t].pc = "load"
        /\ task'[t].kind = k /\ task'[t].clean = alone
        /\ task'[t].add = task[t].add /\ task'[t].remove = task[t].remove
        /\ \A u \in Tasks \ {t} : task'[u] = task[u]
    BY <1>t, <2>1 DEF Task
  <2> QED
    BY <1>2, <1>4, <2>2 DEF Begin
<1>6. CASE k = "detach"
  <2>1. task' = [task EXCEPT ![t].pc = "load", ![t].action = a, ![t].kind = k,
                             ![t].clean = alone]
    BY <1>1, <1>3, <1>6
  <2>2. /\ task'[t].action = a /\ task'[t].pc = "load"
        /\ task'[t].kind = k /\ task'[t].clean = alone
        /\ task'[t].add = task[t].add /\ task'[t].remove = task[t].remove
        /\ \A u \in Tasks \ {t} : task'[u] = task[u]
    BY <1>t, <2>1 DEF Task
  <2> QED
    BY <1>2, <1>4, <1>6, <2>2 DEF Begin
<1>7. CASE k = "reconfigure"
  <2>1. PICK S \in SUBSET Family \ {{}}, r \in Rules :
          task' = [task EXCEPT ![t].pc = "load", ![t].action = a, ![t].kind = k,
                               ![t].clean = alone, ![t].families = S, ![t].target = r]
    BY <1>1, <1>3, <1>7
  <2>2. /\ task'[t].action = a /\ task'[t].pc = "load"
        /\ task'[t].kind = k /\ task'[t].clean = alone
        /\ task'[t].add = task[t].add /\ task'[t].remove = task[t].remove
        /\ \A u \in Tasks \ {t} : task'[u] = task[u]
    BY <1>t, <2>1 DEF Task
  <2> QED
    BY <1>2, <1>4, <1>7, <2>2 DEF Begin
<1> QED
  BY <1>1, <1>5, <1>6, <1>7

\* The steps that decide what a task adds and removes.
Ready(t, a) ==
  action[a].status = "enabled" /\ \A f \in action[a].families : task[t].values[f] # None

Chosen(t, a) ==
  [f \in Family |-> IF f \in action[a].families THEN task[t].values[f] ELSE None]

LEMMA ChosenType ==
  ASSUME TypeOK, NEW t \in Tasks, NEW a \in Actions
  PROVE  Chosen(t, a) \in Entries /\ Given(Chosen(t, a)) \subseteq Given(task[t].values)
<1>1. task[t].values \in Entries
  BY DEF TypeOK, Task
<1> QED
  BY <1>1 DEF Chosen, Given, Entries, Entry

LEMMA LoadExecutionEffect ==
  ASSUME TypeOK, NEW t \in Tasks, LoadExecution(t), NEW a \in Actions, a = task[t].action
  PROVE  /\ task[t].pc = "load" /\ task[t].kind = "execute"
         /\ UNCHANGED <<firewall, action, asked>>
         /\ ~Ready(t, a) => /\ task'[t].pc = "done"
                            /\ task'[t].add = task[t].add /\ task'[t].remove = task[t].remove
         /\ Ready(t, a) => /\ task'[t].pc = "lock" /\ task'[t].rule = action[a].rule
                           /\ task'[t].add = Chosen(t, a)
                           /\ task'[t].remove = OwnedOf(a, action[a].families)
<1>t. task \in [Tasks -> Task] /\ task[t] \in Task
  BY DEF TypeOK
<1>1. CASE Ready(t, a)
  <2>1. PICK V : V = Chosen(t, a)
    OBVIOUS
  <2>2. task' = [task EXCEPT ![t].pc = "lock", ![t].rule = action[a].rule, ![t].add = V,
                             ![t].remove = OwnedOf(a, action[a].families)]
    BY <1>1, <2>1 DEF LoadExecution, Ready, Chosen
  <2>3. /\ task'[t].pc = "lock" /\ task'[t].rule = action[a].rule
        /\ task'[t].add = V /\ task'[t].remove = OwnedOf(a, action[a].families)
    BY <1>t, <2>2 DEF Task
  <2> QED
    BY <1>1, <2>1, <2>3 DEF LoadExecution
<1>2. CASE ~Ready(t, a)
  <2>1. task' = [task EXCEPT ![t].pc = "done"]
    BY <1>2 DEF LoadExecution, Ready
  <2> QED
    BY <1>t, <1>2, <2>1 DEF LoadExecution, Task
<1> QED
  BY <1>1, <1>2

Cleanup(t, a) ==
  OwnedOf(a, IF task[t].kind = "detach" THEN Family
             ELSE action[a].families \ task[t].families)

LEMMA LoadEditEffect ==
  ASSUME TypeOK, NEW t \in Tasks, LoadEdit(t), NEW a \in Actions, a = task[t].action
  PROVE  /\ task[t].pc = "load" /\ task[t].kind # "execute"
         /\ UNCHANGED <<firewall, action, asked>>
         /\ task'[t].add = task[t].add /\ task'[t].families = task[t].families
         /\ \/ task'[t].pc = "done" /\ task'[t].remove = task[t].remove
            \/ /\ task'[t].pc = "append" /\ task'[t].rule = action[a].rule
               /\ task'[t].remove = Cleanup(t, a)
<1>t. task \in [Tasks -> Task] /\ task[t] \in Task
  BY DEF TypeOK
<1>1. CASE task[t].kind = "detach" /\ action[a].status = "detached"
  <2>1. task' = [task EXCEPT ![t].pc = "done"]
    BY <1>1 DEF LoadEdit
  <2> QED
    BY <1>t, <2>1 DEF LoadEdit, Task
<1>2. CASE ~(task[t].kind = "detach" /\ action[a].status = "detached")
  <2>1. PICK R : R = Cleanup(t, a)
    OBVIOUS
  <2>2. task' = [task EXCEPT ![t].pc = "append", ![t].version = action[a].version,
                             ![t].rule = action[a].rule, ![t].remove = R]
    BY <1>2, <2>1 DEF LoadEdit, Cleanup
  <2>3. /\ task'[t].add = task[t].add /\ task'[t].pc = "append"
        /\ task'[t].families = task[t].families
        /\ task'[t].rule = action[a].rule /\ task'[t].remove = R
    BY <1>t, <2>2 DEF Task
  <2> QED
    BY <2>1, <2>3 DEF LoadEdit
<1> QED
  BY <1>1, <1>2

LEMMA AppendEditEffect ==
  ASSUME TypeOK, NEW t \in Tasks, AppendEdit(t), NEW a \in Actions, a = task[t].action
  PROVE  /\ task[t].pc = "append" /\ firewall' = firewall
         /\ task'[t].remove = task[t].remove /\ task'[t].rule = task[t].rule
         /\ task'[t].kind = task[t].kind
         /\ \/ task'[t].pc = "done" /\ action' = action
            \/ /\ task'[t].pc = IF task[t].remove = {} THEN "done" ELSE "lock"
               /\ action'[a].owned = action[a].owned
               /\ IF task[t].kind = "detach"
                    THEN action'[a].status = "detached"
                    ELSE /\ action'[a].status = action[a].status
                         /\ action'[a].rule = task[t].target
                         /\ action'[a].families = task[t].families
               /\ task'[t].clean /\ task[t].kind = "reconfigure" =>
                    task[t].target = action[a].rule
<1>t. task \in [Tasks -> Task] /\ task[t] \in Task
  BY DEF TypeOK
<1>a. action \in [Actions -> Action] /\ action[a] \in Action
  BY DEF TypeOK
<1>1. CASE action[a].version = task[t].version
  <2>1. PICK pc : pc = IF task[t].remove = {} THEN "done" ELSE "lock"
    OBVIOUS
  <2>2. PICK clean : clean = (/\ task[t].clean
                              /\ task[t].kind = "reconfigure" => task[t].target = action[a].rule)
    OBVIOUS
  <2>3. task' = [task EXCEPT ![t].pc = pc, ![t].clean = clean]
    BY <1>1, <2>1, <2>2 DEF AppendEdit
  <2>4. /\ task'[t].pc = pc /\ task'[t].clean = clean
        /\ task'[t].remove = task[t].remove /\ task'[t].rule = task[t].rule
        /\ task'[t].kind = task[t].kind
    BY <1>t, <2>3 DEF Task
  <2>5. task'[t].clean /\ task[t].kind = "reconfigure" => task[t].target = action[a].rule
    BY <2>2, <2>4
  <2>6. CASE task[t].kind = "detach"
    <3>1. action' = [action EXCEPT ![a].version = @ + 1, ![a].status = "detached"]
      BY <1>1, <2>6 DEF AppendEdit
    <3>2. action'[a].owned = action[a].owned /\ action'[a].status = "detached"
      BY <1>a, <3>1 DEF Action
    <3> QED
      BY <2>1, <2>4, <2>5, <2>6, <3>2 DEF AppendEdit
  <2>7. CASE task[t].kind # "detach"
    <3>1. action' = [action EXCEPT ![a].version = @ + 1, ![a].rule = task[t].target,
                                   ![a].families = task[t].families]
      BY <1>1, <2>7 DEF AppendEdit
    <3>2. /\ action'[a].owned = action[a].owned /\ action'[a].status = action[a].status
          /\ action'[a].rule = task[t].target /\ action'[a].families = task[t].families
      BY <1>a, <3>1 DEF Action
    <3> QED
      BY <2>1, <2>4, <2>5, <2>7, <3>2 DEF AppendEdit
  <2> QED
    BY <2>6, <2>7
<1>2. CASE action[a].version # task[t].version
  <2>1. task' = [task EXCEPT ![t].pc = "done"] /\ action' = action
    BY <1>2 DEF AppendEdit
  <2>2. /\ task'[t].pc = "done"
        /\ task'[t].remove = task[t].remove /\ task'[t].rule = task[t].rule
        /\ task'[t].kind = task[t].kind
    BY <1>t, <2>1 DEF Task
  <2> QED
    BY <2>1, <2>2 DEF AppendEdit
<1> QED
  BY <1>1, <1>2

LEMMA AppendAppliedEffect ==
  ASSUME TypeOK, NEW t \in Tasks, AppendApplied(t), NEW a \in Actions, a = task[t].action
  PROVE  /\ task[t].pc = "applied"
         /\ UNCHANGED <<firewall, asked>>
         /\ task'[t].add = task[t].add /\ task'[t].remove = task[t].remove
         /\ action[a].version = task[t].version =>
              /\ task'[t].pc = "done"
              /\ action'[a].status = action[a].status /\ action'[a].rule = action[a].rule
              /\ action'[a].families = action[a].families
              /\ \A f \in Family : action'[a].owned[f] = IF task[t].add[f] # None
                                                          THEN task[t].add[f]
                                                          ELSE action[a].owned[f]
         /\ action[a].version # task[t].version =>
              task'[t].pc \in {"done", "record"} /\ action' = action
<1>t. task \in [Tasks -> Task] /\ task[t] \in Task
  BY DEF TypeOK
<1>a. action \in [Actions -> Action] /\ action[a] \in Action
  BY DEF TypeOK
<1>1. CASE action[a].version = task[t].version
  <2>1. PICK O : O = [f \in Family |-> IF task[t].add[f] # None
                                          THEN task[t].add[f] ELSE action[a].owned[f]]
    OBVIOUS
  <2>2. action' = [action EXCEPT ![a].version = @ + 1, ![a].owned = O]
    BY <1>1, <2>1, <1>a DEF AppendApplied
  <2>3. /\ action'[a].status = action[a].status /\ action'[a].rule = action[a].rule
        /\ action'[a].families = action[a].families /\ action'[a].owned = O
    BY <1>a, <2>2 DEF Action
  <2>4. task' = [task EXCEPT ![t].pc = "done"]
    BY <1>1 DEF AppendApplied
  <2>5. /\ task'[t].add = task[t].add /\ task'[t].remove = task[t].remove
        /\ task'[t].pc = "done"
    BY <1>t, <2>4 DEF Task
  <2> QED
    BY <1>1, <2>1, <2>3, <2>5 DEF AppendApplied
<1>2. CASE action[a].version # task[t].version
  <2>1. PICK pc \in {"done", "record"} : task' = [task EXCEPT ![t].pc = pc, ![t].again = TRUE]
    BY <1>2 DEF AppendApplied
  <2>2. /\ task'[t].add = task[t].add /\ task'[t].remove = task[t].remove
        /\ task'[t].pc = pc
    BY <1>t, <2>1 DEF Task
  <2> QED
    BY <1>2, <2>2 DEF AppendApplied
<1> QED
  BY <1>1, <1>2

LEMMA OwnNext ==
  ASSUME TypeOK, OwnAddresses, [Next]_vars
  PROVE  OwnAddresses'
<1>t. task \in [Tasks -> Task] /\ task' \in [Tasks -> Task]
  BY TypeNext DEF TypeOK
<1>a. \A a \in Actions : action[a] \in Action /\ action[a].owned \in Entries
  BY DEF TypeOK, Action
<1>T. \A t \in Tasks : task[t].action \in Actions
  BY <1>t DEF Task
<1>0. CASE UNCHANGED vars
  BY <1>0 DEF vars, OwnAddresses
<1>1. ASSUME NEW t \in Tasks, Begin(t)
      PROVE  OwnAddresses'
  <2>1. OwnTask(task'[t])
    <3>1. OwnTask(task[t])
      BY DEF OwnAddresses
    <3>2. task'[t].action \in Actions
      BY <1>t DEF Task
    <3>3. task[t].add = NoEntries /\ task[t].remove = {}
      BY <1>1, <3>1, BeginEffect DEF OwnTask
    <3>4. task'[t].add = NoEntries /\ task'[t].remove = {} /\ task'[t].pc = "load"
      BY <1>1, <3>3, BeginEffect
    <3>5. task'[t].kind = "execute" => Given(task'[t].values) \subseteq Addresses(task'[t].action)
      BY <1>1, <3>2, BeginEffect, ReportedAddresses
    <3> QED
      BY <3>4, <3>5, NothingGiven DEF OwnTask
  <2>2. action' = action /\ \A u \in Tasks \ {t} : task'[u] = task[u]
    BY <1>1, BeginEffect
  <2>3. \A u \in Tasks : OwnTask(task'[u])
    BY <2>1, <2>2 DEF OwnAddresses
  <2> QED
    BY <2>2, <2>3 DEF OwnAddresses
<1>2. ASSUME NEW t \in Tasks, AnyStep(t)
      PROVE  OwnAddresses'
  <2> PICK a \in Actions : a = task[t].action
    BY <1>T
  <2>f. /\ \A u \in Tasks \ {t} : task'[u] = task[u]
        /\ task'[t].action = task[t].action /\ task'[t].kind = task[t].kind
        /\ task'[t].values = task[t].values /\ task'[t].pc # "new"
        /\ \A b \in Actions \ {a} : action'[b] = action[b]
    BY <1>2, StepFrame
  <2>o. OwnTask(task[t]) /\ Given(action[a].owned) \subseteq Addresses(a)
    BY DEF OwnAddresses
  <2>m. ASSUME task'[t].add = task[t].add, task'[t].remove = task[t].remove,
               task[t].kind = "execute" => task'[t].pc # "append",
               task[t].kind # "execute" => task'[t].pc \notin {"record", "applied"}
        PROVE  OwnTask(task'[t])
    BY <1>t, <2>f, <2>o, <2>m, OwnMoves
  <2> SUFFICES OwnTask(task'[t]) /\ Given(action'[a].owned) \subseteq Addresses(a)
    BY <2>f DEF OwnAddresses
  <2>1. CASE LoadExecution(t)
    <3>1. CASE ~Ready(t, a)
      BY <2>1, <2>m, <2>o, <3>1, LoadExecutionEffect
    <3>2. CASE Ready(t, a)
      <4>1. /\ task'[t].pc = "lock" /\ task'[t].add = Chosen(t, a)
            /\ task'[t].remove = OwnedOf(a, action[a].families)
            /\ action' = action /\ task[t].kind = "execute"
        BY <2>1, <3>2, LoadExecutionEffect
      <4>2. Given(task'[t].add) \subseteq Given(task[t].values)
        BY <4>1, ChosenType
      <4>3. Given(task[t].values) \subseteq Addresses(a)
        BY <2>o, <4>1 DEF OwnTask
      <4>4. task'[t].remove \subseteq Addresses(a)
        BY <1>a, <4>1, OwnedAddresses DEF Action
      <4> QED
        BY <2>f, <2>o, <4>1, <4>2, <4>3, <4>4 DEF OwnTask
    <3> QED
      BY <3>1, <3>2
  <2>2. CASE LoadEdit(t)
    <3>0. /\ task[t].kind # "execute" /\ action' = action
          /\ task'[t].add = task[t].add /\ task[t].add = NoEntries
      BY <2>2, <2>o, LoadEditEffect DEF OwnTask
    <3>1. CASE task'[t].pc = "done" /\ task'[t].remove = task[t].remove
      BY <2>m, <2>o, <3>0, <3>1
    <3>2. CASE task'[t].pc = "append" /\ task'[t].remove = Cleanup(t, a)
      <4>1. task'[t].remove \subseteq Addresses(a)
        BY <1>a, <3>2, OwnedAddresses DEF Cleanup, Action
      <4> QED
        BY <2>f, <2>o, <3>0, <3>2, <4>1, NothingGiven DEF OwnTask
    <3> QED
      BY <2>2, <3>1, <3>2, LoadEditEffect
  <2>3. CASE AppendEdit(t)
    <3>1. /\ task'[t].add = task[t].add /\ task'[t].remove = task[t].remove
          /\ task'[t].pc \in {"done", "lock"}
      BY <2>3, <1>t DEF AppendEdit, Task
    <3>2. action'[a].owned = action[a].owned
      <4>1. action \in [Actions -> Action]
        BY DEF TypeOK
      <4> QED
        BY <2>3, <4>1 DEF AppendEdit, Action
    <3> QED
      BY <2>m, <2>o, <3>1, <3>2
  <2>4. CASE AppendApplied(t)
    <3>1. /\ task[t].pc = "applied"
          /\ task'[t].add = task[t].add /\ task'[t].remove = task[t].remove
          /\ task'[t].pc \in {"done", "record"}
      BY <2>4, AppendAppliedEffect
    <3>2. OwnTask(task'[t])
      BY <2>m, <2>o, <3>1 DEF OwnTask
    <3>3. Given(action'[a].owned) \subseteq Given(action[a].owned) \cup Given(task[t].add)
      <4>1. CASE action[a].version = task[t].version
        BY <2>4, <4>1, AppendAppliedEffect DEF Given
      <4>2. CASE action[a].version # task[t].version
        BY <2>4, <4>2, AppendAppliedEffect
      <4> QED
        BY <4>1, <4>2
    <3> QED
      BY <2>o, <3>2, <3>3 DEF OwnTask
  <2>5. CASE \/ Acquire(t) \/ GetFirewall(t) \/ SetFirewallRules(t) \/ CallFails(t)
             \/ AnswerLost(t) \/ Crash(t)
    <3>1. /\ task'[t].add = task[t].add /\ task'[t].remove = task[t].remove
          /\ task'[t].pc \notin {"append", "record", "applied"}
          /\ action' = action
      BY <2>5, <1>t DEF Acquire, GetFirewall, SetFirewallRules, CallFails, AnswerLost, Crash,
                        Task
    <3> QED
      BY <2>m, <2>o, <3>1
  <2>6. CASE WaitTooLong(t) \/ ReleaseFailed(t)
    <3>1. /\ task'[t].add = task[t].add /\ task'[t].remove = task[t].remove
          /\ task'[t].pc \in {"load", "done"}
          /\ action' = action
      BY <2>6, RetriedKeeps DEF WaitTooLong, ReleaseFailed
    <3> QED
      BY <2>m, <2>o, <3>1
  <2>7. CASE Release(t) \/ ReloadAction(t)
    <3>1. /\ task'[t].add = task[t].add /\ task'[t].remove = task[t].remove
          /\ task'[t].pc \in {"record", "done", "applied"} /\ action' = action
          /\ task'[t].pc = "record" => task[t].kind = "execute"
          /\ task'[t].pc = "applied" => task[t].pc = "record"
      BY <2>7, <1>t DEF Release, ReloadAction, Task
    <3> QED
      BY <2>m, <2>o, <3>1 DEF OwnTask
  <2> QED
    BY <1>2, <2>1, <2>2, <2>3, <2>4, <2>5, <2>6, <2>7 DEF AnyStep, TaskStep
<1>3. CASE Expire
  BY <1>3 DEF Expire, OwnAddresses
<1> QED
  BY <1>0, <1>1, <1>2, <1>3 DEF Next, AnyStep

\* A write changes the list of the task's rule, by entries of its action.
LEMMA SetRulesEffect ==
  ASSUME Exclusive, NEW t \in Tasks, SetRules(t), NEW a \in Actions, a = task[t].action
  PROVE  /\ task[t].pc = "write"
         /\ \A r \in Rules \ {task[t].rule} : firewall'[r] = firewall[r]
         /\ firewall'[task[t].rule] =
              (firewall[task[t].rule] \ task[t].remove) \cup Given(task[t].add)
         /\ \A b \in Actions \ {a} : asked'[b] = asked[b]
         /\ asked'[a] = asked[a] \cup ({task[t].rule} \X Given(task[t].add))
<1>t. task[t].rule \in Rules /\ firewall \in Lists
  BY DEF Exclusive, TypeOK, Task
<1>d. asked \in [Actions -> SUBSET (Rules \X Cidr)]
  BY DEF Exclusive, TypeOK
<1>1. task[t].seen = firewall
  BY DEF SetRules, Exclusive, ReadIsCurrent
<1>2. firewall' = [firewall EXCEPT ![task[t].rule] =
                     (@ \ task[t].remove) \cup Given(task[t].add)]
  BY <1>1 DEF SetRules, Apply, Replaced
<1>3. /\ \A r \in Rules \ {task[t].rule} : firewall'[r] = firewall[r]
      /\ firewall'[task[t].rule] =
           (firewall[task[t].rule] \ task[t].remove) \cup Given(task[t].add)
  BY <1>t, <1>2 DEF Lists
<1>4. /\ \A b \in Actions \ {a} : asked'[b] = asked[b]
      /\ asked'[a] = asked[a] \cup ({task[t].rule} \X Given(task[t].add))
  BY <1>d DEF SetRules
<1> QED
  BY <1>3, <1>4 DEF SetRules

\* The firewall and the history change with a write only.
LEMMA WritesOnly ==
  ASSUME TypeOK, [Next]_vars, \A t \in Tasks : ~SetRules(t)
  PROVE  firewall' = firewall /\ asked' = asked
<1>0. ASSUME NEW t \in Tasks, Begin(t)
      PROVE  firewall' = firewall /\ asked' = asked
  BY <1>0 DEF Begin
<1> QED
  BY <1>0 DEF Next, TaskStep, vars, LoadExecution, LoadEdit, AppendEdit, Acquire,
         WaitTooLong, GetFirewall, SetFirewallRules, Release, ReleaseFailed,
         ReloadAction, AppendApplied, CallFails, AnswerLost, Crash, Expire

\* An action has asked for an entry in a rule, or in another if it was moved.
AskedIn(a, r, c) == \E q \in Rules : <<q, c>> \in asked[a] /\ (q = r \/ Moved(a))

\* A task that has loaded its action and is not done.
Loaded(t) == task[t].pc \notin {"new", "load", "done"}

\* What an action owns it has asked for, and so has it what a task of it removes;
\* what was written was asked for; and the rule a task works on is its action's, as
\* long as the action is not moved.
OwnedIsAsked ==
  /\ \A a \in Actions : \A c \in Given(action[a].owned) : AskedIn(a, action[a].rule, c)
  /\ \A t \in Tasks : LET a == task[t].action IN
       /\ \A c \in task[t].remove : AskedIn(a, task[t].rule, c)
       /\ task[t].pc \in {"release", "record", "applied"} =>
            {task[t].rule} \X Given(task[t].add) \subseteq asked[a]
       /\ Loaded(t) => task[t].rule = action[a].rule \/ Moved(a)

LEMMA OwnedIsAskedInit == Init => OwnedIsAsked
<1> SUFFICES ASSUME Init
             PROVE  OwnedIsAsked
  OBVIOUS
<1>1. ASSUME NEW a \in Actions, NEW c \in Given(action[a].owned)
      PROVE  AskedIn(a, action[a].rule, c)
  <2>1. action[a].rule \in Rules /\ <<action[a].rule, c>> \in asked[a]
    BY TypeInit DEF Init, TypeOK, Action
  <2> QED
    BY <2>1 DEF AskedIn
<1>2. \A t \in Tasks : task[t].pc = "new" /\ task[t].remove = {}
  BY DEF Init, NewTask
<1> QED
  BY <1>1, <1>2 DEF OwnedIsAsked, Loaded

\* Once moved is moved for ever, and what was asked for was asked for.
LEMMA MovedStays ==
  ASSUME TypeOK, OwnAddresses, [Next]_vars, NEW a \in Actions, Moved(a)
  PROVE  Moved(a)'
<1> PICK u \in Tasks : /\ task[u].action = a /\ task[u].kind = "reconfigure"
                       /\ task[u].pc \notin {"new", "load"} /\ task[u].target # task[u].rule
  BY DEF Moved
<1>t. task \in [Tasks -> Task] /\ task[u] \in Task
  BY DEF TypeOK
<1> SUFFICES task'[u].action = a /\ task'[u].kind = "reconfigure"
               /\ task'[u].pc \notin {"new", "load"} /\ task'[u].target # task'[u].rule
  BY DEF Moved
<1>0. CASE task'[u] = task[u]
  BY <1>0
<1>1. ASSUME NEW t \in Tasks, Begin(t)
      PROVE  task'[u] = task[u]
  BY <1>1, BeginEffect
<1>2. ASSUME NEW t \in Tasks, AnyStep(t), t # u
      PROVE  task'[u] = task[u]
  BY <1>2, StepFrame
<1>3. CASE AnyStep(u)
  <2>1. task'[u].action = a /\ task'[u].kind = "reconfigure"
    BY <1>3, StepFrame
  <2>2. task'[u].pc \notin {"new", "load"} /\ task'[u].target = task[u].target
          /\ task'[u].rule = task[u].rule
    <3>1. CASE AppendEdit(u)
      <4>1. PICK pc, clean : \/ task' = [task EXCEPT ![u].pc = pc, ![u].clean = clean]
                             \/ task' = [task EXCEPT ![u].pc = pc]
        BY <3>1 DEF AppendEdit
      <4>2. task'[u].target = task[u].target
        BY <1>t, <4>1 DEF Task
      <4>3. PICK b \in Actions : b = task[u].action
        BY <1>t DEF Task
      <4> QED
        BY <3>1, <4>2, <4>3, AppendEditEffect
    <3>2. CASE AppendApplied(u)
      BY <3>2 DEF AppendApplied, OwnAddresses, OwnTask
    <3>3. CASE WaitTooLong(u) \/ ReleaseFailed(u)
      <4>1. task' = [task EXCEPT ![u].pc = "done", ![u].clean = FALSE]
        BY <3>3 DEF WaitTooLong, ReleaseFailed, Retried
      <4> QED
        BY <1>t, <4>1 DEF Task
    <3>4. CASE Crash(u)
      <4>1. task' = [task EXCEPT ![u].pc = "done", ![u].clean = FALSE]
        BY <3>4 DEF Crash
      <4> QED
        BY <1>t, <4>1 DEF Task
    <3>5. CASE Acquire(u) \/ GetFirewall(u) \/ SetFirewallRules(u) \/ CallFails(u) \/ AnswerLost(u)
      BY <1>t, <3>5 DEF Acquire, GetFirewall, SetFirewallRules, CallFails, AnswerLost, Task
    <3>6. CASE Release(u) \/ ReloadAction(u)
      BY <1>t, <3>6 DEF Release, ReloadAction, Task
    <3> QED
      BY <1>3, <3>1, <3>2, <3>3, <3>4, <3>5, <3>6
         DEF AnyStep, TaskStep, LoadExecution, LoadEdit
  <2> QED
    BY <2>1, <2>2
<1>4. CASE UNCHANGED vars \/ Expire
  BY <1>4 DEF vars, Expire
<1> QED
  BY <1>0, <1>1, <1>2, <1>3, <1>4 DEF Next, AnyStep

LEMMA AskedStays ==
  ASSUME Exclusive, OwnAddresses, [Next]_vars, NEW a \in Actions
  PROVE  /\ asked[a] \subseteq asked'[a]
         /\ \A r, c : AskedIn(a, r, c) => AskedIn(a, r, c)'
<1>1. asked[a] \subseteq asked'[a]
  <2>1. CASE \A t \in Tasks : ~SetRules(t)
    BY <2>1, WritesOnly DEF Exclusive
  <2>2. ASSUME NEW t \in Tasks, SetRules(t)
        PROVE  asked[a] \subseteq asked'[a]
    <3> PICK b \in Actions : b = task[t].action
      BY DEF Exclusive, TypeOK, Task
    <3> QED
      BY <2>2, SetRulesEffect
  <2> QED
    BY <2>1, <2>2
<1>2. Moved(a) => Moved(a)'
  BY MovedStays DEF Exclusive
<1> QED
  BY <1>1, <1>2 DEF AskedIn

\* A task whose rule, additions and removals stay, and whose action's rule does,
\* keeps its part, unless it has just written.
LEMMA OwnedIsAskedMoves ==
  ASSUME Exclusive, OwnAddresses, OwnedIsAsked, [Next]_vars,
         NEW t \in Tasks, NEW a \in Actions, a = task[t].action, task'[t].action = a,
         task'[t].rule = task[t].rule, task'[t].add = task[t].add,
         task'[t].remove = task[t].remove,
         task'[t].pc \in {"release", "record", "applied"} =>
           task[t].pc \in {"release", "record", "applied"},
         Loaded(t)' => Loaded(t),
         action'[a].rule = action[a].rule \/ Moved(a)'
  PROVE  /\ (\A c \in task[t].remove : AskedIn(a, task[t].rule, c))'
         /\ task'[t].pc \in {"release", "record", "applied"} =>
              {task'[t].rule} \X Given(task'[t].add) \subseteq asked'[a]
         /\ Loaded(t)' => task'[t].rule = action'[a].rule \/ Moved(a)'
<1>1. (\A c \in task[t].remove : AskedIn(a, task[t].rule, c))'
  <2> PICK r : r = task[t].rule
    OBVIOUS
  <2>1. \A c \in task[t].remove : AskedIn(a, r, c)
    BY DEF OwnedIsAsked
  <2>2. \A c \in task'[t].remove : AskedIn(a, r, c)'
    BY <2>1, AskedStays
  <2> QED
    BY <2>2 DEF AskedIn
<1>2. task'[t].pc \in {"release", "record", "applied"} =>
        {task'[t].rule} \X Given(task'[t].add) \subseteq asked'[a]
  <2>1. task[t].pc \in {"release", "record", "applied"} =>
          {task[t].rule} \X Given(task[t].add) \subseteq asked[a]
    BY DEF OwnedIsAsked
  <2> QED
    BY <2>1, AskedStays
<1>3. Loaded(t)' => task'[t].rule = action'[a].rule \/ Moved(a)'
  <2>1. Loaded(t) => task[t].rule = action[a].rule \/ Moved(a)
    BY DEF OwnedIsAsked
  <2> QED
    BY <2>1, MovedStays DEF Exclusive
<1> QED
  BY <1>1, <1>2, <1>3

LEMMA OwnedIsAskedNext ==
  ASSUME MaxExpiries = 0, Exclusive, OwnAddresses, OwnedIsAsked, [Next]_vars
  PROVE  OwnedIsAsked'
<1>t. /\ TypeOK /\ task \in [Tasks -> Task] /\ task' \in [Tasks -> Task]
      /\ action \in [Actions -> Action]
  BY TypeNext DEF Exclusive, TypeOK
<1> DEFINE Part(t, a) == /\ \A c \in task[t].remove : AskedIn(a, task[t].rule, c)
                         /\ task[t].pc \in {"release", "record", "applied"} =>
                              {task[t].rule} \X Given(task[t].add) \subseteq asked[a]
                         /\ Loaded(t) => task[t].rule = action[a].rule \/ Moved(a)
           Known(a) == \A c \in Given(action[a].owned) : AskedIn(a, action[a].rule, c)
<1>p. \A t \in Tasks, a \in Actions : a = task[t].action => Part(t, a)
  BY DEF OwnedIsAsked
<1>s. ASSUME \A a \in Actions : Known(a)',
             \A t \in Tasks, a \in Actions : a = task'[t].action => Part(t, a)'
      PROVE  OwnedIsAsked'
  BY <1>t, <1>s DEF OwnedIsAsked, Task
<1>k. ASSUME NEW a \in Actions, action'[a].owned = action[a].owned,
             action'[a].rule = action[a].rule \/ Moved(a)'
      PROVE  Known(a)'
  <2> PICK r : r = action[a].rule
    OBVIOUS
  <2>1. \A c \in Given(action[a].owned) : AskedIn(a, r, c)
    BY DEF OwnedIsAsked
  <2>2. \A c \in Given(action[a].owned) : AskedIn(a, r, c)'
    BY <2>1, AskedStays
  <2> QED
    BY <1>k, <2>2 DEF AskedIn, Given
<1>m. ASSUME NEW t \in Tasks, NEW a \in Actions, a = task[t].action, task'[t] = task[t],
             action'[a].rule = action[a].rule \/ Moved(a)'
      PROVE  Part(t, a)'
  BY <1>m, OwnedIsAskedMoves DEF Loaded
\* Everything but the rule and the owned entries of one action, and one task.
<1>0. CASE UNCHANGED <<action, task>>
  <2>1. \A a \in Actions : Known(a)'
    BY <1>0, <1>k
  <2>2. \A t \in Tasks, a \in Actions : a = task'[t].action => Part(t, a)'
    BY <1>0, <1>m
  <2> QED
    BY <1>s, <2>1, <2>2
<1>1. ASSUME NEW t \in Tasks, Begin(t)
      PROVE  OwnedIsAsked'
  <2>1. /\ action' = action /\ task'[t].pc = "load" /\ task'[t].remove = {}
        /\ \A u \in Tasks \ {t} : task'[u] = task[u]
    BY <1>1, <1>t, BeginEffect DEF OwnAddresses, OwnTask
  <2>2. \A a \in Actions : Known(a)'
    BY <2>1, <1>k
  <2>3. \A a \in Actions : Part(t, a)'
    BY <2>1 DEF Loaded
  <2>4. \A u \in Tasks, a \in Actions : a = task'[u].action => Part(u, a)'
    BY <2>1, <2>3, <1>m
  <2> QED
    BY <1>s, <2>2, <2>4
<1>2. ASSUME NEW t \in Tasks, AnyStep(t)
      PROVE  OwnedIsAsked'
  <2> PICK a \in Actions : a = task[t].action
    BY <1>t DEF Task
  <2>f. /\ \A u \in Tasks \ {t} : task'[u] = task[u]
        /\ task'[t].action = a /\ task'[t].kind = task[t].kind
        /\ \A b \in Actions \ {a} : action'[b] = action[b]
    BY <1>2, <1>t, StepFrame
  <2>s. ASSUME Known(a)', Part(t, a)', action'[a].rule = action[a].rule \/ Moved(a)'
        PROVE  OwnedIsAsked'
    <3>1. \A b \in Actions : Known(b)'
      BY <2>f, <2>s, <1>k
    <3>2. \A u \in Tasks, b \in Actions : b = task'[u].action => Part(u, b)'
      <4> TAKE u \in Tasks, b \in Actions
      <4> HAVE b = task'[u].action
      <4>1. CASE u = t
        BY <2>f, <2>s, <4>1
      <4>2. CASE u # t
        BY <2>f, <2>s, <1>m, <4>2
      <4> QED
        BY <4>1, <4>2
    <3> HIDE DEF Known, Part
    <3> QED
      BY <1>s, <3>1, <3>2
  <2>q. ASSUME action' = action, Part(t, a)'
        PROVE  OwnedIsAsked'
    <3>1. Known(a)'
      BY <2>q, <1>k
    <3> HIDE DEF Known, Part
    <3> QED
      BY <2>q, <2>s, <3>1
  <2>m. ASSUME task'[t].rule = task[t].rule, task'[t].add = task[t].add,
               task'[t].remove = task[t].remove,
               task'[t].pc \in {"release", "record", "applied"} =>
                 task[t].pc \in {"release", "record", "applied"},
               Loaded(t)' => Loaded(t),
               action'[a].rule = action[a].rule \/ Moved(a)'
        PROVE  Part(t, a)'
    BY <2>f, <2>m, OwnedIsAskedMoves
  <2>1. CASE LoadExecution(t) \/ LoadEdit(t)
    <3>1. CASE task'[t].pc = "done" /\ task'[t].remove = task[t].remove
      <4>0. task' = [task EXCEPT ![t].pc = "done"]
        <5>1. CASE LoadExecution(t)
          <6>1. ~Ready(t, a)
            BY <1>t, <3>1, <5>1, LoadExecutionEffect
          <6> QED
            BY <5>1, <6>1 DEF LoadExecution, Ready
        <5>2. CASE LoadEdit(t)
          <6>1. PICK v, r, rem :
                  \/ task' = [task EXCEPT ![t].pc = "done"]
                  \/ task' = [task EXCEPT ![t].pc = "append", ![t].version = v,
                                          ![t].rule = r, ![t].remove = rem]
            BY <5>2 DEF LoadEdit
          <6> QED
            BY <1>t, <3>1, <6>1 DEF Task
        <5> QED
          BY <2>1, <5>1, <5>2
      <4>1. action' = action /\ task'[t].add = task[t].add /\ task'[t].rule = task[t].rule
        BY <1>t, <2>1, <4>0 DEF LoadExecution, LoadEdit, Task
      <4> QED
        BY <2>m, <2>q, <3>1, <4>1 DEF Loaded
    <3>2. CASE ~(task'[t].pc = "done" /\ task'[t].remove = task[t].remove)
      <4>1. /\ task'[t].pc \in {"lock", "append"} /\ task'[t].rule = action[a].rule
            /\ action' = action
            /\ \E S \in SUBSET Family : task'[t].remove = OwnedOf(a, S)
        <5>1. action[a].families \in SUBSET Family
          BY <1>t DEF Action
        <5>2. CASE LoadExecution(t)
          BY <1>t, <3>2, <5>1, <5>2, LoadExecutionEffect
        <5>3. CASE LoadEdit(t)
          BY <1>t, <3>2, <5>1, <5>3, LoadEditEffect DEF Cleanup
        <5> QED
          BY <2>1, <5>2, <5>3
      <4>2. task'[t].remove \subseteq Given(action'[a].owned)
        BY <4>1 DEF OwnedOf, Given
      <4>3. Known(a)'
        BY <4>1, <1>k
      <4>4. Part(t, a)'
        BY <4>1, <4>2, <4>3
      <4> QED
        BY <2>q, <4>1, <4>4
    <3> QED
      BY <3>1, <3>2
  <2>2. CASE AppendEdit(t)
    <3>1. /\ task[t].pc = "append" /\ task'[t].rule = task[t].rule
          /\ task'[t].remove = task[t].remove /\ task'[t].add = task[t].add
          /\ task'[t].pc \in {"done", "lock"} /\ task'[t].target = task[t].target
          /\ action'[a].owned = action[a].owned
          /\ action'[a].rule = action[a].rule
               \/ (action'[a].rule = task[t].target /\ task[t].kind # "detach")
      <4>1. PICK pc \in {"done", "lock"} : \E clean :
              \/ task' = [task EXCEPT ![t].pc = pc, ![t].clean = clean]
              \/ task' = [task EXCEPT ![t].pc = pc]
        BY <2>2 DEF AppendEdit
      <4>2. /\ task'[t].pc = pc /\ task'[t].target = task[t].target
            /\ task'[t].add = task[t].add
        BY <1>t, <4>1 DEF Task
      <4>3. /\ action'[a].owned = action[a].owned
            /\ \/ action'[a].rule = action[a].rule
               \/ action'[a].rule = task[t].target /\ task[t].kind # "detach"
        BY <1>t, <2>2 DEF AppendEdit, Action
      <4> QED
        BY <1>t, <2>2, <4>1, <4>2, <4>3, AppendEditEffect
    <3>2. action'[a].rule = action[a].rule \/ Moved(a)'
      <4>1. CASE action'[a].rule = action[a].rule
        BY <4>1
      <4>2. CASE action'[a].rule = task[t].target /\ task[t].kind # "detach"
        <5>1. task[t].kind = "reconfigure"
          BY <1>t, <3>1, <4>2 DEF OwnAddresses, OwnTask, Task, Kind
        <5>2. CASE task[t].target # task[t].rule
          BY <2>f, <3>1, <5>1, <5>2 DEF Moved
        <5>3. CASE task[t].target = task[t].rule
          <6>1. task[t].rule = action[a].rule \/ Moved(a)
            BY <1>p, <3>1 DEF Loaded
          <6> QED
            BY <1>t, <4>2, <5>3, <6>1, MovedStays
        <5> QED
          BY <5>2, <5>3
      <4> QED
        BY <3>1, <4>1, <4>2
    <3>3. Known(a)'
      BY <3>1, <3>2, <1>k
    <3>4. Part(t, a)'
      BY <2>m, <3>1, <3>2 DEF Loaded
    <3> QED
      BY <2>s, <3>2, <3>3, <3>4
  <2>3. CASE SetFirewallRules(t) \/ AnswerLost(t)
    <3>1. SetRules(t)
      BY <2>3 DEF SetFirewallRules, AnswerLost
    <3>2. /\ task[t].pc = "write" /\ task'[t].rule = task[t].rule
          /\ task'[t].remove = task[t].remove /\ task'[t].add = task[t].add
          /\ task'[t].pc \in {"release", "fail"} /\ action' = action
      BY <1>t, <2>3 DEF SetFirewallRules, AnswerLost, SetRules, Task
    <3>3. {task'[t].rule} \X Given(task'[t].add) \subseteq asked'[a]
      BY <3>1, <3>2, SetRulesEffect
    <3>4. (\A c \in task[t].remove : AskedIn(a, task[t].rule, c))'
      <4> PICK r : r = task[t].rule
        OBVIOUS
      <4>1. \A c \in task[t].remove : AskedIn(a, r, c)
        BY <1>p
      <4>2. \A c \in task[t].remove : AskedIn(a, r, c)'
        BY <4>1, AskedStays
      <4> QED
        BY <3>2, <4>2 DEF AskedIn
    <3>5. task'[t].rule = action'[a].rule \/ Moved(a)'
      <4>1. task[t].rule = action[a].rule \/ Moved(a)
        BY <1>p, <3>2 DEF Loaded
      <4> QED
        BY <1>t, <3>2, <4>1, MovedStays
    <3>6. Part(t, a)'
      BY <3>3, <3>4, <3>5 DEF Given
    <3> QED
      BY <2>q, <3>2, <3>6
  <2>4. CASE AppendApplied(t)
    <3>1. /\ task[t].pc = "applied" /\ task'[t].rule = task[t].rule
          /\ task'[t].remove = task[t].remove /\ task'[t].add = task[t].add
          /\ task'[t].pc \in {"done", "record"} /\ action'[a].rule = action[a].rule
      <4>1. task'[t].rule = task[t].rule
        <5>1. PICK pc, again : \/ task' = [task EXCEPT ![t].pc = pc, ![t].again = again]
                               \/ task' = [task EXCEPT ![t].pc = pc]
          BY <2>4 DEF AppendApplied
        <5> QED
          BY <1>t, <5>1 DEF Task
      <4> QED
        BY <1>t, <2>4, <4>1, AppendAppliedEffect
    <3>2. Part(t, a)'
      BY <2>m, <3>1 DEF Loaded
    <3>3. Given(action'[a].owned) \subseteq Given(action[a].owned) \cup Given(task[t].add)
      <4>1. CASE action[a].version = task[t].version
        BY <1>t, <2>4, <4>1, AppendAppliedEffect DEF Given
      <4>2. CASE action[a].version # task[t].version
        BY <1>t, <2>4, <4>2, AppendAppliedEffect
      <4> QED
        BY <4>1, <4>2
    <3>4. Known(a)'
      <4> PICK r : r = action[a].rule
        OBVIOUS
      <4>1. ASSUME NEW c \in Given(action[a].owned)
            PROVE  AskedIn(a, r, c)'
        <5>1. AskedIn(a, r, c)
          BY <4>1 DEF OwnedIsAsked
        <5> QED
          BY <5>1, AskedStays
      <4>2. ASSUME NEW c \in Given(task[t].add)
            PROVE  AskedIn(a, r, c)'
        <5>1. /\ <<task[t].rule, c>> \in asked[a]
              /\ task[t].rule = r \/ Moved(a)
          BY <1>p, <3>1, <4>2 DEF Loaded
        <5>2. task[t].rule \in Rules
          BY <1>t DEF Task
        <5>3. AskedIn(a, r, c)
          BY <5>1, <5>2 DEF AskedIn
        <5> QED
          BY <5>3, AskedStays
      <4>3. \A c \in Given(action'[a].owned) : AskedIn(a, r, c)'
        BY <3>3, <4>1, <4>2
      <4> QED
        BY <3>1, <4>3 DEF AskedIn, Given
    <3> QED
      BY <2>s, <3>1, <3>2, <3>4
  <2>5. CASE WaitTooLong(t) \/ ReleaseFailed(t) \/ Crash(t)
    <3>1. /\ task'[t].rule = task[t].rule /\ task'[t].add = task[t].add
          /\ task'[t].remove = task[t].remove /\ task'[t].pc \in {"load", "done"}
          /\ action' = action
      <4>1. CASE WaitTooLong(t) \/ ReleaseFailed(t)
        <5>0. Retried(t)
          BY <4>1 DEF WaitTooLong, ReleaseFailed
        <5>n. PICK n, tk : n = task[t].attempt + 1 /\ tk = task[t].token + 1
          OBVIOUS
        <5>1. \/ task' = [task EXCEPT ![t].pc = "load", ![t].attempt = n, ![t].token = tk]
              \/ task' = [task EXCEPT ![t].pc = "done", ![t].clean = FALSE]
          BY <5>0, <5>n DEF Retried
        <5>2. task'[t].rule = task[t].rule
          BY <1>t, <5>1 DEF Task
        <5> QED
          BY <1>t, <4>1, <5>2, RetriedKeeps DEF WaitTooLong, ReleaseFailed
      <4>2. CASE Crash(t)
        BY <1>t, <4>2 DEF Crash, Task
      <4> QED
        BY <2>5, <4>1, <4>2
    <3> QED
      BY <2>m, <2>q, <3>1 DEF Loaded
  <2>6. CASE Acquire(t) \/ GetFirewall(t) \/ CallFails(t) \/ Release(t) \/ ReloadAction(t)
    <3>1. /\ task'[t].rule = task[t].rule /\ task'[t].add = task[t].add
          /\ task'[t].remove = task[t].remove /\ Loaded(t)
          /\ task'[t].pc \in {"release", "record", "applied"} =>
               task[t].pc \in {"release", "record", "applied"}
          /\ action' = action
      BY <1>t, <2>6 DEF Acquire, GetFirewall, CallFails, Release, ReloadAction, Loaded, Task
    <3> QED
      BY <2>m, <2>q, <3>1
  <2> QED
    BY <1>2, <2>1, <2>2, <2>3, <2>4, <2>5, <2>6 DEF AnyStep, TaskStep
<1> QED
  BY <1>0, <1>1, <1>2 DEF Next, AnyStep, vars, Expire

\* FR-006, as far as removal by value goes, for any number of tasks, actions, rules
\* and addresses, shared or entered by hand as they may be: an entry that leaves a
\* list was at some time asked for by the very action whose task takes it away, in
\* that rule or in one the action was moved from, as long as no lock expires under
\* a working holder.
THEOREM ForeignStay ==
  ASSUME MaxExpiries = 0
  PROVE  Spec => ForeignEntriesKept
<1> DEFINE Kept == \A r \in Rules : \A c \in firewall[r] \ firewall'[r] :
                     \E t \in Tasks : LET a == task[t].action IN
                       /\ task[t].pc = "write" /\ task'[t].pc # "write"
                       /\ \E q \in Rules : <<q, c>> \in asked[a] /\ (q = r \/ Moved(a))
           IInv == Exclusive /\ OwnAddresses /\ OwnedIsAsked
<1>1. Init => IInv
  BY ExclusiveInit, OwnInit, OwnedIsAskedInit
<1>2. IInv /\ [Next]_vars => IInv'
  <2> SUFFICES ASSUME IInv, [Next]_vars
               PROVE  IInv'
    OBVIOUS
  <2>1. Exclusive'
    BY ExclusiveNext
  <2>2. OwnAddresses'
    BY OwnNext DEF Exclusive
  <2>3. OwnedIsAsked'
    BY OwnedIsAskedNext
  <2> QED
    BY <2>1, <2>2, <2>3
<1>3. IInv /\ [Next]_vars => [Kept]_vars
  <2> SUFFICES ASSUME IInv, [Next]_vars, NEW r \in Rules, NEW c \in firewall[r] \ firewall'[r]
               PROVE  \E t \in Tasks : LET a == task[t].action IN
                        /\ task[t].pc = "write" /\ task'[t].pc # "write"
                        /\ \E q \in Rules : <<q, c>> \in asked[a] /\ (q = r \/ Moved(a))
    OBVIOUS
  <2>1. PICK t \in Tasks : SetFirewallRules(t) \/ AnswerLost(t)
    <3>1. \E t \in Tasks : SetRules(t)
      BY WritesOnly DEF Exclusive
    <3>2. ASSUME NEW t \in Tasks, Begin(t)
          PROVE  FALSE
      BY <3>2, BeginEffect DEF Exclusive
    <3> QED
      BY <3>2 DEF Next, TaskStep, vars, LoadExecution, LoadEdit, AppendEdit, Acquire,
         WaitTooLong, GetFirewall, Release, ReleaseFailed,
         ReloadAction, AppendApplied, CallFails, Crash, Expire
  <2>2. PICK a \in Actions : a = task[t].action
    BY DEF Exclusive, TypeOK, Task
  <2>3. SetRules(t) /\ task'[t].pc # "write"
    BY <2>1 DEF SetFirewallRules, AnswerLost, Exclusive, TypeOK, Task
  <2>4. /\ r = task[t].rule /\ c \in task[t].remove /\ task[t].pc = "write"
    BY <2>2, <2>3, SetRulesEffect
  <2>5. AskedIn(a, r, c)
    BY <2>2, <2>4 DEF OwnedIsAsked
  <2> QED
    BY <2>2, <2>3, <2>4, <2>5 DEF AskedIn
<1> HIDE DEF IInv
<1> QED
  BY <1>1, <1>2, <1>3, PTL DEF Spec, ForeignEntriesKept

-----------------------------------------------------------------------------
(* Lists and owned entries agree whenever nothing is under way for an action *)
(* whose tasks ran one at a time.  Between the first and the last step of    *)
(* such a task they differ by what the task has yet to write or to record.   *)

\* The addresses of an action's device that no other action is for.
Own(a) == Addresses(a) \ Shared(a)

\* Those of them in the list of a rule that had not been entered by hand.
Listed(a, r) == (firewall[r] \cap Own(a)) \ Static

\* Those that belong there.
Owed(a, r) ==
  {c \in OwnedOf(a, action[a].families) : action[a].status = "enabled" /\ action[a].rule = r}

\* The tasks of an action so far began with no other under way, and none was cut
\* short or moved the action.
Orderly(a) ==
  \A t \in Tasks : task[t].action = a /\ task[t].pc # "new" => task[t].clean

AllExecute(a) == \A t \in Tasks : task[t].action = a => task[t].kind = "execute"

Matching(a) ==
  /\ \A r \in Rules : Listed(a, r) \subseteq Owed(a, r)
  /\ AllExecute(a) => OwnedOf(a, action[a].families) \cap Own(a) \subseteq firewall[action[a].rule]

\* The list of rule q may hold some more.
MatchingBut(a, q, more) ==
  \A r \in Rules : \A c \in Listed(a, r) : c \in Owed(a, r) \/ (r = q /\ c \in more)

\* The list of the task's rule holds what the task added of those, and no list more.
Written(t, a) ==
  /\ \A r \in Rules : \A c \in Listed(a, r) : r = task[t].rule /\ c \in Given(task[t].add)
  /\ Given(task[t].add) \cap Own(a) \subseteq firewall[task[t].rule]

\* An execution that has begun.  One that is tried again may have written before.
Executing(t, a) ==
  /\ task[t].pc = "load" =>
       IF Ready(t, a) THEN MatchingBut(a, action[a].rule, Given(Chosen(t, a)))
                      ELSE Matching(a)
  /\ task[t].pc # "load" =>
       /\ Ready(t, a)
       /\ task[t].add = Chosen(t, a) /\ task[t].rule = action[a].rule
       /\ task[t].remove = OwnedOf(a, action[a].families)
  /\ task[t].pc \in {"lock", "read", "write", "fail"} =>
       MatchingBut(a, action[a].rule, Given(task[t].add))
  /\ task[t].pc \in {"release", "record", "applied"} => Written(t, a)
  /\ task[t].pc = "applied" => task[t].version = action[a].version

\* A request that has begun: it changes the action first, the list afterwards.
Editing(t, a) ==
  /\ task[t].pc \in {"load", "append", "release"} => Matching(a)
  /\ task[t].pc = "append" => task[t].rule = action[a].rule /\ task[t].remove = Cleanup(t, a)
  /\ task[t].pc \in {"lock", "read", "write"} => MatchingBut(a, task[t].rule, task[t].remove)

Midway(t, a) == IF task[t].kind = "execute" THEN Executing(t, a) ELSE Editing(t, a)

\* Of two tasks of an action under way at once one is not clean.
Serial ==
  \A t, u \in Tasks :
    t # u /\ Busy(t) /\ Busy(u) /\ task[t].action = task[u].action =>
      ~(task[t].clean /\ task[u].clean)

OrderlyMatches ==
  \A a \in Actions : Orderly(a) =>
    /\ \A t \in Tasks : Busy(t) /\ task[t].action = a => Midway(t, a)
    /\ (\A t \in Tasks : Busy(t) => task[t].action # a) => Matching(a)

-----------------------------------------------------------------------------
LEMMA OwnedMember ==
  ASSUME NEW a \in Actions, NEW S \in SUBSET Family
  PROVE  \A c : c \in OwnedOf(a, S) <=> c # None /\ \E f \in S : c = action[a].owned[f]
BY DEF OwnedOf

\* What is said of an action stays true while its lists, its stream and its tasks
\* stay as they are.
LEMMA ActionFrame ==
  ASSUME NEW a \in Actions, action'[a] = action[a],
         \A r \in Rules : firewall'[r] \cap Own(a) = firewall[r] \cap Own(a)
  PROVE  /\ \A r \in Rules : Listed(a, r)' = Listed(a, r) /\ Owed(a, r)' = Owed(a, r)
         /\ \A S \in SUBSET Family : OwnedOf(a, S)' = OwnedOf(a, S)
<1>1. ASSUME NEW r \in Rules
      PROVE  Listed(a, r)' = Listed(a, r)
  BY DEF Listed
<1>2. ASSUME NEW r \in Rules
      PROVE  Owed(a, r)' = Owed(a, r)
  BY DEF Owed, OwnedOf
<1>3. ASSUME NEW S \in SUBSET Family
      PROVE  OwnedOf(a, S)' = OwnedOf(a, S)
  BY DEF OwnedOf
<1> QED
  BY <1>1, <1>2, <1>3

LEMMA MatchingFrame ==
  ASSUME TypeOK, OwnAddresses, NEW a \in Actions, action'[a] = action[a],
         \A r \in Rules : firewall'[r] \cap Own(a) = firewall[r] \cap Own(a),
         AllExecute(a)' => AllExecute(a),
         Matching(a)
  PROVE  Matching(a)'
<1>a. action[a].families \in SUBSET Family /\ action[a].rule \in Rules
  BY DEF TypeOK, Action
<1>1. \A r \in Rules : Listed(a, r)' \subseteq Owed(a, r)'
  BY ActionFrame DEF Matching
<1>2. OwnedOf(a, action[a].families)' = OwnedOf(a, action[a].families)
  BY <1>a, ActionFrame DEF OwnedOf
<1>3. AllExecute(a)' => OwnedOf(a, action[a].families)' \cap Own(a) \subseteq firewall'[action'[a].rule]
  BY <1>a, <1>2 DEF Matching
<1> QED
  BY <1>1, <1>3 DEF Matching

LEMMA MatchingButFrame ==
  ASSUME NEW a \in Actions, action'[a] = action[a],
         \A r \in Rules : firewall'[r] \cap Own(a) = firewall[r] \cap Own(a),
         NEW q, NEW more, MatchingBut(a, q, more)
  PROVE  MatchingBut(a, q, more)'
BY ActionFrame DEF MatchingBut

LEMMA MidwayFrame ==
  ASSUME TypeOK, OwnAddresses, NEW a \in Actions, action'[a] = action[a],
         \A r \in Rules : firewall'[r] \cap Own(a) = firewall[r] \cap Own(a),
         AllExecute(a)' => AllExecute(a),
         NEW t \in Tasks, task[t].action = a, task'[t] = task[t], Midway(t, a)
  PROVE  Midway(t, a)'
<1>a. action[a].families \in SUBSET Family /\ action[a].rule \in Rules
  BY DEF TypeOK, Action
<1>m. Matching(a) => Matching(a)'
  BY MatchingFrame
<1>b. \A q, more : MatchingBut(a, q, more) => MatchingBut(a, q, more)'
  BY MatchingButFrame
<1>o. /\ OwnedOf(a, action[a].families)' = OwnedOf(a, action[a].families)
      /\ Cleanup(t, a)' = Cleanup(t, a)
      /\ Ready(t, a)' = Ready(t, a)
      /\ Chosen(t, a)' = Chosen(t, a)
  BY DEF OwnedOf, Cleanup, Ready, Chosen
<1>w. ASSUME Written(t, a)
      PROVE  Written(t, a)'
  <2>1. task[t].rule \in Rules
    BY DEF TypeOK, Task
  <2>2. Given(task'[t].add) \cap Own(a) \subseteq firewall'[task'[t].rule]
    BY <1>w, <2>1 DEF Written
  <2>3. \A r \in Rules : \A c \in Listed(a, r)' : r = task'[t].rule /\ c \in Given(task'[t].add)
    BY <1>w, ActionFrame DEF Written
  <2> QED
    BY <2>2, <2>3 DEF Written, Given
<1>1. CASE task[t].kind = "execute"
  <2>1. Executing(t, a)
    BY <1>1 DEF Midway
  <2>2. task[t].pc = "load" =>
          (IF Ready(t, a) THEN MatchingBut(a, action[a].rule, Given(Chosen(t, a)))
                          ELSE Matching(a))'
    <3>1. ASSUME task[t].pc = "load", Ready(t, a)
          PROVE  MatchingBut(a, action[a].rule, Given(Chosen(t, a)))'
      <4> PICK q, more : q = action[a].rule /\ more = Given(Chosen(t, a))
        OBVIOUS
      <4>1. MatchingBut(a, q, more)'
        BY <1>b, <2>1, <3>1 DEF Executing
      <4>2. q = action'[a].rule /\ more = Given(Chosen(t, a))'
        BY <1>o DEF Given
      <4> QED
        BY <4>1, <4>2
    <3> QED
      BY <1>m, <1>o, <2>1, <3>1 DEF Executing
  <2>3. task[t].pc \in {"lock", "read", "write", "fail"} =>
          MatchingBut(a, action[a].rule, Given(task[t].add))'
    <3> PICK q, more : q = action[a].rule /\ more = Given(task[t].add)
      OBVIOUS
    <3>1. q = action'[a].rule /\ more = Given(task[t].add)'
      BY DEF Given
    <3> QED
      BY <1>b, <2>1, <3>1 DEF Executing
  <2>4. task[t].pc \in {"release", "record", "applied"} => Written(t, a)'
    BY <1>w, <2>1 DEF Executing
  <2>5. task[t].pc # "load" =>
          /\ Ready(t, a)'
          /\ task'[t].add = Chosen(t, a)' /\ task'[t].rule = action'[a].rule
          /\ task'[t].remove = OwnedOf(a, action[a].families)'
    BY <1>o, <2>1 DEF Executing
  <2> QED
    BY <1>1, <2>1, <2>2, <2>3, <2>4, <2>5 DEF Midway, Executing
<1>2. CASE task[t].kind # "execute"
  BY <1>2, <1>m, <1>b, <1>o DEF Midway, Editing
<1> QED
  BY <1>1, <1>2

\* Where a task has come to after a step.
After(t, a) ==
  /\ task[t].pc = "done" => Matching(a)
  /\ task[t].pc # "done" => Midway(t, a)

LEMMA KindsStay ==
  ASSUME TypeOK, NEW t \in Tasks, AnyStep(t)
  PROVE  \A a \in Actions : AllExecute(a)' => AllExecute(a)
<1>1. \A u \in Tasks : task'[u].action = task[u].action /\ task'[u].kind = task[u].kind
  BY StepFrame
<1> QED
  BY <1>1 DEF AllExecute

\* A step that leaves the firewall and the actions alone.
LEMMA QuietStep ==
  ASSUME TypeOK, OwnAddresses, NEW t \in Tasks, AnyStep(t),
         NEW a \in Actions, a = task[t].action, UNCHANGED <<firewall, action>>
  PROVE  /\ Matching(a) => Matching(a)'
         /\ \A q, more : MatchingBut(a, q, more) => MatchingBut(a, q, more)'
         /\ task'[t].rule = task[t].rule /\ task'[t].add = task[t].add /\ Written(t, a) =>
              Written(t, a)'
         /\ Ready(t, a)' = Ready(t, a) /\ Chosen(t, a)' = Chosen(t, a)
<1>1. Matching(a) => Matching(a)'
  BY KindsStay, MatchingFrame
<1>2. \A q, more : MatchingBut(a, q, more) => MatchingBut(a, q, more)'
  BY MatchingButFrame
<1>3. ASSUME task'[t].rule = task[t].rule, task'[t].add = task[t].add, Written(t, a)
      PROVE  Written(t, a)'
  <2>1. \A r \in Rules : Listed(a, r)' = Listed(a, r)
    BY ActionFrame
  <2> QED
    BY <1>3, <2>1 DEF Written, Given
<1>4. Ready(t, a)' = Ready(t, a) /\ Chosen(t, a)' = Chosen(t, a)
  BY StepFrame DEF Ready, Chosen
<1> QED
  BY <1>1, <1>2, <1>3, <1>4

LEMMA LoadExecutionAfter ==
  ASSUME TypeOK, OwnAddresses, NEW t \in Tasks, LoadExecution(t),
         NEW a \in Actions, a = task[t].action, Midway(t, a)
  PROVE  After(t, a)'
<1> AnyStep(t)
  BY DEF AnyStep, TaskStep
<1>1. /\ task[t].pc = "load" /\ task[t].kind = "execute" /\ task'[t].kind = "execute"
      /\ UNCHANGED <<firewall, action>>
  BY LoadExecutionEffect, StepFrame
<1>2. Executing(t, a)
  BY <1>1 DEF Midway
<1>3. CASE ~Ready(t, a)
  <2>1. Matching(a)'
    BY <1>1, <1>2, <1>3, QuietStep DEF Executing
  <2> QED
    BY <1>3, <2>1, LoadExecutionEffect DEF After
<1>4. CASE Ready(t, a)
  <2>1. /\ task'[t].pc = "lock" /\ task'[t].rule = action[a].rule
        /\ task'[t].add = Chosen(t, a) /\ task'[t].remove = OwnedOf(a, action[a].families)
    BY <1>4, LoadExecutionEffect
  <2>2. PICK q, more : q = action[a].rule /\ more = Given(task'[t].add)
    OBVIOUS
  <2>3. MatchingBut(a, q, more)
    BY <1>1, <1>2, <1>4, <2>1, <2>2 DEF Executing
  <2>4. MatchingBut(a, q, more)' /\ Ready(t, a)' /\ Chosen(t, a)' = Chosen(t, a)
    BY <1>1, <1>4, <2>3, QuietStep
  <2>5. OwnedOf(a, action[a].families)' = OwnedOf(a, action[a].families)
    BY <1>1 DEF OwnedOf
  <2>6. MatchingBut(a, action[a].rule, Given(task[t].add))'
    <3>1. q = (action[a].rule)' /\ more = Given(task[t].add)'
      BY <1>1, <2>2 DEF Given
    <3> QED
      BY <2>4, <3>1
  <2>7. Executing(t, a)'
    BY <1>1, <2>1, <2>4, <2>5, <2>6 DEF Executing
  <2> QED
    BY <1>1, <2>1, <2>7 DEF After, Midway
<1> QED
  BY <1>3, <1>4

LEMMA LoadEditAfter ==
  ASSUME TypeOK, OwnAddresses, NEW t \in Tasks, LoadEdit(t),
         NEW a \in Actions, a = task[t].action, Midway(t, a)
  PROVE  After(t, a)'
<1> AnyStep(t)
  BY DEF AnyStep, TaskStep
<1>1. /\ task[t].pc = "load" /\ task[t].kind # "execute" /\ task'[t].kind = task[t].kind
      /\ UNCHANGED <<firewall, action>>
      /\ task'[t].families = task[t].families
  BY LoadEditEffect, StepFrame
<1>2. Matching(a)'
  BY <1>1, QuietStep DEF Midway, Editing
<1>3. Cleanup(t, a)' = Cleanup(t, a)
  BY <1>1 DEF Cleanup, OwnedOf
<1>4. \/ task'[t].pc = "done"
      \/ /\ task'[t].pc = "append" /\ task'[t].rule = action[a].rule
         /\ task'[t].remove = Cleanup(t, a)
  BY LoadEditEffect
<1>5. task'[t].pc = "append" => Editing(t, a)'
  BY <1>1, <1>2, <1>3, <1>4 DEF Editing
<1> QED
  BY <1>1, <1>2, <1>4, <1>5 DEF After, Midway

\* The steps between the lock and the write, and those after it.
LEMMA AcquireAfter ==
  ASSUME TypeOK, OwnAddresses, NEW t \in Tasks,
         Acquire(t) \/ GetFirewall(t) \/ CallFails(t) \/ Release(t) \/ ReloadAction(t),
         NEW a \in Actions, a = task[t].action, Midway(t, a)
  PROVE  After(t, a)'
<1> AnyStep(t)
  BY DEF AnyStep, TaskStep
<1>t. task \in [Tasks -> Task]
  BY DEF TypeOK
<1>1. /\ task'[t].kind = task[t].kind /\ task'[t].add = task[t].add
      /\ task'[t].remove = task[t].remove /\ task'[t].rule = task[t].rule
      /\ UNCHANGED <<firewall, action>>
      /\ \/ /\ task[t].pc \in {"lock", "read", "write"}
            /\ task'[t].pc \in {"read", "write", "fail"}
         \/ /\ task[t].pc = "release"
            /\ task'[t].pc = IF task[t].kind = "execute" THEN "record" ELSE "done"
         \/ /\ task[t].pc = "record" /\ task'[t].pc = "applied"
            /\ task'[t].version = action[a].version
  BY <1>t DEF Acquire, GetFirewall, CallFails, Release, ReloadAction, Task
<1>q. /\ Matching(a) => Matching(a)'
      /\ \A q, more : MatchingBut(a, q, more) => MatchingBut(a, q, more)'
      /\ Written(t, a) => Written(t, a)'
      /\ Ready(t, a)' = Ready(t, a) /\ Chosen(t, a)' = Chosen(t, a)
      /\ OwnedOf(a, action[a].families)' = OwnedOf(a, action[a].families)
  BY <1>1, QuietStep DEF OwnedOf
<1>2. CASE task[t].kind = "execute"
  <2>1. Executing(t, a)
    BY <1>2 DEF Midway
  <2>2. /\ Ready(t, a)'
        /\ task'[t].add = Chosen(t, a)' /\ task'[t].rule = action'[a].rule
        /\ task'[t].remove = OwnedOf(a, action[a].families)'
    BY <1>1, <1>q, <2>1 DEF Executing
  <2>3. task'[t].pc \in {"lock", "read", "write", "fail"} =>
          MatchingBut(a, action[a].rule, Given(task[t].add))'
    <3> PICK q, more : q = action[a].rule /\ more = Given(task[t].add)
      OBVIOUS
    <3>1. q = (action[a].rule)' /\ more = Given(task[t].add)'
      BY <1>1 DEF Given
    <3>2. task'[t].pc \in {"lock", "read", "write", "fail"} => MatchingBut(a, q, more)
      BY <1>1, <1>2, <2>1 DEF Executing
    <3> QED
      BY <1>q, <3>1, <3>2
  <2>4. task'[t].pc \in {"release", "record", "applied"} => Written(t, a)'
    BY <1>1, <1>q, <2>1 DEF Executing
  <2>5. task'[t].pc = "applied" => task'[t].version = action'[a].version
    BY <1>1
  <2>6. task'[t].pc \notin {"load", "done"}
    BY <1>1, <1>2
  <2>7. Executing(t, a)'
    BY <2>2, <2>3, <2>4, <2>5, <2>6 DEF Executing
  <2> QED
    BY <1>1, <1>2, <2>6, <2>7 DEF After, Midway
<1>3. CASE task[t].kind # "execute"
  <2>1. Editing(t, a) /\ task[t].pc # "record"
    BY <1>3 DEF Midway, OwnAddresses, OwnTask
  <2>2. task'[t].pc = "done" => Matching(a)'
    BY <1>1, <1>3, <1>q, <2>1 DEF Editing
  <2>3. task'[t].pc \in {"lock", "read", "write"} => MatchingBut(a, task[t].rule, task[t].remove)'
    <3> PICK q, more : q = task[t].rule /\ more = task[t].remove
      OBVIOUS
    <3>1. q = (task[t].rule)' /\ more = (task[t].remove)'
      BY <1>1
    <3>2. task'[t].pc \in {"lock", "read", "write"} => MatchingBut(a, q, more)
      BY <1>1, <1>3, <2>1 DEF Editing
    <3> QED
      BY <1>q, <3>1, <3>2
  <2>4. task'[t].pc \notin {"load", "append", "release"}
    BY <1>1, <1>3, <2>1
  <2> QED
    BY <1>1, <1>3, <2>2, <2>3, <2>4 DEF After, Midway, Editing
<1> QED
  BY <1>2, <1>3

\* An execution that goes back to its beginning may have written already.
LEMMA BackToLoad ==
  ASSUME TypeOK, OwnAddresses, NEW t \in Tasks, AnyStep(t),
         NEW a \in Actions, a = task[t].action, Executing(t, a),
         task[t].kind = "execute", task'[t].pc = "load", UNCHANGED <<firewall, action>>
  PROVE  Midway(t, a)'
<1>1. task'[t].kind = "execute" /\ task[t].pc \in Pc /\ task[t].pc \notin {"new", "done", "append"}
  BY StepFrame DEF TypeOK, Task, OwnAddresses, OwnTask, Busy
<1>q. /\ Matching(a) => Matching(a)'
      /\ \A q, more : MatchingBut(a, q, more) => MatchingBut(a, q, more)'
      /\ Ready(t, a)' = Ready(t, a) /\ Chosen(t, a)' = Chosen(t, a)
  BY QuietStep
<1>2. CASE ~Ready(t, a)
  BY <1>1, <1>2, <1>q DEF Midway, Executing
<1>3. CASE Ready(t, a)
  <2> PICK q, more : q = action[a].rule /\ more = Given(Chosen(t, a))
    OBVIOUS
  <2>1. MatchingBut(a, q, more)
    <3>1. CASE task[t].pc = "load"
      BY <1>3, <3>1 DEF Executing
    <3>2. CASE task[t].pc \in {"lock", "read", "write", "fail"}
      BY <3>2 DEF Executing
    <3>3. CASE task[t].pc \in {"release", "record", "applied"}
      <4>1. Written(t, a) /\ task[t].rule = q /\ Given(task[t].add) = more
        BY <3>3 DEF Executing
      <4> QED
        BY <4>1 DEF Written, MatchingBut
    <3> QED
      BY <1>1, <3>1, <3>2, <3>3 DEF Pc
  <2>2. q = (action[a].rule)' /\ more = Given(Chosen(t, a))'
    BY <1>q DEF Given
  <2>3. MatchingBut(a, action[a].rule, Given(Chosen(t, a)))'
    BY <1>q, <2>1, <2>2
  <2> QED
    BY <1>1, <1>3, <1>q, <2>3 DEF Midway, Executing
<1> QED
  BY <1>2, <1>3

LEMMA RetryAfter ==
  ASSUME TypeOK, OwnAddresses, NEW t \in Tasks,
         WaitTooLong(t) \/ ReleaseFailed(t) \/ Crash(t), task'[t].clean,
         NEW a \in Actions, a = task[t].action, Midway(t, a)
  PROVE  After(t, a)'
<1> AnyStep(t)
  BY DEF AnyStep, TaskStep
<1>t. task \in [Tasks -> Task]
  BY DEF TypeOK
<1>1. /\ task[t].kind = "execute" /\ task'[t].pc = "load"
      /\ UNCHANGED <<firewall, action>>
  <2>1. CASE WaitTooLong(t) \/ ReleaseFailed(t)
    BY <2>1, RetriedKeeps DEF WaitTooLong, ReleaseFailed
  <2>2. CASE Crash(t)
    BY <1>t, <2>2 DEF Crash, Task
  <2> QED
    BY <2>1, <2>2
<1>2. Midway(t, a)'
  BY <1>1, BackToLoad DEF Midway
<1> QED
  BY <1>1, <1>2 DEF After

LEMMA AppendEditAfter ==
  ASSUME TypeOK, OwnAddresses, NEW t \in Tasks, AppendEdit(t), task'[t].clean,
         NEW a \in Actions, a = task[t].action, Midway(t, a)
  PROVE  After(t, a)'
<1> AnyStep(t)
  BY DEF AnyStep, TaskStep
<1>t. /\ task[t].kind \in Kind /\ task'[t].action = a
      /\ action[a].families \in SUBSET Family /\ task[t].families \in SUBSET Family
  BY StepFrame DEF TypeOK, Task, Action
<1>1. task[t].pc = "append" /\ task[t].kind # "execute"
  BY AppendEditEffect DEF OwnAddresses, OwnTask
<1>2. Matching(a) /\ task[t].rule = action[a].rule /\ task[t].remove = Cleanup(t, a)
  BY <1>1 DEF Midway, Editing
<1>3. CASE task'[t].pc = "done" /\ action' = action
  <2>1. Matching(a)'
    BY <1>2, <1>3, AppendEditEffect, QuietStep
  <2> QED
    BY <1>3, <2>1 DEF After
<1>4. CASE ~(task'[t].pc = "done" /\ action' = action)
  <2>1. \A r \in Rules : Listed(a, r)' = Listed(a, r)
    BY AppendEditEffect DEF Listed
  <2>2. ASSUME NEW r \in Rules, NEW c \in Listed(a, r)
        PROVE  c \in Owed(a, r)' \/ (r = task[t].rule /\ c \in task[t].remove)
    <3>1. /\ c \in OwnedOf(a, action[a].families)
          /\ action[a].status = "enabled" /\ r = action[a].rule
      BY <1>2, <2>2 DEF Matching, Owed
    <3>2. PICK f \in action[a].families : c # None /\ c = action[a].owned[f]
      BY <1>t, <3>1, OwnedMember
    <3>3. CASE task[t].kind = "detach"
      BY <1>2, <1>t, <3>1, <3>2, <3>3, OwnedMember DEF Cleanup
    <3>4. CASE task[t].kind # "detach"
      <4>1. /\ action'[a].owned = action[a].owned
            /\ action'[a].status = "enabled" /\ action'[a].families = task[t].families
            /\ action'[a].rule = r
        BY <1>1, <1>4, <1>t, <3>1, <3>4, AppendEditEffect DEF Kind
      <4>2. CASE f \in task[t].families
        BY <3>2, <4>1, <4>2 DEF Owed, OwnedOf
      <4>3. CASE f \notin task[t].families
        BY <1>2, <1>t, <3>1, <3>2, <3>4, <4>3, OwnedMember DEF Cleanup
      <4> QED
        BY <4>2, <4>3
    <3> QED
      BY <3>3, <3>4
  <2>3. CASE task[t].remove = {}
    <3>1. task'[t].pc = "done"
      BY <1>4, <2>3, AppendEditEffect
    <3>2. \A r \in Rules : Listed(a, r)' \subseteq Owed(a, r)'
      BY <2>1, <2>2, <2>3
    <3>3. ~AllExecute(a)'
      BY <1>1, <1>t, AppendEditEffect DEF AllExecute
    <3> QED
      BY <3>1, <3>2, <3>3 DEF After, Matching
  <2>4. CASE task[t].remove # {}
    <3>1. task'[t].pc = "lock"
      BY <1>4, <2>4, AppendEditEffect
    <3>2. /\ task'[t].rule = task[t].rule /\ task'[t].remove = task[t].remove
          /\ task'[t].kind = task[t].kind
      BY AppendEditEffect
    <3>3. MatchingBut(a, task[t].rule, task[t].remove)'
      BY <2>1, <2>2, <3>2 DEF MatchingBut
    <3> QED
      BY <1>1, <3>1, <3>2, <3>3 DEF After, Midway, Editing
  <2> QED
    BY <2>3, <2>4
<1> QED
  BY <1>3, <1>4

\* The write, whether it is answered or not.
LEMMA SetRulesAfter ==
  ASSUME Exclusive, OwnAddresses, NEW t \in Tasks, SetFirewallRules(t) \/ AnswerLost(t),
         NEW a \in Actions, a = task[t].action, Midway(t, a)
  PROVE  After(t, a)'
<1> AnyStep(t)
  BY DEF AnyStep, TaskStep
<1>t. task \in [Tasks -> Task] /\ task[t].rule \in Rules /\ action[a].families \in SUBSET Family
  BY DEF Exclusive, TypeOK, Task, Action
<1>0. SetRules(t)
  BY DEF SetFirewallRules, AnswerLost
<1>1. /\ task[t].pc = "write" /\ task'[t].pc \in {"release", "fail"}
      /\ task'[t].kind = task[t].kind /\ task'[t].add = task[t].add
      /\ task'[t].remove = task[t].remove /\ task'[t].rule = task[t].rule
      /\ task'[t].action = a
      /\ action' = action
  BY <1>t, <1>0 DEF SetFirewallRules, AnswerLost, SetRules, Task
<1>2. /\ \A r \in Rules \ {task[t].rule} : firewall'[r] = firewall[r]
      /\ firewall'[task[t].rule] =
           (firewall[task[t].rule] \ task[t].remove) \cup Given(task[t].add)
  BY <1>0, SetRulesEffect
<1>3. ASSUME NEW r \in Rules, NEW c \in Listed(a, r)'
      PROVE  \/ c \in Listed(a, r) /\ ~(r = task[t].rule /\ c \in task[t].remove)
             \/ r = task[t].rule /\ c \in Given(task[t].add)
  BY <1>2, <1>3 DEF Listed
<1>o. \A r \in Rules : Owed(a, r)' = Owed(a, r)
  BY <1>1 DEF Owed, OwnedOf
<1>4. CASE task[t].kind = "execute"
  <2>1. Executing(t, a)
    BY <1>4 DEF Midway
  <2>2. /\ MatchingBut(a, action[a].rule, Given(task[t].add))
        /\ task[t].rule = action[a].rule
        /\ task[t].remove = OwnedOf(a, action[a].families)
        /\ Ready(t, a) /\ task[t].add = Chosen(t, a)
    BY <1>1, <2>1 DEF Executing
  <2>3. ASSUME NEW r \in Rules, NEW c \in Listed(a, r)'
        PROVE  r = task[t].rule /\ c \in Given(task[t].add)
    BY <1>3, <2>2, <2>3 DEF MatchingBut, Owed
  <2>4. Written(t, a)'
    BY <1>1, <1>2, <2>3 DEF Written, Given
  <2>5. MatchingBut(a, action[a].rule, Given(task[t].add))'
    BY <1>1, <2>2, <2>3 DEF MatchingBut, Given
  <2>6. /\ Ready(t, a)'
        /\ task'[t].add = Chosen(t, a)' /\ task'[t].rule = action'[a].rule
        /\ task'[t].remove = OwnedOf(a, action[a].families)'
    BY <1>1, <2>2, StepFrame DEF Exclusive, Ready, Chosen, OwnedOf
  <2>7. Executing(t, a)'
    BY <1>1, <2>4, <2>5, <2>6 DEF Executing
  <2> QED
    BY <1>1, <1>4, <2>7 DEF After, Midway
<1>5. CASE task[t].kind # "execute"
  <2>1. MatchingBut(a, task[t].rule, task[t].remove) /\ Given(task[t].add) = {}
    BY <1>1, <1>5, NothingGiven DEF Midway, Editing, OwnAddresses, OwnTask
  <2>2. \A r \in Rules : Listed(a, r)' \subseteq Owed(a, r)'
    BY <1>3, <1>o, <2>1 DEF MatchingBut
  <2>3. ~AllExecute(a)'
    BY <1>1, <1>5 DEF AllExecute
  <2>4. Matching(a)'
    BY <2>2, <2>3 DEF Matching
  <2> QED
    BY <1>1, <1>5, <2>4 DEF After, Midway, Editing
<1> QED
  BY <1>4, <1>5

\* The record of an execution that was the only task of its action meets the
\* action as it was reloaded.
LEMMA AppendAppliedAfter ==
  ASSUME TypeOK, OwnAddresses, NEW t \in Tasks, AppendApplied(t),
         NEW a \in Actions, a = task[t].action, Midway(t, a)
  PROVE  After(t, a)'
<1>1. task[t].pc = "applied" /\ task[t].kind = "execute"
  BY AppendAppliedEffect DEF OwnAddresses, OwnTask
<1>2. Executing(t, a)
  BY <1>1 DEF Midway
<1>3. /\ action[a].status = "enabled" /\ task[t].rule = action[a].rule
      /\ \A f \in action[a].families : task[t].add[f] # None
      /\ \A f \in Family \ action[a].families : task[t].add[f] = None
      /\ Written(t, a) /\ task[t].version = action[a].version
  <2>1. /\ Ready(t, a) /\ task[t].add = Chosen(t, a) /\ task[t].rule = action[a].rule
        /\ Written(t, a) /\ task[t].version = action[a].version
    BY <1>1, <1>2 DEF Executing
  <2>2. action[a].families \in SUBSET Family
    BY DEF TypeOK, Action
  <2> QED
    BY <2>1, <2>2 DEF Ready, Chosen
<1>4. /\ task'[t].pc = "done" /\ firewall' = firewall
      /\ action'[a].status = "enabled" /\ action'[a].rule = task[t].rule
      /\ action'[a].families = action[a].families
      /\ \A f \in Family : action'[a].owned[f] = IF task[t].add[f] # None
                                                  THEN task[t].add[f]
                                                  ELSE action[a].owned[f]
  BY <1>3, AppendAppliedEffect
<1>5. action[a].families \in SUBSET Family
  BY DEF TypeOK, Action
<1>6. OwnedOf(a, action[a].families)' = Given(task[t].add)
  <2>1. ASSUME NEW c \in Given(task[t].add)
        PROVE  c \in OwnedOf(a, action[a].families)'
    <3>1. PICK f \in Family : c # None /\ c = task[t].add[f]
      BY <2>1 DEF Given
    <3>2. f \in action'[a].families /\ c = action'[a].owned[f]
      BY <1>3, <1>4, <3>1
    <3> QED
      BY <3>1, <3>2 DEF OwnedOf
  <2>2. ASSUME NEW c \in OwnedOf(a, action[a].families)'
        PROVE  c \in Given(task[t].add)
    <3>1. PICK f \in action'[a].families : c # None /\ c = action'[a].owned[f]
      BY <2>2 DEF OwnedOf
    <3>2. f \in Family /\ c = task[t].add[f]
      BY <1>3, <1>4, <1>5, <3>1
    <3> QED
      BY <3>1, <3>2 DEF Given
  <2> QED
    BY <2>1, <2>2
<1>7. Matching(a)'
  <2>1. \A r \in Rules : Listed(a, r)' = Listed(a, r)
    BY <1>4 DEF Listed
  <2>2. \A r \in Rules : Listed(a, r)' \subseteq Owed(a, r)'
    BY <1>3, <1>4, <1>6, <2>1 DEF Written, Owed
  <2>3. OwnedOf(a, action[a].families)' \cap Own(a) \subseteq firewall'[action'[a].rule]
    BY <1>3, <1>4, <1>6 DEF Written
  <2> QED
    BY <2>2, <2>3 DEF Matching
<1> QED
  BY <1>4, <1>7 DEF After

LEMMA StepAfter ==
  ASSUME Exclusive, OwnAddresses, NEW t \in Tasks, AnyStep(t), task'[t].clean,
         NEW a \in Actions, a = task[t].action, Midway(t, a)
  PROVE  After(t, a)'
BY LoadExecutionAfter, LoadEditAfter, AcquireAfter, RetryAfter, AppendEditAfter,
   SetRulesAfter, AppendAppliedAfter
   DEF AnyStep, TaskStep, Exclusive

\* What a step of a task does to the lists holds for the actions of other tasks.
LEMMA OthersKept ==
  ASSUME Exclusive, OwnAddresses, NEW t \in Tasks, AnyStep(t),
         NEW b \in Actions \ {task[t].action}
  PROVE  \A r \in Rules : firewall'[r] \cap Own(b) = firewall[r] \cap Own(b)
<1> PICK a \in Actions : a = task[t].action
  BY DEF Exclusive, TypeOK, Task
<1>1. CASE SetRules(t)
  <2>1. /\ \A r \in Rules \ {task[t].rule} : firewall'[r] = firewall[r]
        /\ firewall'[task[t].rule] =
             (firewall[task[t].rule] \ task[t].remove) \cup Given(task[t].add)
    BY <1>1, SetRulesEffect
  <2>2. Given(task[t].add) \subseteq Addresses(a) /\ task[t].remove \subseteq Addresses(a)
    BY DEF OwnAddresses, OwnTask
  <2>3. Addresses(a) \cap Own(b) = {}
    BY DEF Own, Shared
  <2> QED
    BY <2>1, <2>2, <2>3
<1>2. CASE ~SetRules(t)
  BY <1>2 DEF AnyStep, TaskStep, LoadExecution, LoadEdit, AppendEdit, Acquire,
         WaitTooLong, GetFirewall, SetFirewallRules, Release, ReleaseFailed,
         ReloadAction, AppendApplied, CallFails, AnswerLost, Crash
<1> QED
  BY <1>1, <1>2

-----------------------------------------------------------------------------
LEMMA OrderlyInit == Init => Serial /\ OrderlyMatches
<1> SUFFICES ASSUME Init
             PROVE  Serial /\ OrderlyMatches
  OBVIOUS
<1>1. \A t \in Tasks : ~Busy(t)
  BY DEF Init, NewTask, Busy
<1>2. ASSUME NEW a \in Actions
      PROVE  Matching(a)
  <2>t. /\ action[a].owned \in Entries /\ action[a].rule \in Rules
        /\ action[a].families \in SUBSET Family
    BY TypeInit DEF TypeOK, Action
  <2>1. /\ action[a].status = "enabled"
        /\ \/ action[a].owned = NoEntries
           \/ \A f \in Family : f \in action[a].families <=> action[a].owned[f] # None
    BY DEF Init, Attached
  <2>2. ASSUME NEW r \in Rules, NEW c \in Listed(a, r)
        PROVE  c \in Owed(a, r)
    <3>0. c \in firewall[r] /\ c \in Own(a) /\ c \notin Static
      BY DEF Listed
    <3>1. PICK b \in Actions : <<r, c>> \in asked[b]
      BY <3>0 DEF Init
    <3>b. c \in Given(action[b].owned)
      BY <3>1 DEF Init
    <3>a. b = a
      BY <3>0, <3>b, OwnInit DEF OwnAddresses, Own, Shared
    <3>2. r = action[a].rule /\ c \in Given(action[a].owned)
      BY <3>1, <3>a DEF Init
    <3>3. PICK f \in Family : c # None /\ c = action[a].owned[f]
      BY <3>2 DEF Given
    <3>4. f \in action[a].families
      BY <2>1, <3>3 DEF NoEntries
    <3> QED
      BY <2>1, <2>t, <3>2, <3>3, <3>4, OwnedMember DEF Owed
  <2>3. ASSUME NEW c \in OwnedOf(a, action[a].families)
        PROVE  c \in firewall[action[a].rule]
    <3>1. c \in Given(action[a].owned)
      BY <2>t, OwnedMember DEF Given
    <3>2. c \in Cidr /\ <<action[a].rule, c>> \in asked[a]
      BY <2>t, <3>1, EntryTypes DEF Init
    <3> QED
      BY <2>t, <3>2 DEF Init
  <2> QED
    BY <2>2, <2>3 DEF Matching
<1> QED
  BY <1>1, <1>2 DEF Serial, OrderlyMatches

LEMMA OrderlyStep ==
  ASSUME Exclusive, OwnAddresses, Serial, OrderlyMatches,
         NEW t \in Tasks, AnyStep(t)
  PROVE  Serial' /\ OrderlyMatches'
<1> TypeOK
  BY DEF Exclusive
<1>f. /\ \A u \in Tasks \ {t} : task'[u] = task[u]
      /\ Busy(t)
      /\ task'[t].action = task[t].action
      /\ task'[t].pc # "new"
      /\ task'[t].clean => task[t].clean
      /\ \A b \in Actions \ {task[t].action} : action'[b] = action[b]
  BY StepFrame
<1>b. \A u \in Tasks : Busy(u)' => Busy(u)
  BY <1>f DEF Busy
<1>1. Serial'
  BY <1>f, <1>b DEF Serial
<1>2. ASSUME NEW b \in Actions, Orderly(b)'
      PROVE  /\ \A u \in Tasks : Busy(u)' /\ task'[u].action = b => Midway(u, b)'
             /\ (\A u \in Tasks : Busy(u)' => task'[u].action # b) => Matching(b)'
  <2>1. Orderly(b)
    BY <1>2, <1>f DEF Orderly, Busy
  <2>2. CASE b = task[t].action
    <3>1. task[t].clean /\ task'[t].clean
      BY <1>2, <1>f, <2>2 DEF Orderly
    <3>2. Midway(t, b)
      BY <1>f, <2>1, <2>2 DEF OrderlyMatches
    <3>3. After(t, b)'
      BY <2>2, <3>1, <3>2, StepAfter
    <3>4. ASSUME NEW u \in Tasks \ {t}, Busy(u)', task'[u].action = b
          PROVE  FALSE
      <4>1. Busy(u) /\ task[u].action = b /\ task[u].clean
        BY <1>b, <1>f, <2>1, <3>4 DEF Orderly, Busy
      <4> QED
        BY <1>f, <2>2, <3>1, <4>1 DEF Serial
    <3>5. Busy(t)' <=> task'[t].pc # "done"
      BY <1>f DEF Busy
    <3> QED
      BY <1>f, <2>2, <3>3, <3>4, <3>5 DEF After
  <2>3. CASE b # task[t].action
    <3>1. /\ action'[b] = action[b] /\ AllExecute(b)' => AllExecute(b)
          /\ \A r \in Rules : firewall'[r] \cap Own(b) = firewall[r] \cap Own(b)
      BY <1>f, <2>3, KindsStay, OthersKept
    <3>2. ASSUME NEW u \in Tasks, Busy(u)', task'[u].action = b
          PROVE  Midway(u, b)'
      <4>1. u # t /\ task'[u] = task[u] /\ task[u].action = b /\ Busy(u)
        BY <1>f, <1>b, <2>3, <3>2
      <4>2. Midway(u, b)
        BY <2>1, <4>1 DEF OrderlyMatches
      <4> QED
        BY <1>f, <2>3, <3>1, <4>1, <4>2, KindsStay, MidwayFrame
    <3>3. ASSUME \A u \in Tasks : Busy(u)' => task'[u].action # b
          PROVE  Matching(b)'
      <4>1. \A u \in Tasks : Busy(u) => task[u].action # b
        BY <1>f, <2>3, <3>3 DEF Busy
      <4>2. Matching(b)
        BY <2>1, <4>1 DEF OrderlyMatches
      <4> QED
        BY <1>f, <2>3, <3>1, <4>2, KindsStay, MatchingFrame
    <3> QED
      BY <3>2, <3>3
  <2> QED
    BY <2>2, <2>3
<1> QED
  BY <1>1, <1>2 DEF OrderlyMatches

\* A task that begins alone finds its action's lists matching.
LEMMA OrderlyBegin ==
  ASSUME TypeOK, OwnAddresses, Serial, OrderlyMatches, NEW t \in Tasks, Begin(t)
  PROVE  Serial' /\ OrderlyMatches'
<1>f. /\ task[t].pc = "new"
      /\ \A u \in Tasks \ {t} : task'[u] = task[u]
      /\ task'[t].pc = "load"
      /\ task'[t].clean => Alone(t, task'[t].action)
      /\ UNCHANGED <<firewall, action>>
  BY BeginEffect
<1>n. task[t].kind = "execute" /\ task[t].pc = "new"
  BY <1>f DEF OwnAddresses, OwnTask
<1>1. Serial'
  <2> SUFFICES ASSUME NEW u \in Tasks, NEW v \in Tasks, u # v, Busy(u)', Busy(v)',
                      task'[u].action = task'[v].action, task'[u].clean, task'[v].clean
               PROVE  FALSE
    BY DEF Serial
  <2>1. CASE u = t
    BY <1>f, <2>1 DEF Alone, Busy
  <2>2. CASE v = t
    BY <1>f, <2>2 DEF Alone, Busy
  <2>3. CASE u # t /\ v # t
    BY <1>f, <2>3 DEF Serial, Busy
  <2> QED
    BY <2>1, <2>2, <2>3
<1>2. ASSUME NEW b \in Actions, Orderly(b)'
      PROVE  /\ \A u \in Tasks : Busy(u)' /\ task'[u].action = b => Midway(u, b)'
             /\ (\A u \in Tasks : Busy(u)' => task'[u].action # b) => Matching(b)'
  <2>1. Orderly(b)
    BY <1>2, <1>f DEF Orderly
  <2>2. AllExecute(b)' => AllExecute(b)
    BY <1>f, <1>n DEF AllExecute
  <2>3. action'[b] = action[b] /\ \A r \in Rules : firewall'[r] \cap Own(b) = firewall[r] \cap Own(b)
    BY <1>f
  <2>4. ASSUME NEW u \in Tasks \ {t}, Busy(u)', task'[u].action = b
        PROVE  Midway(u, b)'
    <3>1. task'[u] = task[u] /\ task[u].action = b /\ Busy(u)
      BY <1>f, <2>4 DEF Busy
    <3>2. Midway(u, b)
      BY <2>1, <3>1 DEF OrderlyMatches
    <3> QED
      BY <2>2, <2>3, <3>1, <3>2, MidwayFrame
  <2>5. Matching(b) => Matching(b)'
    BY <2>2, <2>3, MatchingFrame
  <2>6. ASSUME task'[t].action = b
        PROVE  Midway(t, b)'
    <3>1. \A u \in Tasks : Busy(u) => task[u].action # b
      <4>1. Alone(t, b)
        BY <1>2, <1>f, <2>6 DEF Orderly
      <4> QED
        BY <1>f, <4>1 DEF Alone, Busy
    <3>2. Matching(b)
      BY <2>1, <3>1 DEF OrderlyMatches
    <3>3. Matching(b)'
      BY <2>5, <3>2
    <3>4. \A q, more : MatchingBut(b, q, more)'
      BY <3>3 DEF Matching, MatchingBut
    <3>5. MatchingBut(b, action[b].rule, Given(Chosen(t, b)))'
      BY <3>4
    <3>6. task'[t].kind = "execute" => Executing(t, b)'
      BY <1>f, <3>3, <3>5 DEF Executing
    <3>7. Editing(t, b)'
      BY <1>f, <3>3 DEF Editing
    <3> QED
      BY <3>6, <3>7 DEF Midway
  <2>7. ASSUME \A u \in Tasks : Busy(u)' => task'[u].action # b
        PROVE  Matching(b)'
    <3>1. \A u \in Tasks : Busy(u) => task[u].action # b
      BY <1>f, <2>7 DEF Busy
    <3> QED
      BY <2>1, <2>5, <3>1 DEF OrderlyMatches
  <2> QED
    BY <2>4, <2>6, <2>7
<1> QED
  BY <1>1, <1>2 DEF OrderlyMatches

LEMMA OrderlyUnchanged ==
  ASSUME Serial, OrderlyMatches, UNCHANGED <<firewall, action, task>>
  PROVE  Serial' /\ OrderlyMatches'
<1>1. \A t \in Tasks : Busy(t)' = Busy(t)
  BY DEF Busy
<1>2. Serial'
  BY <1>1 DEF Serial
<1>3. ASSUME NEW a \in Actions
      PROVE  /\ Orderly(a)' = Orderly(a) /\ Matching(a)' = Matching(a)
             /\ \A t \in Tasks : Midway(t, a)' = Midway(t, a)
  BY DEF Orderly, Matching, Midway, Executing, Editing, MatchingBut, Written, Ready, Chosen,
         Cleanup, Listed, Owed, OwnedOf, AllExecute, Given
<1> QED
  BY <1>1, <1>2, <1>3 DEF OrderlyMatches

\* FR-001, FR-010, FR-017 for any number of tasks, actions and rules: while nothing
\* is under way for an action whose tasks ran one at a time and to their ends, the
\* lists hold of the addresses that are its device's alone what it owns where it is
\* attached, and nothing else, as long as no lock expires under a working holder.
THEOREM EntriesMatch ==
  ASSUME MaxExpiries = 0
  PROVE  Spec => []EntriesMatchOwners
<1> DEFINE IInv == Exclusive /\ OwnAddresses /\ Serial /\ OrderlyMatches
<1>1. Init => IInv
  BY ExclusiveInit, OwnInit, OrderlyInit
<1>2. IInv /\ [Next]_vars => IInv'
  <2> SUFFICES ASSUME IInv, [Next]_vars
               PROVE  IInv'
    OBVIOUS
  <2>1. Exclusive'
    BY ExclusiveNext
  <2>2. OwnAddresses'
    BY OwnNext DEF Exclusive
  <2>3. Serial' /\ OrderlyMatches'
    <3>1. CASE UNCHANGED vars
      BY <3>1, OrderlyUnchanged DEF vars
    <3>2. ASSUME NEW t \in Tasks, Begin(t)
          PROVE  Serial' /\ OrderlyMatches'
      BY <3>2, OrderlyBegin DEF Exclusive
    <3>3. ASSUME NEW t \in Tasks, AnyStep(t)
          PROVE  Serial' /\ OrderlyMatches'
      BY <3>3, OrderlyStep
    <3>4. CASE Expire
      BY <3>4, OrderlyUnchanged DEF Expire
    <3> QED
      BY <3>1, <3>2, <3>3, <3>4 DEF Next, AnyStep
  <2> QED
    BY <2>1, <2>2, <2>3
<1>3. IInv => EntriesMatchOwners
  <2> SUFFICES ASSUME IInv, NEW a \in Actions, Undisturbed(a)
               PROVE  /\ \A r \in Rules :
                           \A c \in (firewall[r] \cap Addresses(a)) \ (Static \cup Shared(a)) :
                             /\ action[a].status = "enabled"
                             /\ action[a].rule = r
                             /\ c \in OwnedOf(a, action[a].families)
                      /\ (\A t \in Tasks : task[t].action = a => task[t].kind = "execute") =>
                           OwnedOf(a, action[a].families) \ Shared(a) \subseteq firewall[action[a].rule]
    BY DEF EntriesMatchOwners
  <2>1. Orderly(a) /\ \A t \in Tasks : Busy(t) => task[t].action # a
    BY DEF Undisturbed, Orderly, Busy
  <2>2. Matching(a)
    BY <2>1 DEF OrderlyMatches
  <2>3. OwnedOf(a, action[a].families) \subseteq Addresses(a)
    BY OwnedAddresses DEF Exclusive, TypeOK, Action
  <2> QED
    BY <2>2, <2>3 DEF Matching, Listed, Owed, Own, AllExecute
<1> HIDE DEF IInv
<1> QED
  BY <1>1, <1>2, <1>3, PTL DEF Spec
=============================================================================
