----------------------------- MODULE FirewallRule -----------------------------
(***************************************************************************)
(* Firewall rule actions on one Hetzner firewall: executions and the       *)
(* owner's reconfigure and detach requests, each a task that goes through  *)
(* the same locked read-modify-write of the firewall's whole rule set, and *)
(* the bookkeeping of the entries an action owns.                          *)
(***************************************************************************)
EXTENDS Naturals, FiniteSets

CONSTANTS
  Family,       \* address families
  Rules,        \* rules of the firewall, each matched by one selector
  Cidr,         \* entries an address list may hold
  Static,       \* entries the rules hold from the start, entered by hand
  None,         \* no entry, no lock holder
  Actions,      \* firewall rule actions
  AddrOf,       \* the addresses of a family the device of an action may report
  Tasks,        \* executions and owner requests
  Kinds,        \* which kinds of tasks occur
  Attempts,     \* BACKEND_ACTION_RETRY_ATTEMPTS
  MaxExpiries,  \* how often a lock expires while its holder is still working
  FaultKinds,   \* subset of {"call", "crash"}
  MaxFaults     \* bound on faults

ASSUME FirewallAssumption ==
  /\ Rules # {} /\ Actions # {}
  /\ Static \subseteq Cidr
  /\ None \notin Cidr \cup [task : Tasks, token : Nat]
  /\ AddrOf \in [Actions -> [Family -> SUBSET Cidr]]
  /\ Kinds \subseteq {"execute", "detach", "reconfigure"}
  /\ Attempts \in Nat /\ Attempts >= 1
  /\ MaxExpiries \in Nat
  /\ FaultKinds \subseteq {"call", "crash"}
  /\ MaxFaults \in Nat

VARIABLES
  firewall,  \* address list of each rule, at Hetzner
  action,    \* replay of each action's stream
  task,      \* progress of each task, and whether it went by undisturbed
  lock,      \* the Redis lock: token of its holder
  asked,     \* history: the entries each action has asked a rule to hold
  expiries,  \* locks expired under a working holder
  faults     \* faults so far

vars == <<firewall, action, task, lock, asked, expiries, faults>>

-----------------------------------------------------------------------------
Entry == Cidr \cup {None}
Entries == [Family -> Entry]
NoEntries == [f \in Family |-> None]
Lists == [Rules -> SUBSET Cidr]

Action == [version : Nat, status : {"enabled", "detached"},
           families : SUBSET Family, rule : Rules, owned : Entries]

Pc == {"new", "load", "append", "lock", "read", "write", "release", "fail",
       "record", "applied", "done"}
Kind == {"execute", "detach", "reconfigure"}
Task == [pc : Pc, kind : Kind, action : Actions, values : Entries, add : Entries,
         remove : SUBSET Cidr, rule : Rules, seen : Lists, families : SUBSET Family,
         target : Rules, version : Nat, attempt : 1 .. Attempts, token : Nat,
         again : BOOLEAN, clean : BOOLEAN]
Token == [task : Tasks, token : Nat]

TokenOf(t) == [task |-> t, token |-> task[t].token]
Holding == {"read", "write", "release", "fail"}
Busy(t) == task[t].pc \notin {"new", "done"}

Given(entries) == {entries[f] : f \in Family} \ {None}

\* Mutant of Replaced: removals are applied after the additions.
RemovedLast(list, remove, add) == (list \cup add) \ remove

\* Mutant of Replaced: the list holds this action's entries only.
Overwritten(list, remove, add) == add

\* An address list without the removals and with the additions.
Replaced(list, remove, add) == (list \ remove) \cup add

\* What the device of an action may report.
Reports(a) == {v \in Entries : \A f \in Family : v[f] \in AddrOf[a][f] \cup {None}}

OwnedOf(a, families) == {action[a].owned[f] : f \in families} \ {None}

NewTask ==
  [pc |-> "new", kind |-> "execute", action |-> CHOOSE a \in Actions : TRUE,
   values |-> NoEntries, add |-> NoEntries, remove |-> {},
   rule |-> CHOOSE r \in Rules : TRUE, seen |-> [r \in Rules |-> {}], families |-> {},
   target |-> CHOOSE r \in Rules : TRUE, version |-> 0, attempt |-> 1, token |-> 0,
   again |-> FALSE, clean |-> TRUE]

\* An action as it was attached, or as an execution has left it, which owns an
\* entry for each of its families.
Attached(a) ==
  {act \in [version : {1}, status : {"enabled"}, families : SUBSET Family \ {{}},
            rule : Rules, owned : Reports(a)] :
     \/ act.owned = NoEntries
     \/ \A f \in Family : f \in act.families <=> act.owned[f] # None}

Init ==
  /\ action \in [Actions -> UNION {Attached(a) : a \in Actions}]
  /\ \A a \in Actions : action[a] \in Attached(a)
  /\ asked = [a \in Actions |-> {action[a].rule} \X Given(action[a].owned)]
  /\ firewall = [r \in Rules |->
                   Static \cup {c \in Cidr : \E a \in Actions : <<r, c>> \in asked[a]}]
  /\ task = [t \in Tasks |-> NewTask]
  /\ lock = None
  /\ expiries = 0
  /\ faults = 0

-----------------------------------------------------------------------------
\* No other task of the action is under way.
Alone(t, a) == \A u \in Tasks \ {t} : Busy(u) => task[u].action # a

\* A job is taken with the addresses of its change, or a request arrives.
Begin(t) ==
  /\ task[t].pc = "new"
  /\ \E k \in Kinds, a \in Actions :
       \/ /\ k = "execute"
          /\ \E v \in Reports(a) :
               task' = [task EXCEPT ![t].pc = "load", ![t].action = a, ![t].kind = k,
                                    ![t].clean = Alone(t, a), ![t].values = v]
       \/ /\ k = "detach"
          /\ task' = [task EXCEPT ![t].pc = "load", ![t].action = a, ![t].kind = k,
                                  ![t].clean = Alone(t, a)]
       \/ /\ k = "reconfigure"
          /\ \E S \in SUBSET Family \ {{}}, r \in Rules :
               task' = [task EXCEPT ![t].pc = "load", ![t].action = a, ![t].kind = k,
                                    ![t].clean = Alone(t, a),
                                    ![t].families = S, ![t].target = r]
  /\ UNCHANGED <<firewall, action, lock, asked, expiries, faults>>

\* A second run of an execution begins after the backoff or the stalled check,
\* 30 s later: a lock its first run left behind (10 s to live) is gone by then.
Rested(t) == lock # None => lock.task # t

\* The worker loads the action: addresses to add, owned entries to remove.
LoadExecution(t) ==
  LET a == task[t].action
      families == action[a].families
  IN
  /\ task[t].pc = "load"
  /\ task[t].kind = "execute"
  /\ Rested(t)
  /\ task' =
       IF action[a].status = "enabled" /\ \A f \in families : task[t].values[f] # None
         THEN [task EXCEPT ![t].pc = "lock", ![t].rule = action[a].rule,
                 ![t].add = [f \in Family |-> IF f \in families
                                                 THEN task[t].values[f] ELSE None],
                 ![t].remove = OwnedOf(a, families)]
         ELSE [task EXCEPT ![t].pc = "done"]
  /\ UNCHANGED <<firewall, action, lock, asked, expiries, faults>>

\* Mutant of LoadEdit: the cleanup looks at the families that stay.
LoadEditKeeps(t) ==
  LET a == task[t].action IN
  /\ task[t].pc = "load"
  /\ task[t].kind # "execute"
  /\ task' =
       IF task[t].kind = "detach" /\ action[a].status = "detached"
         THEN [task EXCEPT ![t].pc = "done"]
         ELSE [task EXCEPT ![t].pc = "append", ![t].version = action[a].version,
                 ![t].rule = action[a].rule,
                 ![t].remove = OwnedOf(a, action[a].families \cap task[t].families)]
  /\ UNCHANGED <<firewall, action, lock, asked, expiries, faults>>

\* DELETE and PUT /actions/:id: load the action, which decides the cleanup.
LoadEdit(t) ==
  LET a == task[t].action IN
  /\ task[t].pc = "load"
  /\ task[t].kind # "execute"
  /\ task' =
       IF task[t].kind = "detach" /\ action[a].status = "detached"
         THEN [task EXCEPT ![t].pc = "done"]
         ELSE [task EXCEPT ![t].pc = "append", ![t].version = action[a].version,
                 ![t].rule = action[a].rule,
                 ![t].remove = OwnedOf(a, IF task[t].kind = "detach" THEN Family
                                          ELSE action[a].families \ task[t].families)]
  /\ UNCHANGED <<firewall, action, lock, asked, expiries, faults>>

\* The optimistic append; then the cleanup, if there is anything to remove.
AppendEdit(t) ==
  LET a == task[t].action IN
  /\ task[t].pc = "append"
  /\ IF action[a].version = task[t].version
       THEN /\ action' =
                 IF task[t].kind = "detach"
                   THEN [action EXCEPT ![a].version = @ + 1, ![a].status = "detached"]
                   ELSE [action EXCEPT ![a].version = @ + 1, ![a].rule = task[t].target,
                                       ![a].families = task[t].families]
            /\ task' = [task EXCEPT
                 ![t].pc = IF task[t].remove = {} THEN "done" ELSE "lock",
                 ![t].clean = task[t].clean
                                /\ (task[t].kind = "reconfigure" => task[t].target = action[a].rule)]
       ELSE /\ task' = [task EXCEPT ![t].pc = "done"]
            /\ UNCHANGED action
  /\ UNCHANGED <<firewall, lock, asked, expiries, faults>>

-----------------------------------------------------------------------------
(* applyFirewallRuleUpdate. *)

\* Mutant of Acquire: the key is set without NX.
AcquireAnyway(t) ==
  /\ task[t].pc = "lock"
  /\ lock' = TokenOf(t)
  /\ task' = [task EXCEPT ![t].pc = "read"]
  /\ UNCHANGED <<firewall, action, asked, expiries, faults>>

Acquire(t) ==
  /\ task[t].pc = "lock"
  /\ lock = None
  /\ lock' = TokenOf(t)
  /\ task' = [task EXCEPT ![t].pc = "read"]
  /\ UNCHANGED <<firewall, action, asked, expiries, faults>>

\* An execution is tried again while attempts are left; a cleanup is not.
Retried(t) ==
  task' = IF task[t].kind = "execute" /\ task[t].attempt < Attempts
            THEN [task EXCEPT ![t].pc = "load", ![t].attempt = @ + 1, ![t].token = @ + 1]
            ELSE [task EXCEPT ![t].pc = "done", ![t].clean = FALSE]

\* Not acquired within maxWaitMs.
WaitTooLong(t) ==
  /\ task[t].pc = "lock"
  /\ lock # None
  /\ Retried(t)
  /\ UNCHANGED <<firewall, action, lock, asked, expiries, faults>>

GetFirewall(t) ==
  /\ task[t].pc = "read"
  /\ task' = [task EXCEPT ![t].pc = "write", ![t].seen = firewall]
  /\ UNCHANGED <<firewall, action, lock, asked, expiries, faults>>

\* The rule set with the list of the task's rule replaced.
Apply(t, lists) ==
  [lists EXCEPT ![task[t].rule] = Replaced(@, task[t].remove, Given(task[t].add))]

\* set_rules replaces every rule by what was read, the task's rule changed.
SetRules(t) ==
  /\ task[t].pc = "write"
  /\ firewall' = Apply(t, task[t].seen)
  /\ asked' = [asked EXCEPT ![task[t].action] = @ \cup ({task[t].rule} \X Given(task[t].add))]

SetFirewallRules(t) ==
  /\ SetRules(t)
  /\ task' = [task EXCEPT ![t].pc = "release"]
  /\ UNCHANGED <<action, lock, expiries, faults>>

Freed(t) == lock' = IF lock = TokenOf(t) THEN None ELSE lock

Release(t) ==
  /\ task[t].pc = "release"
  /\ Freed(t)
  /\ task' = [task EXCEPT ![t].pc = IF task[t].kind = "execute" THEN "record" ELSE "done"]
  /\ UNCHANGED <<firewall, action, asked, expiries, faults>>

\* The finally block after an exception.
ReleaseFailed(t) ==
  /\ task[t].pc = "fail"
  /\ Freed(t)
  /\ Retried(t)
  /\ UNCHANGED <<firewall, action, asked, expiries, faults>>

-----------------------------------------------------------------------------
(* appendFirewallRuleAppliedEventBestEffort: reload, append, once more on a  *)
(* conflict.                                                                 *)

ReloadAction(t) ==
  /\ task[t].pc = "record"
  /\ task' = [task EXCEPT ![t].pc = "applied",
                          ![t].version = action[task[t].action].version]
  /\ UNCHANGED <<firewall, action, lock, asked, expiries, faults>>

AppendApplied(t) ==
  LET a == task[t].action IN
  /\ task[t].pc = "applied"
  /\ IF action[a].version = task[t].version
       THEN /\ action' = [action EXCEPT ![a].version = @ + 1,
                 ![a].owned = [f \in Family |-> IF task[t].add[f] # None
                                                  THEN task[t].add[f] ELSE @[f]]]
            /\ task' = [task EXCEPT ![t].pc = "done"]
       ELSE /\ task' = [task EXCEPT ![t].pc = IF task[t].again THEN "done" ELSE "record",
                                    ![t].again = TRUE]
            /\ UNCHANGED action
  /\ UNCHANGED <<firewall, lock, asked, expiries, faults>>

-----------------------------------------------------------------------------
(* Faults, and the lock's time to live. *)

Fault(kind) ==
  /\ kind \in FaultKinds
  /\ faults < MaxFaults
  /\ faults' = faults + 1

\* Hetzner refuses or does not answer, or the selector matches no single rule.
CallFails(t) ==
  /\ Fault("call")
  /\ task[t].pc \in {"read", "write"}
  /\ task' = [task EXCEPT ![t].pc = "fail"]
  /\ UNCHANGED <<firewall, action, lock, asked, expiries>>

\* set_rules is applied and its answer is lost.
AnswerLost(t) ==
  /\ Fault("call")
  /\ SetRules(t)
  /\ task' = [task EXCEPT ![t].pc = "fail"]
  /\ UNCHANGED <<action, lock, expiries>>

\* The process ends: an execution's job runs again, a request is gone.
Crash(t) ==
  /\ Fault("crash")
  /\ Busy(t)
  /\ task' = IF task[t].kind = "execute"
               THEN [task EXCEPT ![t].pc = "load", ![t].token = @ + 1, ![t].again = FALSE]
               ELSE [task EXCEPT ![t].pc = "done", ![t].clean = FALSE]
  /\ UNCHANGED <<firewall, action, lock, asked, expiries>>

HolderAlive ==
  \E t \in Tasks : lock = TokenOf(t) /\ task[t].pc \in Holding

\* PX ttlMs: of a dead holder's lock, or of one that is still working.
Expire ==
  /\ lock # None
  /\ HolderAlive => expiries < MaxExpiries
  /\ expiries' = IF HolderAlive THEN expiries + 1 ELSE expiries
  /\ lock' = None
  /\ UNCHANGED <<firewall, action, task, asked, faults>>

-----------------------------------------------------------------------------
TaskStep(t) ==
  \/ LoadExecution(t) \/ LoadEdit(t) \/ AppendEdit(t)
  \/ Acquire(t) \/ WaitTooLong(t) \/ GetFirewall(t) \/ SetFirewallRules(t)
  \/ Release(t) \/ ReleaseFailed(t) \/ ReloadAction(t) \/ AppendApplied(t)

Next ==
  \/ \E t \in Tasks :
       \/ Begin(t) \/ TaskStep(t)
       \/ CallFails(t) \/ AnswerLost(t) \/ Crash(t)
  \/ Expire

Spec == Init /\ [][Next]_vars

-----------------------------------------------------------------------------
(* Properties. *)

\* The shape of every variable.
TypeOK ==
  /\ firewall \in Lists
  /\ action \in [Actions -> Action]
  /\ task \in [Tasks -> Task]
  /\ lock \in Token \cup {None}
  /\ asked \in [Actions -> SUBSET (Rules \X Cidr)]
  /\ expiries \in 0 .. MaxExpiries
  /\ faults \in 0 .. MaxFaults

\* FR-009: set_rules replaces every rule, and yet a write changes exactly what
\* its task means to change: nothing written since the read is lost.
NoLostUpdate ==
  [][firewall' # firewall =>
       \E t \in Tasks : task[t].pc = "write" /\ firewall' = Apply(t, firewall)]_vars

\* The owner has asked for the action to be moved to another rule.
Moved(a) ==
  \E t \in Tasks : /\ task[t].action = a /\ task[t].kind = "reconfigure"
                   /\ task[t].pc \notin {"new", "load"} /\ task[t].target # task[t].rule

\* FR-006, as far as removal by value goes: an entry only leaves a list when the
\* action whose task takes it away has itself asked for it there, at some time, or
\* in another rule if it was moved.  Whose entry it is now is not known to the
\* code: what another action asked for as well, or was entered by hand as well, is
\* taken; what this action never asked for is not.
ForeignEntriesKept ==
  [][\A r \in Rules : \A c \in firewall[r] \ firewall'[r] :
       \E t \in Tasks : LET a == task[t].action IN
         /\ task[t].pc = "write" /\ task'[t].pc # "write"
         /\ \E q \in Rules : <<q, c>> \in asked[a] /\ (q = r \/ Moved(a))]_vars

\* The tasks of the action ran one at a time, each to its end, and none moved the
\* action to another rule.
Undisturbed(a) ==
  \A t \in Tasks :
    task[t].action = a /\ task[t].pc # "new" => task[t].pc = "done" /\ task[t].clean

Addresses(a) == UNION {AddrOf[a][f] : f \in Family}

\* Addresses other actions are for, too.
Shared(a) == UNION {Addresses(b) : b \in Actions \ {a}}

\* FR-001, FR-010, FR-017: while nothing is under way for an action, a list holds
\* an address that only this action is for, and that was not entered by hand, only
\* where the action is attached and owns it; and what it owns, after executions
\* only, that no other action is for is in its rule's list, whatever tasks of other
\* actions on the firewall are doing.
EntriesMatchOwners ==
  \A a \in Actions : Undisturbed(a) =>
    /\ \A r \in Rules : \A c \in (firewall[r] \cap Addresses(a)) \ (Static \cup Shared(a)) :
         /\ action[a].status = "enabled"
         /\ action[a].rule = r
         /\ c \in OwnedOf(a, action[a].families)
    /\ (\A t \in Tasks : task[t].action = a => task[t].kind = "execute") =>
         OwnedOf(a, action[a].families) \ Shared(a) \subseteq firewall[action[a].rule]
=============================================================================
