------------------------------ MODULE ChangeLog ------------------------------
(***************************************************************************)
(* What the detection of IP changes promises, with no streams, queues or   *)
(* processes: confirmed changes form a log in which every entry differs    *)
(* from the one before it, and each change issues at most one execution    *)
(* per action, carrying exactly the addresses of that change.              *)
(***************************************************************************)
EXTENDS Naturals, Sequences

CONSTANTS
  Values,   \* address combinations a device can have
  Unknown,  \* the one before the first change
  Actions   \* the device's actions

VARIABLES
  known,    \* the device's confirmed addresses
  log,      \* confirmed changes
  issued    \* executions issued

logVars == <<known, log, issued>>

LogInit ==
  /\ known = Unknown
  /\ log = <<>>
  /\ issued = {}

Confirm(v) ==
  /\ v # known
  /\ known' = v
  /\ log' = Append(log, v)
  /\ UNCHANGED issued

Issue(i, a) ==
  /\ \A x \in issued : x.change # i \/ x.action # a
  /\ issued' = issued \cup {[change |-> i, action |-> a, values |-> log[i]]}
  /\ UNCHANGED <<known, log>>

LogNext ==
  \/ \E v \in Values : Confirm(v)
  \/ \E i \in 1 .. Len(log), a \in Actions : Issue(i, a)

LogSpec == LogInit /\ [][LogNext]_logVars

-----------------------------------------------------------------------------
LogTypeOK ==
  /\ known \in Values
  /\ log \in Seq(Values)
  /\ issued \subseteq [change : 1 .. Len(log), action : Actions, values : Values]

\* The addresses in force before the i-th change.
Before(i) == IF i = 1 THEN Unknown ELSE log[i - 1]

\* FR-006: a confirmed change differs from the addresses known before it, and
\* the known addresses are those of the last confirmed change.
NoRedundantChange ==
  /\ known = Before(Len(log) + 1)
  /\ \A i \in 1 .. Len(log) : log[i] # Before(i)

\* FR-014: no two executions for one change and action, and each carries the
\* addresses of the change that caused it.
OneExecutionPerChange ==
  \A x \in issued :
    /\ x.change \in 1 .. Len(log)
    /\ x.values = log[x.change]
    /\ \A y \in issued : x.change = y.change /\ x.action = y.action => x = y

=============================================================================
