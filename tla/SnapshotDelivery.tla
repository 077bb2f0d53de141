--------------------------- MODULE SnapshotDelivery ---------------------------
(***************************************************************************)
(* The way of a change from the event store to the agent of one Traefik    *)
(* provider: the coordinator that collapses changes into runs, the         *)
(* publisher behind its per-provider mutex, the registry of live sessions, *)
(* the sessions that ask for the current snapshot themselves, and the      *)
(* agent's version check.                                                  *)
(***************************************************************************)
EXTENDS Naturals, Sequences, FiniteSets, SequencesExt

CONSTANTS
  Parts,       \* streams a snapshot is built from: delivery actions, devices
  Values,      \* what a part may put into a snapshot
  Empty,       \* what it puts there at first
  TooLarge,    \* parts and values that make a snapshot exceed agentSnapshotMaxBytes
  MaxChanges,  \* changes to the parts
  IpChanges,   \* those of them that are confirmed IP changes
  Sessions,    \* sessions an agent opens, one after the other
  None,        \* no session
  MaxWire,     \* bound on snapshots under way before another resync
  MaxStream,   \* bound on publish events before another resync
  FaultKinds,  \* subset of {"request", "publish", "answer", "link", "crash", "agent"}
  MaxFaults,   \* bound on faults
  MaxEvents    \* bound on changes and faults together

ASSUME DeliveryAssumption ==
  /\ MaxChanges \in Nat
  /\ IpChanges \subseteq 1 .. MaxChanges
  /\ Empty \in Values
  /\ TooLarge \subseteq Parts \X Values
  /\ {None, "coordinator", "resync"} \cap Sessions = {}
  /\ MaxWire \in Nat
  /\ MaxStream \in Nat
  /\ FaultKinds \subseteq {"request", "publish", "answer", "link", "crash", "agent"}
  /\ MaxFaults \in Nat
  /\ MaxEvents \in Nat

VARIABLES
  account,   \* what each part is now
  changes,   \* the changes made, and what became of their requests
  pending,   \* SnapshotCoordinator.pending of the provider
  calls,     \* publish calls, in the order of the publisher's mutex
  stream,    \* snapshot_published and snapshot_publish_failed events
  registry,  \* SessionRegistry: the live session
  session,   \* progress of each session's handler
  open,      \* sessions whose channel the server has not ended
  wire,      \* what each session was sent and its agent has not read
  told,      \* history: version last sent to each session
  agent,     \* the agent: its session, and what it applied last
  faults     \* faults so far

coordination == <<account, changes, pending>>
connections == <<registry, session, open>>
vars == <<coordination, calls, stream, connections, wire, told, agent, faults>>

-----------------------------------------------------------------------------
Content == [Parts -> Values]
Blank == [p \in Parts |-> Empty]

ChangePc == {"committed", "scheduled", "lost"}
ChangeRec == [cause : 0 .. MaxChanges, pc : ChangePc]
Pending == [causes : Seq(1 .. MaxChanges), timer : BOOLEAN, running : BOOLEAN,
            dirty : BOOLEAN]
Call == [by : Sessions \cup {"coordinator", "resync"}, causes : Seq(1 .. MaxChanges),
         pc : {"queued", "reading"}, last : Nat, todo : SUBSET Parts, content : Content]
Event == [ok : BOOLEAN, content : Content, causes : Seq(1 .. MaxChanges)]
Message == [type : {"hello", "snapshot"}, version : Nat, content : Content]
SessionPc == {"new", "connecting", "connected", "publishing", "live", "gone"}

Idle == [causes |-> <<>>, timer |-> FALSE, running |-> FALSE, dirty |-> FALSE]
NewCall(by, causes) ==
  [by |-> by, causes |-> causes, pc |-> "queued", last |-> 0, todo |-> {},
   content |-> Blank]

\* traefikProviderReducer, lastPublished: the last published event, 0 for none.
LastPublished == SelectLastInSeq(stream, LAMBDA e : e.ok)

Size(content) == \E p \in Parts : <<p, content[p]>> \in TooLarge

\* A provider that is new, or whose empty snapshot was published before.
Init ==
  /\ account = Blank
  /\ changes = <<>>
  /\ pending = Idle
  /\ calls = <<>>
  /\ stream \in {<<>>, <<[ok |-> TRUE, content |-> Blank, causes |-> <<>>]>>}
  /\ registry = None
  /\ session = [s \in Sessions |-> "new"]
  /\ open = {}
  /\ wire = [s \in Sessions |-> <<>>]
  /\ told = [s \in Sessions |-> 0]
  /\ agent = [session |-> None, version |-> 0, content |-> Blank]
  /\ faults = 0

-----------------------------------------------------------------------------
(* Changes of the account and their way into the coordinator. *)

\* A device or an action changes, perhaps back to what it was before; a
\* confirmed IP change is a cause of its own.
Change(p) ==
  LET n == Len(changes) + 1 IN
  /\ n <= MaxChanges
  /\ Len(changes) + faults < MaxEvents
  /\ \E v \in Values \ {account[p]} : account' = [account EXCEPT ![p] = v]
  /\ changes' = Append(changes, [cause |-> IF n \in IpChanges THEN n ELSE 0, pc |-> "committed"])
  /\ UNCHANGED <<pending, calls, stream, connections, wire, told, agent, faults>>

\* Mutant of Schedule: a trigger during a run starts nothing.
ScheduleForgetsDirty(i) ==
  /\ changes[i].pc = "committed"
  /\ changes' = [changes EXCEPT ![i].pc = "scheduled"]
  /\ pending' =
       [pending EXCEPT
          !.causes = IF changes[i].cause = 0 THEN @ ELSE Append(@, changes[i].cause),
          !.timer = @ \/ ~pending.running]
  /\ UNCHANGED <<account, calls, stream, connections, wire, told, agent, faults>>

\* SnapshotCoordinator.schedule
Schedule(i) ==
  /\ changes[i].pc = "committed"
  /\ changes' = [changes EXCEPT ![i].pc = "scheduled"]
  /\ pending' =
       [pending EXCEPT
          !.causes = IF changes[i].cause = 0 THEN @ ELSE Append(@, changes[i].cause),
          !.dirty = @ \/ pending.running,
          !.timer = @ \/ ~pending.running]
  /\ UNCHANGED <<account, calls, stream, connections, wire, told, agent, faults>>

\* SnapshotCoordinator.run up to the publisher
Run ==
  /\ pending.timer
  /\ pending' = [causes |-> <<>>, timer |-> FALSE, running |-> TRUE, dirty |-> FALSE]
  /\ calls' = Append(calls, NewCall("coordinator", pending.causes))
  /\ UNCHANGED <<account, changes, stream, connections, wire, told, agent, faults>>

-----------------------------------------------------------------------------
(* SnapshotPublisher.publish: one call at a time, in order of arrival.       *)

\* KeyedMutex.run
Turn(i) == i = 1

LoadProvider(i) ==
  /\ Turn(i)
  /\ calls[i].pc = "queued"
  /\ calls' = [calls EXCEPT ![i].pc = "reading", ![i].last = LastPublished,
                            ![i].todo = Parts]
  /\ UNCHANGED <<coordination, stream, connections, wire, told, agent, faults>>

\* buildSnapshotContent replays one stream after the other.
BuildSnapshotContent(i, p) ==
  /\ calls[i].pc = "reading"
  /\ p \in calls[i].todo
  /\ calls' = [calls EXCEPT ![i].todo = @ \ {p}, ![i].content[p] = account[p]]
  /\ UNCHANGED <<coordination, stream, connections, wire, told, agent, faults>>

\* The channel's send: nothing once the session has ended.
Send(s, m) ==
  IF s \in open
    THEN /\ wire' = [wire EXCEPT ![s] = Append(@, m)]
         /\ told' = [told EXCEPT ![s] = m.version]
    ELSE UNCHANGED <<wire, told>>

Push(m) == IF registry = None THEN UNCHANGED <<wire, told>> ELSE Send(registry, m)

Snapshot(version, content) ==
  [type |-> "snapshot", version |-> version, content |-> content]

\* SnapshotCoordinator.run after the publisher
EndRun == pending' = IF pending.dirty THEN [pending EXCEPT !.running = FALSE, !.timer = TRUE]
                                      ELSE Idle

\* A channel ends: onClosed takes it out of the registry if it is still there.
End(s) ==
  /\ open' = open \ {s}
  /\ registry' = IF registry = s THEN None ELSE registry

\* Mutant of Resume: the resync pushes what has changed only.
ResumeChangedOnly(i, m, changed) ==
  /\ calls' = RemoveAt(calls, i)
  /\ CASE calls[i].by = "coordinator" ->
            /\ IF changed THEN Push(m) ELSE UNCHANGED <<wire, told>>
            /\ EndRun
            /\ UNCHANGED session
       [] calls[i].by = "resync" ->
            /\ IF changed THEN Push(m) ELSE UNCHANGED <<wire, told>>
            /\ UNCHANGED <<pending, session>>
       [] calls[i].by \in Sessions ->
            /\ Send(calls[i].by, m)
            /\ session' = [session EXCEPT ![calls[i].by] = "live"]
            /\ UNCHANGED pending
  /\ UNCHANGED <<account, changes, registry, open, agent>>

\* A call ends with a snapshot and its caller goes on.
Resume(i, m, changed) ==
  /\ calls' = RemoveAt(calls, i)
  /\ CASE calls[i].by = "coordinator" ->
            /\ IF changed THEN Push(m) ELSE UNCHANGED <<wire, told>>
            /\ EndRun
            /\ UNCHANGED session
       [] calls[i].by = "resync" ->
            /\ Push(m)
            /\ UNCHANGED <<pending, session>>
       [] calls[i].by \in Sessions ->
            /\ Send(calls[i].by, m)
            /\ session' = [session EXCEPT ![calls[i].by] = "live"]
            /\ UNCHANGED pending
  /\ UNCHANGED <<account, changes, registry, open, agent>>

\* A call ends without one; an exception also ends the session it came from.
ResumeEmpty(i, thrown) ==
  /\ calls' = RemoveAt(calls, i)
  /\ IF calls[i].by = "coordinator" THEN EndRun ELSE UNCHANGED pending
  /\ IF calls[i].by \in Sessions
       THEN /\ session' = [session EXCEPT ![calls[i].by] = "live"]
            /\ IF thrown THEN End(calls[i].by) ELSE UNCHANGED <<registry, open>>
       ELSE UNCHANGED connections
  /\ UNCHANGED <<account, changes, wire, told, agent>>

Built(i) == calls[i].pc = "reading" /\ calls[i].todo = {}

\* Mutant of Same: any published version counts as unchanged.
SameOnceSent(i) == calls[i].last # 0

\* The content hash equals that of the last version.
Same(i) ==
  /\ calls[i].last # 0
  /\ stream[calls[i].last].content = calls[i].content

Unchanged(i) ==
  /\ Built(i)
  /\ Same(i)
  /\ Resume(i, Snapshot(calls[i].last, calls[i].content), FALSE)
  /\ UNCHANGED <<stream, faults>>

NewEvent(i, ok) ==
  Append(stream, [ok |-> ok, content |-> calls[i].content, causes |-> calls[i].causes])

Exceeds(i) ==
  /\ Built(i)
  /\ ~Same(i)
  /\ Size(calls[i].content)
  /\ stream' = NewEvent(i, FALSE)
  /\ ResumeEmpty(i, FALSE)
  /\ UNCHANGED faults

\* Mutant of Publish: versions are counted on from the last published one.
PublishNextVersion(i) ==
  /\ Built(i)
  /\ ~Same(i)
  /\ ~Size(calls[i].content)
  /\ stream' = NewEvent(i, TRUE)
  /\ Resume(i, Snapshot(calls[i].last + 1, calls[i].content), TRUE)
  /\ UNCHANGED faults

\* The version is the sequence number of the event.
Publish(i) ==
  /\ Built(i)
  /\ ~Same(i)
  /\ ~Size(calls[i].content)
  /\ stream' = NewEvent(i, TRUE)
  /\ Resume(i, Snapshot(Len(stream) + 1, calls[i].content), TRUE)
  /\ UNCHANGED faults

\* The bounds on how often the state is asked for again.
Room(s) == Len(wire[s]) < MaxWire /\ Len(stream) < MaxStream

\* SnapshotCoordinator.startResync, for the connected provider.
Resync ==
  /\ registry # None
  /\ Room(registry)
  /\ \A i \in DOMAIN calls : calls[i].by # "resync"
  /\ calls' = Append(calls, NewCall("resync", <<>>))
  /\ UNCHANGED <<coordination, stream, connections, wire, told, agent, faults>>

-----------------------------------------------------------------------------
(* Sessions. *)

\* The agent dials in and is authenticated.  Sessions are but names: the next
\* one is taken.
Connect(s) ==
  /\ agent.session = None
  /\ session[s] = "new"
  /\ s = CHOOSE t \in Sessions : session[t] = "new"
  /\ session' = [session EXCEPT ![s] = "connecting"]
  /\ open' = open \cup {s}
  /\ agent' = [agent EXCEPT !.session = s]
  /\ UNCHANGED <<coordination, calls, stream, registry, wire, told, faults>>

\* onHello: register, end the session it replaces, append agent_connected.
OnHello(s) ==
  /\ session[s] = "connecting"
  /\ s \in open
  /\ open' = IF registry = None THEN open ELSE open \ {registry}
  /\ registry' = s
  /\ session' = [session EXCEPT ![s] = "connected"]
  /\ UNCHANGED <<coordination, calls, stream, wire, told, agent, faults>>

\* onHello once agent_connected is stored and the provider loaded.
ReplyHello(s) ==
  /\ session[s] = "connected"
  /\ wire' = IF s \in open
               THEN [wire EXCEPT ![s] =
                       Append(@, [type |-> "hello", version |-> 0, content |-> Blank])]
               ELSE wire
  /\ session' = [session EXCEPT ![s] = "publishing"]
  /\ calls' = Append(calls, NewCall(s, <<>>))
  /\ UNCHANGED <<coordination, stream, registry, open, told, agent, faults>>

\* The agent's syncRequest
SyncRequest(s) ==
  /\ session[s] = "live"
  /\ s \in open
  /\ agent.session = s
  /\ Room(s)
  /\ session' = [session EXCEPT ![s] = "publishing"]
  /\ calls' = Append(calls, NewCall(s, <<>>))
  /\ UNCHANGED <<coordination, stream, registry, open, wire, told, agent, faults>>

\* Mutant of OnClosed: the session stays in the registry.
OnClosedRegistered(s) ==
  /\ s \in open
  /\ agent.session # s
  /\ open' = open \ {s}
  /\ UNCHANGED <<coordination, calls, stream, registry, session, wire, told, agent, faults>>

\* The server notices that the transport is gone.
OnClosed(s) ==
  /\ s \in open
  /\ agent.session # s
  /\ End(s)
  /\ UNCHANGED <<coordination, calls, stream, session, wire, told, agent, faults>>

-----------------------------------------------------------------------------
(* The agent. *)

OnMessage ==
  LET s == agent.session
      m == Head(wire[s])
  IN
  /\ s # None
  /\ wire[s] # <<>>
  /\ wire' = [wire EXCEPT ![s] = Tail(@)]
  /\ agent' = IF m.type = "snapshot" /\ m.version >= agent.version
                THEN [agent EXCEPT !.version = m.version, !.content = m.content]
                ELSE agent
  /\ UNCHANGED <<coordination, calls, stream, connections, told, faults>>

\* The stream ends; what had not been read is gone.
OnDisconnected ==
  /\ agent.session # None
  /\ agent.session \notin open
  /\ agent' = [agent EXCEPT !.session = None]
  /\ UNCHANGED <<coordination, calls, stream, connections, wire, told, faults>>

-----------------------------------------------------------------------------
(* Faults. *)

Fault(kind) ==
  /\ kind \in FaultKinds
  /\ faults < MaxFaults
  /\ Len(changes) + faults < MaxEvents
  /\ faults' = faults + 1

\* The request throws between its append and schedule().
LoseSchedule(i) ==
  /\ Fault("request")
  /\ changes[i].pc = "committed"
  /\ changes' = [changes EXCEPT ![i].pc = "lost"]
  /\ UNCHANGED <<account, pending, calls, stream, connections, wire, told, agent>>

\* The event store throws while a call is at work.
PublishThrows(i) ==
  /\ Fault("publish")
  /\ Turn(i)
  /\ ResumeEmpty(i, TRUE)
  /\ UNCHANGED stream

\* The event store throws while onHello records the connection.
HelloThrows(s) ==
  /\ Fault("publish")
  /\ session[s] = "connected"
  /\ session' = [session EXCEPT ![s] = "live"]
  /\ End(s)
  /\ UNCHANGED <<coordination, calls, stream, wire, told, agent>>

\* The event is stored and the append throws nevertheless.
AnswerLost(i) ==
  /\ Fault("answer")
  /\ Built(i)
  /\ ~Same(i)
  /\ stream' = NewEvent(i, ~Size(calls[i].content))
  /\ ResumeEmpty(i, TRUE)

LinkLost ==
  /\ Fault("link")
  /\ agent.session # None
  /\ agent' = [agent EXCEPT !.session = None]
  /\ UNCHANGED <<coordination, calls, stream, connections, wire, told>>

\* The backend process ends and starts again.
Crash ==
  /\ Fault("crash")
  /\ changes' = [i \in DOMAIN changes |->
                   IF changes[i].pc = "committed" THEN [changes[i] EXCEPT !.pc = "lost"]
                                                  ELSE changes[i]]
  /\ pending' = Idle
  /\ calls' = <<>>
  /\ registry' = None
  /\ session' = [s \in Sessions |-> IF session[s] = "new" THEN "new" ELSE "gone"]
  /\ open' = {}
  /\ UNCHANGED <<account, stream, wire, told, agent>>

\* The agent process ends and starts again.
AgentRestart ==
  /\ Fault("agent")
  /\ agent' = [session |-> None, version |-> 0, content |-> Blank]
  /\ UNCHANGED <<coordination, calls, stream, connections, wire, told>>

-----------------------------------------------------------------------------
CallStep ==
  \E i \in DOMAIN calls :
    \/ LoadProvider(i)
    \/ \E p \in Parts : BuildSnapshotContent(i, p)
    \/ Unchanged(i) \/ Exceeds(i) \/ Publish(i)

HandlerStep(s) == OnHello(s) \/ ReplyHello(s)

Next ==
  \/ \E p \in Parts : Change(p)
  \/ \E i \in DOMAIN changes : Schedule(i) \/ LoseSchedule(i)
  \/ Run \/ CallStep \/ Resync
  \/ \E s \in Sessions : Connect(s) \/ HandlerStep(s) \/ SyncRequest(s) \/ OnClosed(s)
  \/ OnMessage \/ OnDisconnected
  \/ \E i \in DOMAIN calls : PublishThrows(i) \/ AnswerLost(i)
  \/ \E s \in Sessions : HelloThrows(s)
  \/ LinkLost \/ Crash \/ AgentRestart

Spec == Init /\ [][Next]_vars

\* Requests, timers, the event store and the agent go on.
Fairness ==
  /\ WF_vars(\E i \in DOMAIN changes : Schedule(i))
  /\ WF_vars(Run) /\ WF_vars(CallStep) /\ WF_vars(Resync)
  /\ \A s \in Sessions : WF_vars(HandlerStep(s)) /\ WF_vars(OnClosed(s))
  /\ WF_vars(OnMessage) /\ WF_vars(OnDisconnected)

FairSpec == Spec /\ Fairness

-----------------------------------------------------------------------------
(* Properties. *)

\* The shape of every variable; the registered session is open, and the
\* coordinator has a call at the publisher exactly while it runs.
TypeOK ==
  /\ account \in Content
  /\ changes \in Seq(ChangeRec)
  /\ pending \in Pending
  /\ calls \in Seq(Call)
  /\ stream \in Seq(Event)
  /\ registry \in open \cup {None}
  /\ session \in [Sessions -> SessionPc]
  /\ open \in SUBSET Sessions
  /\ wire \in [Sessions -> Seq(Message)]
  /\ told \in [Sessions -> Nat]
  /\ agent \in [session : Sessions \cup {None}, version : Nat, content : Content]
  /\ faults \in 0 .. MaxFaults
  /\ pending.running <=> \E i \in DOMAIN calls : calls[i].by = "coordinator"

\* FR-020, FR-053: the provider's snapshots are a feed, the agent holds one of
\* them as it was published and never goes back while it runs.
Feed == INSTANCE SnapshotFeed WITH
  Contents <- Content,
  Nothing <- Blank,
  feed <- [v \in {w \in DOMAIN stream : stream[w].ok} |-> stream[v].content],
  held <- agent.version,
  shown <- agent.content

ImplementsFeed == Feed!FeedSpec

Quiet ==
  /\ \A i \in DOMAIN changes : changes[i].pc # "committed"
  /\ pending = Idle
  /\ calls = <<>>

\* Once every change has been worked off, the last version is the account as it is,
\* or the account is too large.
LastIsCurrent ==
  Quiet /\ changes # <<>> /\ ~Size(account) =>
    LastPublished # 0 /\ stream[LastPublished].content = account

\* The live session was last sent the last version, whichever caller published it,
\* or was sent nothing because what it asked for was too large.
LastIsTold ==
  Quiet /\ registry # None /\ session[registry] = "live" =>
    \/ told[registry] = LastPublished
    \/ told[registry] = 0 /\ \E v \in DOMAIN stream : ~stream[v].ok

\* FR-013, FR-021, US3-4 ("the final state always wins"), and rules 3 and 9 of the
\* contract: without a fault, when everything has been worked off, the last version
\* is the account, and the session knows it.
LastIsCurrentAndTold == faults = 0 => LastIsCurrent /\ LastIsTold

\* FR-021, FR-023: an agent that stays connected ends up with the account as it
\* is, whatever was lost on the way.
StaysConnected(s) == agent.session = s /\ s \in open

EventuallyCurrent ==
  \A s \in Sessions :
    <>[]StaysConnected(s) => <>[](Size(account) \/ agent.content = account)
=============================================================================
