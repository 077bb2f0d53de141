---------------------------- MODULE ProviderSession ----------------------------
(***************************************************************************)
(* The sessions of one Traefik provider on the server: the authentication  *)
(* of a connection and the throttle before it, the handler of each session, *)
(* the registry that knows the live one, the events that record it,        *)
(* appended behind the provider's mutex, and the owner who deletes the     *)
(* provider or withdraws a token.                                          *)
(***************************************************************************)
EXTENDS Naturals, Sequences, FiniteSets, SequencesExt

CONSTANTS
  Sessions,     \* connections agents open
  Tokens,       \* the provider's tokens
  None,         \* no session, no token
  MaxFailures,  \* THROTTLE_MAX_FAILURES
  MaxReports,   \* bound on the reports that are recorded
  MaxFaults     \* bound on failing appends and backend crashes

ASSUME SessionAssumption ==
  /\ None \notin Sessions \cup Tokens
  /\ MaxFailures \in Nat \ {0}
  /\ MaxReports \in Nat
  /\ MaxFaults \in Nat

VARIABLES
  stream,    \* the provider's events about sessions, tokens and its deletion
  queue,     \* appends waiting at ProviderStore's mutex, in order of arrival
  registry,  \* SessionRegistry: the live session
  session,   \* the handler of each connection
  silent,    \* connections over which nothing arrives any more
  throttle,  \* the counter of failed attempts of the agents' address
  request,   \* the owner's request
  faults     \* faults so far

vars == <<stream, queue, registry, session, silent, throttle, request, faults>>

-----------------------------------------------------------------------------
Reasons == {"closed", "superseded", "revoked", "timeout", "error"}

\* onSession before it has a handler, then the message chain, onClosed, and the
\* fields of AgentSessionHandler.
Chain == {"none", "checking", "rejecting", "expiring", "refused", "waiting",
          "connecting", "greeting", "ready", "syncing", "reporting", "failed"}
Handler ==
  [chain : Chain, closing : {"no", "waiting", "appending", "done"},
   recorded : BOOLEAN, reason : Reasons, heartbeat : BOOLEAN,
   token : Tokens \cup {None}]

Unopened == [chain |-> "none", closing |-> "no", recorded |-> FALSE, reason |-> "closed",
             heartbeat |-> FALSE, token |-> None]

Event == [type : {"agent_connected", "agent_disconnected", "report", "deleted", "token_revoked"},
          session : Sessions \cup {None}, token : Tokens \cup {None}, reason : Reasons]
NewEvent(type, s, reason) ==
  [type |-> type, session |-> s, token |-> None, reason |-> reason]
Deletion == NewEvent("deleted", None, "closed")
Withdrawal(k) == [NewEvent("token_revoked", None, "closed") EXCEPT !.token = k]

Request == [kind : {"delete", "withdraw"}, token : Tokens \cup {None},
            pc : {"none", "appending", "appended", "done"}]
NoRequest == [kind |-> "delete", token |-> None, pc |-> "none"]

Closed(s) == session[s].closing # "no"

\* onSession has a handler for the connection.
Accepted(s) ==
  session[s].chain \notin {"none", "checking", "rejecting", "expiring", "refused"}

\* loadActive
Active == Deletion \notin Range(stream)
ActiveTokens == {k \in Tokens : Withdrawal(k) \notin Range(stream)}

Init ==
  /\ stream = <<>>
  /\ queue = <<>>
  /\ registry = None
  /\ session = [s \in Sessions |-> Unopened]
  /\ silent = {}
  /\ throttle = [count |-> 0, expires |-> FALSE]
  /\ request = NoRequest
  /\ faults = 0

-----------------------------------------------------------------------------
(* Ending a session.                                                         *)

\* onClosed up to its first await: the handler afterwards.
Ended(s, reason) ==
  IF Closed(s)
    THEN session[s]
    ELSE [session[s] EXCEPT !.closing = "waiting", !.reason = reason, !.heartbeat = FALSE]

\* unregister
Without(s) == IF registry = s /\ ~Closed(s) THEN None ELSE registry

\* The handler ends its session (terminate), or the transport does.
Close(s, reason) ==
  /\ session' = [session EXCEPT ![s] = Ended(s, reason)]
  /\ registry' = Without(s)

\* channel.close by another than the handler: fail() emits "error", and that
\* listener calls onClosed, without the reason, before close() does.
CutOff(s) == Ended(s, "closed")

\* The transport ends, whoever ended it; it says so again after Close.
Lost(s) ==
  /\ Accepted(s)
  /\ Close(s, "closed")
  /\ UNCHANGED <<stream, queue, silent, throttle, request, faults>>

\* Mutant of ChainDone: onClosed does not wait for the messages under way.
ChainAny(s) == TRUE

\* What arrived before has been handled.
ChainDone(s) == session[s].chain \in {"waiting", "ready", "failed"}

\* Mutant of RecordDisconnect: connectedRecorded is not looked at.
RecordDisconnectAlways(s) ==
  /\ session[s].closing = "waiting"
  /\ ChainDone(s)
  /\ queue' = Append(queue, NewEvent("agent_disconnected", s, session[s].reason))
  /\ session' = [session EXCEPT ![s].closing = "appending"]
  /\ UNCHANGED <<stream, registry, silent, throttle, request, faults>>

\* onClosed once the chain has ended.
RecordDisconnect(s) ==
  /\ session[s].closing = "waiting"
  /\ ChainDone(s)
  /\ IF session[s].recorded
       THEN /\ queue' = Append(queue, NewEvent("agent_disconnected", s, session[s].reason))
            /\ session' = [session EXCEPT ![s].closing = "appending"]
       ELSE /\ session' = [session EXCEPT ![s].closing = "done"]
            /\ UNCHANGED queue
  /\ UNCHANGED <<stream, registry, silent, throttle, request, faults>>

-----------------------------------------------------------------------------
(* Opening a session.                                                        *)

\* A connection arrives with a token, or with none of the provider's; isBlocked.
\* Connections are but names: the next one is taken.
Dial(s) ==
  /\ session[s].chain = "none"
  /\ s = CHOOSE t \in Sessions : session[t].chain = "none"
  /\ \E k \in Tokens \cup {None} :
       session' = [session EXCEPT ![s].token = k,
                     ![s].chain = IF throttle.count >= MaxFailures THEN "refused"
                                                                   ELSE "checking"]
  /\ UNCHANGED <<stream, queue, registry, silent, throttle, request, faults>>

\* authenticate: the provider is active and the token is one of its active ones.
Authenticate(s) ==
  /\ session[s].chain = "checking"
  /\ session' = [session EXCEPT ![s].chain =
                   IF Active /\ session[s].token \in ActiveTokens THEN "waiting"
                                                                ELSE "rejecting"]
  /\ UNCHANGED <<stream, queue, registry, silent, throttle, request, faults>>

\* Mutant of CountFailure: the second failure opens the window.
CountFailureSecond(s) ==
  /\ session[s].chain = "rejecting"
  /\ throttle' = [throttle EXCEPT !.count = @ + 1]
  /\ session' = [session EXCEPT ![s].chain =
                   IF throttle.count = 1 THEN "expiring" ELSE "refused"]
  /\ UNCHANGED <<stream, queue, registry, silent, request, faults>>

\* recordFailure: INCR; the first failure of a window still has to start it.
CountFailure(s) ==
  /\ session[s].chain = "rejecting"
  /\ throttle' = [throttle EXCEPT !.count = @ + 1]
  /\ session' = [session EXCEPT ![s].chain =
                   IF throttle.count = 0 THEN "expiring" ELSE "refused"]
  /\ UNCHANGED <<stream, queue, registry, silent, request, faults>>

\* recordFailure: EXPIRE
StartWindow(s) ==
  /\ session[s].chain = "expiring"
  /\ throttle' = [throttle EXCEPT !.expires = TRUE]
  /\ session' = [session EXCEPT ![s].chain = "refused"]
  /\ UNCHANGED <<stream, queue, registry, silent, request, faults>>

\* Redis drops the counter after THROTTLE_WINDOW_SECONDS.
WindowEnds ==
  /\ throttle.expires
  /\ throttle' = [count |-> 0, expires |-> FALSE]
  /\ UNCHANGED <<stream, queue, registry, session, silent, request, faults>>

\* Redis or the event store refuses: onSession's catch ends the call.
AuthThrows(s) ==
  /\ session[s].chain \in {"checking", "rejecting", "expiring"}
  /\ faults < MaxFaults
  /\ faults' = faults + 1
  /\ session' = [session EXCEPT ![s].chain = "refused"]
  /\ UNCHANGED <<stream, queue, registry, silent, throttle, request>>

\* The first message is no hello, or one of a protocol that is too old.
WrongHello(s) ==
  /\ session[s].chain = "waiting"
  /\ ~Closed(s)
  /\ s \notin silent
  /\ Close(s, "error")
  /\ UNCHANGED <<stream, queue, silent, throttle, request, faults>>

\* Mutant of OnHello: the session that is replaced is not ended.
OnHelloKeepsOld(s) ==
  /\ session[s].chain = "waiting"
  /\ ~Closed(s)
  /\ s \notin silent
  /\ session' = [session EXCEPT ![s].chain = "connecting"]
  /\ registry' = s
  /\ queue' = Append(queue, NewEvent("agent_connected", s, "closed"))
  /\ UNCHANGED <<stream, silent, throttle, request, faults>>

\* onHello up to its first await
OnHello(s) ==
  /\ session[s].chain = "waiting"
  /\ ~Closed(s)
  /\ s \notin silent
  /\ session' =
       [t \in Sessions |->
          IF t = s THEN [session[s] EXCEPT !.chain = "connecting"]
          ELSE IF t = registry THEN CutOff(t) ELSE session[t]]
  /\ registry' = s
  /\ queue' = Append(queue, NewEvent("agent_connected", s, "closed"))
  /\ UNCHANGED <<stream, silent, throttle, request, faults>>

\* onHello after agent_connected: hello, the current snapshot, startHeartbeat.
Greet(s) ==
  /\ session[s].chain = "greeting"
  /\ session' = [session EXCEPT ![s].chain = "ready", ![s].heartbeat = TRUE]
  /\ UNCHANGED <<stream, queue, registry, silent, throttle, request, faults>>

\* The agent asks for the current snapshot.
SyncRequest(s) ==
  /\ session[s].chain = "ready"
  /\ ~Closed(s)
  /\ s \notin silent
  /\ session' = [session EXCEPT ![s].chain = "syncing"]
  /\ UNCHANGED <<stream, queue, registry, silent, throttle, request, faults>>

\* sendCurrentSnapshot has an answer.
SendSnapshot(s) ==
  /\ session[s].chain = "syncing"
  /\ session' = [session EXCEPT ![s].chain = "ready"]
  /\ UNCHANGED <<stream, queue, registry, silent, throttle, request, faults>>

\* onReport up to its append; a report "ignored_stale" is not recorded.
OnReport(s) ==
  /\ session[s].chain = "ready"
  /\ ~Closed(s)
  /\ s \notin silent
  /\ Cardinality({i \in DOMAIN stream : stream[i].type = "report"}) < MaxReports
  /\ session' = [session EXCEPT ![s].chain = "reporting"]
  /\ queue' = Append(queue, NewEvent("report", s, "closed"))
  /\ UNCHANGED <<stream, registry, silent, throttle, request, faults>>

\* The agent says bye.
Bye(s) ==
  /\ session[s].chain = "ready"
  /\ ~Closed(s)
  /\ s \notin silent
  /\ Close(s, "closed")
  /\ UNCHANGED <<stream, queue, silent, throttle, request, faults>>

\* Mutant of HandlingThrows: the error is logged only.
HandlingThrowsQuietly(s) ==
  /\ session[s].chain \in {"greeting", "syncing"}
  /\ faults < MaxFaults
  /\ faults' = faults + 1
  /\ session' = [session EXCEPT ![s].chain = "failed"]
  /\ UNCHANGED <<stream, queue, registry, silent, throttle, request>>

\* handle()'s catch: what a handler awaits throws, and the session is ended.
HandlingThrows(s) ==
  /\ session[s].chain \in {"greeting", "syncing"}
  /\ faults < MaxFaults
  /\ faults' = faults + 1
  /\ registry' = Without(s)
  /\ session' = [session EXCEPT ![s] = [Ended(s, "error") EXCEPT !.chain = "failed"]]
  /\ UNCHANGED <<stream, queue, silent, throttle, request>>

\* Three heartbeats without a message
HeartbeatTimeout(s) ==
  /\ session[s].heartbeat
  /\ ~Closed(s)
  /\ s \in silent
  /\ Close(s, "timeout")
  /\ UNCHANGED <<stream, queue, silent, throttle, request, faults>>

-----------------------------------------------------------------------------
(* The provider's mutex and the owner.                                       *)

\* ProviderStore.append, for the head of the queue; its caller goes on.
AppendNext ==
  /\ queue # <<>>
  /\ stream' = Append(stream, Head(queue))
  /\ queue' = Tail(queue)
  /\ LET s == Head(queue).session IN
     CASE Head(queue).type = "agent_connected" ->
            /\ session' = [session EXCEPT ![s].chain = "greeting", ![s].recorded = TRUE]
            /\ UNCHANGED request
       [] Head(queue).type = "report" ->
            /\ session' = [session EXCEPT ![s].chain = "ready"]
            /\ UNCHANGED request
       [] Head(queue).type = "agent_disconnected" ->
            /\ session' = [session EXCEPT ![s].closing = "done"]
            /\ UNCHANGED request
       [] OTHER ->
            /\ request' = [request EXCEPT !.pc = "appended"]
            /\ UNCHANGED session
  /\ UNCHANGED <<registry, silent, throttle, faults>>

\* The append throws.
AppendFails ==
  /\ queue # <<>>
  /\ faults < MaxFaults
  /\ faults' = faults + 1
  /\ queue' = Tail(queue)
  /\ LET s == Head(queue).session IN
     CASE Head(queue).type \in {"agent_connected", "report"} ->
            /\ registry' = Without(s)
            /\ session' = [session EXCEPT ![s] = [Ended(s, "error") EXCEPT !.chain = "failed"]]
            /\ UNCHANGED request
       [] Head(queue).type = "agent_disconnected" ->
            /\ session' = [session EXCEPT ![s].closing = "done"]
            /\ UNCHANGED <<registry, request>>
       [] OTHER ->
            /\ request' = NoRequest
            /\ UNCHANGED <<registry, session>>
  /\ UNCHANGED <<stream, silent, throttle>>

\* DELETE /:id of a provider no action uses
Delete ==
  /\ request.pc = "none"
  /\ Active
  /\ request' = [kind |-> "delete", token |-> None, pc |-> "appending"]
  /\ queue' = Append(queue, Deletion)
  /\ UNCHANGED <<stream, registry, session, silent, throttle, faults>>

\* DELETE /:id/tokens/:tokenId; of a withdrawn token only the session is ended.
Withdraw(k) ==
  /\ request.pc = "none"
  /\ Active
  /\ IF k \in ActiveTokens
       THEN /\ request' = [kind |-> "withdraw", token |-> k, pc |-> "appending"]
            /\ queue' = Append(queue, Withdrawal(k))
       ELSE /\ request' = [kind |-> "withdraw", token |-> k, pc |-> "appended"]
            /\ UNCHANGED queue
  /\ UNCHANGED <<stream, registry, session, silent, throttle, faults>>

\* Mutant of Terminate: terminateByToken compares the token with the session's id.
TerminateOther ==
  /\ request.pc = "appended"
  /\ request' = [request EXCEPT !.pc = "done"]
  /\ IF registry # None /\ request.kind = "delete"
       THEN /\ session' = [session EXCEPT ![registry] = CutOff(registry)]
            /\ registry' = None
       ELSE UNCHANGED <<session, registry>>
  /\ UNCHANGED <<stream, queue, silent, throttle, faults>>

\* terminateByProvider, terminateByToken
Terminate ==
  /\ request.pc = "appended"
  /\ request' = [request EXCEPT !.pc = "done"]
  /\ IF registry # None
          /\ (request.kind = "withdraw" => session[registry].token = request.token)
       THEN /\ session' = [session EXCEPT ![registry] = CutOff(registry)]
            /\ registry' = None
       ELSE UNCHANGED <<session, registry>>
  /\ UNCHANGED <<stream, queue, silent, throttle, faults>>

-----------------------------------------------------------------------------
(* The surroundings.                                                         *)

\* The agent or the network stops, and no end of the stream arrives.
FallSilent(s) ==
  /\ Accepted(s)
  /\ ~Closed(s)
  /\ s \notin silent
  /\ silent' = silent \cup {s}
  /\ UNCHANGED <<stream, queue, registry, session, throttle, request, faults>>

\* The backend process ends and starts again.
Crash ==
  /\ faults < MaxFaults
  /\ faults' = faults + 1
  /\ queue' = <<>>
  /\ registry' = None
  /\ session' = [s \in Sessions |->
                   IF session[s].chain \in {"none", "refused"} THEN session[s]
                   ELSE IF ~Accepted(s) THEN [session[s] EXCEPT !.chain = "refused"]
                   ELSE [session[s] EXCEPT !.chain = "failed", !.closing = "done",
                                           !.heartbeat = FALSE]]
  /\ request' = IF request.pc = "done" THEN request ELSE NoRequest
  /\ UNCHANGED <<stream, silent, throttle>>

-----------------------------------------------------------------------------
AuthenticationStep(s) == Authenticate(s) \/ CountFailure(s) \/ StartWindow(s)

SessionStep(s) ==
  \/ Dial(s) \/ AuthenticationStep(s) \/ AuthThrows(s)
  \/ OnHello(s) \/ WrongHello(s) \/ Greet(s) \/ HandlingThrows(s)
  \/ SyncRequest(s) \/ SendSnapshot(s) \/ OnReport(s) \/ Bye(s)
  \/ Lost(s) \/ HeartbeatTimeout(s) \/ RecordDisconnect(s) \/ FallSilent(s)

Next ==
  \/ \E s \in Sessions : SessionStep(s)
  \/ WindowEnds
  \/ AppendNext \/ AppendFails
  \/ Delete \/ (\E k \in Tokens : Withdraw(k)) \/ Terminate
  \/ Crash

Spec == Init /\ [][Next]_vars

\* Promises are resolved and timers fire; that connections open or end is not
\* up to the server.
Fairness ==
  /\ WF_vars(AppendNext) /\ WF_vars(Terminate) /\ WF_vars(WindowEnds)
  /\ \A s \in Sessions :
       /\ WF_vars(AuthenticationStep(s))
       /\ WF_vars(RecordDisconnect(s)) /\ WF_vars(Greet(s) \/ SendSnapshot(s))
       /\ WF_vars(HeartbeatTimeout(s))

FairSpec == Spec /\ Fairness

-----------------------------------------------------------------------------
(* Properties.                                                               *)

Waits(e) ==
  CASE e.type = "agent_connected" -> session[e.session].chain = "connecting"
    [] e.type = "report" -> session[e.session].chain = "reporting"
    [] e.type = "agent_disconnected" -> session[e.session].closing = "appending"
    [] OTHER -> request.pc = "appending"

\* The shape of every variable; every queued append belongs to the one handler
\* or request that waits for it.
TypeOK ==
  /\ stream \in Seq(Event)
  /\ queue \in Seq(Event)
  /\ registry \in Sessions \cup {None}
  /\ session \in [Sessions -> Handler]
  /\ silent \in SUBSET Sessions
  /\ throttle \in [count : Nat, expires : BOOLEAN]
  /\ request \in Request
  /\ faults \in 0 .. MaxFaults
  /\ \A i \in DOMAIN queue : Waits(queue[i])
  /\ \A i, j \in DOMAIN queue :
       queue[i].type = queue[j].type /\ queue[i].session = queue[j].session => i = j

\* FR-034: the newest session that said hello is the one in the registry, and
\* no other one that did is still open; a late end never evicts a successor.
OnlyNewestLives ==
  \A s \in Sessions :
    (session[s].chain \in {"connecting", "greeting", "ready", "syncing", "reporting"}
       /\ ~Closed(s)) <=> registry = s

Recorded(type, s) ==
  \E i \in DOMAIN stream : stream[i].type = type /\ stream[i].session = s

Before(type, s, n) ==
  \E i \in 1 .. n - 1 : stream[i].type = type /\ stream[i].session = s

\* FR-060: a session is recorded as connected at most once, as disconnected at
\* most once, and only in that order; what it reports is recorded in between.
PresencePaired ==
  \A i \in DOMAIN stream :
    LET s == stream[i].session IN
    /\ stream[i].type = "agent_connected" => ~Before("agent_connected", s, i)
    /\ stream[i].type \in {"report", "agent_disconnected"} =>
         Before("agent_connected", s, i) /\ ~Before("agent_disconnected", s, i)

\* FR-033: a session that was recorded before its token was withdrawn or
\* its provider was deleted does not outlive that request, whatever opened,
\* closed or failed meanwhile.
RevocationEnds ==
  registry # None /\ request.pc # "appended" =>
    \A i \in DOMAIN stream :
      stream[i] \in {Deletion, Withdrawal(session[registry].token)} =>
        ~Before("agent_connected", registry, i)

\* FR-035 ("until the window ends"): a source that is blocked is let in again,
\* unless the process or Redis failed between the two commands.
BlocksEnd == throttle.count >= MaxFailures ~> throttle.count = 0 \/ faults > 0

\* FR-060, rule 7 of the contract: a session over which nothing arrives any more is
\* ended, and one that was recorded and has ended is recorded as ended, unless an
\* append failed or the backend crashed.
SilenceIsRecorded ==
  \A s \in Sessions :
    session[s].recorded /\ (s \in silent \/ Closed(s))
      ~> Recorded("agent_disconnected", s) \/ faults > 0

Quiet ==
  /\ queue = <<>>
  /\ \A s \in Sessions :
       /\ session[s].chain \in {"none", "refused", "waiting", "ready", "failed"}
       /\ session[s].closing \in {"no", "done"}

\* traefikProviderReducer: lastPresence
LastPresence ==
  LET kept == SelectLastInSeq(stream,
                LAMBDA e : e.type = "agent_connected"
                           \/ (e.type = "agent_disconnected" /\ e.reason # "superseded"))
  IN  IF kept = 0 THEN "never"
      ELSE IF stream[kept].type = "agent_connected" THEN "connected" ELSE "disconnected"

\* traefik-provider-aggregate.ts, AgentDisconnected: the newer connection stays
\* authoritative for the presence.
PresenceFollowsNewest == Quiet /\ registry # None => LastPresence = "connected"
=============================================================================
