------------------------ MODULE ProviderSessionProofs ------------------------
(***************************************************************************)
(* ProviderSession, for every number of connections, tokens, reports and   *)
(* faults: its types and the shape of the mutex's queue; that only the     *)
(* newest session lives; that what is recorded of a session is paired; and *)
(* that a session whose token is withdrawn is ended.                       *)
(***************************************************************************)
EXTENDS ProviderSession, TLAPS

-----------------------------------------------------------------------------
(* Type correctness. *)

Types ==
  /\ stream \in Seq(Event)
  /\ queue \in Seq(Event)
  /\ registry \in Sessions \cup {None}
  /\ session \in [Sessions -> Handler]
  /\ silent \in SUBSET Sessions
  /\ throttle \in [count : Nat, expires : BOOLEAN]
  /\ request \in Request
  /\ faults \in 0 .. MaxFaults

SessionEvents == {"agent_connected", "report", "agent_disconnected"}

\* An append belongs to a session, or to the request under way.
Belongs(e) ==
  IF e.type \in SessionEvents
    THEN e.session \in Sessions
    ELSE /\ e.session = None /\ (e.type = "deleted" <=> request.kind = "delete")
         /\ e \in {Deletion, Withdrawal(request.token)}

Queued ==
  /\ \A i \in DOMAIN queue : Waits(queue[i]) /\ Belongs(queue[i])
  /\ \A i, j \in DOMAIN queue :
       queue[i].type = queue[j].type /\ queue[i].session = queue[j].session => i = j

TypeInv == Types /\ Queued

\* Who waits for an append goes on waiting.
StillWaiting ==
  \A s \in Sessions :
    /\ session[s].chain = "connecting" => session'[s].chain = "connecting"
    /\ session[s].chain = "reporting" => session'[s].chain = "reporting"
    /\ session[s].closing = "appending" => session'[s].closing = "appending"

\* What a step makes of one handler; the others keep theirs.
After(s, chain, closing, recorded) ==
  /\ session' \in [Sessions -> Handler]
  /\ session'[s].chain = chain
  /\ session'[s].closing = closing
  /\ session'[s].recorded = recorded
  /\ \A t \in Sessions : t # s => session'[t] = session[t]

\* A step that moves the message chain of one handler.
LEMMA ChainSet ==
  ASSUME session \in [Sessions -> Handler], NEW s \in Sessions, NEW c \in Chain,
         session' = [session EXCEPT ![s] = [session[s] EXCEPT !.chain = c]]
  PROVE  After(s, c, session[s].closing, session[s].recorded)
<1>1. session[s] \in Handler
  OBVIOUS
<1>2. /\ session'[s] = [session[s] EXCEPT !.chain = c]
      /\ \A t \in Sessions : t # s => session'[t] = session[t]
  OBVIOUS
<1>3. session'[s] \in Handler
  BY <1>1, <1>2 DEF Handler
<1> QED
  BY <1>1, <1>2, <1>3 DEF After, Handler

\* A step that takes a connection in.
LEMMA DialSet ==
  ASSUME session \in [Sessions -> Handler], NEW s \in Sessions, NEW c \in Chain, NEW k \in Tokens \cup {None},
         session' = [session EXCEPT ![s] = [session[s] EXCEPT !.token = k, !.chain = c]]
  PROVE  After(s, c, session[s].closing, session[s].recorded)
<1>1. session[s] \in Handler
  OBVIOUS
<1>2. /\ session'[s] = [session[s] EXCEPT !.token = k, !.chain = c]
      /\ \A t \in Sessions : t # s => session'[t] = session[t]
  OBVIOUS
<1>3. session'[s] \in Handler
  BY <1>1, <1>2 DEF Handler
<1> QED
  BY <1>1, <1>2, <1>3 DEF After, Handler

\* A step that starts the heartbeat with the end of a greeting.
LEMMA HeartbeatSet ==
  ASSUME session \in [Sessions -> Handler], NEW s \in Sessions, NEW c \in Chain,
         session' = [session EXCEPT ![s] = [session[s] EXCEPT !.chain = c, !.heartbeat = TRUE]]
  PROVE  After(s, c, session[s].closing, session[s].recorded)
<1>1. session[s] \in Handler
  OBVIOUS
<1>2. /\ session'[s] = [session[s] EXCEPT !.chain = c, !.heartbeat = TRUE]
      /\ \A t \in Sessions : t # s => session'[t] = session[t]
  OBVIOUS
<1>3. session'[s] \in Handler
  BY <1>1, <1>2 DEF Handler
<1> QED
  BY <1>1, <1>2, <1>3 DEF After, Handler

\* A step that learns that the session is recorded.
LEMMA RecordedSet ==
  ASSUME session \in [Sessions -> Handler], NEW s \in Sessions, NEW c \in Chain,
         session' = [session EXCEPT ![s] = [session[s] EXCEPT !.chain = c, !.recorded = TRUE]]
  PROVE  After(s, c, session[s].closing, TRUE)
<1>1. session[s] \in Handler
  OBVIOUS
<1>2. /\ session'[s] = [session[s] EXCEPT !.chain = c, !.recorded = TRUE]
      /\ \A t \in Sessions : t # s => session'[t] = session[t]
  OBVIOUS
<1>3. session'[s] \in Handler
  BY <1>1, <1>2 DEF Handler
<1> QED
  BY <1>1, <1>2, <1>3 DEF After, Handler

\* A step of onClosed.
LEMMA ClosingSet ==
  ASSUME session \in [Sessions -> Handler], NEW s \in Sessions,
         NEW cl \in {"no", "waiting", "appending", "done"},
         session' = [session EXCEPT ![s] = [session[s] EXCEPT !.closing = cl]]
  PROVE  After(s, session[s].chain, cl, session[s].recorded)
<1>1. session[s] \in Handler
  OBVIOUS
<1>2. /\ session'[s] = [session[s] EXCEPT !.closing = cl]
      /\ \A t \in Sessions : t # s => session'[t] = session[t]
  OBVIOUS
<1>3. session'[s] \in Handler
  BY <1>1, <1>2 DEF Handler
<1> QED
  BY <1>1, <1>2, <1>3 DEF After, Handler

\* A step that replaces one handler by another.
LEMMA WholeSet ==
  ASSUME session \in [Sessions -> Handler], NEW s \in Sessions, NEW h \in Handler,
         session' = [session EXCEPT ![s] = h]
  PROVE  After(s, h.chain, h.closing, h.recorded)
BY DEF After

\* Only the chain of a handler fails.
LEMMA FailedType ==
  ASSUME NEW h \in Handler
  PROVE  LET failed == [h EXCEPT !.chain = "failed"]
         IN  /\ failed \in Handler
             /\ failed.chain = "failed"
             /\ failed.recorded = h.recorded
             /\ failed.closing = h.closing
BY DEF Handler, Chain

\* What onClosed changes up to its first await, and what it leaves alone.
LEMMA EndedType ==
  ASSUME NEW s \in Sessions, NEW reason \in Reasons, session \in [Sessions -> Handler]
  PROVE  LET ended == Ended(s, reason)
             failed == [ended EXCEPT !.chain = "failed"]
         IN  /\ ended \in Handler /\ failed \in Handler
             /\ ended.chain = session[s].chain /\ failed.chain = "failed"
             /\ ended.recorded = session[s].recorded /\ failed.recorded = session[s].recorded
             /\ ended.closing = IF Closed(s) THEN session[s].closing ELSE "waiting"
             /\ failed.closing = ended.closing
<1> DEFINE ended == Ended(s, reason)
           failed == [ended EXCEPT !.chain = "failed"]
<1>1. session[s] \in Handler
  OBVIOUS
<1>2. CASE Closed(s)
  <2>1. ended = session[s]
    BY <1>2 DEF Ended
  <2> QED
    BY <1>1, <1>2, <2>1, FailedType
<1>3. CASE ~Closed(s)
  <2>1. ended = [session[s] EXCEPT !.closing = "waiting", !.reason = reason, !.heartbeat = FALSE]
    BY <1>3 DEF Ended
  <2>2. ended \in Handler
    BY <1>1, <2>1 DEF Handler
  <2>3. ended.chain = session[s].chain /\ ended.recorded = session[s].recorded
        /\ ended.closing = "waiting"
    BY <1>1, <2>1 DEF Handler
  <2>4. failed \in Handler /\ failed.chain = "failed" /\ failed.recorded = ended.recorded
        /\ failed.closing = ended.closing
    BY <2>2, FailedType
  <2> QED
    BY <1>3, <2>2, <2>3, <2>4
<1> QED
  BY <1>2, <1>3

\* The closing of a handler that is ended now, or was before.
Over(s) == IF Closed(s) THEN session[s].closing ELSE "waiting"

\* The catch of handle(): the session is ended and its chain fails.
LEMMA FailedSet ==
  ASSUME session \in [Sessions -> Handler], NEW s \in Sessions,
         session' = [session EXCEPT ![s] = [Ended(s, "error") EXCEPT !.chain = "failed"]]
  PROVE  After(s, "failed", Over(s), session[s].recorded)
<1> DEFINE h == [Ended(s, "error") EXCEPT !.chain = "failed"]
<1>1. h \in Handler /\ h.chain = "failed" /\ h.closing = Over(s) /\ h.recorded = session[s].recorded
  BY EndedType DEF Over, Reasons
<1>2. session' = [session EXCEPT ![s] = h]
  OBVIOUS
<1> HIDE DEF h
<1> QED
  BY <1>1, <1>2, WholeSet

\* What a handler that is cut off from outside keeps.
LEMMA CutOffType ==
  ASSUME NEW t \in Sessions, session \in [Sessions -> Handler]
  PROVE  /\ CutOff(t) \in Handler /\ CutOff(t).chain = session[t].chain
         /\ CutOff(t).closing = IF Closed(t) THEN session[t].closing ELSE "waiting"
         /\ CutOff(t).recorded = session[t].recorded
<1>1. "closed" \in Reasons
  BY DEF Reasons
<1> QED
  BY <1>1, EndedType DEF CutOff

\* What each step of a handler makes of it.
LEMMA Steps ==
  ASSUME Types, NEW s \in Sessions
  PROVE  /\ Dial(s) => \E c \in {"refused", "checking"} :
                          After(s, c, session[s].closing, session[s].recorded)
         /\ Authenticate(s) => \E c \in {"waiting", "rejecting"} :
                          After(s, c, session[s].closing, session[s].recorded)
         /\ CountFailure(s) => \E c \in {"expiring", "refused"} :
                          After(s, c, session[s].closing, session[s].recorded)
         /\ StartWindow(s) => After(s, "refused", session[s].closing, session[s].recorded)
         /\ AuthThrows(s) => After(s, "refused", session[s].closing, session[s].recorded)
         /\ Greet(s) => After(s, "ready", session[s].closing, session[s].recorded)
         /\ SyncRequest(s) => After(s, "syncing", session[s].closing, session[s].recorded)
         /\ SendSnapshot(s) => After(s, "ready", session[s].closing, session[s].recorded)
         /\ OnReport(s) => After(s, "reporting", session[s].closing, session[s].recorded)
         /\ RecordDisconnect(s) =>
              After(s, session[s].chain, IF session[s].recorded THEN "appending" ELSE "done",
                    session[s].recorded)
         /\ \A r \in Reasons : Close(s, r) => After(s, session[s].chain, Over(s), session[s].recorded)
         /\ HandlingThrows(s) => After(s, "failed", Over(s), session[s].recorded)
<1>0. session \in [Sessions -> Handler] /\ session[s] \in Handler
  BY DEF Types
<1>c. {"refused", "checking", "waiting", "rejecting", "expiring", "ready", "syncing", "reporting"} \subseteq Chain
  BY DEF Chain
<1>1. ASSUME Dial(s)
      PROVE  \E c \in {"refused", "checking"} : After(s, c, session[s].closing, session[s].recorded)
  <2> DEFINE c == IF throttle.count >= MaxFailures THEN "refused" ELSE "checking"
  <2>1. PICK k \in Tokens \cup {None} :
          session' = [session EXCEPT ![s].token = k, ![s].chain = c]
    BY <1>1 DEF Dial
  <2>2. session' = [session EXCEPT ![s] = [session[s] EXCEPT !.token = k, !.chain = c]]
    BY <1>0, <2>1
  <2>3. c \in Chain /\ c \in {"refused", "checking"}
    BY <1>c
  <2> QED
    BY <1>0, <2>2, <2>3, DialSet
<1>2. ASSUME Authenticate(s)
      PROVE  \E c \in {"waiting", "rejecting"} : After(s, c, session[s].closing, session[s].recorded)
  <2> DEFINE c == IF Active /\ session[s].token \in ActiveTokens THEN "waiting" ELSE "rejecting"
  <2>1. session' = [session EXCEPT ![s] = [session[s] EXCEPT !.chain = c]]
    BY <1>0, <1>2 DEF Authenticate
  <2>2. c \in Chain /\ c \in {"waiting", "rejecting"}
    BY <1>c
  <2> QED
    BY <1>0, <2>1, <2>2, ChainSet
<1>3. ASSUME CountFailure(s)
      PROVE  \E c \in {"expiring", "refused"} : After(s, c, session[s].closing, session[s].recorded)
  <2> DEFINE c == IF throttle.count = 0 THEN "expiring" ELSE "refused"
  <2>1. session' = [session EXCEPT ![s] = [session[s] EXCEPT !.chain = c]]
    BY <1>0, <1>3 DEF CountFailure
  <2>2. c \in Chain /\ c \in {"expiring", "refused"}
    BY <1>c
  <2> QED
    BY <1>0, <2>1, <2>2, ChainSet
<1>4. ASSUME StartWindow(s)
      PROVE  After(s, "refused", session[s].closing, session[s].recorded)
  <2>1. session' = [session EXCEPT ![s] = [session[s] EXCEPT !.chain = "refused"]]
    BY <1>0, <1>4 DEF StartWindow
  <2> QED
    BY <1>0, <1>c, <2>1, ChainSet
<1>5. ASSUME AuthThrows(s)
      PROVE  After(s, "refused", session[s].closing, session[s].recorded)
  <2>1. session' = [session EXCEPT ![s] = [session[s] EXCEPT !.chain = "refused"]]
    BY <1>0, <1>5 DEF AuthThrows
  <2> QED
    BY <1>0, <1>c, <2>1, ChainSet
<1>6. ASSUME SyncRequest(s)
      PROVE  After(s, "syncing", session[s].closing, session[s].recorded)
  <2>1. session' = [session EXCEPT ![s] = [session[s] EXCEPT !.chain = "syncing"]]
    BY <1>0, <1>6 DEF SyncRequest
  <2> QED
    BY <1>0, <1>c, <2>1, ChainSet
<1>7. ASSUME SendSnapshot(s)
      PROVE  After(s, "ready", session[s].closing, session[s].recorded)
  <2>1. session' = [session EXCEPT ![s] = [session[s] EXCEPT !.chain = "ready"]]
    BY <1>0, <1>7 DEF SendSnapshot
  <2> QED
    BY <1>0, <1>c, <2>1, ChainSet
<1>8. ASSUME OnReport(s)
      PROVE  After(s, "reporting", session[s].closing, session[s].recorded)
  <2>1. session' = [session EXCEPT ![s] = [session[s] EXCEPT !.chain = "reporting"]]
    BY <1>0, <1>8 DEF OnReport
  <2> QED
    BY <1>0, <1>c, <2>1, ChainSet
<1>9. ASSUME Greet(s)
      PROVE  After(s, "ready", session[s].closing, session[s].recorded)
  <2>1. session' = [session EXCEPT ![s] = [session[s] EXCEPT !.chain = "ready", !.heartbeat = TRUE]]
    BY <1>0, <1>9 DEF Greet
  <2> QED
    BY <1>0, <1>c, <2>1, HeartbeatSet
<1>10. ASSUME RecordDisconnect(s)
       PROVE  After(s, session[s].chain, IF session[s].recorded THEN "appending" ELSE "done",
                    session[s].recorded)
  <2> DEFINE cl == IF session[s].recorded THEN "appending" ELSE "done"
  <2>1. session' = [session EXCEPT ![s] = [session[s] EXCEPT !.closing = cl]]
    BY <1>0, <1>10 DEF RecordDisconnect
  <2>2. cl \in {"no", "waiting", "appending", "done"}
    OBVIOUS
  <2> QED
    BY <1>0, <2>1, <2>2, ClosingSet
<1>11. ASSUME NEW r \in Reasons, Close(s, r)
       PROVE  After(s, session[s].chain, Over(s), session[s].recorded)
  <2> DEFINE h == Ended(s, r)
  <2>1. h \in Handler /\ h.chain = session[s].chain /\ h.closing = Over(s) /\ h.recorded = session[s].recorded
    BY <1>0, EndedType DEF Over
  <2>2. session' = [session EXCEPT ![s] = h]
    BY <1>11 DEF Close
  <2> HIDE DEF h
  <2> QED
    BY <1>0, <2>1, <2>2, WholeSet
<1>12. ASSUME HandlingThrows(s)
       PROVE  After(s, "failed", Over(s), session[s].recorded)
  <2>1. session' = [session EXCEPT ![s] = [Ended(s, "error") EXCEPT !.chain = "failed"]]
    BY <1>12 DEF HandlingThrows
  <2> QED
    BY <1>0, <2>1, FailedSet
<1> QED
  BY <1>1, <1>2, <1>3, <1>4, <1>5, <1>6, <1>7, <1>8, <1>9, <1>10, <1>11, <1>12

\* What the answer of an append makes of the handler that waits for it.
LEMMA AppendSteps ==
  ASSUME Types, queue # <<>>, Head(queue).session \in Sessions
  PROVE  LET e == Head(queue)
             s == e.session
         IN  /\ AppendNext /\ e.type = "agent_connected" =>
                   After(s, "greeting", session[s].closing, TRUE)
             /\ AppendNext /\ e.type = "report" =>
                   After(s, "ready", session[s].closing, session[s].recorded)
             /\ AppendFails /\ e.type \in {"agent_connected", "report"} =>
                   After(s, "failed", Over(s), session[s].recorded)
             /\ (AppendNext \/ AppendFails) /\ e.type = "agent_disconnected" =>
                   After(s, session[s].chain, "done", session[s].recorded)
<1> DEFINE e == Head(queue)
           s == e.session
<1>0. session \in [Sessions -> Handler] /\ s \in Sessions
  BY DEF Types
<1>1. ASSUME AppendNext, e.type = "agent_connected"
      PROVE  After(s, "greeting", session[s].closing, TRUE)
  <2>1. session' = [session EXCEPT ![s] = [session[s] EXCEPT !.chain = "greeting", !.recorded = TRUE]]
    BY <1>0, <1>1 DEF AppendNext
  <2> QED
    BY <1>0, <2>1, RecordedSet DEF Chain
<1>2. ASSUME AppendNext, e.type = "report"
      PROVE  After(s, "ready", session[s].closing, session[s].recorded)
  <2>1. session' = [session EXCEPT ![s] = [session[s] EXCEPT !.chain = "ready"]]
    BY <1>0, <1>2 DEF AppendNext
  <2> QED
    BY <1>0, <2>1, ChainSet DEF Chain
<1>3. ASSUME AppendFails, e.type \in {"agent_connected", "report"}
      PROVE  After(s, "failed", Over(s), session[s].recorded)
  <2>1. session' = [session EXCEPT ![s] = [Ended(s, "error") EXCEPT !.chain = "failed"]]
    BY <1>3 DEF AppendFails
  <2> QED
    BY <1>0, <2>1, FailedSet
<1>4. ASSUME AppendNext \/ AppendFails, e.type = "agent_disconnected"
      PROVE  After(s, session[s].chain, "done", session[s].recorded)
  <2>1. session' = [session EXCEPT ![s] = [session[s] EXCEPT !.closing = "done"]]
    BY <1>0, <1>4 DEF AppendNext, AppendFails
  <2> QED
    BY <1>0, <2>1, ClosingSet
<1> QED
  BY <1>1, <1>2, <1>3, <1>4

\* When the handler was not waiting itself, or still is, all go on waiting.
LEMMA AfterWaits ==
  ASSUME NEW s \in Sessions, NEW c, NEW cl, NEW r, After(s, c, cl, r),
         session[s].chain \in {"connecting", "reporting"} => c = session[s].chain,
         session[s].closing = "appending" => cl = "appending"
  PROVE  StillWaiting
BY DEF After, StillWaiting

\* The events of sessions.
LEMMA EventType ==
  ASSUME NEW s \in Sessions, NEW reason \in Reasons, NEW type \in SessionEvents
  PROVE  /\ NewEvent(type, s, reason) \in Event
         /\ NewEvent(type, s, reason).type = type
         /\ NewEvent(type, s, reason).session = s
BY DEF NewEvent, Event, SessionEvents, Reasons

\* The events of the owner.
LEMMA RequestEventType ==
  /\ Deletion \in Event /\ Deletion.type = "deleted" /\ Deletion.session = None
  /\ \A k \in Tokens :
       /\ Withdrawal(k) \in Event
       /\ Withdrawal(k).type = "token_revoked" /\ Withdrawal(k).session = None
BY DEF Deletion, Withdrawal, NewEvent, Event, Reasons

\* A step that leaves the queue and the request alone.
LEMMA QueueKept ==
  ASSUME TypeInv, StillWaiting, queue' = queue, request' = request
  PROVE  Queued'
<1>1. ASSUME NEW i \in DOMAIN queue
      PROVE  (Waits(queue[i]) /\ Belongs(queue[i]))'
  <2>1. queue[i] \in Event /\ Waits(queue[i]) /\ Belongs(queue[i])
    BY DEF TypeInv, Types, Queued
  <2>2. Belongs(queue[i])'
    BY <2>1 DEF Belongs
  <2>3. CASE queue[i].type \in SessionEvents
    BY <2>1, <2>3 DEF Waits, Belongs, SessionEvents, StillWaiting
  <2>4. CASE queue[i].type \notin SessionEvents
    <3>1. request.pc = "appending"
      BY <2>1, <2>4 DEF Waits, SessionEvents
    <3>2. request'.pc = "appending" /\ queue'[i].type \notin SessionEvents
      BY <2>4, <3>1
    <3> QED
      BY <2>2, <3>2 DEF Waits, SessionEvents
  <2> QED
    BY <2>2, <2>3, <2>4
<1> QED
  BY <1>1 DEF Queued, TypeInv

\* A step that adds one append somebody did not wait for before.
LEMMA QueueAppended ==
  ASSUME TypeInv, StillWaiting, NEW e \in Event, queue' = Append(queue, e),
         request' = request \/ request.pc # "appending",
         ~Waits(e), Waits(e)', Belongs(e)'
  PROVE  Queued'
<1>1. queue \in Seq(Event) /\ DOMAIN queue = 1 .. Len(queue) /\ Len(queue) \in Nat
  BY DEF TypeInv, Types
<1>2. /\ DOMAIN queue' = 1 .. Len(queue) + 1
      /\ \A i \in 1 .. Len(queue) : queue'[i] = queue[i]
      /\ queue'[Len(queue) + 1] = e
  BY <1>1
<1>3. ASSUME NEW x \in Event, NEW i \in 1 .. Len(queue), x = queue[i]
      PROVE  /\ Waits(x)' /\ Belongs(x)'
             /\ ~(x.type = e.type /\ x.session = e.session)
  <2>1. Waits(x) /\ Belongs(x)
    BY <1>1, <1>3 DEF TypeInv, Queued
  <2>2. CASE x.type \in SessionEvents
    BY <2>1, <2>2 DEF Waits, Belongs, SessionEvents, StillWaiting
  <2>3. CASE x.type \notin SessionEvents
    <3>1. request.pc = "appending" /\ request' = request
      BY <2>1, <2>3 DEF Waits, SessionEvents
    <3> QED
      BY <2>1, <2>3, <3>1 DEF Waits, Belongs, SessionEvents
  <2>4. ~(x.type = e.type /\ x.session = e.session)
    BY <2>1 DEF Waits
  <2> QED
    BY <2>2, <2>3, <2>4
<1>4. ASSUME NEW x \in Event, NEW i \in DOMAIN queue', x = queue'[i]
      PROVE  Waits(x)' /\ Belongs(x)'
  <2>1. CASE i \in 1 .. Len(queue)
    BY <1>2, <1>3, <1>4, <2>1
  <2>2. CASE i = Len(queue) + 1
    <3>1. x = e
      BY <1>2, <1>4, <2>2
    <3> QED
      BY <3>1 DEF Waits, Belongs
  <2> QED
    BY <1>1, <1>2, <2>1, <2>2
<1>5. ASSUME NEW i \in DOMAIN queue', NEW j \in DOMAIN queue',
             queue'[i].type = queue'[j].type, queue'[i].session = queue'[j].session
      PROVE  i = j
  <2>0. \A k \in 1 .. Len(queue) : queue[k] \in Event
    BY <1>1
  <2>1. CASE i \in 1 .. Len(queue) /\ j \in 1 .. Len(queue)
    BY <1>1, <1>2, <1>5, <2>1 DEF TypeInv, Queued
  <2>2. CASE i = Len(queue) + 1 /\ j \in 1 .. Len(queue)
    BY <1>2, <1>3, <1>5, <2>0, <2>2
  <2>3. CASE j = Len(queue) + 1 /\ i \in 1 .. Len(queue)
    BY <1>2, <1>3, <1>5, <2>0, <2>3
  <2> QED
    BY <1>1, <1>2, <2>1, <2>2, <2>3
<1>6. \A i \in DOMAIN queue' : queue'[i] \in Event
  BY <1>1, <1>2
<1>7. (\A i \in DOMAIN queue : Waits(queue[i]) /\ Belongs(queue[i]))'
  BY <1>4, <1>6 DEF Waits, Belongs
<1> QED
  BY <1>5, <1>7 DEF Queued

\* A step that takes the first append, after which the others still wait.
LEMMA QueueTaken ==
  ASSUME TypeInv, queue # <<>>, queue' = Tail(queue),
         \A e \in Event, i \in 2 .. Len(queue) : e = queue[i] => Waits(e)' /\ Belongs(e)'
  PROVE  Queued'
<1>1. queue \in Seq(Event) /\ Len(queue) \in Nat /\ DOMAIN queue = 1 .. Len(queue)
  BY DEF TypeInv, Types
<1>2. /\ DOMAIN queue' = 1 .. Len(queue) - 1
      /\ \A i \in 1 .. Len(queue) - 1 : queue'[i] = queue[i + 1] /\ queue'[i] \in Event
  BY <1>1
<1>3. (\A i \in DOMAIN queue : Waits(queue[i]) /\ Belongs(queue[i]))'
  <2>1. ASSUME NEW x \in Event, NEW i \in DOMAIN queue', x = queue'[i]
        PROVE  Waits(x)' /\ Belongs(x)'
    BY <1>1, <1>2, <2>1
  <2> QED
    BY <1>2, <2>1 DEF Waits, Belongs
<1>4. ASSUME NEW i \in DOMAIN queue', NEW j \in DOMAIN queue',
             queue'[i].type = queue'[j].type, queue'[i].session = queue'[j].session
      PROVE  i = j
  <2>1. i + 1 \in DOMAIN queue /\ j + 1 \in DOMAIN queue /\ i \in Nat /\ j \in Nat
    BY <1>1, <1>2
  <2>2. i + 1 = j + 1
    BY <1>2, <1>4, <2>1 DEF TypeInv, Queued
  <2> QED
    BY <2>1, <2>2
<1> QED
  BY <1>3, <1>4 DEF Queued

\* The backend starts with well-shaped variables and nothing queued.
LEMMA TypeInit == Init => TypeInv
<1> SUFFICES ASSUME Init
             PROVE  TypeInv
  OBVIOUS
<1>1. Unopened \in Handler
  BY DEF Unopened, Handler, Chain, Reasons
<1>2. NoRequest \in Request
  BY DEF NoRequest, Request
<1>3. Types
  BY <1>1, <1>2, SessionAssumption DEF Init, Types
<1>4. Queued
  BY DEF Init, Queued
<1> QED
  BY <1>3, <1>4 DEF TypeInv

\* A step of a handler that appends nothing.
LEMMA HandlerStep ==
  ASSUME TypeInv, StillWaiting,
         queue' = queue, request' = request, stream' = stream, faults' \in 0 .. MaxFaults,
         registry' \in Sessions \cup {None}, silent' \in SUBSET Sessions,
         throttle' \in [count : Nat, expires : BOOLEAN],
         session' \in [Sessions -> Handler]
  PROVE  TypeInv'
<1>1. Types'
  BY DEF TypeInv, Types
<1> QED
  BY <1>1, QueueKept DEF TypeInv

\* Ending a session, by its handler or by its transport.
LEMMA CloseKeeps ==
  ASSUME TypeInv, NEW s \in Sessions, NEW reason \in Reasons, Close(s, reason)
  PROVE  /\ StillWaiting
         /\ session' \in [Sessions -> Handler]
         /\ registry' \in Sessions \cup {None}
<1>1. session \in [Sessions -> Handler] /\ registry \in Sessions \cup {None}
  BY DEF TypeInv, Types
<1>2. Ended(s, reason) \in Handler /\ Ended(s, reason).chain = session[s].chain
      /\ Ended(s, reason).closing = IF Closed(s) THEN session[s].closing ELSE "waiting"
  BY <1>1, EndedType
<1>3. session' = [session EXCEPT ![s] = Ended(s, reason)]
  BY DEF Close
<1>4. StillWaiting
  BY <1>1, <1>2, <1>3 DEF StillWaiting, Closed
<1> QED
  BY <1>1, <1>2, <1>3, <1>4 DEF Close, Without

\* The first append is done or fails, and its caller goes on; the others wait as before.
LEMMA AppendTaken ==
  ASSUME TypeInv, queue # <<>>, queue' = Tail(queue),
         LET e == Head(queue)
         IN  IF e.type \in SessionEvents
               THEN /\ request' = request
                    /\ \E c, cl, r :
                         /\ After(e.session, c, cl, r)
                         /\ e.type \in {"agent_connected", "report"} =>
                              (session[e.session].closing = "appending" => cl = "appending")
                         /\ e.type = "agent_disconnected" => c = session[e.session].chain
               ELSE session' = session
  PROVE  Queued'
<1> DEFINE e == Head(queue)
<1>0. Types /\ Queued
  BY DEF TypeInv
<1>1. /\ e \in Event /\ Waits(e) /\ Belongs(e) /\ e = queue[1] /\ 1 \in DOMAIN queue
  BY <1>0 DEF Types, Queued
<1>2. ASSUME NEW x \in Event, NEW i \in 2 .. Len(queue), x = queue[i]
      PROVE  Waits(x) /\ Belongs(x) /\ ~(x.type = e.type /\ x.session = e.session)
  BY <1>0, <1>1, <1>2 DEF Types, Queued
<1>3. ASSUME NEW x \in Event, Waits(x), Belongs(x), ~(x.type = e.type /\ x.session = e.session)
      PROVE  Waits(x)' /\ Belongs(x)'
  <2>1. CASE e.type \in SessionEvents
    <3>1. request' = request /\ e.session \in Sessions
      BY <1>1, <2>1 DEF Belongs
    <3>2. PICK c, cl, r :
            /\ After(e.session, c, cl, r)
            /\ e.type \in {"agent_connected", "report"} =>
                 (session[e.session].closing = "appending" => cl = "appending")
            /\ e.type = "agent_disconnected" => c = session[e.session].chain
      BY <2>1
    <3> HIDE DEF e
    <3>3. CASE x.type \in SessionEvents
      <4>1. x.session \in Sessions
        BY <1>3, <3>3 DEF Belongs
      <4>2. CASE x.session # e.session
        BY <1>3, <3>1, <3>2, <3>3, <4>1, <4>2 DEF After, Waits, Belongs, SessionEvents
      <4>3. CASE x.session = e.session /\ e.type = "agent_connected"
        <5>1. x.type = "agent_disconnected"
          BY <1>1, <1>3, <3>3, <4>3 DEF SessionEvents, Waits
        <5> QED
          BY <1>3, <3>1, <3>2, <4>3, <5>1 DEF After, Waits, Belongs, SessionEvents
      <4>4. CASE x.session = e.session /\ e.type = "report"
        <5>1. x.type = "agent_disconnected"
          BY <1>1, <1>3, <3>3, <4>4 DEF SessionEvents, Waits
        <5> QED
          BY <1>3, <3>1, <3>2, <4>4, <5>1 DEF After, Waits, Belongs, SessionEvents
      <4>5. CASE x.session = e.session /\ e.type = "agent_disconnected"
        BY <1>3, <3>1, <3>2, <3>3, <4>5 DEF After, Waits, Belongs, SessionEvents
      <4> QED
        BY <2>1, <4>2, <4>3, <4>4, <4>5 DEF SessionEvents
    <3>4. CASE x.type \notin SessionEvents
      BY <1>3, <3>1, <3>4 DEF Waits, Belongs, SessionEvents
    <3> QED
      BY <3>3, <3>4
  <2>2. CASE e.type \notin SessionEvents
    <3>1. x.type \in SessionEvents /\ session' = session
      BY <1>1, <1>3, <2>2 DEF Belongs, SessionEvents, Event
    <3> QED
      BY <1>3, <3>1 DEF Waits, Belongs, SessionEvents
  <2> QED
    BY <2>1, <2>2
<1> QED
  BY <1>2, <1>3, QueueTaken

\* The answer of an append keeps the types and the queue.
LEMMA AppendNextType == TypeInv /\ AppendNext => TypeInv'
<1> SUFFICES ASSUME TypeInv, AppendNext
             PROVE  TypeInv'
  OBVIOUS
<1> DEFINE e == Head(queue)
<1>0. Types /\ Queued /\ queue # <<>> /\ queue' = Tail(queue)
  BY DEF TypeInv, AppendNext
<1>1. /\ e \in Event /\ Waits(e) /\ Belongs(e)
      /\ queue' \in Seq(Event) /\ stream' \in Seq(Event)
  BY <1>0 DEF Types, Queued, AppendNext
<1>2. CASE e.type \in SessionEvents
  <2>1. e.session \in Sessions
    BY <1>1, <1>2 DEF Belongs
  <2>2. PICK c, cl, r :
          /\ After(e.session, c, cl, r)
          /\ e.type \in {"agent_connected", "report"} =>
               (session[e.session].closing = "appending" => cl = "appending")
          /\ e.type = "agent_disconnected" => c = session[e.session].chain
    BY <1>0, <1>2, <2>1, AppendSteps DEF SessionEvents
  <2>3. request' = request /\ session' \in [Sessions -> Handler]
    BY <1>2, <2>2 DEF After, AppendNext, SessionEvents
  <2>4. Queued'
    BY <1>0, <1>2, <2>2, <2>3, AppendTaken
  <2> QED
    BY <1>0, <1>1, <2>3, <2>4 DEF AppendNext, TypeInv, Types
<1>3. CASE e.type \notin SessionEvents
  <2>1. session' = session /\ request' = [request EXCEPT !.pc = "appended"]
    BY <1>3 DEF AppendNext, SessionEvents
  <2>2. request' \in Request
    BY <1>0, <2>1 DEF Types, Request
  <2>3. Queued'
    BY <1>0, <1>3, <2>1, AppendTaken
  <2> QED
    BY <1>0, <1>1, <2>1, <2>2, <2>3 DEF AppendNext, TypeInv, Types
<1> QED
  BY <1>2, <1>3

\* So does its failure.
LEMMA AppendFailsType == TypeInv /\ AppendFails => TypeInv'
<1> SUFFICES ASSUME TypeInv, AppendFails
             PROVE  TypeInv'
  OBVIOUS
<1> DEFINE e == Head(queue)
<1>0. Types /\ Queued /\ queue # <<>> /\ queue' = Tail(queue)
  BY DEF TypeInv, AppendFails
<1>1. /\ e \in Event /\ Waits(e) /\ Belongs(e) /\ queue' \in Seq(Event)
  BY <1>0 DEF Types, Queued
<1>f. faults' \in 0 .. MaxFaults /\ stream' = stream /\ silent' = silent /\ throttle' = throttle
  BY <1>0, SessionAssumption DEF Types, AppendFails
<1>2. CASE e.type \in SessionEvents
  <2>1. e.session \in Sessions
    BY <1>1, <1>2 DEF Belongs
  <2>2. PICK c, cl, r :
          /\ After(e.session, c, cl, r)
          /\ e.type \in {"agent_connected", "report"} =>
               (session[e.session].closing = "appending" => cl = "appending")
          /\ e.type = "agent_disconnected" => c = session[e.session].chain
    BY <1>0, <1>2, <2>1, AppendSteps DEF SessionEvents, Over, Closed
  <2>3. request' = request /\ registry' \in Sessions \cup {None}
    BY <1>0, <1>2 DEF AppendFails, SessionEvents, Types, Without
  <2>4. Queued' /\ session' \in [Sessions -> Handler]
    BY <1>0, <1>2, <2>2, <2>3, AppendTaken DEF After
  <2> QED
    BY <1>0, <1>1, <1>f, <2>3, <2>4 DEF TypeInv, Types
<1>3. CASE e.type \notin SessionEvents
  <2>1. session' = session /\ registry' = registry /\ request' = NoRequest
    BY <1>3 DEF AppendFails, SessionEvents
  <2>2. request' \in Request
    BY <2>1 DEF NoRequest, Request
  <2>3. Queued'
    BY <1>0, <1>3, <2>1, AppendTaken
  <2> QED
    BY <1>0, <1>1, <1>f, <2>1, <2>2, <2>3 DEF TypeInv, Types
<1> QED
  BY <1>2, <1>3

\* Every step keeps the types and the shape of the queue.
LEMMA TypeStep == TypeInv /\ [Next]_vars => TypeInv'
<1> SUFFICES ASSUME TypeInv, [Next]_vars
             PROVE  TypeInv'
  OBVIOUS
<1> USE SessionAssumption
<1>0. Types /\ Queued
  BY DEF TypeInv
<1>e. "closed" \in Reasons /\ "error" \in Reasons /\ "timeout" \in Reasons
  BY DEF Reasons
<1>1. ASSUME NEW s \in Sessions, Dial(s)
      PROVE  TypeInv'
  <2>1. PICK c \in {"refused", "checking"} : After(s, c, session[s].closing, session[s].recorded)
    BY <1>0, <1>1, Steps
  <2>2. StillWaiting /\ session' \in [Sessions -> Handler]
    BY <1>1, <2>1, AfterWaits DEF After, Dial
  <2>3. throttle' \in [count : Nat, expires : BOOLEAN] /\ faults' \in 0 .. MaxFaults
    BY <1>0, <1>1 DEF Dial, Types
  <2> QED
    BY <1>0, <1>1, <2>2, <2>3, HandlerStep DEF Dial, Types
<1>2. ASSUME NEW s \in Sessions, Authenticate(s)
      PROVE  TypeInv'
  <2>1. PICK c \in {"waiting", "rejecting"} : After(s, c, session[s].closing, session[s].recorded)
    BY <1>0, <1>2, Steps
  <2>2. StillWaiting /\ session' \in [Sessions -> Handler]
    BY <1>2, <2>1, AfterWaits DEF After, Authenticate
  <2>3. throttle' \in [count : Nat, expires : BOOLEAN] /\ faults' \in 0 .. MaxFaults
    BY <1>0, <1>2 DEF Authenticate, Types
  <2> QED
    BY <1>0, <1>2, <2>2, <2>3, HandlerStep DEF Authenticate, Types
<1>3. ASSUME NEW s \in Sessions, CountFailure(s)
      PROVE  TypeInv'
  <2>1. PICK c \in {"expiring", "refused"} : After(s, c, session[s].closing, session[s].recorded)
    BY <1>0, <1>3, Steps
  <2>2. StillWaiting /\ session' \in [Sessions -> Handler]
    BY <1>3, <2>1, AfterWaits DEF After, CountFailure
  <2>3. throttle' \in [count : Nat, expires : BOOLEAN] /\ faults' \in 0 .. MaxFaults
    <3>1. throttle \in [count : Nat, expires : BOOLEAN] /\ throttle' = [throttle EXCEPT !.count = @ + 1]
      BY <1>0, <1>3 DEF CountFailure, Types
    <3>2. throttle.count \in Nat /\ throttle.count + 1 \in Nat
      BY <3>1
    <3>3. throttle' \in [count : Nat, expires : BOOLEAN]
      BY <3>1, <3>2
    <3> QED
      BY <1>0, <1>3, <3>3 DEF CountFailure, Types
  <2> QED
    BY <1>0, <1>3, <2>2, <2>3, HandlerStep DEF CountFailure, Types
<1>4. ASSUME NEW s \in Sessions, StartWindow(s)
      PROVE  TypeInv'
  <2>1. After(s, "refused", session[s].closing, session[s].recorded)
    BY <1>0, <1>4, Steps
  <2>2. StillWaiting /\ session' \in [Sessions -> Handler]
    BY <1>4, <2>1, AfterWaits DEF After, StartWindow
  <2>3. throttle' \in [count : Nat, expires : BOOLEAN] /\ faults' \in 0 .. MaxFaults
    BY <1>0, <1>4 DEF StartWindow, Types
  <2> QED
    BY <1>0, <1>4, <2>2, <2>3, HandlerStep DEF StartWindow, Types
<1>5. ASSUME NEW s \in Sessions, AuthThrows(s)
      PROVE  TypeInv'
  <2>1. After(s, "refused", session[s].closing, session[s].recorded)
    BY <1>0, <1>5, Steps
  <2>2. StillWaiting /\ session' \in [Sessions -> Handler]
    BY <1>5, <2>1, AfterWaits DEF After, AuthThrows
  <2>3. throttle' \in [count : Nat, expires : BOOLEAN] /\ faults' \in 0 .. MaxFaults
    BY <1>0, <1>5 DEF AuthThrows, Types
  <2> QED
    BY <1>0, <1>5, <2>2, <2>3, HandlerStep DEF AuthThrows, Types
<1>6. ASSUME NEW s \in Sessions, Greet(s)
      PROVE  TypeInv'
  <2>1. After(s, "ready", session[s].closing, session[s].recorded)
    BY <1>0, <1>6, Steps
  <2>2. StillWaiting /\ session' \in [Sessions -> Handler]
    BY <1>6, <2>1, AfterWaits DEF After, Greet
  <2>3. throttle' \in [count : Nat, expires : BOOLEAN] /\ faults' \in 0 .. MaxFaults
    BY <1>0, <1>6 DEF Greet, Types
  <2> QED
    BY <1>0, <1>6, <2>2, <2>3, HandlerStep DEF Greet, Types
<1>7. ASSUME NEW s \in Sessions, SyncRequest(s)
      PROVE  TypeInv'
  <2>1. After(s, "syncing", session[s].closing, session[s].recorded)
    BY <1>0, <1>7, Steps
  <2>2. StillWaiting /\ session' \in [Sessions -> Handler]
    BY <1>7, <2>1, AfterWaits DEF After, SyncRequest
  <2>3. throttle' \in [count : Nat, expires : BOOLEAN] /\ faults' \in 0 .. MaxFaults
    BY <1>0, <1>7 DEF SyncRequest, Types
  <2> QED
    BY <1>0, <1>7, <2>2, <2>3, HandlerStep DEF SyncRequest, Types
<1>8. ASSUME NEW s \in Sessions, SendSnapshot(s)
      PROVE  TypeInv'
  <2>1. After(s, "ready", session[s].closing, session[s].recorded)
    BY <1>0, <1>8, Steps
  <2>2. StillWaiting /\ session' \in [Sessions -> Handler]
    BY <1>8, <2>1, AfterWaits DEF After, SendSnapshot
  <2>3. throttle' \in [count : Nat, expires : BOOLEAN] /\ faults' \in 0 .. MaxFaults
    BY <1>0, <1>8 DEF SendSnapshot, Types
  <2> QED
    BY <1>0, <1>8, <2>2, <2>3, HandlerStep DEF SendSnapshot, Types
<1>9. ASSUME NEW s \in Sessions, WrongHello(s)
      PROVE  TypeInv'
  <2>1. Close(s, "error")
    BY <1>9 DEF WrongHello
  <2> QED
    BY <1>0, <1>e, <1>9, <2>1, CloseKeeps, HandlerStep DEF WrongHello, Types
<1>10. ASSUME NEW s \in Sessions, Bye(s)
      PROVE  TypeInv'
  <2>1. Close(s, "closed")
    BY <1>10 DEF Bye
  <2> QED
    BY <1>0, <1>e, <1>10, <2>1, CloseKeeps, HandlerStep DEF Bye, Types
<1>11. ASSUME NEW s \in Sessions, Lost(s)
      PROVE  TypeInv'
  <2>1. Close(s, "closed")
    BY <1>11 DEF Lost
  <2> QED
    BY <1>0, <1>e, <1>11, <2>1, CloseKeeps, HandlerStep DEF Lost, Types
<1>12. ASSUME NEW s \in Sessions, HeartbeatTimeout(s)
      PROVE  TypeInv'
  <2>1. Close(s, "timeout")
    BY <1>12 DEF HeartbeatTimeout
  <2> QED
    BY <1>0, <1>e, <1>12, <2>1, CloseKeeps, HandlerStep DEF HeartbeatTimeout, Types
<1>13. ASSUME NEW s \in Sessions, FallSilent(s)
      PROVE  TypeInv'
  BY <1>0, <1>13, HandlerStep DEF FallSilent, Types, StillWaiting
<1>14. ASSUME NEW s \in Sessions, HandlingThrows(s)
      PROVE  TypeInv'
  <2>1. After(s, "failed", Over(s), session[s].recorded)
    BY <1>0, <1>14, Steps
  <2>2. StillWaiting /\ session' \in [Sessions -> Handler]
    BY <1>14, <2>1, AfterWaits DEF After, Over, Closed, HandlingThrows
  <2>3. registry' \in Sessions \cup {None} /\ faults' \in 0 .. MaxFaults
    BY <1>0, <1>14 DEF HandlingThrows, Types, Without
  <2> QED
    BY <1>0, <1>14, <2>2, <2>3, HandlerStep DEF HandlingThrows, Types
<1>15. ASSUME NEW s \in Sessions, OnReport(s)
      PROVE  TypeInv'
  <2> DEFINE e == NewEvent("report", s, "closed")
  <2>1. e \in Event /\ e.type = "report" /\ e.session = s
    BY <1>e, EventType DEF SessionEvents
  <2>2. After(s, "reporting", session[s].closing, session[s].recorded)
    BY <1>0, <1>15, Steps
  <2>3. queue' = Append(queue, e) /\ request' = request /\ session[s].chain = "ready"
    BY <1>15 DEF OnReport
  <2>4. StillWaiting /\ session' \in [Sessions -> Handler] /\ session'[s].chain = "reporting"
    BY <2>2, <2>3, AfterWaits DEF After
  <2> HIDE DEF e
  <2>5. ~Waits(e) /\ Waits(e)' /\ Belongs(e)'
    BY <2>1, <2>3, <2>4 DEF Waits, Belongs, SessionEvents
  <2>6. Queued'
    BY <2>1, <2>3, <2>4, <2>5, QueueAppended
  <2>7. Types'
    BY <1>0, <1>15, <2>1, <2>3, <2>4 DEF OnReport, Types
  <2> QED
    BY <2>6, <2>7 DEF TypeInv
<1>16. ASSUME NEW s \in Sessions, OnHello(s)
      PROVE  TypeInv'
  <2> DEFINE e == NewEvent("agent_connected", s, "closed")
  <2>1. e \in Event /\ e.type = "agent_connected" /\ e.session = s
    BY <1>e, EventType DEF SessionEvents
  <2>2. \A t \in Sessions :
          /\ CutOff(t) \in Handler /\ CutOff(t).chain = session[t].chain
          /\ CutOff(t).closing = IF Closed(t) THEN session[t].closing ELSE "waiting"
    BY <1>0, CutOffType DEF Types
  <2>3. [session[s] EXCEPT !.chain = "connecting"] \in Handler
        /\ [session[s] EXCEPT !.chain = "connecting"].closing = session[s].closing
        /\ [session[s] EXCEPT !.chain = "connecting"].chain = "connecting"
    BY <1>0 DEF Types, Handler, Chain
  <2>4. session' \in [Sessions -> Handler] /\ StillWaiting /\ session'[s].chain = "connecting"
    BY <1>0, <1>16, <2>2, <2>3 DEF OnHello, Types, StillWaiting, Closed
  <2>5. queue' = Append(queue, e) /\ request' = request
    BY <1>16 DEF OnHello
  <2>6. ~Waits(e) /\ Waits(e)' /\ Belongs(e)'
    BY <1>0, <1>16, <2>1, <2>4 DEF OnHello, Waits, Belongs, SessionEvents
  <2> HIDE DEF e
  <2>7. Queued'
    BY <2>1, <2>4, <2>5, <2>6, QueueAppended
  <2>8. Types'
    <3>1. queue' \in Seq(Event) /\ registry' \in Sessions \cup {None}
      BY <1>0, <1>16, <2>1, <2>5 DEF OnHello, Types
    <3> QED
      BY <1>0, <1>16, <2>4, <2>5, <3>1 DEF OnHello, Types
  <2> QED
    BY <2>7, <2>8 DEF TypeInv
<1>17. ASSUME NEW s \in Sessions, RecordDisconnect(s)
      PROVE  TypeInv'
  <2> DEFINE cl == IF session[s].recorded THEN "appending" ELSE "done"
  <2>1. session[s].reason \in Reasons
    BY <1>0 DEF Types, Handler
  <2>2. PICK e \in Event : /\ e = NewEvent("agent_disconnected", s, session[s].reason)
                          /\ e.type = "agent_disconnected" /\ e.session = s
    BY <2>1, EventType DEF SessionEvents
  <2>3. After(s, session[s].chain, cl, session[s].recorded) /\ session[s].closing = "waiting"
    BY <1>0, <1>17, Steps DEF RecordDisconnect
  <2>4. StillWaiting /\ session' \in [Sessions -> Handler] /\ session'[s].closing = cl
    BY <2>3, AfterWaits DEF After
  <2>5. CASE session[s].recorded
    <3>1. queue' = Append(queue, e) /\ request' = request
      BY <1>17, <2>2, <2>5 DEF RecordDisconnect
    <3>2. ~Waits(e) /\ Waits(e)' /\ Belongs(e)'
      BY <2>2, <2>3, <2>4, <2>5 DEF Waits, Belongs, SessionEvents
    <3>3. Queued'
      BY <2>2, <2>4, <3>1, <3>2, QueueAppended
    <3>4. Types'
      BY <1>0, <1>17, <2>2, <2>4, <3>1 DEF RecordDisconnect, Types
    <3> QED
      BY <3>3, <3>4 DEF TypeInv
  <2>6. CASE ~session[s].recorded
    BY <1>0, <1>17, <2>4, <2>6, HandlerStep DEF RecordDisconnect, Types
  <2> QED
    BY <2>5, <2>6
<1>18. CASE WindowEnds
  BY <1>0, <1>18, HandlerStep DEF WindowEnds, Types, StillWaiting
<1>19. ASSUME AppendNext
      PROVE  TypeInv'
  BY <1>19, AppendNextType
<1>20. ASSUME AppendFails
      PROVE  TypeInv'
  BY <1>20, AppendFailsType
<1>21. CASE Delete
  <2>1. request' \in Request /\ request.pc = "none" /\ request'.pc = "appending" /\ request'.kind = "delete"
    BY <1>21 DEF Delete, Request
  <2>2. ~Waits(Deletion) /\ Waits(Deletion)' /\ Belongs(Deletion)'
    BY <2>1, RequestEventType DEF Waits, Belongs, SessionEvents
  <2>3. StillWaiting /\ queue' = Append(queue, Deletion)
    BY <1>21 DEF Delete, StillWaiting
  <2>4. Queued'
    BY <2>1, <2>2, <2>3, RequestEventType, QueueAppended
  <2> QED
    BY <1>0, <1>21, <2>1, <2>3, <2>4, RequestEventType DEF Delete, TypeInv, Types
<1>22. ASSUME NEW k \in Tokens, Withdraw(k)
      PROVE  TypeInv'
  <2>1. /\ request' \in Request /\ request.pc = "none" /\ StillWaiting
        /\ request'.kind = "withdraw" /\ request'.token = k
    BY <1>22 DEF Withdraw, Request, StillWaiting
  <2>2. CASE k \in ActiveTokens
    <3>1. request'.pc = "appending" /\ queue' = Append(queue, Withdrawal(k))
      BY <1>22, <2>2 DEF Withdraw
    <3>2. ~Waits(Withdrawal(k)) /\ Waits(Withdrawal(k))' /\ Belongs(Withdrawal(k))'
      BY <2>1, <3>1, RequestEventType DEF Waits, Belongs, SessionEvents
    <3>3. Queued'
      BY <2>1, <3>1, <3>2, RequestEventType, QueueAppended
    <3> QED
      BY <1>0, <1>22, <2>1, <3>1, <3>3, RequestEventType DEF Withdraw, TypeInv, Types
  <2>3. CASE k \notin ActiveTokens
    <3>1. queue' = queue
      BY <1>22, <2>3 DEF Withdraw
    <3>2. \A i \in DOMAIN queue : queue[i].type \in SessionEvents
      BY <1>0, <2>1 DEF Queued, Waits, SessionEvents
    <3>3. Queued'
      BY <1>0, <1>22, <3>1, <3>2 DEF Withdraw, Queued, Waits, Belongs, SessionEvents
    <3> QED
      BY <1>0, <1>22, <2>1, <3>1, <3>3 DEF Withdraw, TypeInv, Types
  <2> QED
    BY <2>2, <2>3
<1>23. CASE Terminate
  <2>1. \A i \in DOMAIN queue : queue[i].type \in SessionEvents
    BY <1>0, <1>23 DEF Terminate, Queued, Waits, SessionEvents
  <2>2. request' \in Request /\ registry' \in Sessions \cup {None}
    BY <1>0, <1>23 DEF Terminate, Types, Request
  <2>3. \A t \in Sessions :
          /\ CutOff(t) \in Handler /\ CutOff(t).chain = session[t].chain
          /\ CutOff(t).closing = IF Closed(t) THEN session[t].closing ELSE "waiting"
    BY <1>0, CutOffType DEF Types
  <2>4. session' \in [Sessions -> Handler] /\ StillWaiting
    BY <1>0, <1>23, <2>3 DEF Terminate, Types, StillWaiting, Closed
  <2>5. Queued'
    <3>1. queue' = queue
      BY <1>23 DEF Terminate
    <3>2. ASSUME NEW i \in DOMAIN queue
          PROVE  (Waits(queue[i]) /\ Belongs(queue[i]))'
      <4>1. Waits(queue[i]) /\ Belongs(queue[i]) /\ queue[i].type \in SessionEvents
        BY <1>0, <2>1 DEF Queued
      <4> QED
        BY <2>4, <3>1, <4>1 DEF Waits, Belongs, SessionEvents, StillWaiting
    <3> QED
      BY <1>0, <3>1, <3>2 DEF Queued
  <2> QED
    BY <1>0, <1>23, <2>2, <2>4, <2>5 DEF Terminate, TypeInv, Types
<1>24. CASE Crash
  <2>1. \A h \in Handler :
          /\ [h EXCEPT !.chain = "refused"] \in Handler
          /\ [h EXCEPT !.chain = "failed", !.closing = "done", !.heartbeat = FALSE] \in Handler
    BY DEF Handler, Chain
  <2>2. session' \in [Sessions -> Handler]
    <3>1. session \in [Sessions -> Handler]
      BY <1>0 DEF Types
    <3> QED
      BY <1>24, <2>1, <3>1 DEF Crash
  <2>3. request' \in Request
    BY <1>0, <1>24 DEF Crash, Types, NoRequest, Request
  <2>4. queue' = <<>> /\ registry' = None /\ stream' = stream /\ silent' = silent /\ throttle' = throttle
    BY <1>24 DEF Crash
  <2>f. faults' \in 0 .. MaxFaults
    <3>1. faults' = faults + 1 /\ faults < MaxFaults /\ faults \in 0 .. MaxFaults
      BY <1>0, <1>24 DEF Crash, Types
    <3> QED
      BY <3>1
  <2>5. Queued'
    BY <2>4 DEF Queued
  <2>6. Types'
    BY <1>0, <2>2, <2>3, <2>4, <2>f DEF Types
  <2> QED
    BY <2>5, <2>6 DEF TypeInv
<1>25. CASE UNCHANGED vars
  BY <1>0, <1>25, HandlerStep DEF vars, Types, StillWaiting
<1> QED
  BY <1>1, <1>2, <1>3, <1>4, <1>5, <1>6, <1>7, <1>8, <1>9, <1>10, <1>11, <1>12, <1>13,
     <1>14, <1>15, <1>16, <1>17, <1>18, <1>19, <1>20, <1>21, <1>22, <1>23, <1>24, <1>25
     DEF Next, SessionStep, AuthenticationStep

\* Every variable keeps its shape, and every append queued at ProviderStore's
\* mutex has exactly one handler or request that waits for its answer.
THEOREM TypeCorrect == Spec => []TypeOK
<1>1. TypeInv => TypeOK
  BY DEF TypeInv, Types, Queued, TypeOK
<1> QED
  BY <1>1, TypeInit, TypeStep, PTL DEF Spec

-----------------------------------------------------------------------------
(* Only the newest session lives. *)

LiveChain == {"connecting", "greeting", "ready", "syncing", "reporting"}

\* A step of one handler that leaves the registry alone, and it as live as it was.
LEMMA LivesOn ==
  ASSUME OnlyNewestLives, registry' = registry, NEW s \in Sessions, NEW c, NEW cl, NEW r,
         After(s, c, cl, r),
         c \in LiveChain /\ cl = "no" <=> session[s].chain \in LiveChain /\ ~Closed(s)
  PROVE  OnlyNewestLives'
<1>1. ASSUME NEW t \in Sessions
      PROVE  session'[t].chain \in LiveChain /\ session'[t].closing = "no" <=> registry' = t
  <2>1. session[t].chain \in LiveChain /\ ~Closed(t) <=> registry = t
    BY DEF OnlyNewestLives, LiveChain
  <2> QED
    BY <2>1 DEF After, Closed
<1> QED
  BY <1>1 DEF OnlyNewestLives, Closed, LiveChain

\* A step that ends one session.
LEMMA LivesNoMore ==
  ASSUME TypeInv, OnlyNewestLives, NEW s \in Sessions, NEW c, NEW cl, NEW r,
         After(s, c, cl, r), cl # "no", registry' = Without(s)
  PROVE  OnlyNewestLives'
<1>0. None \notin Sessions
  BY SessionAssumption
<1>1. ASSUME NEW t \in Sessions
      PROVE  session'[t].chain \in LiveChain /\ session'[t].closing = "no" <=> registry' = t
  <2>1. /\ session[t].chain \in LiveChain /\ ~Closed(t) <=> registry = t
        /\ session[s].chain \in LiveChain /\ ~Closed(s) <=> registry = s
    BY DEF OnlyNewestLives, LiveChain
  <2> QED
    BY <1>0, <2>1 DEF After, Closed, Without
<1> QED
  BY <1>1 DEF OnlyNewestLives, Closed, LiveChain

\* Whatever is ended, now or before, is not open.
LEMMA ClosedIsOver ==
  ASSUME NEW s \in Sessions
  PROVE  Over(s) # "no"
BY DEF Over, Closed

\* Nothing lives at the start.
LEMMA LivesInit == Init => OnlyNewestLives
BY SessionAssumption DEF Init, OnlyNewestLives, Unopened, Closed

\* Every step keeps the newest session the only live one.
LEMMA LivesStep == TypeInv /\ OnlyNewestLives /\ [Next]_vars => OnlyNewestLives'
<1> SUFFICES ASSUME TypeInv, OnlyNewestLives, [Next]_vars
             PROVE  OnlyNewestLives'
  OBVIOUS
<1>0. Types /\ session \in [Sessions -> Handler] /\ None \notin Sessions
  BY SessionAssumption DEF TypeInv, Types
<1>e. "closed" \in Reasons /\ "error" \in Reasons /\ "timeout" \in Reasons
  BY DEF Reasons
<1>1. ASSUME NEW s \in Sessions, Dial(s)
      PROVE  OnlyNewestLives'
  <2>1. PICK c \in {"refused", "checking"} : After(s, c, session[s].closing, session[s].recorded)
    BY <1>0, <1>1, Steps
  <2> QED
    BY <1>1, <2>1, LivesOn DEF Dial, LiveChain, Closed
<1>2. ASSUME NEW s \in Sessions, Authenticate(s)
      PROVE  OnlyNewestLives'
  <2>1. PICK c \in {"waiting", "rejecting"} : After(s, c, session[s].closing, session[s].recorded)
    BY <1>0, <1>2, Steps
  <2> QED
    BY <1>2, <2>1, LivesOn DEF Authenticate, LiveChain, Closed
<1>3. ASSUME NEW s \in Sessions, CountFailure(s)
      PROVE  OnlyNewestLives'
  <2>1. PICK c \in {"expiring", "refused"} : After(s, c, session[s].closing, session[s].recorded)
    BY <1>0, <1>3, Steps
  <2> QED
    BY <1>3, <2>1, LivesOn DEF CountFailure, LiveChain, Closed
<1>4. ASSUME NEW s \in Sessions, StartWindow(s)
      PROVE  OnlyNewestLives'
  <2>1. After(s, "refused", session[s].closing, session[s].recorded)
    BY <1>0, <1>4, Steps
  <2> QED
    BY <1>4, <2>1, LivesOn DEF StartWindow, LiveChain, Closed
<1>5. ASSUME NEW s \in Sessions, AuthThrows(s)
      PROVE  OnlyNewestLives'
  <2>1. After(s, "refused", session[s].closing, session[s].recorded)
    BY <1>0, <1>5, Steps
  <2> QED
    BY <1>5, <2>1, LivesOn DEF AuthThrows, LiveChain, Closed
<1>6. ASSUME NEW s \in Sessions, Greet(s)
      PROVE  OnlyNewestLives'
  <2>1. After(s, "ready", session[s].closing, session[s].recorded)
    BY <1>0, <1>6, Steps
  <2> QED
    BY <1>6, <2>1, LivesOn DEF Greet, LiveChain, Closed
<1>7. ASSUME NEW s \in Sessions, SyncRequest(s)
      PROVE  OnlyNewestLives'
  <2>1. After(s, "syncing", session[s].closing, session[s].recorded)
    BY <1>0, <1>7, Steps
  <2> QED
    BY <1>7, <2>1, LivesOn DEF SyncRequest, LiveChain, Closed
<1>8. ASSUME NEW s \in Sessions, SendSnapshot(s)
      PROVE  OnlyNewestLives'
  <2>1. After(s, "ready", session[s].closing, session[s].recorded)
    BY <1>0, <1>8, Steps
  <2> QED
    BY <1>8, <2>1, LivesOn DEF SendSnapshot, LiveChain, Closed
<1>9. ASSUME NEW s \in Sessions, OnReport(s)
      PROVE  OnlyNewestLives'
  <2>1. After(s, "reporting", session[s].closing, session[s].recorded)
    BY <1>0, <1>9, Steps
  <2> QED
    BY <1>9, <2>1, LivesOn DEF OnReport, LiveChain, Closed
<1>10. ASSUME NEW s \in Sessions, WrongHello(s)
      PROVE  OnlyNewestLives'
  <2>1. Close(s, "error")
    BY <1>10 DEF WrongHello
  <2>2. After(s, session[s].chain, Over(s), session[s].recorded) /\ registry' = Without(s)
    BY <1>0, <1>e, <2>1, Steps DEF Close
  <2> QED
    BY <2>2, ClosedIsOver, LivesNoMore
<1>11. ASSUME NEW s \in Sessions, Bye(s)
      PROVE  OnlyNewestLives'
  <2>1. Close(s, "closed")
    BY <1>11 DEF Bye
  <2>2. After(s, session[s].chain, Over(s), session[s].recorded) /\ registry' = Without(s)
    BY <1>0, <1>e, <2>1, Steps DEF Close
  <2> QED
    BY <2>2, ClosedIsOver, LivesNoMore
<1>12. ASSUME NEW s \in Sessions, Lost(s)
      PROVE  OnlyNewestLives'
  <2>1. Close(s, "closed")
    BY <1>12 DEF Lost
  <2>2. After(s, session[s].chain, Over(s), session[s].recorded) /\ registry' = Without(s)
    BY <1>0, <1>e, <2>1, Steps DEF Close
  <2> QED
    BY <2>2, ClosedIsOver, LivesNoMore
<1>13. ASSUME NEW s \in Sessions, HeartbeatTimeout(s)
      PROVE  OnlyNewestLives'
  <2>1. Close(s, "timeout")
    BY <1>13 DEF HeartbeatTimeout
  <2>2. After(s, session[s].chain, Over(s), session[s].recorded) /\ registry' = Without(s)
    BY <1>0, <1>e, <2>1, Steps DEF Close
  <2> QED
    BY <2>2, ClosedIsOver, LivesNoMore
<1>14. ASSUME NEW s \in Sessions, HandlingThrows(s)
      PROVE  OnlyNewestLives'
  <2>1. After(s, "failed", Over(s), session[s].recorded) /\ registry' = Without(s)
    BY <1>0, <1>14, Steps DEF HandlingThrows
  <2> QED
    BY <2>1, ClosedIsOver, LivesNoMore
<1>15. ASSUME NEW s \in Sessions, RecordDisconnect(s)
      PROVE  OnlyNewestLives'
  <2>1. After(s, session[s].chain, IF session[s].recorded THEN "appending" ELSE "done", session[s].recorded)
    BY <1>0, <1>15, Steps
  <2>2. session[s].closing = "waiting" /\ registry' = registry
    BY <1>15 DEF RecordDisconnect
  <2> QED
    BY <2>1, <2>2, LivesOn DEF Closed
<1>16. ASSUME NEW s \in Sessions, OnHello(s)
      PROVE  OnlyNewestLives'
  <2>1. ASSUME NEW t \in Sessions
        PROVE  session'[t].chain \in LiveChain /\ session'[t].closing = "no" <=> registry' = t
    <3>1. session[t].chain \in LiveChain /\ ~Closed(t) <=> registry = t
      BY DEF OnlyNewestLives, LiveChain
    <3>2. CASE t = s
      <4>1. session'[t] = [session[s] EXCEPT !.chain = "connecting"] /\ session[s] \in Handler
        BY <1>0, <1>16, <3>2 DEF OnHello
      <4>2. session'[t].chain = "connecting" /\ session'[t].closing = session[s].closing
        BY <4>1 DEF Handler
      <4> QED
        BY <1>16, <3>2, <4>2 DEF OnHello, LiveChain, Closed
    <3>3. CASE t # s /\ t = registry
      <4>1. session'[t] = CutOff(t) /\ registry' # t
        BY <1>16, <3>3 DEF OnHello
      <4> QED
        BY <1>0, <3>1, <3>3, <4>1, CutOffType
    <3>4. CASE t # s /\ t # registry
      BY <1>16, <3>1, <3>4 DEF OnHello, Closed
    <3> QED
      BY <3>2, <3>3, <3>4
  <2> QED
    BY <2>1 DEF OnlyNewestLives, Closed, LiveChain
<1>17. ASSUME AppendNext
      PROVE  OnlyNewestLives'
  <2> DEFINE e == Head(queue)
  <2>1. e \in Event /\ Waits(e) /\ Belongs(e) /\ queue # <<>> /\ registry' = registry
    BY <1>17 DEF TypeInv, Types, Queued, AppendNext
  <2>2. CASE e.type \in SessionEvents
    <3>1. e.session \in Sessions
      BY <2>1, <2>2 DEF Belongs
    <3>2. CASE e.type = "agent_connected"
      <4>1. After(e.session, "greeting", session[e.session].closing, TRUE)
        BY <1>0, <1>17, <2>1, <3>1, <3>2, AppendSteps
      <4> QED
        BY <2>1, <3>1, <3>2, <4>1, LivesOn DEF Waits, Closed, LiveChain
    <3>3. CASE e.type = "report"
      <4>1. After(e.session, "ready", session[e.session].closing, session[e.session].recorded)
        BY <1>0, <1>17, <2>1, <3>1, <3>3, AppendSteps
      <4> QED
        BY <2>1, <3>1, <3>3, <4>1, LivesOn DEF Waits, Closed, LiveChain
    <3>4. CASE e.type = "agent_disconnected"
      <4>1. After(e.session, session[e.session].chain, "done", session[e.session].recorded)
        BY <1>0, <1>17, <2>1, <3>1, <3>4, AppendSteps
      <4> QED
        BY <2>1, <3>1, <3>4, <4>1, LivesOn DEF Waits, Closed
    <3> QED
      BY <2>2, <3>2, <3>3, <3>4 DEF SessionEvents
  <2>3. CASE e.type \notin SessionEvents
    <3>1. session' = session
      BY <1>17, <2>3 DEF AppendNext, SessionEvents
    <3> QED
      BY <2>1, <3>1 DEF OnlyNewestLives, Closed
  <2> QED
    BY <2>2, <2>3
<1>18. ASSUME AppendFails
      PROVE  OnlyNewestLives'
  <2> DEFINE e == Head(queue)
  <2>1. e \in Event /\ Waits(e) /\ Belongs(e) /\ queue # <<>>
    BY <1>18 DEF TypeInv, Types, Queued, AppendFails
  <2>2. CASE e.type \in SessionEvents
    <3>1. e.session \in Sessions
      BY <2>1, <2>2 DEF Belongs
    <3>2. CASE e.type \in {"agent_connected", "report"}
      <4>1. After(e.session, "failed", Over(e.session), session[e.session].recorded)
        BY <1>0, <1>18, <2>1, <3>1, <3>2, AppendSteps
      <4>2. registry' = Without(e.session)
        BY <1>18, <3>2 DEF AppendFails
      <4> QED
        BY <3>1, <4>1, <4>2, ClosedIsOver, LivesNoMore
    <3>3. CASE e.type = "agent_disconnected"
      <4>1. After(e.session, session[e.session].chain, "done", session[e.session].recorded)
        BY <1>0, <1>18, <2>1, <3>1, <3>3, AppendSteps
      <4>2. registry' = registry
        BY <1>18, <3>3 DEF AppendFails
      <4> QED
        BY <2>1, <3>1, <3>3, <4>1, <4>2, LivesOn DEF Waits, Closed
    <3> QED
      BY <2>2, <3>2, <3>3 DEF SessionEvents
  <2>3. CASE e.type \notin SessionEvents
    <3>1. session' = session /\ registry' = registry
      BY <1>18, <2>3 DEF AppendFails, SessionEvents
    <3> QED
      BY <3>1 DEF OnlyNewestLives, Closed
  <2> QED
    BY <2>2, <2>3
<1>19. CASE Terminate
  <2>1. CASE session' = session /\ registry' = registry
    BY <2>1 DEF OnlyNewestLives, Closed
  <2>2. CASE registry # None /\ registry' = None /\ session' = [session EXCEPT ![registry] = CutOff(registry)]
    <3>1. registry \in Sessions
      BY <1>0, <2>2 DEF Types
    <3>2. ASSUME NEW t \in Sessions
          PROVE  ~(session'[t].chain \in LiveChain /\ session'[t].closing = "no") /\ registry' # t
      <4>1. session[t].chain \in LiveChain /\ ~Closed(t) <=> registry = t
        BY DEF OnlyNewestLives, LiveChain
      <4>2. CASE t = registry
        <5>1. session'[t] = CutOff(t)
          BY <1>0, <2>2, <4>2
        <5> QED
          BY <1>0, <2>2, <4>1, <4>2, <5>1, CutOffType
      <4>3. CASE t # registry
        BY <1>0, <2>2, <4>1, <4>3 DEF Closed
      <4> QED
        BY <4>2, <4>3
    <3> QED
      BY <3>2 DEF OnlyNewestLives, Closed, LiveChain
  <2> QED
    BY <1>19, <2>1, <2>2 DEF Terminate
<1>20. CASE Crash
  <2>1. ASSUME NEW t \in Sessions
        PROVE  session'[t].chain \notin LiveChain
    <3>1. session[t] \in Handler
      BY <1>0
    <3>2. \A h \in Handler :
            /\ [h EXCEPT !.chain = "refused"].chain = "refused"
            /\ [h EXCEPT !.chain = "failed", !.closing = "done", !.heartbeat = FALSE].chain = "failed"
      BY DEF Handler
    <3>3. session'[t].chain \in {"none", "refused", "failed"}
      BY <1>20, <3>1, <3>2 DEF Crash
    <3> QED
      BY <3>3 DEF LiveChain
  <2> QED
    BY <1>0, <1>20, <2>1 DEF Crash, OnlyNewestLives, LiveChain
<1>21. CASE UNCHANGED <<session, registry>>
  BY <1>21 DEF OnlyNewestLives, Closed
<1> QED
  BY <1>1, <1>2, <1>3, <1>4, <1>5, <1>6, <1>7, <1>8, <1>9, <1>10, <1>11, <1>12, <1>13,
     <1>14, <1>15, <1>16, <1>17, <1>18, <1>19, <1>20, <1>21
     DEF Next, SessionStep, AuthenticationStep, FallSilent, WindowEnds, Delete, Withdraw, vars

\* FR-034, session-registry.ts: whatever opens, closes, fails, falls silent or is
\* withdrawn in between, the registry holds the newest session that said hello as
\* long as it is open, and no other one that did is open.
THEOREM NewestLives == Spec => []OnlyNewestLives
<1> QED
  BY TypeInit, TypeStep, LivesInit, LivesStep, PTL DEF Spec

-----------------------------------------------------------------------------
(* What is recorded of a session is paired. *)

\* A session is recorded as connected before it is greeted and never earlier; its
\* end is appended when no message of it is under way, and only if it was recorded.
Fits(chain, closing, recorded) ==
  /\ chain \in {"none", "checking", "rejecting", "expiring", "refused", "waiting", "connecting"} => ~recorded
  /\ chain \in {"greeting", "ready", "syncing", "reporting"} => recorded
  /\ closing \in {"appending", "done"} => chain \in {"waiting", "ready", "failed"}
  /\ closing = "appending" => recorded

\* What the handlers know of the stream.
Presence ==
  \A s \in Sessions :
    /\ Fits(session[s].chain, session[s].closing, session[s].recorded)
    /\ session[s].recorded <=> Recorded("agent_connected", s)
    /\ Recorded("agent_disconnected", s) => session[s].closing = "done"

\* A step of one handler that appends nothing to the stream.
LEMMA PresenceKept ==
  ASSUME Presence, stream' = stream, NEW s \in Sessions, NEW c, NEW cl,
         After(s, c, cl, session[s].recorded), Fits(c, cl, session[s].recorded),
         session[s].closing = "done" => cl = "done"
  PROVE  Presence'
<1>1. ASSUME NEW t \in Sessions
      PROVE  /\ Fits(session'[t].chain, session'[t].closing, session'[t].recorded)
             /\ session'[t].recorded = session[t].recorded
             /\ session[t].closing = "done" => session'[t].closing = "done"
  BY DEF After, Presence
<1>2. ASSUME NEW t \in Sessions, NEW type
      PROVE  Recorded(type, t)' <=> Recorded(type, t)
  BY DEF Recorded
<1>3. ASSUME NEW t \in Sessions
      PROVE  /\ session'[t].recorded <=> Recorded("agent_connected", t)'
             /\ Recorded("agent_disconnected", t)' => session'[t].closing = "done"
  BY <1>1, <1>2 DEF Presence
<1> QED
  BY <1>1, <1>3 DEF Presence

\* What an append adds to what is recorded.
LEMMA RecordedAppend ==
  ASSUME stream \in Seq(Event), NEW e \in Event, stream' = Append(stream, e), NEW type, NEW s
  PROVE  Recorded(type, s)' <=> Recorded(type, s) \/ (e.type = type /\ e.session = s)
<1>1. /\ Len(stream) \in Nat /\ DOMAIN stream = 1 .. Len(stream) /\ DOMAIN stream' = 1 .. Len(stream) + 1
      /\ \A i \in 1 .. Len(stream) : stream'[i] = stream[i]
      /\ stream'[Len(stream) + 1] = e
  OBVIOUS
<1>2. ASSUME Recorded(type, s)
      PROVE  Recorded(type, s)'
  BY <1>1, <1>2 DEF Recorded
<1>3. ASSUME e.type = type, e.session = s
      PROVE  Recorded(type, s)'
  BY <1>1, <1>3 DEF Recorded
<1>4. ASSUME Recorded(type, s)', ~Recorded(type, s)
      PROVE  e.type = type /\ e.session = s
  <2>1. PICK i \in 1 .. Len(stream) + 1 : stream'[i].type = type /\ stream'[i].session = s
    BY <1>1, <1>4 DEF Recorded
  <2>2. i \notin 1 .. Len(stream)
    BY <1>1, <1>4, <2>1 DEF Recorded
  <2> QED
    BY <1>1, <2>1, <2>2
<1> QED
  BY <1>2, <1>3, <1>4

\* An append that comes when it may.
LEMMA PairedAppend ==
  ASSUME stream \in Seq(Event), PresencePaired, NEW e \in Event, stream' = Append(stream, e),
         e.type = "agent_connected" => ~Recorded("agent_connected", e.session),
         e.type \in {"report", "agent_disconnected"} =>
           Recorded("agent_connected", e.session) /\ ~Recorded("agent_disconnected", e.session)
  PROVE  PresencePaired'
<1>1. /\ Len(stream) \in Nat /\ DOMAIN stream = 1 .. Len(stream) /\ DOMAIN stream' = 1 .. Len(stream) + 1
      /\ \A i \in 1 .. Len(stream) : stream'[i] = stream[i]
      /\ stream'[Len(stream) + 1] = e
  OBVIOUS
<1>2. ASSUME NEW i \in 1 .. Len(stream) + 1, NEW type, NEW s
      PROVE  Before(type, s, i)' <=> Before(type, s, i)
  <2>1. \A j \in 1 .. i - 1 : stream'[j] = stream[j]
    BY <1>1
  <2> QED
    BY <2>1 DEF Before
<1>3. ASSUME NEW type, NEW s
      PROVE  Before(type, s, Len(stream) + 1) <=> Recorded(type, s)
  BY <1>1 DEF Before, Recorded
<1>4. ASSUME NEW i \in DOMAIN stream', NEW s, s = stream'[i].session
      PROVE  /\ stream'[i].type = "agent_connected" => ~Before("agent_connected", s, i)'
             /\ stream'[i].type \in {"report", "agent_disconnected"} =>
                  Before("agent_connected", s, i)' /\ ~Before("agent_disconnected", s, i)'
  <2>1. CASE i \in 1 .. Len(stream)
    <3>1. stream'[i] = stream[i] /\ i \in DOMAIN stream
      BY <1>1, <2>1
    <3> QED
      BY <1>1, <1>2, <1>4, <2>1, <3>1 DEF PresencePaired
  <2>2. CASE i = Len(stream) + 1
    BY <1>1, <1>2, <1>3, <1>4, <2>2
  <2> QED
    BY <1>1, <2>1, <2>2
<1> QED
  BY <1>4 DEF PresencePaired, Before

\* A step that appends nothing leaves what is recorded paired.
LEMMA PairedKept ==
  ASSUME PresencePaired, stream' = stream
  PROVE  PresencePaired'
BY DEF PresencePaired, Before

\* Nothing is recorded at the start.
LEMMA PresenceInit == Init => Presence /\ PresencePaired
BY DEF Init, Unopened, Presence, PresencePaired, Recorded, Fits

\* Every step keeps the handlers in line with the stream, and the stream paired.
LEMMA PresenceStep == TypeInv /\ Presence /\ PresencePaired /\ [Next]_vars => Presence' /\ PresencePaired'
<1> SUFFICES ASSUME TypeInv, Presence, PresencePaired, [Next]_vars
             PROVE  Presence' /\ PresencePaired'
  OBVIOUS
<1>0. Types /\ session \in [Sessions -> Handler] /\ stream \in Seq(Event)
  BY DEF TypeInv, Types
<1>e. "closed" \in Reasons /\ "error" \in Reasons /\ "timeout" \in Reasons
  BY DEF Reasons
<1>f. \A s \in Sessions : Fits(session[s].chain, session[s].closing, session[s].recorded)
  BY DEF Presence
<1>1. ASSUME NEW s \in Sessions, Dial(s)
      PROVE  Presence' /\ PresencePaired'
  <2>1. PICK c \in {"refused", "checking"} : After(s, c, session[s].closing, session[s].recorded)
    BY <1>0, <1>1, Steps
  <2>2. Fits(c, session[s].closing, session[s].recorded) /\ stream' = stream
    BY <1>f, <1>1 DEF Fits, Dial, Closed
  <2> QED
    BY <2>1, <2>2, PresenceKept, PairedKept
<1>2. ASSUME NEW s \in Sessions, Authenticate(s)
      PROVE  Presence' /\ PresencePaired'
  <2>1. PICK c \in {"waiting", "rejecting"} : After(s, c, session[s].closing, session[s].recorded)
    BY <1>0, <1>2, Steps
  <2>2. Fits(c, session[s].closing, session[s].recorded) /\ stream' = stream
    BY <1>f, <1>2 DEF Fits, Authenticate, Closed
  <2> QED
    BY <2>1, <2>2, PresenceKept, PairedKept
<1>3. ASSUME NEW s \in Sessions, CountFailure(s)
      PROVE  Presence' /\ PresencePaired'
  <2>1. PICK c \in {"expiring", "refused"} : After(s, c, session[s].closing, session[s].recorded)
    BY <1>0, <1>3, Steps
  <2>2. Fits(c, session[s].closing, session[s].recorded) /\ stream' = stream
    BY <1>f, <1>3 DEF Fits, CountFailure, Closed
  <2> QED
    BY <2>1, <2>2, PresenceKept, PairedKept
<1>4. ASSUME NEW s \in Sessions, StartWindow(s)
      PROVE  Presence' /\ PresencePaired'
  <2>1. After(s, "refused", session[s].closing, session[s].recorded)
    BY <1>0, <1>4, Steps
  <2>2. Fits("refused", session[s].closing, session[s].recorded) /\ stream' = stream
    BY <1>f, <1>4 DEF Fits, StartWindow, Closed
  <2> QED
    BY <2>1, <2>2, PresenceKept, PairedKept
<1>5. ASSUME NEW s \in Sessions, AuthThrows(s)
      PROVE  Presence' /\ PresencePaired'
  <2>1. After(s, "refused", session[s].closing, session[s].recorded)
    BY <1>0, <1>5, Steps
  <2>2. Fits("refused", session[s].closing, session[s].recorded) /\ stream' = stream
    BY <1>f, <1>5 DEF Fits, AuthThrows, Closed
  <2> QED
    BY <2>1, <2>2, PresenceKept, PairedKept
<1>6. ASSUME NEW s \in Sessions, Greet(s)
      PROVE  Presence' /\ PresencePaired'
  <2>1. After(s, "ready", session[s].closing, session[s].recorded)
    BY <1>0, <1>6, Steps
  <2>2. Fits("ready", session[s].closing, session[s].recorded) /\ stream' = stream
    BY <1>f, <1>6 DEF Fits, Greet, Closed
  <2> QED
    BY <2>1, <2>2, PresenceKept, PairedKept
<1>7. ASSUME NEW s \in Sessions, SyncRequest(s)
      PROVE  Presence' /\ PresencePaired'
  <2>1. After(s, "syncing", session[s].closing, session[s].recorded)
    BY <1>0, <1>7, Steps
  <2>2. Fits("syncing", session[s].closing, session[s].recorded) /\ stream' = stream
    BY <1>f, <1>7 DEF Fits, SyncRequest, Closed
  <2> QED
    BY <2>1, <2>2, PresenceKept, PairedKept
<1>8. ASSUME NEW s \in Sessions, SendSnapshot(s)
      PROVE  Presence' /\ PresencePaired'
  <2>1. After(s, "ready", session[s].closing, session[s].recorded)
    BY <1>0, <1>8, Steps
  <2>2. Fits("ready", session[s].closing, session[s].recorded) /\ stream' = stream
    BY <1>f, <1>8 DEF Fits, SendSnapshot, Closed
  <2> QED
    BY <2>1, <2>2, PresenceKept, PairedKept
<1>9. ASSUME NEW s \in Sessions, OnReport(s)
      PROVE  Presence' /\ PresencePaired'
  <2>1. After(s, "reporting", session[s].closing, session[s].recorded)
    BY <1>0, <1>9, Steps
  <2>2. Fits("reporting", session[s].closing, session[s].recorded) /\ stream' = stream
    BY <1>f, <1>9 DEF Fits, OnReport, Closed
  <2> QED
    BY <2>1, <2>2, PresenceKept, PairedKept
<1>10. ASSUME NEW s \in Sessions, WrongHello(s)
      PROVE  Presence' /\ PresencePaired'
  <2>1. Close(s, "error") /\ stream' = stream
    BY <1>10 DEF WrongHello
  <2>2. After(s, session[s].chain, Over(s), session[s].recorded)
    BY <1>0, <1>e, <2>1, Steps
  <2>3. /\ Fits(session[s].chain, Over(s), session[s].recorded)
        /\ session[s].closing = "done" => Over(s) = "done"
    BY <1>f DEF Fits, Over, Closed
  <2> QED
    BY <2>1, <2>2, <2>3, PresenceKept, PairedKept
<1>11. ASSUME NEW s \in Sessions, Bye(s)
      PROVE  Presence' /\ PresencePaired'
  <2>1. Close(s, "closed") /\ stream' = stream
    BY <1>11 DEF Bye
  <2>2. After(s, session[s].chain, Over(s), session[s].recorded)
    BY <1>0, <1>e, <2>1, Steps
  <2>3. /\ Fits(session[s].chain, Over(s), session[s].recorded)
        /\ session[s].closing = "done" => Over(s) = "done"
    BY <1>f DEF Fits, Over, Closed
  <2> QED
    BY <2>1, <2>2, <2>3, PresenceKept, PairedKept
<1>12. ASSUME NEW s \in Sessions, Lost(s)
      PROVE  Presence' /\ PresencePaired'
  <2>1. Close(s, "closed") /\ stream' = stream
    BY <1>12 DEF Lost
  <2>2. After(s, session[s].chain, Over(s), session[s].recorded)
    BY <1>0, <1>e, <2>1, Steps
  <2>3. /\ Fits(session[s].chain, Over(s), session[s].recorded)
        /\ session[s].closing = "done" => Over(s) = "done"
    BY <1>f DEF Fits, Over, Closed
  <2> QED
    BY <2>1, <2>2, <2>3, PresenceKept, PairedKept
<1>13. ASSUME NEW s \in Sessions, HeartbeatTimeout(s)
      PROVE  Presence' /\ PresencePaired'
  <2>1. Close(s, "timeout") /\ stream' = stream
    BY <1>13 DEF HeartbeatTimeout
  <2>2. After(s, session[s].chain, Over(s), session[s].recorded)
    BY <1>0, <1>e, <2>1, Steps
  <2>3. /\ Fits(session[s].chain, Over(s), session[s].recorded)
        /\ session[s].closing = "done" => Over(s) = "done"
    BY <1>f DEF Fits, Over, Closed
  <2> QED
    BY <2>1, <2>2, <2>3, PresenceKept, PairedKept
<1>14. ASSUME NEW s \in Sessions, HandlingThrows(s)
      PROVE  Presence' /\ PresencePaired'
  <2>1. After(s, "failed", Over(s), session[s].recorded) /\ stream' = stream
    BY <1>0, <1>14, Steps DEF HandlingThrows
  <2>2. /\ Fits("failed", Over(s), session[s].recorded)
        /\ session[s].closing = "done" => Over(s) = "done"
    BY <1>f DEF Fits, Over, Closed
  <2> QED
    BY <2>1, <2>2, PresenceKept, PairedKept
<1>15. ASSUME NEW s \in Sessions, RecordDisconnect(s)
      PROVE  Presence' /\ PresencePaired'
  <2> DEFINE cl == IF session[s].recorded THEN "appending" ELSE "done"
  <2>1. After(s, session[s].chain, cl, session[s].recorded)
    BY <1>0, <1>15, Steps
  <2>2. session[s].closing = "waiting" /\ ChainDone(s) /\ stream' = stream
    BY <1>15 DEF RecordDisconnect
  <2>3. Fits(session[s].chain, cl, session[s].recorded)
    BY <1>f, <2>2 DEF Fits, ChainDone
  <2> QED
    BY <2>1, <2>2, <2>3, PresenceKept, PairedKept
<1>16. ASSUME NEW s \in Sessions, OnHello(s)
      PROVE  Presence' /\ PresencePaired'
  <2>1. stream' = stream
    BY <1>16 DEF OnHello
  <2>2. ASSUME NEW t \in Sessions
        PROVE  /\ Fits(session'[t].chain, session'[t].closing, session'[t].recorded)
               /\ session'[t].recorded = session[t].recorded
               /\ session[t].closing = "done" => session'[t].closing = "done"
    <3>1. CASE t = s
      <4>1. session'[t] = [session[s] EXCEPT !.chain = "connecting"] /\ session[s] \in Handler
        BY <1>0, <1>16, <3>1 DEF OnHello
      <4>2. /\ session'[t].chain = "connecting" /\ session'[t].closing = session[s].closing
            /\ session'[t].recorded = session[s].recorded
        BY <4>1 DEF Handler
      <4> QED
        BY <1>f, <1>16, <3>1, <4>2 DEF OnHello, Fits, Closed
    <3>2. CASE t # s /\ t = registry
      <4>1. session'[t] = CutOff(t)
        BY <1>16, <3>2 DEF OnHello
      <4> QED
        BY <1>0, <1>f, <4>1, CutOffType DEF Fits, Closed
    <3>3. CASE t # s /\ t # registry
      BY <1>f, <1>16, <3>3 DEF OnHello
    <3> QED
      BY <3>1, <3>2, <3>3
  <2>3. Presence'
    BY <2>1, <2>2 DEF Presence, Recorded
  <2> QED
    BY <2>1, <2>3, PairedKept
<1>17. CASE Terminate
  <2>1. stream' = stream
    BY <1>17 DEF Terminate
  <2>2. ASSUME NEW t \in Sessions
        PROVE  /\ Fits(session'[t].chain, session'[t].closing, session'[t].recorded)
               /\ session'[t].recorded = session[t].recorded
               /\ session[t].closing = "done" => session'[t].closing = "done"
    <3>1. session'[t] = CutOff(t) \/ session'[t] = session[t]
      BY <1>0, <1>17 DEF Terminate
    <3> QED
      BY <1>0, <1>f, <3>1, CutOffType DEF Fits, Closed
  <2>3. Presence'
    BY <2>1, <2>2 DEF Presence, Recorded
  <2> QED
    BY <2>1, <2>3, PairedKept
<1>18. CASE Crash
  <2>1. stream' = stream
    BY <1>18 DEF Crash
  <2>2. ASSUME NEW t \in Sessions
        PROVE  /\ Fits(session'[t].chain, session'[t].closing, session'[t].recorded)
               /\ session'[t].recorded = session[t].recorded
               /\ session[t].closing = "done" => session'[t].closing = "done"
    <3>1. session[t] \in Handler
      BY <1>0
    <3>2. CASE session'[t] = session[t]
      BY <1>f, <3>2
    <3>3. CASE ~Accepted(t) /\ session'[t] = [session[t] EXCEPT !.chain = "refused"]
      <4>1. /\ session'[t].chain = "refused" /\ session'[t].closing = session[t].closing
            /\ session'[t].recorded = session[t].recorded
        BY <3>1, <3>3 DEF Handler
      <4> QED
        BY <1>f, <3>3, <4>1 DEF Fits, Accepted
    <3>4. CASE session'[t] = [session[t] EXCEPT !.chain = "failed", !.closing = "done", !.heartbeat = FALSE]
      <4>1. /\ session'[t].chain = "failed" /\ session'[t].closing = "done"
            /\ session'[t].recorded = session[t].recorded
        BY <3>1, <3>4 DEF Handler
      <4> QED
        BY <4>1 DEF Fits
    <3> QED
      BY <1>18, <3>2, <3>3, <3>4 DEF Crash
  <2>3. Presence'
    BY <2>1, <2>2 DEF Presence, Recorded
  <2> QED
    BY <2>1, <2>3, PairedKept
<1>19. ASSUME AppendFails
      PROVE  Presence' /\ PresencePaired'
  <2> DEFINE e == Head(queue)
  <2>1. e \in Event /\ Waits(e) /\ Belongs(e) /\ queue # <<>> /\ stream' = stream
    BY <1>19 DEF TypeInv, Types, Queued, AppendFails
  <2>2. CASE e.type \in SessionEvents
    <3>1. e.session \in Sessions
      BY <2>1, <2>2 DEF Belongs
    <3>2. CASE e.type \in {"agent_connected", "report"}
      <4>1. After(e.session, "failed", Over(e.session), session[e.session].recorded)
        BY <1>0, <1>19, <2>1, <3>1, <3>2, AppendSteps
      <4>2. /\ Fits("failed", Over(e.session), session[e.session].recorded)
            /\ session[e.session].closing = "done" => Over(e.session) = "done"
        BY <1>f, <3>1 DEF Fits, Over, Closed
      <4> QED
        BY <2>1, <3>1, <4>1, <4>2, PresenceKept, PairedKept
    <3>3. CASE e.type = "agent_disconnected"
      <4>1. After(e.session, session[e.session].chain, "done", session[e.session].recorded)
        BY <1>0, <1>19, <2>1, <3>1, <3>3, AppendSteps
      <4>2. Fits(session[e.session].chain, "done", session[e.session].recorded)
        BY <1>f, <2>1, <3>1, <3>3 DEF Fits, Waits
      <4> QED
        BY <2>1, <3>1, <4>1, <4>2, PresenceKept, PairedKept
    <3> QED
      BY <2>2, <3>2, <3>3 DEF SessionEvents
  <2>3. CASE e.type \notin SessionEvents
    <3>1. session' = session
      BY <1>19, <2>3 DEF AppendFails, SessionEvents
    <3>2. Presence'
      BY <2>1, <3>1 DEF Presence, Recorded
    <3> QED
      BY <2>1, <3>2, PairedKept
  <2> QED
    BY <2>2, <2>3
<1>20. ASSUME AppendNext
      PROVE  Presence' /\ PresencePaired'
  <2>1. PICK e \in Event :
          e = Head(queue) /\ Waits(e) /\ Belongs(e) /\ queue # <<>> /\ stream' = Append(stream, e)
    BY <1>20 DEF TypeInv, Types, Queued, AppendNext
  <2>2. ASSUME NEW type, NEW t
        PROVE  Recorded(type, t)' <=> Recorded(type, t) \/ (e.type = type /\ e.session = t)
    BY <1>0, <2>1, RecordedAppend
  <2>3. CASE e.type \in SessionEvents
    <3>1. e.session \in Sessions
      BY <2>1, <2>3 DEF Belongs
    <3>2. /\ Fits(session[e.session].chain, session[e.session].closing, session[e.session].recorded)
          /\ session[e.session].recorded <=> Recorded("agent_connected", e.session)
          /\ Recorded("agent_disconnected", e.session) => session[e.session].closing = "done"
      BY <3>1 DEF Presence
    <3>3. PresencePaired'
      BY <1>0, <2>1, <2>3, <3>2, PairedAppend DEF Fits, Waits, SessionEvents
    <3>4. PICK c, cl, r :
            /\ After(e.session, c, cl, r) /\ Fits(c, cl, r)
            /\ e.type = "agent_connected" => r /\ cl = session[e.session].closing
            /\ e.type = "report" => r = session[e.session].recorded /\ cl = session[e.session].closing
            /\ e.type = "agent_disconnected" => r = session[e.session].recorded /\ cl = "done"
      <4>1. CASE e.type = "agent_connected"
        <5>1. After(e.session, "greeting", session[e.session].closing, TRUE)
          BY <1>0, <1>20, <2>1, <3>1, <4>1, AppendSteps
        <5>2. Fits("greeting", session[e.session].closing, TRUE)
          BY <2>1, <3>2, <4>1 DEF Fits, Waits
        <5> QED
          BY <4>1, <5>1, <5>2
      <4>2. CASE e.type = "report"
        <5>1. After(e.session, "ready", session[e.session].closing, session[e.session].recorded)
          BY <1>0, <1>20, <2>1, <3>1, <4>2, AppendSteps
        <5>2. Fits("ready", session[e.session].closing, session[e.session].recorded)
          BY <2>1, <3>2, <4>2 DEF Fits, Waits
        <5> QED
          BY <4>2, <5>1, <5>2
      <4>3. CASE e.type = "agent_disconnected"
        <5>1. After(e.session, session[e.session].chain, "done", session[e.session].recorded)
          BY <1>0, <1>20, <2>1, <3>1, <4>3, AppendSteps
        <5>2. Fits(session[e.session].chain, "done", session[e.session].recorded)
          BY <2>1, <3>2, <4>3 DEF Fits, Waits
        <5> QED
          BY <4>3, <5>1, <5>2
      <4> QED
        BY <2>3, <4>1, <4>2, <4>3 DEF SessionEvents
    <3>5. ASSUME NEW t \in Sessions
          PROVE  /\ Fits(session'[t].chain, session'[t].closing, session'[t].recorded)
                 /\ session'[t].recorded <=> Recorded("agent_connected", t)'
                 /\ Recorded("agent_disconnected", t)' => session'[t].closing = "done"
      <4>1. /\ Fits(session[t].chain, session[t].closing, session[t].recorded)
            /\ session[t].recorded <=> Recorded("agent_connected", t)
            /\ Recorded("agent_disconnected", t) => session[t].closing = "done"
        BY DEF Presence
      <4>2. /\ Recorded("agent_connected", t)' <=>
                  Recorded("agent_connected", t) \/ (e.type = "agent_connected" /\ e.session = t)
            /\ Recorded("agent_disconnected", t)' <=>
                  Recorded("agent_disconnected", t) \/ (e.type = "agent_disconnected" /\ e.session = t)
        BY <2>2
      <4>3. CASE t = e.session
        <5>1. session'[t].chain = c /\ session'[t].closing = cl /\ session'[t].recorded = r
          BY <3>4, <4>3 DEF After
        <5>2. CASE e.type = "agent_connected"
          BY <3>4, <4>1, <4>2, <4>3, <5>1, <5>2
        <5>3. CASE e.type = "report"
          BY <3>4, <4>1, <4>2, <4>3, <5>1, <5>3
        <5>4. CASE e.type = "agent_disconnected"
          BY <3>4, <4>1, <4>2, <4>3, <5>1, <5>4
        <5> QED
          BY <2>3, <5>2, <5>3, <5>4 DEF SessionEvents
      <4>4. CASE t # e.session
        BY <3>4, <4>1, <4>2, <4>4 DEF After
      <4> QED
        BY <4>3, <4>4
    <3> QED
      BY <3>3, <3>5 DEF Presence
  <2>4. CASE e.type \notin SessionEvents
    <3>1. session' = session
      BY <1>20, <2>1, <2>4 DEF AppendNext, SessionEvents
    <3>2. PresencePaired'
      BY <1>0, <2>1, <2>4, PairedAppend DEF SessionEvents
    <3>3. Presence'
      BY <2>2, <2>4, <3>1 DEF Presence, SessionEvents
    <3> QED
      BY <3>2, <3>3
  <2> QED
    BY <2>3, <2>4
<1>21. CASE UNCHANGED <<session, stream>>
  <2>1. Presence'
    BY <1>21 DEF Presence, Recorded
  <2> QED
    BY <1>21, <2>1, PairedKept
<1> QED
  BY <1>1, <1>2, <1>3, <1>4, <1>5, <1>6, <1>7, <1>8, <1>9, <1>10, <1>11, <1>12, <1>13,
     <1>14, <1>15, <1>16, <1>17, <1>18, <1>19, <1>20, <1>21
     DEF Next, SessionStep, AuthenticationStep, FallSilent, WindowEnds, Delete, Withdraw, vars

\* FR-060, agent-session-handler.ts: a session is recorded as connected at most
\* once, as disconnected at most once and after that, and its reports in between,
\* in whatever order connections, failing appends and crashes come.
THEOREM PairedPresence == Spec => []PresencePaired
<1> QED
  BY TypeInit, TypeStep, PresenceInit, PresenceStep, PTL DEF Spec

-----------------------------------------------------------------------------
(* What is withdrawn or deleted is ended. *)

\* The token of a connection is the one it came with.
LEMMA TokensKept ==
  ASSUME TypeInv, [Next]_vars, NEW t \in Sessions, session[t].chain # "none"
  PROVE  session'[t].token = session[t].token
<1>0. session \in [Sessions -> Handler] /\ session[t] \in Handler
  BY DEF TypeInv, Types
<1>1. \A reason : Ended(t, reason).token = session[t].token
                  /\ [Ended(t, reason) EXCEPT !.chain = "failed"].token = session[t].token
  BY <1>0 DEF Ended, Handler
<1>2. ASSUME NEW s \in Sessions, SessionStep(s)
      PROVE  session'[t].token = session[t].token
  <2>1. CASE Dial(s)
    BY <1>0, <2>1 DEF Dial
  <2>2. CASE AuthenticationStep(s) \/ AuthThrows(s)
    BY <1>0, <2>2 DEF AuthenticationStep, Authenticate, CountFailure, StartWindow,
       AuthThrows, Handler
  <2>3. CASE Greet(s) \/ SyncRequest(s) \/ SendSnapshot(s) \/ OnReport(s)
    BY <1>0, <2>3 DEF Greet, SyncRequest, SendSnapshot, OnReport, Handler
  <2>4. CASE \E reason : Close(s, reason)
    BY <1>0, <1>1, <2>4 DEF Close
  <2>5. CASE WrongHello(s) \/ Bye(s) \/ Lost(s) \/ HeartbeatTimeout(s)
    BY <2>4, <2>5 DEF WrongHello, Bye, Lost, HeartbeatTimeout
  <2>6. CASE HandlingThrows(s)
    BY <1>0, <1>1, <2>6 DEF HandlingThrows
  <2>7. CASE OnHello(s)
    BY <1>0, <1>1, <2>7 DEF OnHello, CutOff, Handler
  <2>8. CASE RecordDisconnect(s)
    BY <1>0, <2>8 DEF RecordDisconnect, Handler
  <2>9. CASE FallSilent(s)
    BY <2>9 DEF FallSilent
  <2> QED
    BY <1>2, <2>1, <2>2, <2>3, <2>5, <2>6, <2>7, <2>8, <2>9 DEF SessionStep
<1>3. ASSUME AppendNext
      PROVE  session'[t].token = session[t].token
  <2>1. \/ session'[t] = session[t]
        \/ session'[t] = [session[t] EXCEPT !.chain = "greeting", !.recorded = TRUE]
        \/ session'[t] = [session[t] EXCEPT !.chain = "ready"]
        \/ session'[t] = [session[t] EXCEPT !.closing = "done"]
    BY <1>0, <1>3 DEF AppendNext
  <2> QED
    BY <1>0, <2>1 DEF Handler
<1>4. ASSUME AppendFails
      PROVE  session'[t].token = session[t].token
  <2>1. \/ session'[t] = session[t]
        \/ session'[t] = [session[t] EXCEPT !.closing = "done"]
        \/ \E reason : session'[t] = [Ended(t, reason) EXCEPT !.chain = "failed"]
    BY <1>0, <1>4 DEF AppendFails
  <2> QED
    <3>1. CASE session'[t] = [session[t] EXCEPT !.closing = "done"]
      BY <1>0, <3>1 DEF Handler
    <3>2. CASE \E reason : session'[t] = [Ended(t, reason) EXCEPT !.chain = "failed"]
      BY <1>1, <3>2
    <3> QED
      BY <2>1, <3>1, <3>2
<1>5. ASSUME Terminate
      PROVE  session'[t].token = session[t].token
  BY <1>0, <1>1, <1>5 DEF Terminate, CutOff
<1>6. ASSUME Crash
      PROVE  session'[t].token = session[t].token
  BY <1>0, <1>6 DEF Crash, Handler
<1>7. CASE UNCHANGED session
  BY <1>7
<1> QED
  BY <1>2, <1>3, <1>4, <1>5, <1>6, <1>7 DEF Next, WindowEnds, Delete, Withdraw, vars

\* The i-th event ends the live session: it was recorded before, and the event is
\* the deletion of its provider or the withdrawal of its token.
EndsLive(i) ==
  /\ stream[i] \in {Deletion, Withdrawal(session[registry].token)}
  /\ Before("agent_connected", registry, i)

\* Such an event is about to be acted on.
Pursued ==
  registry # None =>
    \A i \in DOMAIN stream : EndsLive(i) =>
      /\ request.pc = "appended"
      /\ request.kind = "withdraw" => request.token = session[registry].token

\* No session lives at the start.
LEMMA PursuedInit == Init => Pursued
BY DEF Init, Pursued

\* A step that neither appends nor opens a session.
LEMMA PursuedKept ==
  ASSUME TypeInv, OnlyNewestLives, Pursued, [Next]_vars,
         stream' = stream, registry' = registry \/ registry' = None,
         \/ request' = request
         \/ request.pc # "appended"
         \/ /\ request.kind = "withdraw" /\ registry # None
            /\ request.token # session[registry].token
  PROVE  Pursued'
<1> SUFFICES ASSUME registry # None, registry' = registry,
                    NEW i \in DOMAIN stream, EndsLive(i)'
             PROVE  /\ request'.pc = "appended"
                    /\ request'.kind = "withdraw" => request'.token = session'[registry].token
  BY DEF Pursued
<1>1. registry \in Sessions /\ session[registry].chain # "none"
  BY DEF TypeInv, Types, OnlyNewestLives
<1>2. session'[registry].token = session[registry].token
  BY <1>1, TokensKept
<1>3. EndsLive(i)
  BY <1>2 DEF EndsLive, Before
<1> QED
  BY <1>2, <1>3 DEF Pursued

\* The owner's events differ, and a withdrawal names its token.
LEMMA WithdrawalToken ==
  ASSUME NEW k, NEW l
  PROVE  /\ Withdrawal(k).type = "token_revoked" /\ Deletion.type = "deleted"
         /\ Withdrawal(k) = Withdrawal(l) => k = l
<1>1. Withdrawal(k).token = k /\ Withdrawal(l).token = l
  BY DEF Withdrawal, NewEvent
<1> QED
  BY <1>1 DEF Withdrawal, Deletion, NewEvent

\* The append of a deletion or a withdrawal leaves its request to act on it.
LEMMA PursuedAppend ==
  ASSUME TypeInv, OnlyNewestLives, Pursued, AppendNext
  PROVE  Pursued'
<1>1. PICK e \in Event :
        e = Head(queue) /\ Waits(e) /\ Belongs(e) /\ queue # <<>> /\ stream' = Append(stream, e)
  BY DEF TypeInv, Types, Queued, AppendNext
<1>2. /\ Len(stream) \in Nat /\ DOMAIN stream = 1 .. Len(stream) /\ DOMAIN stream' = 1 .. Len(stream) + 1
      /\ \A i \in 1 .. Len(stream) : stream'[i] = stream[i]
      /\ stream'[Len(stream) + 1] = e
  BY <1>1 DEF TypeInv, Types
<1> SUFFICES ASSUME registry # None, NEW i \in DOMAIN stream', EndsLive(i)'
             PROVE  /\ request'.pc = "appended"
                    /\ request'.kind = "withdraw" => request'.token = session'[registry].token
  BY DEF Pursued, AppendNext
<1>3. registry \in Sessions /\ session[registry].chain # "none" /\ registry' = registry
  BY DEF TypeInv, Types, OnlyNewestLives, AppendNext
<1>4. session'[registry].token = session[registry].token
  BY <1>3, TokensKept DEF Next
<1>5. CASE i \in 1 .. Len(stream)
  <2>1. \A j \in 1 .. i - 1 : stream'[j] = stream[j]
    BY <1>2, <1>5
  <2>2. EndsLive(i)
    BY <1>2, <1>3, <1>4, <1>5, <2>1 DEF EndsLive, Before
  <2>3. request.pc = "appended" /\ (request.kind = "withdraw" => request.token = session[registry].token)
    BY <1>2, <1>5, <2>2 DEF Pursued
  <2>4. e.type \in SessionEvents
    BY <1>1, <2>3 DEF Waits, SessionEvents
  <2>5. request' = request
    BY <1>1, <2>4 DEF AppendNext, SessionEvents
  <2> QED
    BY <1>4, <2>3, <2>5
<1>6. CASE i = Len(stream) + 1
  <2>1. e \in {Deletion, Withdrawal(session'[registry].token)}
    BY <1>2, <1>3, <1>6 DEF EndsLive
  <2>2. e.type \notin SessionEvents
    BY <2>1, WithdrawalToken DEF SessionEvents
  <2>3. request' = [request EXCEPT !.pc = "appended"] /\ request \in Request
    BY <1>1, <2>2 DEF AppendNext, SessionEvents, TypeInv, Types
  <2>4. request'.pc = "appended" /\ request'.kind = request.kind /\ request'.token = request.token
    BY <2>3 DEF Request
  <2>5. /\ e \in {Deletion, Withdrawal(request.token)}
        /\ e.type = "deleted" <=> request.kind = "delete"
    BY <1>1, <2>2 DEF Belongs
  <2>6. CASE e = Deletion
    BY <2>4, <2>5, <2>6, WithdrawalToken
  <2>7. CASE e # Deletion
    <3>1. Withdrawal(request.token) = Withdrawal(session'[registry].token)
      BY <2>1, <2>5, <2>7
    <3>2. request.token = session'[registry].token
      BY <3>1, WithdrawalToken
    <3> QED
      BY <2>4, <3>2
  <2> QED
    BY <2>6, <2>7
<1> QED
  BY <1>2, <1>5, <1>6

\* No step forgets a live session whose token is withdrawn.
LEMMA PursuedStep ==
  TypeInv /\ OnlyNewestLives /\ Presence /\ Pursued /\ [Next]_vars => Pursued'
<1> SUFFICES ASSUME TypeInv, OnlyNewestLives, Presence, Pursued, [Next]_vars
             PROVE  Pursued'
  OBVIOUS
<1>1. ASSUME NEW s \in Sessions, OnHello(s)
      PROVE  Pursued'
  <2>1. registry' = s /\ stream' = stream /\ session[s].chain = "waiting"
    BY <1>1 DEF OnHello
  <2>2. ~Recorded("agent_connected", s)
    BY <2>1 DEF Presence, Fits
  <2>3. \A i \in DOMAIN stream : ~Before("agent_connected", s, i)
    <3>1. DOMAIN stream = 1 .. Len(stream) /\ Len(stream) \in Nat
      BY DEF TypeInv, Types
    <3> QED
      BY <2>2, <3>1 DEF Before, Recorded
  <2> QED
    BY <2>1, <2>3 DEF Pursued, EndsLive, Before
<1>2. ASSUME NEW s \in Sessions, SessionStep(s), ~OnHello(s)
      PROVE  stream' = stream /\ request' = request /\ (registry' = registry \/ registry' = None)
  BY <1>2 DEF SessionStep, AuthenticationStep, Dial, Authenticate, CountFailure,
     StartWindow, AuthThrows,
              WrongHello, Greet, HandlingThrows, SyncRequest, SendSnapshot, OnReport, Bye, Lost,
              HeartbeatTimeout, RecordDisconnect, FallSilent, Close, Without
<1>3. CASE AppendNext
  BY <1>3, PursuedAppend
<1>4. CASE AppendFails
  <2>1. stream' = stream /\ (registry' = registry \/ registry' = None)
    BY <1>4 DEF AppendFails, Without
  <2>2. request' = request \/ request.pc # "appended"
    <3>1. Waits(Head(queue))
      BY <1>4 DEF AppendFails, TypeInv, Types, Queued
    <3> QED
      BY <1>4, <3>1 DEF AppendFails, Waits
  <2> QED
    BY <2>1, <2>2, PursuedKept
<1>5. CASE Terminate
  <2>1. CASE registry' = None
    BY <2>1 DEF Pursued
  <2>2. CASE registry' # None
    BY <1>5, <2>2, PursuedKept DEF Terminate
  <2> QED
    BY <2>1, <2>2
<1>6. CASE Crash
  BY <1>6 DEF Crash, Pursued
<1>7. CASE Delete \/ (\E k \in Tokens : Withdraw(k))
  BY <1>7, PursuedKept DEF Delete, Withdraw
<1>8. CASE WindowEnds \/ UNCHANGED vars
  BY <1>8, PursuedKept DEF WindowEnds, vars
<1> QED
  BY <1>1, <1>2, <1>3, <1>4, <1>5, <1>6, <1>7, <1>8, PursuedKept DEF Next

\* FR-033, terminateByProvider and terminateByToken: a session that was recorded
\* before its token was withdrawn or its provider was deleted does not outlive the
\* request, whichever sessions open, close or fail meanwhile.
THEOREM WithdrawnAreEnded == Spec => []RevocationEnds
<1>1. Pursued => RevocationEnds
  BY DEF Pursued, EndsLive, RevocationEnds
<1> QED
  BY <1>1, TypeInit, TypeStep, LivesInit, LivesStep, PresenceInit, PresenceStep,
     PursuedInit, PursuedStep, PTL DEF Spec

=============================================================================
