------------------------ MODULE SnapshotDeliveryProofs ------------------------
(***************************************************************************)
(* SnapshotDelivery, for every number of streams, changes, sessions and    *)
(* faults: its types, that the snapshots an agent gets are a feed, and     *)
(* that the last of them is the account and reaches the session.           *)
(***************************************************************************)
EXTENDS SnapshotDelivery, TLAPS

-----------------------------------------------------------------------------
(* The inductive invariant. *)

\* The types, without what ties the coordinator to the publisher.
Types ==
  /\ account \in Content
  /\ changes \in Seq(ChangeRec)
  /\ pending \in Pending
  /\ calls \in Seq(Call)
  /\ stream \in Seq(Event)
  /\ registry \in open \cup {None}
  /\ session \in [Sessions -> SessionPc]
  /\ open \in SUBSET Sessions
  /\ wire \in [Sessions -> Seq(Message)]
  /\ told \in [Sessions -> Nat]
  /\ agent \in [session : Sessions \cup {None}, version : Nat, content : Content]
  /\ faults \in 0 .. MaxFaults

\* The coordinator's call at the publisher.
RunIn(q) == \E i \in DOMAIN q : q[i].by = "coordinator"
OneRunIn(q) ==
  \A i, j \in DOMAIN q : q[i].by = "coordinator" /\ q[j].by = "coordinator" => i = j

\* The coordinator runs once at a time, and sets no timer meanwhile.
Coordinated ==
  /\ pending.running <=> RunIn(calls)
  /\ OneRunIn(calls)
  /\ pending.timer => ~pending.running

\* A session is registered once it has greeted.
Registered == registry # None => session[registry] \notin {"new", "connecting"}

\* Version v is a snapshot of content c.
Published(v, c) == v \in DOMAIN stream /\ stream[v].ok /\ stream[v].content = c

\* If anything was published, something was published last.
LastExists ==
  (\E v \in DOMAIN stream : stream[v].ok) =>
    \E v \in DOMAIN stream : stream[v].ok /\ \A w \in DOMAIN stream : stream[w].ok => w <= v

\* What a call has loaded is a published version.
Loaded == \A i \in DOMAIN calls :
  calls[i].last # 0 => calls[i].last \in DOMAIN stream /\ stream[calls[i].last].ok

\* What is under way to an agent was published so.
Carried == \A s \in Sessions : \A k \in DOMAIN wire[s] :
  wire[s][k].type = "snapshot" => Published(wire[s][k].version, wire[s][k].content)

\* What the agent holds was published so.
Holds ==
  \/ agent.version = 0 /\ agent.content = Blank
  \/ Published(agent.version, agent.content)

TypeInv == Types /\ Coordinated /\ Registered
FeedInv == LastExists /\ Loaded /\ Carried /\ Holds

-----------------------------------------------------------------------------
(* Sequences of calls. *)

LEMMA BlankTyped == Blank \in Content
  BY DeliveryAssumption DEF Blank, Content

LEMMA NewCallTyped ==
  ASSUME NEW by \in Sessions \cup {"coordinator", "resync"}, NEW causes \in Seq(1 .. MaxChanges)
  PROVE  /\ NewCall(by, causes) \in Call
         /\ NewCall(by, causes).by = by /\ NewCall(by, causes).last = 0
  BY BlankTyped DEF NewCall, Call

\* A session is not the coordinator.
LEMMA NamesDiffer ==
  "coordinator" \notin Sessions /\ "resync" \notin Sessions /\ None \notin Sessions
  BY DeliveryAssumption

\* A call arrives.
LEMMA CallArrives ==
  ASSUME NEW q \in Seq(Call), NEW c \in Call
  PROVE  /\ Append(q, c) \in Seq(Call)
         /\ RunIn(Append(q, c)) <=> RunIn(q) \/ c.by = "coordinator"
         /\ OneRunIn(q) /\ (c.by = "coordinator" => ~RunIn(q)) => OneRunIn(Append(q, c))
         /\ \A j \in DOMAIN Append(q, c) :
              Append(q, c)[j] = c \/ (j \in DOMAIN q /\ Append(q, c)[j] = q[j])
<1>1. /\ Append(q, c) \in Seq(Call) /\ Len(Append(q, c)) = Len(q) + 1
      /\ Append(q, c)[Len(q) + 1] = c
      /\ \A k \in 1 .. Len(q) : Append(q, c)[k] = q[k]
      /\ DOMAIN q = 1 .. Len(q) /\ DOMAIN Append(q, c) = 1 .. Len(q) + 1 /\ Len(q) \in Nat
  OBVIOUS
<1>2. \A j \in 1 .. Len(q) + 1 : j \in 1 .. Len(q) \/ j = Len(q) + 1
  BY <1>1
<1>3. \A j \in 1 .. Len(q) : j \in 1 .. Len(q) + 1
  BY <1>1
<1>4. Len(q) + 1 \in 1 .. Len(q) + 1
  BY <1>1
<1>5. RunIn(Append(q, c)) <=> RunIn(q) \/ c.by = "coordinator"
  BY <1>1, <1>2, <1>3, <1>4 DEF RunIn
<1>6. OneRunIn(q) /\ (c.by = "coordinator" => ~RunIn(q)) => OneRunIn(Append(q, c))
  BY <1>1, <1>2 DEF RunIn, OneRunIn
<1> QED
  BY <1>1, <1>2, <1>5, <1>6

\* A call ends.
LEMMA CallEnds ==
  ASSUME NEW q \in Seq(Call), NEW i \in DOMAIN q, OneRunIn(q)
  PROVE  /\ RemoveAt(q, i) \in Seq(Call)
         /\ RunIn(RemoveAt(q, i)) <=> RunIn(q) /\ q[i].by # "coordinator"
         /\ OneRunIn(RemoveAt(q, i))
         /\ \A j \in DOMAIN RemoveAt(q, i) : \E k \in DOMAIN q \ {i} : RemoveAt(q, i)[j] = q[k]
<1> DEFINE r == RemoveAt(q, i)
           pos(j) == IF j < i THEN j ELSE j + 1
<1>1. Len(q) \in Nat /\ DOMAIN q = 1 .. Len(q) /\ i \in 1 .. Len(q)
  OBVIOUS
<1>2. r = SubSeq(q, 1, i - 1) \o SubSeq(q, i + 1, Len(q))
  BY DEF RemoveAt
<1>3. /\ SubSeq(q, 1, i - 1) \in Seq(Call) /\ Len(SubSeq(q, 1, i - 1)) = i - 1
      /\ \A j \in 1 .. i - 1 : SubSeq(q, 1, i - 1)[j] = q[j]
  BY <1>1
<1>4. /\ SubSeq(q, i + 1, Len(q)) \in Seq(Call) /\ Len(SubSeq(q, i + 1, Len(q))) = Len(q) - i
      /\ \A j \in 1 .. Len(q) - i : SubSeq(q, i + 1, Len(q))[j] = q[j + i]
  BY <1>1
<1> DEFINE a == SubSeq(q, 1, i - 1)
           b == SubSeq(q, i + 1, Len(q))
<1> HIDE DEF a, b
<1>5. r \in Seq(Call) /\ Len(r) = Len(q) - 1 /\ DOMAIN r = 1 .. Len(q) - 1
  <2>1. a \in Seq(Call) /\ b \in Seq(Call) /\ Len(a) = i - 1 /\ Len(b) = Len(q) - i /\ r = a \o b
    BY <1>2, <1>3, <1>4 DEF a, b
  <2>2. r \in Seq(Call) /\ Len(r) = Len(a) + Len(b)
    BY <2>1
  <2>3. Len(r) = Len(q) - 1
    BY <1>1, <2>1, <2>2
  <2> QED
    BY <2>2, <2>3
<1>6. \A j \in 1 .. Len(q) - 1 : r[j] = q[pos(j)] /\ pos(j) \in 1 .. Len(q) /\ pos(j) # i
  <2> SUFFICES ASSUME NEW j \in 1 .. Len(q) - 1
               PROVE  r[j] = q[pos(j)] /\ pos(j) \in 1 .. Len(q) /\ pos(j) # i
    OBVIOUS
  <2>1. a \in Seq(Call) /\ b \in Seq(Call) /\ Len(a) = i - 1 /\ Len(b) = Len(q) - i /\ r = a \o b
    BY <1>2, <1>3, <1>4 DEF a, b
  <2>2. CASE j < i
    <3>1. j \in 1 .. Len(a) /\ r[j] = a[j]
      BY <1>1, <2>1, <2>2
    <3>2. a[j] = q[j]
      BY <1>1, <1>3, <2>1, <3>1 DEF a
    <3> QED
      BY <1>1, <2>2, <3>1, <3>2
  <2>3. CASE j >= i
    <3>1. /\ j - (i - 1) \in 1 .. Len(q) - i /\ j > i - 1 /\ j <= Len(q) - 1
          /\ j - (i - 1) + i = j + 1
      BY <1>1, <2>3
    <3>2. r[j] = b[j - (i - 1)]
      <4>1. Len(a) = i - 1 /\ Len(a) + Len(b) = Len(q) - 1
        BY <1>1, <2>1
      <4>2. j \in 1 .. Len(a) + Len(b) /\ j > Len(a)
        BY <1>1, <3>1, <4>1
      <4>3. \A k \in 1 .. Len(a) + Len(b) : k > Len(a) => (a \o b)[k] = b[k - Len(a)]
        BY <2>1
      <4> QED
        BY <2>1, <4>1, <4>2, <4>3
    <3>3. b[j - (i - 1)] = q[j - (i - 1) + i]
      BY <1>4, <3>1 DEF b
    <3>4. pos(j) = j + 1
      BY <2>3 DEF pos
    <3> QED
      BY <1>1, <2>3, <3>2, <3>3, <3>4
  <2> QED
    BY <1>1, <2>2, <2>3
<1>7. \A k \in 1 .. Len(q) : k # i => \E j \in 1 .. Len(q) - 1 : pos(j) = k
  <2> SUFFICES ASSUME NEW k \in 1 .. Len(q), k # i
               PROVE  \E j \in 1 .. Len(q) - 1 : pos(j) = k
    OBVIOUS
  <2>1. CASE k < i
    BY <1>1, <2>1
  <2>2. CASE k > i
    <3>1. k - 1 \in 1 .. Len(q) - 1 /\ pos(k - 1) = k
      BY <1>1, <2>2
    <3> QED
      BY <3>1
  <2> QED
    BY <1>1, <2>1, <2>2
<1>8. \A j, k \in 1 .. Len(q) - 1 : pos(j) = pos(k) => j = k
  BY <1>1
<1> HIDE DEF r, pos
<1>9. RunIn(r) <=> RunIn(q) /\ q[i].by # "coordinator"
  <2>1. ASSUME NEW j \in DOMAIN r, r[j].by = "coordinator"
        PROVE  RunIn(q) /\ q[i].by # "coordinator"
    BY <1>1, <1>5, <1>6, <2>1 DEF RunIn, OneRunIn
  <2>2. ASSUME NEW k \in DOMAIN q, q[k].by = "coordinator", q[i].by # "coordinator"
        PROVE  RunIn(r)
    <3>1. PICK j \in 1 .. Len(q) - 1 : pos(j) = k
      BY <1>1, <1>7, <2>2
    <3> QED
      BY <1>5, <1>6, <2>2, <3>1 DEF RunIn
  <2> QED
    BY <2>1, <2>2 DEF RunIn
<1>10. OneRunIn(r)
  BY <1>1, <1>5, <1>6, <1>8 DEF OneRunIn
<1>11. \A j \in DOMAIN r : \E k \in DOMAIN q \ {i} : r[j] = q[k]
  BY <1>1, <1>5, <1>6
<1> QED
  BY <1>5, <1>9, <1>10, <1>11 DEF r

\* A call goes on.
LEMMA CallGoesOn ==
  ASSUME NEW q \in Seq(Call), NEW i \in DOMAIN q, NEW c \in Call, c.by = q[i].by
  PROVE  /\ [q EXCEPT ![i] = c] \in Seq(Call)
         /\ RunIn([q EXCEPT ![i] = c]) <=> RunIn(q)
         /\ OneRunIn(q) => OneRunIn([q EXCEPT ![i] = c])
         /\ \A j \in DOMAIN [q EXCEPT ![i] = c] :
              [q EXCEPT ![i] = c][j] = c \/ \E k \in DOMAIN q : [q EXCEPT ![i] = c][j] = q[k]
<1> DEFINE r == [q EXCEPT ![i] = c]
<1>1. r \in Seq(Call) /\ DOMAIN r = DOMAIN q /\ r[i] = c /\ \A j \in DOMAIN q : j # i => r[j] = q[j]
  OBVIOUS
<1> HIDE DEF r
<1>2. \A j \in DOMAIN q : r[j].by = q[j].by
  BY <1>1
<1>3. RunIn(r) <=> RunIn(q)
  BY <1>1, <1>2 DEF RunIn
<1>4. OneRunIn(q) => OneRunIn(r)
  BY <1>1, <1>2 DEF OneRunIn
<1>5. \A j \in DOMAIN r : r[j] = c \/ \E k \in DOMAIN q : r[j] = q[k]
  BY <1>1
<1> QED
  BY <1>1, <1>3, <1>4, <1>5 DEF r

-----------------------------------------------------------------------------
(* What the steps share. *)

\* Calls after a step: none is new but c.
CallsWere(c) ==
  \A j \in DOMAIN calls' : calls'[j] = c \/ \E k \in DOMAIN calls : calls'[j] = calls[k]

\* Messages under way after a step: none is new but m.
WireWas(m) ==
  \A t \in Sessions : \A k \in DOMAIN wire'[t] :
    wire'[t][k] = m \/ \E l \in DOMAIN wire[t] : wire'[t][k] = wire[t][l]

LEMMA SendTyped ==
  ASSUME Types, NEW s \in Sessions, NEW m \in Message, Send(s, m)
  PROVE  wire' \in [Sessions -> Seq(Message)] /\ told' \in [Sessions -> Nat] /\ WireWas(m)
<1>1. wire \in [Sessions -> Seq(Message)] /\ told \in [Sessions -> Nat]
  BY DEF Types
<1>2. CASE s \in open
  <2>1. wire' = [wire EXCEPT ![s] = Append(wire[s], m)] /\ told' = [told EXCEPT ![s] = m.version]
    BY <1>2 DEF Send
  <2>2. m.version \in Nat
    BY DEF Message
  <2>3. Append(wire[s], m) \in Seq(Message)
    BY <1>1
  <2>4. WireWas(m)
    <3> SUFFICES ASSUME NEW t \in Sessions, NEW k \in DOMAIN wire'[t]
                 PROVE  wire'[t][k] = m \/ \E l \in DOMAIN wire[t] : wire'[t][k] = wire[t][l]
      BY DEF WireWas
    <3>1. CASE t = s
      <4>1. wire'[t] = Append(wire[t], m) /\ wire[t] \in Seq(Message)
        BY <1>1, <2>1, <3>1
      <4> QED
        BY <4>1
    <3>2. CASE t # s
      BY <1>1, <2>1, <3>2
    <3> QED
      BY <3>1, <3>2
  <2> QED
    BY <1>1, <2>1, <2>2, <2>3, <2>4
<1>3. CASE s \notin open
  BY <1>1, <1>3 DEF Send, WireWas
<1> QED
  BY <1>2, <1>3

LEMMA PushTyped ==
  ASSUME Types, NEW m \in Message, Push(m)
  PROVE  wire' \in [Sessions -> Seq(Message)] /\ told' \in [Sessions -> Nat] /\ WireWas(m)
<1>1. CASE registry = None
  BY <1>1 DEF Push, Types, WireWas
<1>2. CASE registry # None
  <2>1. registry \in Sessions
    BY <1>2 DEF Types
  <2> QED
    BY <1>2, <2>1, SendTyped DEF Push
<1> QED
  BY <1>1, <1>2

LEMMA WireKept ==
  ASSUME Types, UNCHANGED <<wire, told>>, NEW m
  PROVE  wire' \in [Sessions -> Seq(Message)] /\ told' \in [Sessions -> Nat] /\ WireWas(m)
  BY DEF Types, WireWas

\* The end of a run.
LEMMA RunEnds ==
  ASSUME Types, EndRun
  PROVE  pending' \in Pending /\ ~pending'.running
<1>1. Idle \in Pending /\ ~Idle.running
  BY DEF Idle, Pending
<1> QED
  BY <1>1 DEF EndRun, Types, Pending

\* What every end of a call does to the calls and to the coordinator.
LEMMA CallerCoordinated ==
  ASSUME TypeInv, NEW i \in DOMAIN calls, calls' = RemoveAt(calls, i),
         IF calls[i].by = "coordinator" THEN EndRun ELSE UNCHANGED pending
  PROVE  /\ calls' \in Seq(Call) /\ pending' \in Pending /\ Coordinated'
         /\ \A c : CallsWere(c)
<1>1. calls \in Seq(Call) /\ OneRunIn(calls) /\ (pending.running <=> RunIn(calls))
      /\ (pending.timer => ~pending.running) /\ pending \in Pending
  BY DEF TypeInv, Types, Coordinated
<1>2. /\ calls' \in Seq(Call) /\ (RunIn(calls') <=> RunIn(calls) /\ calls[i].by # "coordinator")
      /\ OneRunIn(calls')
      /\ \A j \in DOMAIN calls' : \E k \in DOMAIN calls : calls'[j] = calls[k]
  BY <1>1, CallEnds
<1>3. \A c : CallsWere(c)
  BY <1>2 DEF CallsWere
<1>4. CASE calls[i].by = "coordinator"
  <2>1. pending' \in Pending /\ ~pending'.running
    BY <1>4, RunEnds DEF TypeInv
  <2> QED
    BY <1>2, <1>3, <1>4, <2>1 DEF Coordinated
<1>5. CASE calls[i].by # "coordinator"
  BY <1>1, <1>2, <1>3, <1>5 DEF Coordinated
<1> QED
  BY <1>4, <1>5

\* A session's handler goes live.
LEMMA GoesLive ==
  ASSUME TypeInv, NEW s \in Sessions, session' = [session EXCEPT ![s] = "live"],
         registry' \in {registry, None}
  PROVE  session' \in [Sessions -> SessionPc] /\ Registered'
<1>1. session \in [Sessions -> SessionPc] /\ registry \in Sessions \cup {None}
  BY DEF TypeInv, Types
<1> QED
  BY <1>1 DEF TypeInv, Registered, SessionPc

LEMMA ResumeTyped ==
  ASSUME TypeInv, NEW i \in DOMAIN calls, NEW m \in Message, NEW changed \in BOOLEAN,
         Resume(i, m, changed)
  PROVE  /\ calls' \in Seq(Call) /\ pending' \in Pending /\ Coordinated' /\ \A c : CallsWere(c)
         /\ session' \in [Sessions -> SessionPc] /\ Registered'
         /\ wire' \in [Sessions -> Seq(Message)] /\ told' \in [Sessions -> Nat] /\ WireWas(m)
         /\ UNCHANGED <<account, changes, registry, open, agent>>
<1>1. calls[i].by \in Sessions \cup {"coordinator", "resync"}
  <2>1. calls[i] \in Call
    BY DEF TypeInv, Types
  <2> QED
    BY <2>1 DEF Call
<1>2. Types
  BY DEF TypeInv
<1>3. calls' = RemoveAt(calls, i) /\ UNCHANGED <<account, changes, registry, open, agent>>
  BY DEF Resume
<1>4. CASE calls[i].by = "coordinator"
  <2>1. /\ changed => Push(m)
        /\ ~changed => UNCHANGED <<wire, told>>
        /\ EndRun /\ UNCHANGED session
    BY <1>4, NamesDiffer DEF Resume
  <2>2. wire' \in [Sessions -> Seq(Message)] /\ told' \in [Sessions -> Nat] /\ WireWas(m)
    BY <1>2, <2>1, PushTyped, WireKept
  <2>3. session' \in [Sessions -> SessionPc] /\ Registered'
    BY <1>3, <2>1 DEF TypeInv, Types, Registered
  <2> QED
    BY <1>3, <1>4, <2>1, <2>2, <2>3, CallerCoordinated
<1>5. CASE calls[i].by = "resync"
  <2>1. Push(m) /\ UNCHANGED pending /\ UNCHANGED session
    BY <1>5, NamesDiffer DEF Resume
  <2>2. wire' \in [Sessions -> Seq(Message)] /\ told' \in [Sessions -> Nat] /\ WireWas(m)
    BY <1>2, <2>1, PushTyped
  <2>3. session' \in [Sessions -> SessionPc] /\ Registered'
    BY <1>3, <2>1 DEF TypeInv, Types, Registered
  <2> QED
    BY <1>3, <1>5, <2>1, <2>2, <2>3, CallerCoordinated
<1>6. CASE calls[i].by \in Sessions
  <2>1. /\ Send(calls[i].by, m) /\ UNCHANGED pending
        /\ session' = [session EXCEPT ![calls[i].by] = "live"]
    BY <1>6, NamesDiffer DEF Resume
  <2>2. wire' \in [Sessions -> Seq(Message)] /\ told' \in [Sessions -> Nat] /\ WireWas(m)
    BY <1>2, <1>6, <2>1, SendTyped
  <2>3. session' \in [Sessions -> SessionPc] /\ Registered'
    BY <1>3, <1>6, <2>1, GoesLive
  <2>4. calls[i].by # "coordinator"
    BY <1>6, NamesDiffer
  <2> QED
    BY <1>3, <2>1, <2>2, <2>3, <2>4, CallerCoordinated
<1> QED
  BY <1>1, <1>4, <1>5, <1>6

LEMMA EndTyped ==
  ASSUME Types, NEW s, End(s)
  PROVE  open' \in SUBSET Sessions /\ registry' \in open' \cup {None} /\ registry' \in {registry, None}
  BY DEF Types, End

LEMMA ResumeEmptyTyped ==
  ASSUME TypeInv, NEW i \in DOMAIN calls, NEW thrown \in BOOLEAN, ResumeEmpty(i, thrown)
  PROVE  /\ calls' \in Seq(Call) /\ pending' \in Pending /\ Coordinated' /\ \A c : CallsWere(c)
         /\ session' \in [Sessions -> SessionPc] /\ Registered'
         /\ open' \in SUBSET Sessions /\ registry' \in open' \cup {None}
         /\ UNCHANGED <<account, changes, wire, told, agent>>
<1>1. /\ calls' = RemoveAt(calls, i) /\ UNCHANGED <<account, changes, wire, told, agent>>
      /\ IF calls[i].by = "coordinator" THEN EndRun ELSE UNCHANGED pending
  BY DEF ResumeEmpty
<1>2. calls' \in Seq(Call) /\ pending' \in Pending /\ Coordinated' /\ \A c : CallsWere(c)
  BY <1>1, CallerCoordinated
<1>3. CASE calls[i].by \in Sessions
  <2>1. session' = [session EXCEPT ![calls[i].by] = "live"]
    BY <1>3 DEF ResumeEmpty
  <2>2. /\ open' \in SUBSET Sessions /\ registry' \in open' \cup {None}
        /\ registry' \in {registry, None}
    <3>1. CASE thrown
      <4>1. End(calls[i].by)
        BY <1>3, <3>1 DEF ResumeEmpty
      <4> QED
        BY <4>1, EndTyped DEF TypeInv
    <3>2. CASE ~thrown
      BY <1>3, <3>2 DEF ResumeEmpty, TypeInv, Types
    <3> QED
      BY <3>1, <3>2
  <2> QED
    BY <1>1, <1>2, <1>3, <2>1, <2>2, GoesLive
<1>4. CASE calls[i].by \notin Sessions
  BY <1>1, <1>2, <1>4 DEF ResumeEmpty, connections, TypeInv, Types, Registered
<1> QED
  BY <1>3, <1>4

-----------------------------------------------------------------------------
(* Type correctness. *)

LEMMA TypeInit == Init => TypeInv
<1> SUFFICES ASSUME Init
             PROVE  TypeInv
  OBVIOUS
<1>1. Idle \in Pending /\ ~Idle.running /\ ~Idle.timer
  BY DEF Idle, Pending
<1>2. Types
  <2>1. stream \in Seq(Event)
    <3> DEFINE e == [ok |-> TRUE, content |-> Blank, causes |-> <<>>]
    <3>1. e \in Event
      BY BlankTyped DEF Event
    <3>2. stream = <<>> \/ stream = <<e>>
      BY DEF Init
    <3> HIDE DEF e
    <3>3. <<e>> \in [1 .. 1 -> Event] /\ <<>> \in Seq(Event)
      BY <3>1
    <3>4. <<e>> \in Seq(Event)
      BY <3>3
    <3> QED
      BY <3>2, <3>3, <3>4
  <2> QED
    BY <1>1, <2>1, BlankTyped, DeliveryAssumption DEF Init, Types, SessionPc
<1>3. Coordinated /\ Registered
  BY <1>1 DEF Init, Coordinated, Registered, RunIn, OneRunIn
<1> QED
  BY <1>2, <1>3 DEF TypeInv

LEMMA FaultTyped ==
  ASSUME Types, NEW kind, Fault(kind)
  PROVE  faults' \in 0 .. MaxFaults
<1>1. faults \in 0 .. MaxFaults
  BY DEF Types
<1> QED
  BY <1>1, DeliveryAssumption DEF Fault

\* Changes and their requests.
LEMMA ChangeTypes ==
  ASSUME TypeInv, NEW p \in Parts, Change(p)
  PROVE  TypeInv'
<1> DEFINE n == Len(changes) + 1
           r == [cause |-> IF n \in IpChanges THEN n ELSE 0, pc |-> "committed"]
<1>1. n \in 0 .. MaxChanges /\ 0 \in 0 .. MaxChanges
  BY DeliveryAssumption DEF Change, TypeInv, Types
<1>2. r \in ChangeRec
  BY <1>1 DEF ChangeRec, ChangePc
<1>3. account' \in Content
  BY DEF Change, TypeInv, Types, Content
<1>4. changes' \in Seq(ChangeRec)
  BY <1>2 DEF Change, TypeInv, Types
<1> QED
  BY <1>3, <1>4 DEF Change, TypeInv, Types, connections, Coordinated, Registered

LEMMA ScheduleTypes ==
  ASSUME TypeInv, NEW i \in DOMAIN changes, Schedule(i) \/ LoseSchedule(i)
  PROVE  TypeInv'
<1>1. changes \in Seq(ChangeRec) /\ changes[i] \in ChangeRec
  BY DEF TypeInv, Types
<1>2. changes' \in Seq(ChangeRec)
  <2>1. \A pc \in ChangePc : [changes[i] EXCEPT !.pc = pc] \in ChangeRec
    BY <1>1 DEF ChangeRec
  <2>2. \E pc \in ChangePc : changes' = [changes EXCEPT ![i] = [changes[i] EXCEPT !.pc = pc]]
    BY DEF Schedule, LoseSchedule, ChangePc
  <2> QED
    BY <1>1, <2>1, <2>2
<1>3. CASE Schedule(i)
  <2>1. changes[i].cause # 0 => changes[i].cause \in 1 .. MaxChanges
    BY <1>1 DEF ChangeRec
  <2>2. /\ pending \in Pending /\ pending.causes \in Seq(1 .. MaxChanges)
        /\ pending.timer \in BOOLEAN /\ pending.running \in BOOLEAN /\ pending.dirty \in BOOLEAN
    BY DEF TypeInv, Types, Pending
  <2>3. changes[i].cause # 0 => Append(pending.causes, changes[i].cause) \in Seq(1 .. MaxChanges)
    BY <2>1, <2>2
  <2>4. /\ pending' \in Pending /\ pending'.running = pending.running
        /\ pending'.timer = (pending.timer \/ ~pending.running)
    BY <1>3, <2>2, <2>3 DEF Schedule, Pending
  <2>5. Coordinated'
    BY <1>3, <2>2, <2>4 DEF Schedule, TypeInv, Coordinated
  <2> QED
    BY <1>2, <1>3, <2>4, <2>5 DEF Schedule, TypeInv, Types, connections, Registered
<1>4. CASE LoseSchedule(i)
  <2>1. faults' \in 0 .. MaxFaults
    BY <1>4, FaultTyped DEF LoseSchedule, TypeInv
  <2> QED
    BY <1>2, <1>4, <2>1 DEF LoseSchedule, TypeInv, Types, connections, Coordinated, Registered
<1> QED
  BY <1>3, <1>4

\* A call arrives at the publisher.
LEMMA RunTypes ==
  ASSUME TypeInv, Run
  PROVE  TypeInv'
<1>1. /\ pending \in Pending /\ pending.causes \in Seq(1 .. MaxChanges) /\ ~pending.running
      /\ calls \in Seq(Call) /\ ~RunIn(calls) /\ OneRunIn(calls)
  BY DEF Run, TypeInv, Types, Coordinated, Pending
<1>2. NewCall("coordinator", pending.causes) \in Call /\ NewCall("coordinator", pending.causes).by = "coordinator"
  BY <1>1, NewCallTyped
<1>3. calls' \in Seq(Call) /\ RunIn(calls') /\ OneRunIn(calls')
  BY <1>1, <1>2, CallArrives DEF Run
<1>4. pending' \in Pending /\ pending'.running /\ ~pending'.timer
  BY DEF Run, Pending
<1> QED
  BY <1>3, <1>4 DEF Run, TypeInv, Types, connections, Coordinated, Registered

\* Another caller arrives.
LEMMA CallerTypes ==
  ASSUME TypeInv, NEW by \in Sessions \cup {"resync"}, calls' = Append(calls, NewCall(by, <<>>)),
         UNCHANGED pending
  PROVE  calls' \in Seq(Call) /\ Coordinated'
<1>1. <<>> \in Seq(1 .. MaxChanges) /\ by \in Sessions \cup {"coordinator", "resync"}
      /\ by # "coordinator"
  BY NamesDiffer
<1>2. NewCall(by, <<>>) \in Call /\ NewCall(by, <<>>).by = by
  BY <1>1, NewCallTyped
<1>3. calls \in Seq(Call) /\ OneRunIn(calls) /\ (pending.running <=> RunIn(calls))
      /\ (pending.timer => ~pending.running)
  BY DEF TypeInv, Types, Coordinated
<1>4. calls' \in Seq(Call) /\ (RunIn(calls') <=> RunIn(calls)) /\ OneRunIn(calls')
  BY <1>1, <1>2, <1>3, CallArrives
<1> QED
  BY <1>3, <1>4 DEF Coordinated

LEMMA ResyncTypes ==
  ASSUME TypeInv, Resync
  PROVE  TypeInv'
<1>1. calls' \in Seq(Call) /\ Coordinated'
  BY CallerTypes DEF Resync, coordination
<1> QED
  BY <1>1 DEF Resync, TypeInv, Types, coordination, connections, Registered

\* The last event of a stream that is a publication.
IsLast(q, l) ==
  /\ l \in Nat
  /\ l # 0 => l \in DOMAIN q /\ q[l].ok
  /\ \A v \in DOMAIN q : q[v].ok => v <= l

LEMMA LastIn ==
  ASSUME NEW q \in Seq(Event),
         (\E v \in DOMAIN q : q[v].ok) =>
           \E v \in DOMAIN q : q[v].ok /\ \A w \in DOMAIN q : q[w].ok => w <= v
  PROVE  IsLast(q, SelectLastInSeq(q, LAMBDA e : e.ok))
<1> DEFINE I == {v \in 1 .. Len(q) : q[v].ok}
<1> SUFFICES ASSUME NEW l, l = SelectLastInSeq(q, LAMBDA e : e.ok)
             PROVE  IsLast(q, l)
  OBVIOUS
<1>1. DOMAIN q = 1 .. Len(q) /\ Len(q) \in Nat
  OBVIOUS
<1>2. l = IF I # {} THEN Max(I) ELSE 0
  BY DEF SelectLastInSeq
<1>3. CASE I = {}
  <2>1. l = 0
    BY <1>2, <1>3
  <2> QED
    BY <1>1, <1>3, <2>1 DEF IsLast
<1>4. CASE I # {}
  <2>1. \E v \in I : \A w \in I : v >= w
    BY <1>1, <1>4
  <2>2. Max(I) \in I /\ \A w \in I : Max(I) >= w
    BY <2>1 DEF Max
  <2>3. l = Max(I)
    BY <1>2, <1>4
  <2> QED
    BY <1>1, <2>2, <2>3 DEF IsLast
<1> QED
  BY <1>3, <1>4

\* The last published version exists.
LEMMA LastSound ==
  ASSUME stream \in Seq(Event), LastExists
  PROVE  /\ LastPublished \in Nat
         /\ LastPublished # 0 => LastPublished \in DOMAIN stream /\ stream[LastPublished].ok
  BY LastIn DEF LastExists, LastPublished, IsLast

\* A call that is at work.
LEMMA CallTyped ==
  ASSUME Types, NEW i \in DOMAIN calls
  PROVE  /\ calls[i] \in Call /\ calls[i].content \in Content /\ calls[i].last \in Nat
         /\ calls[i].causes \in Seq(1 .. MaxChanges) /\ calls[i].todo \in SUBSET Parts
<1>1. calls[i] \in Call
  BY DEF Types
<1> QED
  BY <1>1 DEF Call

LEMMA LoadTypes ==
  ASSUME TypeInv, LastExists, NEW i \in DOMAIN calls, LoadProvider(i)
  PROVE  TypeInv'
<1> DEFINE c == [calls[i] EXCEPT !.pc = "reading", !.last = LastPublished, !.todo = Parts]
<1>1. calls[i] \in Call /\ calls \in Seq(Call)
  BY CallTyped DEF TypeInv, Types
<1>2. LastPublished \in Nat
  BY LastSound DEF TypeInv, Types
<1>3. c \in Call /\ c.by = calls[i].by
  BY <1>1, <1>2 DEF Call
<1>4. calls' = [calls EXCEPT ![i] = c]
  BY DEF LoadProvider
<1> HIDE DEF c
<1>5. calls' \in Seq(Call) /\ (RunIn(calls') <=> RunIn(calls)) /\ OneRunIn(calls')
  BY <1>1, <1>3, <1>4, CallGoesOn DEF TypeInv, Coordinated
<1> QED
  BY <1>5 DEF LoadProvider, TypeInv, Types, coordination, connections, Coordinated, Registered

LEMMA BuildTypes ==
  ASSUME TypeInv, NEW i \in DOMAIN calls, NEW p \in Parts, BuildSnapshotContent(i, p)
  PROVE  TypeInv'
<1> DEFINE c == [calls[i] EXCEPT !.todo = @ \ {p},
                                 !.content = [calls[i].content EXCEPT ![p] = account[p]]]
<1>1. /\ calls[i] \in Call /\ calls \in Seq(Call) /\ calls[i].content \in Content
      /\ calls[i].todo \in SUBSET Parts /\ account \in Content
  BY CallTyped DEF TypeInv, Types
<1>2. [calls[i].content EXCEPT ![p] = account[p]] \in Content
  BY <1>1 DEF Content
<1>3. c \in Call /\ c.by = calls[i].by
  BY <1>1, <1>2 DEF Call
<1>4. calls' = [calls EXCEPT ![i] = c]
  BY DEF BuildSnapshotContent
<1> HIDE DEF c
<1>5. calls' \in Seq(Call) /\ (RunIn(calls') <=> RunIn(calls)) /\ OneRunIn(calls')
  BY <1>1, <1>3, <1>4, CallGoesOn DEF TypeInv, Coordinated
<1> QED
  BY <1>5 DEF BuildSnapshotContent, TypeInv, Types, coordination, connections, Coordinated, Registered

\* The message of a call that ends with a snapshot.
LEMMA SnapshotTyped ==
  ASSUME NEW v \in Nat, NEW c \in Content
  PROVE  /\ Snapshot(v, c) \in Message /\ Snapshot(v, c).type = "snapshot"
         /\ Snapshot(v, c).version = v /\ Snapshot(v, c).content = c
  BY DEF Snapshot, Message

\* The event of a call.
LEMMA EventTyped ==
  ASSUME Types, NEW i \in DOMAIN calls, NEW ok \in BOOLEAN, stream' = NewEvent(i, ok)
  PROVE  stream' \in Seq(Event)
<1>1. [ok |-> ok, content |-> calls[i].content, causes |-> calls[i].causes] \in Event
  BY CallTyped DEF Event
<1> QED
  BY <1>1 DEF NewEvent, Types

LEMMA EndsTypes ==
  ASSUME TypeInv, NEW i \in DOMAIN calls, Unchanged(i) \/ Publish(i) \/ Exceeds(i)
  PROVE  TypeInv'
<1>1. calls[i].content \in Content /\ calls[i].last \in Nat /\ Len(stream) + 1 \in Nat
  BY CallTyped DEF TypeInv, Types
<1>2. CASE Unchanged(i)
  <2>1. Resume(i, Snapshot(calls[i].last, calls[i].content), FALSE) /\ UNCHANGED <<stream, faults>>
    BY <1>2 DEF Unchanged
  <2>2. Snapshot(calls[i].last, calls[i].content) \in Message
    BY <1>1, SnapshotTyped
  <2> QED
    BY <2>1, <2>2, ResumeTyped DEF TypeInv, Types
<1>3. CASE Publish(i)
  <2>1. /\ Resume(i, Snapshot(Len(stream) + 1, calls[i].content), TRUE) /\ UNCHANGED faults
        /\ stream' = NewEvent(i, TRUE)
    BY <1>3 DEF Publish
  <2>2. stream' \in Seq(Event)
    BY <2>1, EventTyped DEF TypeInv
  <2>3. Snapshot(Len(stream) + 1, calls[i].content) \in Message
    BY <1>1, SnapshotTyped
  <2> QED
    BY <2>1, <2>2, <2>3, ResumeTyped DEF TypeInv, Types
<1>4. CASE Exceeds(i)
  <2>1. stream' = NewEvent(i, FALSE) /\ ResumeEmpty(i, FALSE) /\ UNCHANGED faults
    BY <1>4 DEF Exceeds
  <2>2. stream' \in Seq(Event)
    BY <2>1, EventTyped DEF TypeInv
  <2> QED
    BY <2>1, <2>2, ResumeEmptyTyped DEF TypeInv, Types
<1> QED
  BY <1>2, <1>3, <1>4

LEMMA ThrowsTypes ==
  ASSUME TypeInv, NEW i \in DOMAIN calls, PublishThrows(i) \/ AnswerLost(i)
  PROVE  TypeInv'
<1>1. ResumeEmpty(i, TRUE)
  BY DEF PublishThrows, AnswerLost
<1>2. faults' \in 0 .. MaxFaults
  BY FaultTyped DEF PublishThrows, AnswerLost, TypeInv
<1>3. stream' \in Seq(Event)
  <2>1. CASE PublishThrows(i)
    BY <2>1 DEF PublishThrows, TypeInv, Types
  <2>2. CASE AnswerLost(i)
    <3>1. stream' = NewEvent(i, ~Size(calls[i].content)) /\ (~Size(calls[i].content)) \in BOOLEAN
      BY <2>2 DEF AnswerLost, Size
    <3> QED
      BY <3>1, EventTyped DEF TypeInv
  <2> QED
    BY <2>1, <2>2
<1> QED
  BY <1>1, <1>2, <1>3, ResumeEmptyTyped DEF TypeInv, Types

\* Sessions.
LEMMA ConnectTypes ==
  ASSUME TypeInv, NEW s \in Sessions, Connect(s)
  PROVE  TypeInv'
<1>1. session' \in [Sessions -> SessionPc] /\ open' \in SUBSET Sessions
  BY DEF Connect, TypeInv, Types, SessionPc
<1>2. agent' \in [session : Sessions \cup {None}, version : Nat, content : Content]
  BY DEF Connect, TypeInv, Types
<1>3. registry' \in open' \cup {None}
  BY DEF Connect, TypeInv, Types
<1>4. Registered'
  BY DEF Connect, TypeInv, Types, Registered
<1> QED
  BY <1>1, <1>2, <1>3, <1>4 DEF Connect, TypeInv, Types, coordination, Coordinated

LEMMA HelloTypes ==
  ASSUME TypeInv, NEW s \in Sessions, OnHello(s)
  PROVE  TypeInv'
<1>1. session' \in [Sessions -> SessionPc] /\ open' \in SUBSET Sessions
  BY DEF OnHello, TypeInv, Types, SessionPc
<1>2. registry # s
  BY NamesDiffer DEF OnHello, TypeInv, Registered
<1>3. registry' \in open' \cup {None}
  BY <1>2 DEF OnHello
<1>4. Registered'
  BY DEF OnHello, TypeInv, Types, Registered
<1> QED
  BY <1>1, <1>3, <1>4 DEF OnHello, TypeInv, Types, coordination, Coordinated

LEMMA HelloTyped ==
  LET m == [type |-> "hello", version |-> 0, content |-> Blank]
  IN  m \in Message /\ m.type # "snapshot"
  BY BlankTyped DEF Message

LEMMA ReplyTypes ==
  ASSUME TypeInv, NEW s \in Sessions, ReplyHello(s)
  PROVE  TypeInv'
<1>1. session' \in [Sessions -> SessionPc] /\ Registered'
  BY DEF ReplyHello, TypeInv, Types, SessionPc, Registered
<1>2. calls' \in Seq(Call) /\ Coordinated'
  BY CallerTypes DEF ReplyHello, coordination
<1>3. wire' \in [Sessions -> Seq(Message)]
  BY HelloTyped DEF ReplyHello, TypeInv, Types
<1> QED
  BY <1>1, <1>2, <1>3 DEF ReplyHello, TypeInv, Types, coordination

LEMMA SyncTypes ==
  ASSUME TypeInv, NEW s \in Sessions, SyncRequest(s)
  PROVE  TypeInv'
<1>1. session' \in [Sessions -> SessionPc] /\ Registered'
  BY DEF SyncRequest, TypeInv, Types, SessionPc, Registered
<1>2. calls' \in Seq(Call) /\ Coordinated'
  BY CallerTypes DEF SyncRequest, coordination
<1> QED
  BY <1>1, <1>2 DEF SyncRequest, TypeInv, Types, coordination

LEMMA ClosedTypes ==
  ASSUME TypeInv, NEW s \in Sessions, OnClosed(s) \/ HelloThrows(s)
  PROVE  TypeInv'
<1>1. /\ open' \in SUBSET Sessions /\ registry' \in open' \cup {None}
      /\ registry' \in {registry, None}
  BY EndTyped DEF OnClosed, HelloThrows, TypeInv
<1>2. CASE OnClosed(s)
  BY <1>1, <1>2 DEF OnClosed, TypeInv, Types, coordination, Coordinated, Registered
<1>3. CASE HelloThrows(s)
  <2>1. session' \in [Sessions -> SessionPc] /\ Registered'
    BY <1>1, <1>3, GoesLive DEF HelloThrows
  <2>2. faults' \in 0 .. MaxFaults
    BY <1>3, FaultTyped DEF HelloThrows, TypeInv
  <2> QED
    BY <1>1, <1>3, <2>1, <2>2 DEF HelloThrows, TypeInv, Types, coordination, Coordinated
<1> QED
  BY <1>2, <1>3

\* The agent.
LEMMA MessageTypes ==
  ASSUME TypeInv, OnMessage
  PROVE  TypeInv'
<1> DEFINE s == agent.session
           m == Head(wire[s])
<1>1. s \in Sessions /\ wire[s] \in Seq(Message) /\ wire[s] # <<>>
  BY DEF OnMessage, TypeInv, Types
<1>2. m \in Message /\ Tail(wire[s]) \in Seq(Message)
  BY <1>1
<1>3. wire' \in [Sessions -> Seq(Message)]
  BY <1>1, <1>2 DEF OnMessage, TypeInv, Types
<1>4. m.version \in Nat /\ m.content \in Content
  BY <1>2 DEF Message
<1>5. agent' = agent \/ agent' = [agent EXCEPT !.version = m.version, !.content = m.content]
  BY DEF OnMessage
<1> HIDE DEF m, s
<1>6. agent' \in [session : Sessions \cup {None}, version : Nat, content : Content]
  BY <1>4, <1>5 DEF TypeInv, Types
<1> QED
  BY <1>3, <1>6 DEF OnMessage, TypeInv, Types, coordination, connections, Coordinated, Registered

LEMMA AgentTypes ==
  ASSUME TypeInv, OnDisconnected \/ LinkLost \/ AgentRestart
  PROVE  TypeInv'
<1>1. agent' \in [session : Sessions \cup {None}, version : Nat, content : Content]
  <2>1. CASE AgentRestart
    BY <2>1, BlankTyped DEF AgentRestart
  <2>2. CASE OnDisconnected \/ LinkLost
    BY <2>2 DEF OnDisconnected, LinkLost, TypeInv, Types
  <2> QED
    BY <2>1, <2>2
<1>2. faults' \in 0 .. MaxFaults
  BY FaultTyped DEF OnDisconnected, LinkLost, AgentRestart, TypeInv, Types
<1> QED
  BY <1>1, <1>2 DEF OnDisconnected, LinkLost, AgentRestart, TypeInv, Types, coordination,
     connections, Coordinated, Registered

\* The end of the backend process.
LEMMA CrashTypes ==
  ASSUME TypeInv, Crash
  PROVE  TypeInv'
<1>1. changes' \in Seq(ChangeRec)
  <2>1. changes \in Seq(ChangeRec)
    BY DEF TypeInv, Types
  <2>2. \A i \in DOMAIN changes : [changes[i] EXCEPT !.pc = "lost"] \in ChangeRec
    <3>1. \A i \in DOMAIN changes : changes[i] \in ChangeRec
      BY <2>1
    <3> QED
      BY <3>1 DEF ChangeRec, ChangePc
  <2>3. Len(changes) \in Nat /\ DOMAIN changes = 1 .. Len(changes)
    BY <2>1
  <2>4. changes' \in [1 .. Len(changes) -> ChangeRec]
    BY <2>1, <2>2, <2>3 DEF Crash
  <2> QED
    BY <2>3, <2>4
<1>2. pending' \in Pending /\ ~pending'.running /\ ~pending'.timer
  BY DEF Crash, Idle, Pending
<1>3. calls' = <<>> /\ calls' \in Seq(Call) /\ ~RunIn(calls') /\ OneRunIn(calls')
  BY DEF Crash, RunIn, OneRunIn
<1>4. session' \in [Sessions -> SessionPc]
  BY DEF Crash, SessionPc
<1>5. faults' \in 0 .. MaxFaults
  BY FaultTyped DEF Crash, TypeInv
<1> QED
  BY <1>1, <1>2, <1>3, <1>4, <1>5 DEF Crash, TypeInv, Types, Coordinated, Registered

LEMMA TypeStep == TypeInv /\ LastExists /\ [Next]_vars => TypeInv'
<1> SUFFICES ASSUME TypeInv, LastExists, [Next]_vars
             PROVE  TypeInv'
  OBVIOUS
<1>1. CASE UNCHANGED vars
  BY <1>1 DEF vars, coordination, connections, TypeInv, Types, Coordinated, Registered
<1>2. CASE Next
  BY <1>2, ChangeTypes, ScheduleTypes, RunTypes, ResyncTypes, LoadTypes, BuildTypes, EndsTypes,
     ThrowsTypes, ConnectTypes, HelloTypes, ReplyTypes, SyncTypes, ClosedTypes, MessageTypes,
     AgentTypes, CrashTypes DEF Next, CallStep, HandlerStep
<1> QED
  BY <1>1, <1>2

-----------------------------------------------------------------------------
(* The feed. *)

\* What is in the stream stays where it is.
StreamGrew ==
  /\ DOMAIN stream \subseteq DOMAIN stream'
  /\ \A v \in DOMAIN stream : stream'[v] = stream[v]

LEMMA AppendGrew ==
  ASSUME Types, NEW i \in DOMAIN calls, NEW ok \in BOOLEAN, stream' = NewEvent(i, ok), LastExists
  PROVE  /\ StreamGrew /\ LastExists'
         /\ DOMAIN stream' = DOMAIN stream \cup {Len(stream) + 1}
         /\ Len(stream) + 1 \notin DOMAIN stream
         /\ stream'[Len(stream) + 1].ok = ok
         /\ stream'[Len(stream) + 1].content = calls[i].content
<1> DEFINE e == [ok |-> ok, content |-> calls[i].content, causes |-> calls[i].causes]
<1>1. /\ e \in Event /\ e.ok = ok /\ e.content = calls[i].content
  BY CallTyped DEF Event
<1>2. stream' = Append(stream, e) /\ stream \in Seq(Event)
  BY DEF NewEvent, Types
<1> HIDE DEF e
<1>3. /\ DOMAIN stream = 1 .. Len(stream) /\ DOMAIN stream' = 1 .. Len(stream) + 1
      /\ Len(stream) \in Nat /\ stream'[Len(stream) + 1] = e
      /\ \A v \in 1 .. Len(stream) : stream'[v] = stream[v]
  BY <1>1, <1>2
<1>4. /\ 1 .. Len(stream) + 1 = 1 .. Len(stream) \cup {Len(stream) + 1}
      /\ Len(stream) + 1 \notin 1 .. Len(stream)
  BY <1>3
<1>5. LastExists'
  <2>1. CASE ok
    <3>1. \A w \in DOMAIN stream' : w <= Len(stream) + 1
      BY <1>3
    <3> QED
      BY <1>1, <1>3, <1>4, <2>1, <3>1 DEF LastExists
  <2>2. CASE ~ok
    <3> SUFFICES ASSUME NEW v \in DOMAIN stream', stream'[v].ok
                 PROVE  \E u \in DOMAIN stream' : /\ stream'[u].ok
                          /\ \A w \in DOMAIN stream' : stream'[w].ok => w <= u
      BY DEF LastExists
    <3>1. v \in DOMAIN stream /\ stream[v].ok
      BY <1>1, <1>3, <1>4, <2>2
    <3>2. PICK u \in DOMAIN stream : stream[u].ok /\ \A w \in DOMAIN stream : stream[w].ok => w <= u
      BY <3>1 DEF LastExists
    <3>3. \A w \in DOMAIN stream' : stream'[w].ok => w \in DOMAIN stream /\ stream[w].ok
      BY <1>1, <1>3, <1>4, <2>2
    <3> QED
      BY <1>3, <1>4, <3>2, <3>3
  <2> QED
    BY <2>1, <2>2
<1> QED
  BY <1>1, <1>3, <1>4, <1>5 DEF StreamGrew

LEMMA StreamKept ==
  ASSUME stream' = stream
  PROVE  StreamGrew /\ (LastExists => LastExists')
  BY DEF StreamGrew, LastExists

LEMMA CallsKept ==
  ASSUME calls' = calls, NEW c
  PROVE  CallsWere(c)
  BY DEF CallsWere

LEMMA LoadedKept ==
  ASSUME Loaded, StreamGrew, NEW c, CallsWere(c),
         c.last # 0 => c.last \in DOMAIN stream' /\ stream'[c.last].ok
  PROVE  Loaded'
<1> SUFFICES ASSUME NEW j \in DOMAIN calls', calls'[j].last # 0
             PROVE  calls'[j].last \in DOMAIN stream' /\ stream'[calls'[j].last].ok
  BY DEF Loaded
<1>1. CASE calls'[j] = c
  BY <1>1
<1>2. ASSUME NEW k \in DOMAIN calls, calls'[j] = calls[k]
      PROVE  calls'[j].last \in DOMAIN stream' /\ stream'[calls'[j].last].ok
  BY <1>2 DEF Loaded, StreamGrew
<1> QED
  BY <1>1, <1>2 DEF CallsWere

LEMMA CarriedKept ==
  ASSUME Carried, StreamGrew, NEW m, WireWas(m),
         m.type = "snapshot" => /\ m.version \in DOMAIN stream' /\ stream'[m.version].ok
                                /\ stream'[m.version].content = m.content
  PROVE  Carried'
<1> SUFFICES ASSUME NEW t \in Sessions, NEW k \in DOMAIN wire'[t], wire'[t][k].type = "snapshot"
             PROVE  Published(wire[t][k].version, wire[t][k].content)'
  BY DEF Carried
<1>1. CASE wire'[t][k] = m
  BY <1>1 DEF Published
<1>2. ASSUME NEW l \in DOMAIN wire[t], wire'[t][k] = wire[t][l]
      PROVE  Published(wire[t][k].version, wire[t][k].content)'
  BY <1>2 DEF Carried, Published, StreamGrew
<1> QED
  BY <1>1, <1>2 DEF WireWas

LEMMA HoldsKept ==
  ASSUME Holds, StreamGrew, agent'.version = agent.version, agent'.content = agent.content
  PROVE  Holds'
  BY DEF Holds, Published, StreamGrew

\* A step that appends nothing to the stream, sends nothing and leaves the agent
\* what it holds.
LEMMA FeedQuiet ==
  ASSUME FeedInv, stream' = stream, wire' = wire, agent'.version = agent.version,
         agent'.content = agent.content, NEW c, CallsWere(c),
         c.last # 0 => c.last \in DOMAIN stream /\ stream[c.last].ok
  PROVE  FeedInv'
<1>1. StreamGrew /\ LastExists'
  BY StreamKept DEF FeedInv
<1>2. Loaded'
  BY <1>1, LoadedKept DEF FeedInv
<1>3. Carried'
  BY DEF FeedInv, Carried, Published
<1>4. Holds'
  BY <1>1, HoldsKept DEF FeedInv
<1> QED
  BY <1>1, <1>2, <1>3, <1>4 DEF FeedInv

\* The steps that end a call with a snapshot.
LEMMA FeedResume ==
  ASSUME TypeInv, FeedInv, NEW i \in DOMAIN calls, NEW v \in Nat, NEW changed \in BOOLEAN,
         Resume(i, Snapshot(v, calls[i].content), changed), StreamGrew, LastExists',
         v \in DOMAIN stream', stream'[v].ok, stream'[v].content = calls[i].content
  PROVE  FeedInv'
<1> DEFINE m == Snapshot(v, calls[i].content)
<1>1. calls[i].content \in Content
  BY CallTyped DEF TypeInv
<1>2. m \in Message /\ m.version = v /\ m.content = calls[i].content
  BY <1>1, SnapshotTyped
<1>3. WireWas(m) /\ (\A c : CallsWere(c)) /\ agent' = agent
  BY <1>2, ResumeTyped
<1> HIDE DEF m
<1>4. Carried'
  BY <1>2, <1>3, CarriedKept DEF FeedInv
<1>5. Loaded'
  <2>1. NewCall("resync", <<>>).last = 0
    BY DEF NewCall
  <2> QED
    BY <1>3, <2>1, LoadedKept DEF FeedInv
<1>6. Holds'
  BY <1>3, HoldsKept DEF FeedInv
<1> QED
  BY <1>4, <1>5, <1>6 DEF FeedInv

\* The steps that end a call without one.
LEMMA FeedResumeEmpty ==
  ASSUME TypeInv, FeedInv, NEW i \in DOMAIN calls, NEW thrown \in BOOLEAN,
         ResumeEmpty(i, thrown), StreamGrew, LastExists'
  PROVE  FeedInv'
<1>1. (\A c : CallsWere(c)) /\ agent' = agent /\ wire' = wire
  BY ResumeEmptyTyped
<1>2. NewCall("resync", <<>>).last = 0
  BY DEF NewCall
<1>3. Loaded'
  BY <1>1, <1>2, LoadedKept DEF FeedInv
<1>4. Carried'
  BY <1>1 DEF FeedInv, Carried, Published, StreamGrew
<1>5. Holds'
  BY <1>1, HoldsKept DEF FeedInv
<1> QED
  BY <1>3, <1>4, <1>5 DEF FeedInv

LEMMA FeedEnds ==
  ASSUME TypeInv, FeedInv, NEW i \in DOMAIN calls,
         Unchanged(i) \/ Publish(i) \/ Exceeds(i) \/ PublishThrows(i) \/ AnswerLost(i)
  PROVE  FeedInv'
<1>1. /\ LastExists /\ Types /\ Len(stream) + 1 \in Nat /\ Size(calls[i].content) \in BOOLEAN
      /\ calls[i].last \in Nat
  BY CallTyped DEF FeedInv, TypeInv, Types, Size
<1>2. CASE Unchanged(i)
  <2>1. /\ Resume(i, Snapshot(calls[i].last, calls[i].content), FALSE) /\ stream' = stream
        /\ calls[i].last # 0 /\ stream[calls[i].last].content = calls[i].content
    BY <1>2 DEF Unchanged, Same
  <2>2. calls[i].last \in DOMAIN stream /\ stream[calls[i].last].ok
    BY <2>1 DEF FeedInv, Loaded
  <2> QED
    BY <1>1, <2>1, <2>2, StreamKept, FeedResume
<1>3. CASE Publish(i)
  <2>1. /\ Resume(i, Snapshot(Len(stream) + 1, calls[i].content), TRUE)
        /\ stream' = NewEvent(i, TRUE)
    BY <1>3 DEF Publish
  <2>2. /\ StreamGrew /\ LastExists' /\ Len(stream) + 1 \in DOMAIN stream'
        /\ stream'[Len(stream) + 1].ok /\ stream'[Len(stream) + 1].content = calls[i].content
    BY <1>1, <2>1, AppendGrew
  <2> QED
    BY <1>1, <2>1, <2>2, FeedResume
<1>4. CASE Exceeds(i)
  <2>1. ResumeEmpty(i, FALSE) /\ stream' = NewEvent(i, FALSE)
    BY <1>4 DEF Exceeds
  <2> QED
    BY <1>1, <2>1, AppendGrew, FeedResumeEmpty
<1>5. CASE PublishThrows(i)
  <2>1. ResumeEmpty(i, TRUE) /\ stream' = stream
    BY <1>5 DEF PublishThrows
  <2> QED
    BY <1>1, <2>1, StreamKept, FeedResumeEmpty
<1>6. CASE AnswerLost(i)
  <2>1. ResumeEmpty(i, TRUE) /\ stream' = NewEvent(i, ~Size(calls[i].content))
    BY <1>6 DEF AnswerLost
  <2>2. (~Size(calls[i].content)) \in BOOLEAN
    OBVIOUS
  <2>3. StreamGrew /\ LastExists'
    BY <1>1, <2>1, <2>2, AppendGrew
  <2> QED
    BY <2>1, <2>3, FeedResumeEmpty
<1> QED
  BY <1>2, <1>3, <1>4, <1>5, <1>6

LEMMA FeedArrives ==
  ASSUME TypeInv, FeedInv, Run \/ Resync \/ (\E s \in Sessions : ReplyHello(s) \/ SyncRequest(s))
  PROVE  FeedInv'
<1>1. PICK by \in Sessions \cup {"coordinator", "resync"}, causes \in Seq(1 .. MaxChanges) :
        calls' = Append(calls, NewCall(by, causes))
  <2>1. <<>> \in Seq(1 .. MaxChanges) /\ pending.causes \in Seq(1 .. MaxChanges)
    BY DEF TypeInv, Types, Pending
  <2> QED
    BY <2>1 DEF Run, Resync, ReplyHello, SyncRequest
<1> DEFINE c == NewCall(by, causes)
<1>2. c \in Call /\ c.last = 0
  BY NewCallTyped
<1>3. CallsWere(c)
  <2>1. calls \in Seq(Call) /\ calls' = Append(calls, c)
    BY <1>1 DEF TypeInv, Types
  <2> HIDE DEF c
  <2>2. \A j \in DOMAIN Append(calls, c) :
          Append(calls, c)[j] = c \/ (j \in DOMAIN calls /\ Append(calls, c)[j] = calls[j])
    BY <1>2, <2>1, CallArrives
  <2> QED
    BY <2>1, <2>2 DEF CallsWere
<1> HIDE DEF c
<1>4. stream' = stream /\ agent' = agent
  BY DEF Run, Resync, ReplyHello, SyncRequest, coordination
<1>5. CASE wire' = wire
  BY <1>2, <1>3, <1>4, <1>5, FeedQuiet
<1>6. ASSUME NEW s \in Sessions, ReplyHello(s)
      PROVE  FeedInv'
  <2> DEFINE m == [type |-> "hello", version |-> 0, content |-> Blank]
  <2>1. m \in Message /\ m.type # "snapshot"
    BY HelloTyped
  <2>2. wire' = wire \/ wire' = [wire EXCEPT ![s] = Append(wire[s], m)]
    BY <1>6 DEF ReplyHello
  <2> HIDE DEF m
  <2>3. WireWas(m)
    <3> SUFFICES ASSUME NEW t \in Sessions, NEW k \in DOMAIN wire'[t]
                 PROVE  wire'[t][k] = m \/ \E l \in DOMAIN wire[t] : wire'[t][k] = wire[t][l]
      BY DEF WireWas
    <3>1. wire[t] \in Seq(Message) /\ wire \in [Sessions -> Seq(Message)]
      BY DEF TypeInv, Types
    <3>2. wire'[t] = wire[t] \/ wire'[t] = Append(wire[t], m)
      BY <2>2, <3>1
    <3>3. CASE wire'[t] = wire[t]
      BY <3>3
    <3>4. CASE wire'[t] = Append(wire[t], m)
      <4>1. wire[t] \in Seq(Message)
        BY <3>1
      <4> QED
        BY <3>4, <4>1
    <3> QED
      BY <3>2, <3>3, <3>4
  <2>4. StreamGrew /\ LastExists'
    BY <1>4, StreamKept DEF FeedInv
  <2>5. Loaded'
    BY <1>2, <1>3, <2>4, LoadedKept DEF FeedInv
  <2>6. Carried'
    BY <2>1, <2>3, <2>4, CarriedKept DEF FeedInv
  <2>7. Holds'
    BY <1>4, <2>4, HoldsKept DEF FeedInv
  <2> QED
    BY <2>4, <2>5, <2>6, <2>7 DEF FeedInv
<1>7. CASE Run \/ Resync \/ (\E s \in Sessions : SyncRequest(s))
  <2>1. wire' = wire
    BY <1>7 DEF Run, Resync, SyncRequest
  <2> QED
    BY <1>5, <2>1
<1> QED
  BY <1>6, <1>7

LEMMA FeedWorks ==
  ASSUME TypeInv, FeedInv, NEW i \in DOMAIN calls,
         LoadProvider(i) \/ (\E p \in Parts : BuildSnapshotContent(i, p))
  PROVE  FeedInv'
<1>1. calls \in Seq(Call) /\ calls[i] \in Call /\ stream \in Seq(Event) /\ LastExists
  BY CallTyped DEF TypeInv, Types, FeedInv
<1>2. stream' = stream /\ wire' = wire /\ agent' = agent
  BY DEF LoadProvider, BuildSnapshotContent
<1>3. CallsWere(calls'[i])
  BY <1>1 DEF LoadProvider, BuildSnapshotContent, CallsWere
<1>4. calls'[i].last # 0 => calls'[i].last \in DOMAIN stream /\ stream[calls'[i].last].ok
  <2>1. CASE LoadProvider(i)
    <3>1. calls'[i].last = LastPublished
      BY <1>1, <2>1 DEF LoadProvider, Call
    <3> QED
      BY <1>1, <3>1, LastSound
  <2>2. ASSUME NEW p \in Parts, BuildSnapshotContent(i, p)
        PROVE  calls'[i].last = calls[i].last
    BY <1>1, <2>2 DEF BuildSnapshotContent, Call
  <2> QED
    BY <2>1, <2>2 DEF FeedInv, Loaded
<1> QED
  BY <1>2, <1>3, <1>4, FeedQuiet

LEMMA FeedMessage ==
  ASSUME TypeInv, FeedInv, OnMessage
  PROVE  /\ FeedInv'
         /\ \/ agent' = agent
            \/ /\ Published(agent'.version, agent'.content)
               /\ agent'.version >= agent.version
<1> DEFINE s == agent.session
           m == Head(wire[s])
<1>1. /\ s \in Sessions /\ wire[s] \in Seq(Message) /\ wire[s] # <<>>
      /\ wire \in [Sessions -> Seq(Message)]
  BY DEF OnMessage, TypeInv, Types
<1>2. m \in Message /\ 1 \in DOMAIN wire[s] /\ m = wire[s][1]
  BY <1>1
<1>3. m.type = "snapshot" => Published(m.version, m.content)
  BY <1>1, <1>2 DEF FeedInv, Carried
<1>4. /\ wire' = [wire EXCEPT ![s] = Tail(wire[s])] /\ stream' = stream /\ calls' = calls
      /\ \/ agent' = agent
         \/ /\ m.type = "snapshot" /\ m.version >= agent.version
            /\ agent' = [agent EXCEPT !.version = m.version, !.content = m.content]
  BY DEF OnMessage
<1> HIDE DEF m, s
<1>5. \/ agent' = agent
      \/ Published(agent'.version, agent'.content) /\ agent'.version >= agent.version
  BY <1>3, <1>4 DEF TypeInv, Types
<1>6. StreamGrew /\ LastExists'
  BY <1>4, StreamKept DEF FeedInv
<1>7. Loaded'
  BY <1>4 DEF FeedInv, Loaded
<1>8. Carried'
  <2> SUFFICES ASSUME NEW t \in Sessions, NEW k \in DOMAIN wire'[t]
               PROVE  \E l \in DOMAIN wire[t] : wire'[t][k] = wire[t][l]
    BY <1>4 DEF FeedInv, Carried, Published
  <2>1. CASE t = s
    <3>1. wire'[t] = Tail(wire[t]) /\ wire[t] \in Seq(Message) /\ wire[t] # <<>>
      BY <1>1, <1>4, <2>1
    <3>2. k + 1 \in DOMAIN wire[t] /\ wire'[t][k] = wire[t][k + 1]
      BY <3>1
    <3> QED
      BY <3>2
  <2>2. CASE t # s
    BY <1>1, <1>4, <2>2
  <2> QED
    BY <2>1, <2>2
<1>9. Holds'
  BY <1>4, <1>5, <1>6, HoldsKept DEF Holds, Published, FeedInv
<1> QED
  BY <1>5, <1>6, <1>7, <1>8, <1>9 DEF FeedInv

LEMMA FeedRest ==
  ASSUME TypeInv, FeedInv,
         \/ (\E p \in Parts : Change(p)) \/ (\E i \in DOMAIN changes : Schedule(i) \/ LoseSchedule(i))
         \/ (\E s \in Sessions : Connect(s) \/ OnHello(s) \/ OnClosed(s) \/ HelloThrows(s))
         \/ OnDisconnected \/ LinkLost \/ Crash \/ UNCHANGED vars
  PROVE  FeedInv'
<1> DEFINE c == NewCall("resync", <<>>)
<1>1. stream' = stream /\ wire' = wire
  BY DEF Change, Schedule, LoseSchedule, Connect, OnHello, OnClosed, HelloThrows, OnDisconnected,
         LinkLost, Crash, vars
<1>2. agent'.version = agent.version /\ agent'.content = agent.content
  BY DEF Change, Schedule, LoseSchedule, Connect, OnHello, OnClosed, HelloThrows, OnDisconnected,
         LinkLost, Crash, vars, TypeInv, Types
<1>3. c.last = 0
  BY DEF NewCall
<1>4. calls' = calls \/ calls' = <<>>
  BY DEF Change, Schedule, LoseSchedule, Connect, OnHello, OnClosed, HelloThrows, OnDisconnected,
         LinkLost, Crash, vars
<1>5. CallsWere(c)
  BY <1>4 DEF CallsWere
<1> HIDE DEF c
<1> QED
  BY <1>1, <1>2, <1>3, <1>5, FeedQuiet

LEMMA FeedRestart ==
  ASSUME TypeInv, FeedInv, AgentRestart
  PROVE  FeedInv' /\ stream' = stream /\ agent'.version = 0 /\ agent'.content = Blank
  BY DEF AgentRestart, FeedInv, LastExists, Loaded, Carried, Holds, Published

LEMMA FeedStep == TypeInv /\ FeedInv /\ [Next]_vars => FeedInv'
  BY FeedArrives, FeedWorks, FeedEnds, FeedMessage, FeedRest, FeedRestart DEF Next, CallStep, HandlerStep

LEMMA FeedStart == Init => FeedInv
  BY DEF Init, FeedInv, LastExists, Loaded, Carried, Holds

LEMMA Invariance == Spec => [](TypeInv /\ FeedInv)
<1>1. TypeInv /\ FeedInv /\ [Next]_vars => TypeInv' /\ FeedInv'
  BY TypeStep, FeedStep DEF FeedInv
<1> QED
  BY <1>1, TypeInit, FeedStart, PTL DEF Spec

-----------------------------------------------------------------------------
(* The theorems. *)

\* Every variable keeps its type, the registered session's channel is open, and
\* the coordinator, which SnapshotCoordinator.run keeps from running twice, has a
\* call at the publisher exactly while it runs, whatever throws or crashes.
THEOREM TypeCorrect == Spec => []TypeOK
<1>1. TypeInv => TypeOK
  BY DEF TypeInv, Types, Coordinated, RunIn, TypeOK
<1> QED
  BY <1>1, Invariance, PTL

LEMMA ImplementsInit == Init => Feed!FeedInit
<1> SUFFICES ASSUME Init
             PROVE  Feed!FeedInit
  OBVIOUS
<1>1. agent.version = 0 /\ agent.content = Blank
  BY DEF Init
<1>2. \E n \in 0 .. 1 :
        [v \in {w \in DOMAIN stream : stream[w].ok} |-> stream[v].content] = [v \in 1 .. n |-> Blank]
  <2>1. CASE stream = <<>>
    <3>1. {w \in DOMAIN stream : stream[w].ok} = 1 .. 0
      BY <2>1
    <3> QED
      BY <3>1
  <2>2. CASE stream = <<[ok |-> TRUE, content |-> Blank, causes |-> <<>>]>>
    <3>1. {w \in DOMAIN stream : stream[w].ok} = 1 .. 1 /\ \A v \in 1 .. 1 : stream[v].content = Blank
      BY <2>2
    <3> QED
      BY <3>1
  <2> QED
    BY <2>1, <2>2 DEF Init
<1> QED
  BY <1>1, <1>2 DEF Feed!FeedInit

\* A step of the feed that adds a version to it.
LEMMA ImplementsAppend ==
  ASSUME TypeInv, FeedInv, NEW i \in DOMAIN calls, NEW ok \in BOOLEAN, stream' = NewEvent(i, ok),
         agent' = agent
  PROVE  [Feed!FeedNext]_(Feed!feedVars)
<1> DEFINE ids == {w \in DOMAIN stream : stream[w].ok}
           n == Len(stream) + 1
           F == [v \in ids |-> stream[v].content]
<1>1. /\ DOMAIN stream' = DOMAIN stream \cup {n} /\ n \notin DOMAIN stream
      /\ stream'[n].ok = ok /\ stream'[n].content = calls[i].content
      /\ \A v \in DOMAIN stream : stream'[v] = stream[v]
  BY AppendGrew DEF TypeInv, FeedInv, StreamGrew
<1>2. \A w \in DOMAIN stream : w < n
  BY DEF TypeInv, Types
<1>3. calls[i].content \in Content
  BY CallTyped DEF TypeInv
<1> HIDE DEF n
<1>4. CASE ok
  <2>1. {w \in DOMAIN stream' : stream'[w].ok} = ids \cup {n}
    BY <1>1, <1>4
  <2>2. [v \in {w \in DOMAIN stream' : stream'[w].ok} |-> stream'[v].content]
          = [w \in DOMAIN F \cup {n} |-> IF w = n THEN calls[i].content ELSE F[w]]
    BY <1>1, <2>1
  <2>3. Feed!PublishNext
    BY <1>1, <1>2, <1>3, <2>1, <2>2 DEF Feed!PublishNext
  <2> QED
    BY <2>3 DEF Feed!FeedNext
<1>5. CASE ~ok
  <2>1. {w \in DOMAIN stream' : stream'[w].ok} = ids
    BY <1>1, <1>5
  <2>2. [v \in {w \in DOMAIN stream' : stream'[w].ok} |-> stream'[v].content] = F
    BY <1>1, <2>1
  <2> QED
    BY <2>2 DEF Feed!feedVars
<1> QED
  BY <1>4, <1>5

LEMMA ImplementsStep ==
  ASSUME TypeInv, FeedInv, [Next]_vars
  PROVE  [Feed!FeedNext]_(Feed!feedVars)
<1>1. ASSUME NEW i \in DOMAIN calls, Publish(i) \/ Exceeds(i) \/ AnswerLost(i)
      PROVE  [Feed!FeedNext]_(Feed!feedVars)
  <2>1. agent' = agent
    BY <1>1 DEF Publish, Exceeds, AnswerLost, Resume, ResumeEmpty
  <2>2. PICK ok \in BOOLEAN : stream' = NewEvent(i, ok)
    <3>1. (~Size(calls[i].content)) \in BOOLEAN
      OBVIOUS
    <3> QED
      BY <1>1, <3>1 DEF Publish, Exceeds, AnswerLost
  <2> QED
    BY <2>1, <2>2, ImplementsAppend
<1>2. CASE OnMessage
  <2>1. stream' = stream
    BY <1>2 DEF OnMessage
  <2>2. CASE agent' = agent
    BY <2>1, <2>2 DEF Feed!feedVars
  <2>3. CASE Published(agent'.version, agent'.content) /\ agent'.version >= agent.version
    <3>1. /\ agent'.version \in {w \in DOMAIN stream : stream[w].ok}
          /\ stream[agent'.version].content = agent'.content
      BY <2>3 DEF Published
    <3>2. Feed!HoldLater
      BY <2>1, <2>3, <3>1 DEF Feed!HoldLater
    <3> QED
      BY <3>2 DEF Feed!FeedNext
  <2> QED
    BY <1>2, <2>2, <2>3, FeedMessage
<1>3. CASE AgentRestart
  <2>1. Feed!Forget
    BY <1>3, FeedRestart DEF Feed!Forget
  <2> QED
    BY <2>1 DEF Feed!FeedNext
<1>4. CASE stream' = stream /\ agent'.version = agent.version /\ agent'.content = agent.content
  BY <1>4 DEF Feed!feedVars
<1>5. \/ stream' = stream /\ agent'.version = agent.version /\ agent'.content = agent.content
      \/ OnMessage \/ AgentRestart
      \/ \E i \in DOMAIN calls : Publish(i) \/ Exceeds(i) \/ AnswerLost(i)
  BY DEF Next, CallStep, HandlerStep, vars, coordination, Change, Schedule, LoseSchedule, Run, LoadProvider,
         BuildSnapshotContent, Unchanged, Resume, Resync, Connect, OnHello, ReplyHello, SyncRequest,
         OnClosed, OnDisconnected, PublishThrows, ResumeEmpty, HelloThrows, LinkLost, Crash,
         TypeInv, Types
<1> QED
  BY <1>1, <1>2, <1>3, <1>4, <1>5

\* FR-020, FR-053: whatever the publisher's callers, the sessions and faults do,
\* an agent holds a published snapshot exactly as it was published, and while it
\* runs it never goes back to an older one.
THEOREM DeliveryImplementsFeed == Spec => ImplementsFeed
  BY Invariance, ImplementsInit, ImplementsStep, PTL DEF Spec, ImplementsFeed, Feed!FeedSpec

-----------------------------------------------------------------------------
(* What the last version is, and who knows of it. *)

\* The mutex: only the first call has begun to read, and nobody publishes while it
\* does.
Turns == \A i \in DOMAIN calls : calls[i].pc = "reading" => i = 1 /\ calls[i].last = LastPublished

\* A session asks for a snapshot, and is sent one, once it has greeted.
Greeted ==
  /\ \A i \in DOMAIN calls :
       calls[i].by \in Sessions => session[calls[i].by] \notin {"new", "connecting"}
  /\ \A s \in Sessions : session[s] \in {"new", "connecting"} => told[s] = 0

\* A run that has yet to read the account is to come.
Due ==
  \/ \E i \in DOMAIN changes : changes[i].pc = "committed"
  \/ pending.timer
  \/ pending.running /\ pending.dirty
  \/ \E i \in DOMAIN calls : calls[i].by = "coordinator" /\ calls[i].pc = "queued"

\* While none is, whoever reads reads the account as it is.
ReadsCurrent ==
  \A i \in DOMAIN calls :
    calls[i].pc = "reading" => \A p \in Parts \ calls[i].todo : calls[i].content[p] = account[p]

PublishedCurrent ==
  \/ Size(account)
  \/ LastPublished # 0 /\ stream[LastPublished].content = account

\* Unless a run is to come, or under way, the account was published.
Current ==
  ~Due =>
    /\ ReadsCurrent
    /\ ~pending.running /\ changes # <<>> => PublishedCurrent

\* As long as no connection was lost, there is one session.
OneSession ==
  /\ open = {agent.session} \ {None}
  /\ \A s \in Sessions : session[s] \notin {"new", "connecting"} => registry = s

\* It was told of the last version, or asked when the account was too large.
Told ==
  registry # None =>
    /\ told[registry] \in {0, LastPublished}
    /\ session[registry] = "live" /\ told[registry] # LastPublished =>
         \E v \in DOMAIN stream : ~stream[v].ok


LEMMA LastAfter ==
  ASSUME TypeInv, LastExists, NEW i \in DOMAIN calls, NEW ok \in BOOLEAN, stream' = NewEvent(i, ok)
  PROVE  LastPublished' = IF ok THEN Len(stream) + 1 ELSE LastPublished
<1>1. stream \in Seq(Event) /\ stream' \in Seq(Event)
  BY EventTyped DEF TypeInv, Types
<1>2. /\ DOMAIN stream' = DOMAIN stream \cup {Len(stream) + 1}
      /\ LastExists' /\ stream'[Len(stream) + 1].ok = ok
      /\ \A v \in DOMAIN stream : stream'[v] = stream[v]
  BY AppendGrew DEF TypeInv, StreamGrew
<1>3. IsLast(stream, LastPublished)
  BY <1>1, LastIn DEF LastExists, LastPublished
<1>4. IsLast(stream', LastPublished')
  <2>1. (\E v \in DOMAIN stream' : stream'[v].ok) =>
          \E v \in DOMAIN stream' : stream'[v].ok /\ \A w \in DOMAIN stream' : stream'[w].ok => w <= v
    BY <1>2 DEF LastExists
  <2>2. LastPublished' = SelectLastInSeq(stream', LAMBDA e : e.ok)
    BY DEF LastPublished, SelectLastInSeq
  <2> QED
    BY <1>1, <2>1, <2>2, LastIn
<1>5. Len(stream) \in Nat /\ \A v \in DOMAIN stream : v \in Nat /\ v < Len(stream) + 1 /\ v # 0
  BY <1>1
<1>6. CASE ok
  <2>1. Len(stream) + 1 <= LastPublished' /\ LastPublished' \in Nat
    BY <1>2, <1>4, <1>6 DEF IsLast
  <2>2. LastPublished' \in DOMAIN stream'
    BY <1>4, <1>5, <2>1 DEF IsLast
  <2> QED
    BY <1>2, <1>5, <1>6, <2>1, <2>2
<1>7. CASE ~ok
  <2>1. LastPublished' # 0 => LastPublished' \in DOMAIN stream /\ stream[LastPublished'].ok
    BY <1>2, <1>4, <1>7 DEF IsLast
  <2>2. LastPublished # 0 => LastPublished \in DOMAIN stream' /\ stream'[LastPublished].ok
    BY <1>2, <1>3 DEF IsLast
  <2>3. LastPublished \in Nat /\ LastPublished' \in Nat
    BY <1>3, <1>4 DEF IsLast
  <2>4. LastPublished' <= LastPublished
    BY <1>3, <2>1, <2>3 DEF IsLast
  <2>5. LastPublished <= LastPublished'
    BY <1>4, <2>2, <2>3 DEF IsLast
  <2> QED
    BY <1>7, <2>3, <2>4, <2>5
<1> QED
  BY <1>6, <1>7

-----------------------------------------------------------------------------
(* The order of the calls. *)

Early == {"new", "connecting"}

LEMMA LastKept == stream' = stream => LastPublished' = LastPublished
  BY DEF LastPublished, SelectLastInSeq

\* A call that ends was the only one that had begun to read.
LEMMA OthersWait ==
  ASSUME TypeInv, Turns, NEW i \in DOMAIN calls, i = 1, calls' = RemoveAt(calls, i)
  PROVE  /\ \A j \in DOMAIN calls' : calls'[j].pc = "queued"
         /\ RunIn(calls') <=> RunIn(calls) /\ calls[i].by # "coordinator"
<1>1. calls \in Seq(Call) /\ OneRunIn(calls)
  BY DEF TypeInv, Types, Coordinated
<1>2. \A j \in DOMAIN calls' : \E k \in DOMAIN calls \ {i} : calls'[j] = calls[k]
  BY <1>1, CallEnds
<1>3. \A k \in DOMAIN calls : calls[k].pc \in {"queued", "reading"}
  BY CallTyped DEF TypeInv, Call
<1>4. \A j \in DOMAIN calls' : calls'[j].pc = "queued"
  BY <1>2, <1>3 DEF Turns
<1> QED
  BY <1>1, <1>4, CallEnds

\* A call that arrives leaves the others where they are.
LEMMA Arrival ==
  ASSUME TypeInv, Run \/ Resync \/ (\E s \in Sessions : ReplyHello(s) \/ SyncRequest(s))
  PROVE  /\ stream' = stream /\ account' = account
         /\ \A j \in DOMAIN calls' :
              calls'[j].pc = "queued" \/ (j \in DOMAIN calls /\ calls'[j] = calls[j])
<1>1. PICK by \in Sessions \cup {"coordinator", "resync"}, causes \in Seq(1 .. MaxChanges) :
        calls' = Append(calls, NewCall(by, causes))
  <2>1. <<>> \in Seq(1 .. MaxChanges) /\ pending.causes \in Seq(1 .. MaxChanges)
    BY DEF TypeInv, Types, Pending
  <2> QED
    BY <2>1 DEF Run, Resync, ReplyHello, SyncRequest
<1>2. NewCall(by, causes) \in Call /\ NewCall(by, causes).pc = "queued"
  BY NewCallTyped DEF NewCall
<1>3. \A j \in DOMAIN Append(calls, NewCall(by, causes)) :
        \/ Append(calls, NewCall(by, causes))[j] = NewCall(by, causes)
        \/ j \in DOMAIN calls /\ Append(calls, NewCall(by, causes))[j] = calls[j]
  BY <1>2, CallArrives DEF TypeInv, Types
<1>4. stream' = stream /\ account' = account
  BY DEF Run, Resync, ReplyHello, SyncRequest, coordination
<1> QED
  BY <1>1, <1>2, <1>3, <1>4

\* What the steps of a call before its end change.
LEMMA Works ==
  ASSUME TypeInv, NEW i \in DOMAIN calls,
         LoadProvider(i) \/ (\E p \in Parts : BuildSnapshotContent(i, p))
  PROVE  /\ DOMAIN calls' = DOMAIN calls
         /\ \A j \in DOMAIN calls : calls'[j].by = calls[j].by /\ (j # i => calls'[j] = calls[j])
         /\ LoadProvider(i) =>
              i = 1 /\ calls[i].pc = "queued" /\ calls'[i].last = LastPublished
                    /\ calls'[i].todo = Parts
         /\ \A p \in Parts : BuildSnapshotContent(i, p) =>
              /\ calls'[i].pc = calls[i].pc /\ calls'[i].last = calls[i].last
              /\ calls'[i].todo = calls[i].todo \ {p}
              /\ calls'[i].content = [calls[i].content EXCEPT ![p] = account[p]]
         /\ UNCHANGED <<coordination, stream, connections, wire, told, agent, faults>>
<1>1. calls \in Seq(Call) /\ calls[i] \in Call
  BY CallTyped DEF TypeInv, Types
<1>2. CASE LoadProvider(i)
  <2>1. /\ calls' = [calls EXCEPT ![i] = [calls[i] EXCEPT !.pc = "reading", !.last = LastPublished,
                                                          !.todo = Parts]]
        /\ i = 1 /\ calls[i].pc = "queued"
        /\ UNCHANGED <<coordination, stream, connections, wire, told, agent, faults>>
    BY <1>2 DEF LoadProvider, Turn
  <2>2. \A p \in Parts : ~BuildSnapshotContent(i, p)
    BY <2>1 DEF BuildSnapshotContent
  <2> QED
    BY <1>1, <2>1, <2>2 DEF Call
<1>3. ASSUME NEW p \in Parts, BuildSnapshotContent(i, p)
      PROVE  /\ calls' = [calls EXCEPT ![i] = [calls[i] EXCEPT
                            !.todo = calls[i].todo \ {p},
                            !.content = [calls[i].content EXCEPT ![p] = account[p]]]]
             /\ calls[i].pc = "reading"
             /\ UNCHANGED <<coordination, stream, connections, wire, told, agent, faults>>
  <2>1. calls[i].content \in [Parts -> Values] /\ calls[i].todo \in SUBSET Parts
    BY CallTyped DEF TypeInv, Content
  <2> QED
    BY <1>1, <1>3, <2>1 DEF BuildSnapshotContent, Call
<1>4. CASE ~LoadProvider(i)
  <2>1. PICK p \in Parts : BuildSnapshotContent(i, p)
    BY <1>4
  <2>2. UNCHANGED <<coordination, stream, connections, wire, told, agent, faults>>
    BY <1>3, <2>1
  <2>3. ASSUME NEW q \in Parts, BuildSnapshotContent(i, q)
        PROVE  /\ DOMAIN calls' = DOMAIN calls
               /\ \A j \in DOMAIN calls : j # i => calls'[j] = calls[j]
               /\ calls'[i].by = calls[i].by
               /\ calls'[i].pc = calls[i].pc /\ calls'[i].last = calls[i].last
               /\ calls'[i].todo = calls[i].todo \ {q}
               /\ calls'[i].content = [calls[i].content EXCEPT ![q] = account[q]]
    <3> DEFINE c == [calls[i] EXCEPT !.todo = calls[i].todo \ {q},
                                     !.content = [calls[i].content EXCEPT ![q] = account[q]]]
    <3>1. calls' = [calls EXCEPT ![i] = c]
      BY <1>3, <2>3
    <3>2. /\ c.by = calls[i].by /\ c.pc = calls[i].pc /\ c.last = calls[i].last
          /\ c.todo = calls[i].todo \ {q}
          /\ c.content = [calls[i].content EXCEPT ![q] = account[q]]
      BY <1>1 DEF Call
    <3> HIDE DEF c
    <3>3. /\ DOMAIN calls' = DOMAIN calls /\ calls'[i] = c
          /\ \A j \in DOMAIN calls : j # i => calls'[j] = calls[j]
      BY <3>1
    <3> QED
      BY <3>2, <3>3
  <2> QED
    BY <1>4, <2>1, <2>2, <2>3
<1> QED
  BY <1>2, <1>4

LEMMA TurnsStep == TypeInv /\ Turns /\ [Next]_vars => Turns'
<1> SUFFICES ASSUME TypeInv, Turns, [Next]_vars
             PROVE  Turns'
  OBVIOUS
<1>1. CASE Run \/ Resync \/ (\E s \in Sessions : ReplyHello(s) \/ SyncRequest(s))
  <2>1. stream' = stream /\ LastPublished' = LastPublished
    BY <1>1, Arrival, LastKept
  <2> QED
    BY <1>1, <2>1, Arrival DEF Turns
<1>2. ASSUME NEW i \in DOMAIN calls, LoadProvider(i) \/ (\E p \in Parts : BuildSnapshotContent(i, p))
      PROVE  Turns'
  <2>1. LastPublished' = LastPublished
    BY <1>2, Works, LastKept
  <2>2. CASE LoadProvider(i)
    BY <1>2, <2>1, <2>2, Works DEF Turns
  <2>3. ASSUME NEW p \in Parts, BuildSnapshotContent(i, p)
        PROVE  Turns'
    <3>1. /\ calls'[i].pc = calls[i].pc /\ calls'[i].last = calls[i].last
          /\ DOMAIN calls' = DOMAIN calls /\ \A j \in DOMAIN calls : j # i => calls'[j] = calls[j]
      BY <2>3, Works
    <3> QED
      BY <2>1, <3>1 DEF Turns
  <2> QED
    BY <1>2, <2>2, <2>3
<1>3. ASSUME NEW i \in DOMAIN calls,
             Unchanged(i) \/ Publish(i) \/ Exceeds(i) \/ PublishThrows(i) \/ AnswerLost(i)
      PROVE  Turns'
  <2>1. i = 1 /\ calls' = RemoveAt(calls, i)
    BY <1>3 DEF Unchanged, Publish, Exceeds, PublishThrows, AnswerLost, Built, Turn, Turns, Resume, ResumeEmpty
  <2> QED
    BY <2>1, OthersWait DEF Turns
<1>4. CASE \/ (\E p \in Parts : Change(p)) \/ (\E i \in DOMAIN changes : Schedule(i) \/ LoseSchedule(i))
           \/ (\E s \in Sessions : Connect(s) \/ OnHello(s) \/ OnClosed(s) \/ HelloThrows(s))
           \/ OnMessage \/ OnDisconnected \/ LinkLost \/ AgentRestart \/ UNCHANGED vars
  <2>1. calls' = calls /\ stream' = stream
    BY <1>4 DEF Change, Schedule, LoseSchedule, Connect, OnHello, OnClosed, HelloThrows, OnMessage,
       OnDisconnected, LinkLost, AgentRestart, vars
  <2> QED
    BY <2>1, LastKept DEF Turns
<1>5. CASE Crash
  BY <1>5 DEF Crash, Turns
<1> QED
  BY <1>1, <1>2, <1>3, <1>4, <1>5 DEF Next, CallStep, HandlerStep

-----------------------------------------------------------------------------
(* Who is sent snapshots. *)

LEMMA SendTold ==
  ASSUME Types, NEW s \in Sessions, NEW m, Send(s, m)
  PROVE  /\ s \in open => told'[s] = m.version
         /\ \A t \in Sessions : t # s => told'[t] = told[t]
  BY DEF Types, Send

LEMMA PushTold ==
  ASSUME Types, NEW m, Push(m)
  PROVE  /\ registry # None => told'[registry] = m.version
         /\ \A t \in Sessions : t # registry => told'[t] = told[t]
<1>1. CASE registry = None
  BY <1>1 DEF Push
<1>2. CASE registry # None
  <2>1. registry \in Sessions /\ registry \in open /\ Send(registry, m)
    BY <1>2 DEF Types, Push
  <2> QED
    BY <2>1, SendTold
<1> QED
  BY <1>1, <1>2

\* What the end of a call with a snapshot does to sessions.
LEMMA ResumeTold ==
  ASSUME TypeInv, Greeted, NEW i \in DOMAIN calls, NEW m, NEW changed \in BOOLEAN, Resume(i, m, changed)
  PROVE  /\ \A s \in Sessions : session'[s] \in Early => session[s] \in Early /\ told'[s] = told[s]
         /\ \A s \in Sessions : session'[s] \notin Early => session[s] \notin Early
         /\ \A s \in Sessions : session[s] # "live" /\ session'[s] = "live" => s = calls[i].by
         /\ calls[i].by \in Sessions /\ calls[i].by \in open => told'[calls[i].by] = m.version
         /\ calls[i].by \notin Sessions /\ registry # None =>
              IF changed \/ calls[i].by = "resync"
                THEN told'[registry] = m.version
                ELSE told'[registry] = told[registry]
<1>1. calls[i].by \in Sessions \cup {"coordinator", "resync"} /\ Types
  BY CallTyped DEF TypeInv, Call
<1>2. CASE calls[i].by \in Sessions
  <2>1. Send(calls[i].by, m) /\ session' = [session EXCEPT ![calls[i].by] = "live"]
    BY <1>2, NamesDiffer DEF Resume
  <2>2. session \in [Sessions -> SessionPc] /\ session[calls[i].by] \notin Early
    BY <1>1, <1>2 DEF Types, Greeted, Early
  <2>3. \A s \in Sessions : session'[s] = IF s = calls[i].by THEN "live" ELSE session[s]
    BY <2>1, <2>2
  <2>4. "live" \notin Early
    BY DEF Early
  <2> QED
    BY <1>1, <1>2, <2>1, <2>2, <2>3, <2>4, SendTold
<1>3. CASE calls[i].by \notin Sessions
  <2>1. session' = session
    BY <1>1, <1>3, NamesDiffer DEF Resume
  <2>2. IF changed \/ calls[i].by = "resync" THEN Push(m) ELSE UNCHANGED <<wire, told>>
    BY <1>1, <1>3, NamesDiffer DEF Resume
  <2>3. registry # None => session[registry] \notin Early
    BY DEF TypeInv, Registered, Early
  <2>4. \A s \in Sessions : session[s] \in Early => told'[s] = told[s]
    BY <1>1, <2>2, <2>3, PushTold, NamesDiffer
  <2> QED
    BY <1>1, <1>3, <2>1, <2>2, <2>4, PushTold
<1> QED
  BY <1>2, <1>3

LEMMA ResumeEmptyTold ==
  ASSUME TypeInv, Greeted, NEW i \in DOMAIN calls, NEW thrown \in BOOLEAN, ResumeEmpty(i, thrown)
  PROVE  /\ \A s \in Sessions : session'[s] \in Early => session[s] \in Early
         /\ \A s \in Sessions : session'[s] \notin Early => session[s] \notin Early
         /\ ~thrown => registry' = registry /\ open' = open
<1>1. calls[i].by \in Sessions => session[calls[i].by] \notin Early
  BY DEF Greeted, Early
<1>2. session \in [Sessions -> SessionPc]
  BY DEF TypeInv, Types
<1>3. CASE calls[i].by \in Sessions
  <2>1. session' = [session EXCEPT ![calls[i].by] = "live"]
    BY <1>3 DEF ResumeEmpty
  <2>2. \A s \in Sessions : session'[s] = IF s = calls[i].by THEN "live" ELSE session[s]
    BY <1>2, <2>1
  <2>3. "live" \notin Early
    BY DEF Early
  <2> QED
    BY <1>1, <1>3, <2>2, <2>3 DEF ResumeEmpty
<1>4. CASE calls[i].by \notin Sessions
  BY <1>4 DEF ResumeEmpty, connections
<1> QED
  BY <1>3, <1>4

\* Sessions never become new again, and nobody else is told.
LEMMA GreetedKept ==
  ASSUME TypeInv, Greeted, NEW c, CallsWere(c), c.by \in Sessions => session'[c.by] \notin Early,
         \A k \in DOMAIN calls : calls[k].by \in Sessions \cup {"coordinator", "resync"},
         \A s \in Sessions : session'[s] \in Early => session[s] \in Early /\ told'[s] = told[s]
  PROVE  Greeted'
<1>1. ASSUME NEW j \in DOMAIN calls', calls'[j].by \in Sessions
      PROVE  session'[calls'[j].by] \notin Early
  <2>1. CASE calls'[j] = c
    BY <1>1, <2>1
  <2>2. ASSUME NEW k \in DOMAIN calls, calls'[j] = calls[k]
        PROVE  session'[calls'[j].by] \notin Early
    BY <1>1, <2>2 DEF Greeted, Early
  <2> QED
    BY <2>1, <2>2 DEF CallsWere
<1>2. ASSUME NEW s \in Sessions, session'[s] \in Early
      PROVE  told'[s] = 0
    BY <1>2 DEF Greeted, Early
<1> QED
  BY <1>1, <1>2 DEF Greeted, Early

LEMMA GreetedStep == TypeInv /\ Greeted /\ [Next]_vars => Greeted'
<1> SUFFICES ASSUME TypeInv, Greeted, [Next]_vars
             PROVE  Greeted'
  OBVIOUS
<1>1. \A k \in DOMAIN calls : calls[k].by \in Sessions \cup {"coordinator", "resync"}
  BY CallTyped DEF TypeInv, Call
<1>2. /\ calls \in Seq(Call) /\ session \in [Sessions -> SessionPc]
      /\ NewCall("resync", <<>>).by = "resync"
  BY DEF TypeInv, Types, NewCall
<1>3. ASSUME NEW i \in DOMAIN calls, Unchanged(i) \/ Publish(i)
      PROVE  Greeted'
  <2>1. PICK v \in Nat, changed \in BOOLEAN : Resume(i, Snapshot(v, calls[i].content), changed)
    <3>1. calls[i].last \in Nat /\ Len(stream) + 1 \in Nat
      BY CallTyped DEF TypeInv, Types
    <3> QED
      BY <1>3, <3>1 DEF Unchanged, Publish
  <2>2. \A c : CallsWere(c)
    BY <2>1, SnapshotTyped, CallTyped, ResumeTyped DEF TypeInv
  <2> QED
    BY <1>1, <1>2, <2>1, <2>2, ResumeTold, GreetedKept, NamesDiffer
<1>4. ASSUME NEW i \in DOMAIN calls, Exceeds(i) \/ PublishThrows(i) \/ AnswerLost(i)
      PROVE  Greeted'
  <2>1. PICK thrown \in BOOLEAN : ResumeEmpty(i, thrown)
    BY <1>4 DEF Exceeds, PublishThrows, AnswerLost
  <2>2. (\A c : CallsWere(c)) /\ told' = told
    BY <2>1, ResumeEmptyTyped
  <2> QED
    BY <1>1, <1>2, <2>1, <2>2, ResumeEmptyTold, GreetedKept, NamesDiffer
<1>5. ASSUME NEW by \in Sessions \cup {"coordinator", "resync"}, NEW causes \in Seq(1 .. MaxChanges),
             calls' = Append(calls, NewCall(by, causes)), told' = told,
             by \in Sessions => session'[by] \notin Early,
             \A s \in Sessions : session'[s] \in Early => session[s] \in Early
      PROVE  Greeted'
  <2>1. NewCall(by, causes) \in Call /\ NewCall(by, causes).by = by
    BY NewCallTyped
  <2>2. CallsWere(NewCall(by, causes))
    BY <1>2, <1>5, <2>1, CallArrives DEF CallsWere
  <2> QED
    BY <1>1, <1>5, <2>1, <2>2, GreetedKept
<1>6. CASE Run \/ Resync
  <2>1. <<>> \in Seq(1 .. MaxChanges) /\ pending.causes \in Seq(1 .. MaxChanges)
    BY DEF TypeInv, Types, Pending
  <2> QED
    BY <1>5, <1>6, <2>1, NamesDiffer DEF Run, Resync, connections
<1>7. ASSUME NEW s \in Sessions, ReplyHello(s) \/ SyncRequest(s)
      PROVE  Greeted'
  <2>1. <<>> \in Seq(1 .. MaxChanges)
    OBVIOUS
  <2>2. session' = [session EXCEPT ![s] = "publishing"] /\ calls' = Append(calls, NewCall(s, <<>>))
        /\ told' = told
    BY <1>7 DEF ReplyHello, SyncRequest
  <2>3. \A t \in Sessions : session'[t] = IF t = s THEN "publishing" ELSE session[t]
    BY <1>2, <2>2
  <2>4. "publishing" \notin Early
    BY DEF Early
  <2> QED
    BY <1>5, <2>1, <2>2, <2>3, <2>4
<1>8. ASSUME NEW i \in DOMAIN calls, LoadProvider(i) \/ (\E p \in Parts : BuildSnapshotContent(i, p))
      PROVE  Greeted'
  <2>1. /\ DOMAIN calls' = DOMAIN calls /\ \A j \in DOMAIN calls : calls'[j].by = calls[j].by
        /\ session' = session /\ told' = told
    BY <1>8, Works DEF connections
  <2> QED
    BY <2>1 DEF Greeted
<1>9. CASE \/ (\E p \in Parts : Change(p)) \/ (\E i \in DOMAIN changes : Schedule(i) \/ LoseSchedule(i))
           \/ (\E s \in Sessions : OnClosed(s))
           \/ OnMessage \/ OnDisconnected \/ LinkLost \/ AgentRestart \/ UNCHANGED vars
  <2>1. calls' = calls /\ session' = session /\ told' = told
    BY <1>9 DEF Change, Schedule, LoseSchedule, OnClosed, OnMessage, OnDisconnected, LinkLost,
       AgentRestart, vars, connections
  <2> QED
    BY <2>1 DEF Greeted
<1>10. ASSUME NEW s \in Sessions, Connect(s) \/ OnHello(s) \/ HelloThrows(s)
       PROVE  Greeted'
  <2>1. \A t \in Sessions : session'[t] \in Early => session[t] \in Early
    BY <1>2, <1>10 DEF Connect, OnHello, HelloThrows, Early
  <2>2. calls' = calls /\ told' = told
    BY <1>10 DEF Connect, OnHello, HelloThrows
  <2>3. CallsWere(NewCall("resync", <<>>))
    BY <2>2, CallsKept
  <2> QED
    BY <1>1, <1>2, <2>1, <2>2, <2>3, GreetedKept, NamesDiffer
<1>11. CASE Crash
  <2>1. calls' = <<>> /\ told' = told /\ \A s \in Sessions : session'[s] \in Early => session[s] \in Early
    BY <1>2, <1>11 DEF Crash, Early
  <2> QED
    BY <2>1 DEF Greeted, Early
<1> QED
  BY <1>3, <1>4, <1>6, <1>7, <1>8, <1>9, <1>10, <1>11 DEF Next, CallStep, HandlerStep

-----------------------------------------------------------------------------
(* The one session of a run without faults. *)

LEMMA OneSessionKept ==
  ASSUME OneSession, open' = open, agent'.session = agent.session, registry' = registry,
         \A s \in Sessions : session'[s] \notin Early => session[s] \notin Early
  PROVE  OneSession'
  BY DEF OneSession, Early

LEMMA ToldKept ==
  ASSUME TypeInv, Told, registry' = registry, stream' = stream, told' = told,
         \A s \in Sessions : session'[s] = "live" => session[s] = "live"
  PROVE  Told'
<1>1. LastPublished' = LastPublished
  BY LastKept
<1>2. registry # None => registry \in Sessions
  BY DEF TypeInv, Types
<1> QED
  BY <1>1, <1>2 DEF Told

\* A session that is registered before the snapshots begin.
LEMMA ToldHello ==
  ASSUME TypeInv, Greeted, OneSession, Told, NEW s \in Sessions, OnHello(s)
  PROVE  OneSession' /\ Told'
<1>1. /\ session \in [Sessions -> SessionPc] /\ registry \in open \cup {None}
      /\ session[s] = "connecting" /\ s \in open
  BY DEF OnHello, TypeInv, Types
<1>2. registry = None
  <2> SUFFICES ASSUME registry # None
               PROVE  FALSE
    OBVIOUS
  <2>1. registry = s
    BY <1>1 DEF OneSession
  <2> QED
    BY <1>1, <2>1 DEF TypeInv, Registered
<1>3. /\ open' = open /\ registry' = s /\ session' = [session EXCEPT ![s] = "connected"]
      /\ told' = told /\ agent' = agent
  BY <1>2 DEF OnHello
<1>4. \A t \in Sessions : session'[t] \notin Early => t = s
  <2> SUFFICES ASSUME NEW t \in Sessions, t # s, session[t] \notin Early
               PROVE  FALSE
    BY <1>1, <1>3
  <2>1. registry = t
    BY DEF OneSession, Early
  <2> QED
    BY <1>2, <2>1, NamesDiffer
<1>5. OneSession'
  BY <1>3, <1>4 DEF OneSession, Early
<1>6. told'[s] = 0 /\ session'[s] # "live"
  BY <1>1, <1>3 DEF Greeted
<1> QED
  BY <1>3, <1>5, <1>6 DEF Told

LEMMA ToldConnect ==
  ASSUME TypeInv, OneSession, Told, NEW s \in Sessions, Connect(s)
  PROVE  OneSession' /\ Told'
<1>1. /\ agent.session = None /\ open = {} /\ registry = None
      /\ session \in [Sessions -> SessionPc]
      /\ agent \in [session : Sessions \cup {None}, version : Nat, content : Content]
  BY DEF Connect, OneSession, TypeInv, Types
<1>2. /\ registry' = registry /\ open' = {s} /\ session' = [session EXCEPT ![s] = "connecting"]
      /\ agent'.session = s
  BY <1>1 DEF Connect
<1>3. \A t \in Sessions : session'[t] \notin Early => session[t] \notin Early
  BY <1>1, <1>2 DEF Early
<1>4. OneSession'
  BY <1>2, <1>3, NamesDiffer DEF OneSession, Early
<1> QED
  BY <1>1, <1>2, <1>4 DEF Told

\* The end of a call with a snapshot.
LEMMA ToldResume ==
  ASSUME TypeInv, Greeted, OneSession, Told, NEW i \in DOMAIN calls, NEW v, NEW changed \in BOOLEAN,
         NEW m, Resume(i, m, changed), m.version = v, LastPublished' = v,
         ~changed => v = LastPublished, StreamGrew
  PROVE  OneSession' /\ Told'
<1>1. UNCHANGED <<registry, open, agent>>
  BY DEF Resume
<1>2. OneSession'
  BY <1>1, OneSessionKept, ResumeTold
<1>3. CASE registry = None
  BY <1>1, <1>2, <1>3 DEF Told
<1>4. CASE registry # None
  <2>1. registry \in open /\ registry \in Sessions
    BY <1>4 DEF TypeInv, Types
  <2>2. CASE calls[i].by \in Sessions
    <3>1. registry = calls[i].by
      BY <2>2 DEF Greeted, OneSession
    <3>2. told'[registry'] = LastPublished'
      BY <1>1, <2>1, <2>2, <3>1, ResumeTold
    <3> QED
      BY <1>2, <3>2 DEF Told
  <2>3. CASE calls[i].by \notin Sessions /\ (changed \/ calls[i].by = "resync")
    <3>1. told'[registry'] = LastPublished'
      BY <1>1, <1>4, <2>3, ResumeTold
    <3> QED
      BY <1>2, <3>1 DEF Told
  <2>4. CASE calls[i].by \notin Sessions /\ ~(changed \/ calls[i].by = "resync")
    <3>1. told'[registry] = told[registry]
      BY <1>4, <2>4, ResumeTold
    <3>2. session'[registry] = "live" => session[registry] = "live"
      BY <2>1, <2>4, ResumeTold
    <3>3. (\E w \in DOMAIN stream : ~stream[w].ok) => (\E w \in DOMAIN stream' : ~stream'[w].ok)
      BY DEF StreamGrew
    <3>4. LastPublished' = LastPublished
      BY <2>4
    <3> QED
      BY <1>1, <1>2, <1>4, <3>1, <3>2, <3>3, <3>4 DEF Told
  <2> QED
    BY <2>2, <2>3, <2>4
<1> QED
  BY <1>2, <1>3, <1>4

\* A snapshot that was too large leaves an event that says so.
LEMMA ToldExceeds ==
  ASSUME TypeInv, LastExists, Greeted, OneSession, Told, NEW i \in DOMAIN calls, Exceeds(i)
  PROVE  OneSession' /\ Told'
<1>1. ResumeEmpty(i, FALSE) /\ stream' = NewEvent(i, FALSE)
  BY DEF Exceeds
<1>2. /\ registry' = registry /\ open' = open /\ told' = told /\ agent' = agent
      /\ \A s \in Sessions : session'[s] \notin Early => session[s] \notin Early
  BY <1>1, ResumeEmptyTold, ResumeEmptyTyped
<1>3. OneSession'
  BY <1>2, OneSessionKept
<1>4. LastPublished' = LastPublished
  BY <1>1, LastAfter
<1>5. Len(stream) + 1 \in DOMAIN stream' /\ ~stream'[Len(stream) + 1].ok
  BY <1>1, AppendGrew DEF TypeInv
<1> QED
  BY <1>2, <1>3, <1>4, <1>5 DEF Told

LEMMA OneSessionStep ==
  ASSUME TypeInv, FeedInv, Turns, Greeted, OneSession, Told, [Next]_vars, faults' = faults
  PROVE  OneSession' /\ Told'
<1>1. /\ session \in [Sessions -> SessionPc] /\ faults \in Nat
      /\ agent \in [session : Sessions \cup {None}, version : Nat, content : Content]
  BY DEF TypeInv, Types
<1>2. \A kind : ~Fault(kind)
  BY <1>1 DEF Fault
<1>3. ASSUME NEW i \in DOMAIN calls, Unchanged(i)
      PROVE  OneSession' /\ Told'
  <2>1. /\ Resume(i, Snapshot(calls[i].last, calls[i].content), FALSE) /\ stream' = stream
        /\ calls[i].last = LastPublished
    BY <1>3 DEF Unchanged, Built, Turns
  <2>2. Snapshot(calls[i].last, calls[i].content).version = calls[i].last
    BY DEF Snapshot
  <2>3. LastPublished' = LastPublished /\ StreamGrew
    BY <2>1, LastKept, StreamKept
  <2> QED
    BY <2>1, <2>2, <2>3, ToldResume
<1>4. ASSUME NEW i \in DOMAIN calls, Publish(i)
      PROVE  OneSession' /\ Told'
  <2>1. /\ Resume(i, Snapshot(Len(stream) + 1, calls[i].content), TRUE) /\ stream' = NewEvent(i, TRUE)
    BY <1>4 DEF Publish
  <2>2. Snapshot(Len(stream) + 1, calls[i].content).version = Len(stream) + 1
    BY DEF Snapshot
  <2>3. LastPublished' = Len(stream) + 1 /\ StreamGrew
    BY <2>1, LastAfter, AppendGrew DEF FeedInv, TypeInv
  <2> QED
    BY <2>1, <2>2, <2>3, ToldResume
<1>5. ASSUME NEW s \in Sessions, ReplyHello(s) \/ SyncRequest(s)
      PROVE  OneSession' /\ Told'
  <2>1. /\ session' = [session EXCEPT ![s] = "publishing"] /\ session[s] \notin Early
        /\ UNCHANGED <<stream, registry, open, told, agent>>
    BY <1>5 DEF ReplyHello, SyncRequest, Early
  <2>2. \A t \in Sessions : session'[t] \notin Early => session[t] \notin Early
    BY <1>1, <2>1
  <2>3. \A t \in Sessions : session'[t] = "live" => session[t] = "live"
    BY <1>1, <2>1
  <2> QED
    BY <2>1, <2>2, <2>3, OneSessionKept, ToldKept
<1>6. CASE \/ (\E p \in Parts : Change(p)) \/ (\E i \in DOMAIN changes : Schedule(i))
           \/ (\E i \in DOMAIN calls : LoadProvider(i) \/ (\E p \in Parts : BuildSnapshotContent(i, p)))
           \/ Run \/ Resync \/ OnMessage \/ UNCHANGED vars
  <2>1. UNCHANGED <<registry, open, session, told, stream>> /\ agent'.session = agent.session
    BY <1>1, <1>6 DEF Change, Schedule, LoadProvider, BuildSnapshotContent, Run, Resync, OnMessage, vars,
       connections
  <2> QED
    BY <2>1, OneSessionKept, ToldKept
<1>7. ASSUME NEW s \in Sessions, OnClosed(s)
      PROVE  FALSE
  BY <1>7 DEF OnClosed, OneSession
<1>8. ~OnDisconnected
  BY DEF OnDisconnected, OneSession
<1> QED
  BY <1>2, <1>3, <1>4, <1>5, <1>6, <1>7, <1>8, ToldConnect, ToldHello, ToldExceeds
  DEF Next, CallStep, HandlerStep, LoseSchedule, PublishThrows, AnswerLost, HelloThrows, LinkLost, Crash,
      AgentRestart, FeedInv

-----------------------------------------------------------------------------
(* The account as it is. *)

\* Only connections are lost, and agents start again.
OnlyLinksFail == FaultKinds \subseteq {"link", "agent"}

QueuedRunIn(q) == \E i \in DOMAIN q : q[i].by = "coordinator" /\ q[i].pc = "queued"

\* While no run is to come, nobody but the coordinator waits with one.
LEMMA NotDue ==
  ~Due <=> /\ \A i \in DOMAIN changes : changes[i].pc # "committed"
           /\ ~pending.timer /\ ~(pending.running /\ pending.dirty) /\ ~QueuedRunIn(calls)
  BY DEF Due, QueuedRunIn

\* A change makes a run due, and whatever delivers it passes it on.
LEMMA DueChange ==
  ASSUME TypeInv, NEW p \in Parts, Change(p)
  PROVE  Due'
<1>1. changes \in Seq(ChangeRec)
  BY DEF TypeInv, Types
<1>2. PICK c : changes' = Append(changes, [cause |-> c, pc |-> "committed"])
  BY DEF Change
<1>3. Len(changes) + 1 \in DOMAIN changes' /\ changes'[Len(changes) + 1].pc = "committed"
  BY <1>1, <1>2
<1> QED
  BY <1>3 DEF Due

LEMMA DueSchedule ==
  ASSUME TypeInv, NEW i \in DOMAIN changes, Schedule(i)
  PROVE  Due'
<1>1. pending \in Pending
  BY DEF TypeInv, Types
<1>2. /\ pending'.running = pending.running
      /\ pending'.timer = (pending.timer \/ ~pending.running)
      /\ pending'.dirty = (pending.dirty \/ pending.running)
  BY <1>1 DEF Schedule, Pending
<1>3. pending.running \in BOOLEAN
  BY <1>1 DEF Pending
<1>4. CASE pending.running
  BY <1>2, <1>4 DEF Due
<1>5. CASE ~pending.running
  BY <1>2, <1>5 DEF Due
<1> QED
  BY <1>4, <1>5

LEMMA DueRun ==
  ASSUME TypeInv, Run
  PROVE  Due'
<1> DEFINE c == NewCall("coordinator", pending.causes)
<1>1. calls \in Seq(Call) /\ calls' = Append(calls, c)
  BY DEF Run, TypeInv, Types
<1>2. c.by = "coordinator" /\ c.pc = "queued"
  BY DEF NewCall
<1> HIDE DEF c
<1>3. Len(calls) + 1 \in DOMAIN calls' /\ calls'[Len(calls) + 1] = c
  BY <1>1
<1> QED
  BY <1>2, <1>3 DEF Due

\* Steps that leave account, stream and coordinator alone and begin no reading.
LEMMA CurrentKept ==
  ASSUME TypeInv, Current, UNCHANGED <<account, changes, pending, stream>>,
         QueuedRunIn(calls) => QueuedRunIn(calls'),
         \A j \in DOMAIN calls' :
           calls'[j].pc = "queued" \/ (j \in DOMAIN calls /\ calls'[j] = calls[j])
  PROVE  Current'
<1> SUFFICES ASSUME ~Due'
             PROVE  /\ ReadsCurrent'
                    /\ ~pending'.running /\ changes' # <<>> => PublishedCurrent'
  BY DEF Current
<1>1. ~Due
  BY DEF Due, QueuedRunIn
<1>2. ReadsCurrent /\ (~pending.running /\ changes # <<>> => PublishedCurrent)
  BY <1>1 DEF Current
<1>3. ReadsCurrent'
  BY <1>2 DEF ReadsCurrent
<1>4. PublishedCurrent => PublishedCurrent'
  BY LastKept DEF PublishedCurrent, Size
<1> QED
  BY <1>2, <1>3, <1>4

LEMMA CurrentArrival ==
  ASSUME TypeInv, Current, Resync \/ (\E s \in Sessions : ReplyHello(s) \/ SyncRequest(s))
  PROVE  Current'
<1>1. UNCHANGED <<account, changes, pending, stream>>
  BY DEF Resync, ReplyHello, SyncRequest, coordination
<1>2. PICK by : calls' = Append(calls, NewCall(by, <<>>))
  BY DEF Resync, ReplyHello, SyncRequest
<1>3. QueuedRunIn(calls) => QueuedRunIn(calls')
  <2>1. calls \in Seq(Call)
    BY DEF TypeInv, Types
  <2>2. \A k \in DOMAIN calls : k \in DOMAIN calls' /\ calls'[k] = calls[k]
    BY <1>2, <2>1
  <2> QED
    BY <2>2 DEF QueuedRunIn
<1> QED
  BY <1>1, <1>3, Arrival, CurrentKept

LEMMA CurrentLoad ==
  ASSUME TypeInv, Turns, Current, NEW i \in DOMAIN calls, LoadProvider(i)
  PROVE  Current'
<1> SUFFICES ASSUME ~Due'
             PROVE  /\ ReadsCurrent'
                    /\ ~pending'.running /\ changes' # <<>> => PublishedCurrent'
  BY DEF Current
<1>1. /\ UNCHANGED <<account, changes, pending, stream>>
      /\ DOMAIN calls' = DOMAIN calls
      /\ \A j \in DOMAIN calls : calls'[j].by = calls[j].by /\ (j # i => calls'[j] = calls[j])
      /\ i = 1 /\ calls[i].pc = "queued" /\ calls'[i].todo = Parts
  BY Works DEF coordination
<1>2. ReadsCurrent'
  <2> SUFFICES ASSUME NEW j \in DOMAIN calls', calls'[j].pc = "reading"
               PROVE  \A p \in Parts \ calls'[j].todo : calls'[j].content[p] = account'[p]
    BY DEF ReadsCurrent
  <2>1. j = i
    BY <1>1 DEF Turns
  <2> QED
    BY <1>1, <2>1
<1>3. CASE calls[i].by = "coordinator"
  <2>1. pending'.running
    BY <1>1, <1>3 DEF TypeInv, Coordinated, RunIn
  <2> QED
    BY <1>2, <2>1
<1>4. CASE calls[i].by # "coordinator"
  <2>1. ~Due
    BY <1>1, <1>4 DEF Due
  <2>2. PublishedCurrent => PublishedCurrent'
    BY <1>1, LastKept DEF PublishedCurrent, Size
  <2> QED
    BY <1>1, <1>2, <2>1, <2>2 DEF Current
<1> QED
  BY <1>3, <1>4

LEMMA CurrentBuild ==
  ASSUME TypeInv, Current, NEW i \in DOMAIN calls, NEW p \in Parts, BuildSnapshotContent(i, p)
  PROVE  Current'
<1> SUFFICES ASSUME ~Due'
             PROVE  /\ ReadsCurrent'
                    /\ ~pending'.running /\ changes' # <<>> => PublishedCurrent'
  BY DEF Current
<1>1. /\ UNCHANGED <<account, changes, pending, stream>>
      /\ DOMAIN calls' = DOMAIN calls
      /\ \A j \in DOMAIN calls : calls'[j].by = calls[j].by /\ (j # i => calls'[j] = calls[j])
      /\ calls'[i].pc = calls[i].pc /\ calls'[i].todo = calls[i].todo \ {p}
      /\ calls'[i].content = [calls[i].content EXCEPT ![p] = account[p]]
  BY Works DEF coordination
<1>2. ~Due
  BY <1>1 DEF Due
<1>3. ReadsCurrent /\ (~pending.running /\ changes # <<>> => PublishedCurrent)
  BY <1>2 DEF Current
<1>4. ReadsCurrent'
  <2> SUFFICES ASSUME NEW j \in DOMAIN calls', calls'[j].pc = "reading",
                      NEW q \in Parts \ calls'[j].todo
               PROVE  calls'[j].content[q] = account'[q]
    BY DEF ReadsCurrent
  <2>1. CASE j # i
    BY <1>1, <1>3, <2>1 DEF ReadsCurrent
  <2>2. CASE j = i
    <3>1. calls[i].content \in [Parts -> Values]
      BY CallTyped DEF TypeInv, Content
    <3>2. calls'[i].content[q] = IF q = p THEN account[p] ELSE calls[i].content[q]
      BY <1>1, <3>1
    <3>3. q # p => calls[i].content[q] = account[q]
      BY <1>1, <1>3, <2>2 DEF ReadsCurrent
    <3> QED
      BY <1>1, <2>2, <3>2, <3>3
  <2> QED
    BY <2>1, <2>2
<1>5. PublishedCurrent => PublishedCurrent'
  BY <1>1, LastKept DEF PublishedCurrent, Size
<1> QED
  BY <1>1, <1>3, <1>4, <1>5

\* A call that ends without a fault.
Ends(i) ==
  /\ Built(i) /\ calls' = RemoveAt(calls, i) /\ UNCHANGED <<account, changes>>
  /\ IF calls[i].by = "coordinator" THEN EndRun ELSE UNCHANGED pending

LEMMA DueEnds ==
  ASSUME TypeInv, Turns, NEW i \in DOMAIN calls, Ends(i), ~Due'
  PROVE  ~Due
<1>1. i = 1 /\ calls[i].pc = "reading" /\ calls' = RemoveAt(calls, i)
  BY DEF Ends, Built, Turns
<1>2. /\ \A j \in DOMAIN calls' : calls'[j].pc = "queued"
      /\ RunIn(calls') <=> RunIn(calls) /\ calls[i].by # "coordinator"
  BY <1>1, OthersWait
<1>3. changes' = changes
  BY DEF Ends
<1>4. CASE calls[i].by = "coordinator"
  <2>1. RunIn(calls) /\ EndRun
    BY <1>4 DEF RunIn, Ends
  <2>2. ~pending.timer
    BY <2>1 DEF TypeInv, Coordinated
  <2>3. ~pending.dirty
    <3> SUFFICES ASSUME pending.dirty
                 PROVE  FALSE
      OBVIOUS
    <3>1. pending'.timer
      BY <2>1 DEF EndRun, TypeInv, Types, Pending
    <3> QED
      BY <3>1 DEF Due
  <2>4. ~QueuedRunIn(calls)
    BY <1>1, <1>4 DEF QueuedRunIn, TypeInv, Coordinated, OneRunIn
  <2> QED
    BY <1>3, <2>2, <2>3, <2>4 DEF Due, QueuedRunIn
<1>5. CASE calls[i].by # "coordinator"
  <2>1. pending' = pending
    BY <1>5 DEF Ends
  <2>2. ~RunIn(calls')
    BY <1>2 DEF Due, RunIn
  <2>3. ~RunIn(calls)
    BY <1>2, <1>5, <2>2
  <2> QED
    BY <1>3, <2>1, <2>3 DEF Due, RunIn
<1> QED
  BY <1>4, <1>5

LEMMA CurrentEnds ==
  ASSUME TypeInv, LastExists, Turns, Current, NEW i \in DOMAIN calls,
         Unchanged(i) \/ Publish(i) \/ Exceeds(i)
  PROVE  Current'
<1>1. Ends(i)
  <2>1. calls[i].by \in Sessions \cup {"coordinator", "resync"}
    BY CallTyped DEF TypeInv, Call
  <2> QED
    BY <2>1, NamesDiffer DEF Unchanged, Publish, Exceeds, Resume, ResumeEmpty, Ends
<1> SUFFICES ASSUME ~Due'
             PROVE  ReadsCurrent' /\ PublishedCurrent'
  BY DEF Current
<1>2. i = 1 /\ calls[i].last = LastPublished /\ calls[i].pc = "reading" /\ calls[i].todo = {}
      /\ account' = account /\ calls' = RemoveAt(calls, i)
  BY <1>1 DEF Ends, Built, Turns
<1>3. ReadsCurrent'
  BY <1>2, OthersWait DEF ReadsCurrent
<1>4. ReadsCurrent
  BY <1>1, DueEnds DEF Current
<1>5. calls[i].content = account
  <2>1. calls[i].content \in [Parts -> Values] /\ account \in [Parts -> Values]
    BY CallTyped DEF TypeInv, Types, Content
  <2>2. \A p \in Parts : calls[i].content[p] = account[p]
    BY <1>2, <1>4 DEF ReadsCurrent
  <2> QED
    BY <2>1, <2>2
<1>6. CASE Unchanged(i)
  <2>1. stream' = stream /\ calls[i].last # 0 /\ stream[calls[i].last].content = calls[i].content
    BY <1>6 DEF Unchanged, Same
  <2> QED
    BY <1>2, <1>3, <1>5, <2>1, LastKept DEF PublishedCurrent
<1>7. CASE Publish(i)
  <2>1. stream' = NewEvent(i, TRUE)
    BY <1>7 DEF Publish
  <2>2. LastPublished' = Len(stream) + 1 /\ stream'[Len(stream) + 1].content = calls[i].content
    BY <2>1, LastAfter, AppendGrew DEF TypeInv
  <2>3. Len(stream) + 1 # 0
    BY DEF TypeInv, Types
  <2> QED
    BY <1>2, <1>3, <1>5, <2>2, <2>3 DEF PublishedCurrent
<1>8. CASE Exceeds(i)
  <2>1. Size(account')
    BY <1>2, <1>5, <1>8 DEF Exceeds
  <2> QED
    BY <1>3, <2>1 DEF PublishedCurrent, Size
<1> QED
  BY <1>6, <1>7, <1>8

LEMMA CurrentStep ==
  ASSUME OnlyLinksFail \/ faults' = faults, TypeInv, LastExists, Turns, Current, [Next]_vars
  PROVE  Current'
<1>1. CASE \/ (\E p \in Parts : Change(p)) \/ (\E i \in DOMAIN changes : Schedule(i)) \/ Run
  BY <1>1, DueChange, DueSchedule, DueRun DEF Current
<1>2. CASE \/ (\E s \in Sessions : Connect(s) \/ OnHello(s) \/ OnClosed(s))
           \/ OnMessage \/ OnDisconnected \/ LinkLost \/ AgentRestart \/ UNCHANGED vars
  <2>1. UNCHANGED <<account, changes, pending, calls, stream>>
    BY <1>2 DEF Connect, OnHello, OnClosed, OnMessage, OnDisconnected, LinkLost, AgentRestart, vars,
       coordination
  <2> QED
    BY <2>1, CurrentKept
<1>3. ~Fault("request") /\ ~Fault("publish") /\ ~Fault("answer") /\ ~Fault("crash")
  <2>1. faults \in Nat
    BY DEF TypeInv, Types
  <2> QED
    BY <2>1 DEF Fault, OnlyLinksFail
<1> QED
  BY <1>1, <1>2, <1>3, CurrentArrival, CurrentLoad, CurrentBuild, CurrentEnds
  DEF Next, CallStep, HandlerStep, LoseSchedule, PublishThrows, AnswerLost, HelloThrows, Crash

LEMMA OrderStart == Init => Turns /\ Greeted /\ Current /\ OneSession /\ Told
<1> SUFFICES ASSUME Init
             PROVE  Turns /\ Greeted /\ Current /\ OneSession /\ Told
  OBVIOUS
<1>1. Turns /\ Greeted
  BY DEF Init, Turns, Greeted
<1>2. Current
  BY DEF Init, Current, ReadsCurrent
<1>3. OneSession /\ Told
  BY DEF Init, OneSession, Told
<1> QED
  BY <1>1, <1>2, <1>3

-----------------------------------------------------------------------------
(* The theorems about the last version. *)

LEMMA CurrentAtQuiet ==
  ASSUME Current
  PROVE  LastIsCurrent
<1> SUFFICES ASSUME Quiet, changes # <<>>, ~Size(account)
             PROVE  LastPublished # 0 /\ stream[LastPublished].content = account
  BY DEF LastIsCurrent
<1>1. ~Due /\ ~pending.running
  BY DEF Quiet, Idle, Due
<1> QED
  BY <1>1 DEF Current, PublishedCurrent

\* FR-013, FR-021: as long as requests reach schedule() and the backend neither
\* throws nor stops, the last version is the account as it is once the changes have
\* been worked off, however often connections are lost and whoever published it.
THEOREM CurrentAtRest ==
  ASSUME OnlyLinksFail
  PROVE  Spec => []LastIsCurrent
<1> DEFINE IInv == TypeInv /\ FeedInv /\ Turns /\ Current
<1>1. Init => IInv
  BY TypeInit, FeedStart, OrderStart
<1>2. IInv /\ [Next]_vars => IInv'
  BY TypeStep, FeedStep, TurnsStep, CurrentStep DEF FeedInv
<1>3. IInv => LastIsCurrent
  BY CurrentAtQuiet
<1> HIDE DEF IInv
<1> QED
  BY <1>1, <1>2, <1>3, PTL DEF Spec

LEMMA FaultsCount ==
  ASSUME TypeInv, [Next]_vars, faults' = 0
  PROVE  faults' = faults
<1>1. faults \in Nat
  BY DEF TypeInv, Types
<1>2. faults' = faults \/ faults' = faults + 1
  BY DEF Next, CallStep, HandlerStep, vars, Change, Schedule, LoseSchedule, Run, LoadProvider,
     BuildSnapshotContent, Unchanged, Exceeds, Publish, Resync, Connect, OnHello, ReplyHello,
     SyncRequest, OnClosed, OnMessage, OnDisconnected, PublishThrows, AnswerLost, HelloThrows,
     LinkLost, Crash, AgentRestart, Fault
<1> QED
  BY <1>1, <1>2

\* FR-013, FR-021, US3-4 and rules 3 and 9 of the contract: without a fault, once
\* everything has been worked off, the last version is the account or the account is
\* too large, and the live session was last sent that version or asked when it was.
THEOREM CurrentAndTold == Spec => []LastIsCurrentAndTold
<1> DEFINE IInv == /\ TypeInv /\ FeedInv /\ Turns /\ Greeted
                   /\ faults = 0 => Current /\ OneSession /\ Told
<1>1. Init => IInv
  BY TypeInit, FeedStart, OrderStart
<1>2. IInv /\ [Next]_vars => IInv'
  <2> SUFFICES ASSUME IInv, [Next]_vars
               PROVE  IInv'
    OBVIOUS
  <2>1. TypeInv' /\ FeedInv' /\ Turns' /\ Greeted'
    BY TypeStep, FeedStep, TurnsStep, GreetedStep DEF FeedInv
  <2>2. faults' = 0 => Current'
    BY FaultsCount, CurrentStep DEF FeedInv
  <2>3. faults' = 0 => OneSession' /\ Told'
    BY FaultsCount, OneSessionStep
  <2> QED
    BY <2>1, <2>2, <2>3
<1>3. IInv => LastIsCurrentAndTold
  <2> SUFFICES ASSUME IInv, faults = 0
               PROVE  LastIsCurrent /\ LastIsTold
    BY DEF LastIsCurrentAndTold
  <2> QED
    BY CurrentAtQuiet DEF LastIsTold, Told
<1> HIDE DEF IInv
<1> QED
  BY <1>1, <1>2, <1>3, PTL DEF Spec

=============================================================================
