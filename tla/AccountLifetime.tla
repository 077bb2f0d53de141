-------------------------- MODULE AccountLifetime --------------------------
(* An account from its first request to its closure, and what comes after. The *)
(* account is written down when a request of its owner is first seen, and its *)
(* closure deletes everything it owns: jobs, the Redis lists, and last the *)
(* events. A closed account's owner may come back and begin another life under *)
(* the same name; device ids are fresh in each. The requests of the owner, the *)
(* reports of devices, the settlements and an administrator's limits run *)
(* beside a closure, each between two of its awaits. *)
(* Of a stream only the numbers and the names of its events are kept. The *)
(* append refuses a number that is taken and nothing else, and the number is *)
(* the length of what was loaded plus one: that is all the streams rely on. *)
EXTENDS Naturals, FiniteSets

CONSTANTS
  Actors,     \* requests or jobs under way side by side (a bound)
  Devices,    \* ids there are for devices (a bound)
  MaxVersion, \* events of a stream (a bound)
  MaxLives,   \* lives that end (a bound)
  MaxBegun,   \* requests, jobs and crashes of the backend (a bound)
  None

ASSUME AccountLifetimeAssumption ==
  /\ MaxVersion \in Nat \ {0} /\ MaxLives \in Nat /\ MaxBegun \in Nat
  /\ None \notin Devices \cup Nat /\ Devices # {}

VARIABLES
  account,  \* the account's stream
  stream,   \* the streams of the devices
  shown,    \* the ids in the Redis list of devices; the key exists when there are some
  jobs,     \* devices with a delayed settlement in the debounce queue
  actor,    \* what is under way
  life,     \* deletions so far
  born,     \* (history) the life in which the registration of a device began
  met,      \* (history) pairs of tags: what ran side by side, or was cut short
  count     \* requests, jobs and crashes so far

vars == <<account, stream, shown, jobs, actor, life, born, met, count>>

Names == {"registered", "overridden", "closed", "rotated", "decommissioned",
          "report", "changed"}
Event == [number : 1..MaxVersion, name : Names]
OwnerKinds == {"register", "rotate", "decommission", "list", "close"}
Writers == {"register", "decommission", "settle", "list"}  \* of the list
Kinds == OwnerKinds \cup {"override", "report", "settle"}

Idle == [pc |-> "idle", kind |-> "none", device |-> None, version |-> 0,
         summary |-> "none", todo |-> {}, item |-> None, begun |-> 0]

Has(s, name) == \E e \in s : e.name = name

\* toSummary of the reduced state: none without the registration.
Summary(s) ==
  CASE ~Has(s, "registered") -> "none"
    [] Has(s, "registered") /\ Has(s, "decommissioned") -> "gone"
    [] OTHER -> "listed"

\* Mutant of Accepted: a report is accepted when its device has a stream.
AcceptedUnchecked(s) == s # {} /\ ~Has(s, "decommissioned")

\* A report is refused without a credential, and by a device that is not enabled.
Accepted(s) ==
  (Has(s, "registered") \/ Has(s, "rotated")) /\ ~Has(s, "decommissioned")

-----------------------------------------------------------------------------
(* What ran beside what. *)

Tag(a) == <<actor[a].kind, actor[a].device>>
Cut == <<"cut", None>>
Busy == {a \in Actors : actor[a].pc # "idle"}

\* Of the kinds ks and js, two ran side by side that were about device d or the account.
Met(ks, d, js) ==
  \E k \in ks, j \in js, x, y \in {d, None} : {<<k, x>>, <<j, y>>} \in met
WasCut(k, d) == {<<k, d>>, Cut} \in met

\* Two that end something or write the list, about one device or the account.
Matters(t, u) ==
  /\ t[1] = "close" \/ u[1] = "close" \/ (t[1] \in Writers /\ u[1] \in Writers)
  /\ t[2] = None \/ u[2] = None \/ t[2] = u[2]

\* A request or job begins with the life it sees.
Begin(a, kind, d, pc) ==
  /\ actor[a] = Idle /\ count < MaxBegun
  /\ count' = count + 1
  /\ actor' = [actor EXCEPT ![a] =
       [Idle EXCEPT !.pc = pc, !.kind = kind, !.device = d, !.begun = life]]
  /\ met' = met \cup {{<<kind, d>>, Tag(b)} : b \in {x \in Busy : Matters(<<kind, d>>, Tag(x))}}

Go(a, pc) == actor' = [actor EXCEPT ![a].pc = pc]
End(a) == actor' = [actor EXCEPT ![a] = Idle]

\* loadAggregate: the version is the length of the stream.
Load(a, s, pc) ==
  actor' = [actor EXCEPT ![a].pc = pc, ![a].version = Cardinality(s),
                         ![a].summary = Summary(s)]

\* Mutant of Number: one too many.
NumberSkips(version) == version + 2

Number(version) == version + 1

\* Mutant of Free: the events have no such constraint.
FreeAlways(s, n) == TRUE

\* The unique constraint on the number is the only check.
Free(s, n) == \A e \in s : e.number # n
With(s, n, name) == s \cup {[number |-> n, name |-> name]}

-----------------------------------------------------------------------------
(* The owner's requests. The middleware loads the account, and registers it *)
(* when its stream is empty. *)

Ask(a) ==
  \E kind \in OwnerKinds, d \in Devices \cup {None} :
    /\ CASE kind = "register" ->
              /\ d \in Devices /\ born[d] = None
              /\ d = CHOOSE x \in Devices : born[x] = None
         [] kind \in {"rotate", "decommission"} -> d \in Devices /\ stream[d] # {}
         [] OTHER -> d = None
    /\ Begin(a, kind, d, IF account = {} THEN "provision" ELSE kind)
    /\ born' = IF kind = "register" THEN [born EXCEPT ![d] = life] ELSE born
    /\ UNCHANGED <<account, stream, shown, jobs, life>>

\* ensureProvisioned appends; the loser of two first requests is answered 500.
Provision(a) ==
  /\ actor[a].pc = "provision"
  /\ IF Free(account, 1)
       THEN account' = With(account, 1, "registered") /\ Go(a, actor[a].kind)
       ELSE End(a) /\ UNCHANGED account
  /\ UNCHANGED <<stream, shown, jobs, life, born, met, count>>

\* A new device's stream has a fresh id.
Register(a) ==
  LET d == actor[a].device IN
  /\ actor[a].pc = "register"
  /\ stream' = [stream EXCEPT ![d] = With(@, 1, "registered")]
  /\ Go(a, "refresh")
  /\ UNCHANGED <<account, shown, jobs, life, born, met, count>>

\* rotate-credential, decommission, the trigger endpoint and the settlement
\* load the device, and go on or stop by what they find.
GoesOn(kind, s) ==
  CASE kind \in {"rotate", "decommission"} -> Summary(s) = "listed"
    [] kind = "report" -> Accepted(s)
    [] kind = "settle" -> Has(s, "report") /\ ~Has(s, "decommissioned")

LoadDevice(a) ==
  LET s == stream[actor[a].device] IN
  /\ actor[a].pc \in {"rotate", "decommission", "report", "settle"}
  /\ \/ GoesOn(actor[a].kind, s) /\ Load(a, s, "append")
     \/ /\ ~GoesOn(actor[a].kind, s) \/ actor[a].kind = "settle"  \* nothing has changed
        /\ End(a)
  /\ UNCHANGED <<account, stream, shown, jobs, life, born, met, count>>

Appended == [rotate |-> "rotated", decommission |-> "decommissioned",
             report |-> "report", settle |-> "changed"]
Then == [rotate |-> "done", decommission |-> "refresh", report |-> "schedule",
          settle |-> "show"]

AppendDevice(a) ==
  LET d == actor[a].device
      n == Number(actor[a].version)
  IN
  /\ actor[a].pc = "append" /\ actor[a].kind # "override"
  /\ IF Free(stream[d], n)
       THEN /\ n <= MaxVersion
            /\ stream' = [stream EXCEPT ![d] = With(@, n, Appended[actor[a].kind])]
            /\ IF Then[actor[a].kind] = "done" THEN End(a) ELSE Go(a, Then[actor[a].kind])
       ELSE End(a) /\ UNCHANGED stream
  /\ UNCHANGED <<account, shown, jobs, life, born, met, count>>

\* refreshProjection loads the device again.
Refresh(a) ==
  /\ actor[a].pc = "refresh"
  /\ Load(a, stream[actor[a].device], "show")
  /\ UNCHANGED <<account, stream, shown, jobs, life, born, met, count>>

\* Mutant of Upsert: a decommissioned device stays.
UpsertKeeps(summary, d) == IF summary = "none" THEN shown ELSE shown \cup {d}

\* upsertIpClientProjection.
Upsert(summary, d) ==
  CASE summary = "none" -> shown
    [] summary = "gone" -> shown \ {d}
    [] summary = "listed" -> shown \cup {d}

Show(a) ==
  /\ actor[a].pc = "show"
  /\ shown' = Upsert(actor[a].summary, actor[a].device)
  /\ End(a)
  /\ UNCHANGED <<account, stream, jobs, life, born, met, count>>

-----------------------------------------------------------------------------
(* The list of devices: shown as it is, or rebuilt when there is none. *)

List(a) ==
  /\ actor[a].pc = "list"
  /\ IF shown # {}
       THEN End(a)
       ELSE actor' = [actor EXCEPT ![a].pc = "clear",
                                   ![a].todo = {d \in Devices : stream[d] # {}}]
  /\ UNCHANGED <<account, stream, shown, jobs, life, born, met, count>>

\* What Redis had lost is listed again from here on.
Clear(a) ==
  /\ actor[a].pc = "clear"
  /\ shown' = {}
  /\ met' = met \ {{<<"lost", d>>, Cut} : d \in Devices}
  /\ IF actor[a].todo = {} THEN End(a) ELSE Go(a, "fill")
  /\ UNCHANGED <<account, stream, jobs, life, born, count>>

Fill(a) ==
  /\ actor[a].pc = "fill"
  /\ \E d \in actor[a].todo :
       actor' = [actor EXCEPT ![a].pc = "put", ![a].item = d, ![a].todo = @ \ {d},
                              ![a].summary = Summary(stream[d])]
  /\ UNCHANGED <<account, stream, shown, jobs, life, born, met, count>>

Put(a) ==
  /\ actor[a].pc = "put"
  /\ shown' = IF actor[a].summary = "listed" THEN shown \cup {actor[a].item} ELSE shown
  /\ IF actor[a].todo = {} THEN End(a) ELSE Go(a, "fill")
  /\ UNCHANGED <<account, stream, jobs, life, born, met, count>>

-----------------------------------------------------------------------------
(* The trigger endpoint, the debounce queue and its worker. *)

Report(a) ==
  \E d \in Devices :
    /\ stream[d] # {}   \* resolveAccountId finds an event
    /\ Begin(a, "report", d, "report")
    /\ UNCHANGED <<account, stream, shown, jobs, life, born>>

\* scheduleDebounce keeps one job of a device.
Schedule(a) ==
  /\ actor[a].pc = "schedule"
  /\ jobs' = jobs \cup {actor[a].device}
  /\ End(a)
  /\ UNCHANGED <<account, stream, shown, life, born, met, count>>

\* One job at a time.
Settling == {actor[a].device : a \in {b \in Actors : actor[b].kind = "settle"}}

Settle(a) ==
  \E d \in jobs :
    /\ Settling = {}
    /\ Begin(a, "settle", d, "settle")
    /\ jobs' = jobs \ {d}
    /\ UNCHANGED <<account, stream, shown, life, born>>

-----------------------------------------------------------------------------
(* The administrator's device limit, and the closure. *)

Override(a) ==
  /\ Begin(a, "override", None, "override")
  /\ UNCHANGED <<account, stream, shown, jobs, life, born>>

\* Not found without a registration; a closure goes on whatever it loads.
LoadAccount(a) ==
  /\ actor[a].pc \in {"override", "close"}
  /\ IF actor[a].kind = "close" \/ Has(account, "registered")
       THEN Load(a, account, IF actor[a].kind = "close" THEN "closing" ELSE "append")
       ELSE End(a)
  /\ UNCHANGED <<account, stream, shown, jobs, life, born, met, count>>

AppendAccount(a) ==
  LET n == Number(actor[a].version)
      close == actor[a].kind = "close"
  IN
  /\ \/ actor[a].pc = "append" /\ ~close /\ actor[a].kind = "override"
     \/ actor[a].pc = "closing"
  /\ IF Free(account, n)
       THEN /\ n <= MaxVersion
            /\ account' = With(account, n, IF close THEN "closed" ELSE "overridden")
            /\ IF close THEN Go(a, "purge jobs") ELSE End(a)
       ELSE End(a) /\ UNCHANGED account
  /\ UNCHANGED <<stream, shown, jobs, life, born, met, count>>

\* What is kept to run after an active job is no job of the queue yet.
PurgeJobs(a) ==
  /\ actor[a].pc = "purge jobs"
  /\ jobs' = jobs \cap Settling
  /\ Go(a, "purge list")
  /\ UNCHANGED <<account, stream, shown, life, born, met, count>>

\* Mutant of Purged: the list is left to be rebuilt.
PurgedNever == shown

Purged == {}

PurgeList(a) ==
  /\ actor[a].pc = "purge list"
  /\ shown' = Purged
  /\ Go(a, "delete")
  /\ UNCHANGED <<account, stream, jobs, life, born, met, count>>

DeleteAccount(a) ==
  /\ actor[a].pc = "delete"
  /\ life < MaxLives
  /\ account' = {} /\ stream' = [d \in Devices |-> {}]
  /\ life' = life + 1
  /\ End(a)
  /\ UNCHANGED <<shown, jobs, born, met, count>>

-----------------------------------------------------------------------------
\* The backend stops; an active job is found stalled and runs again.
Crash ==
  /\ Busy # {} /\ count < MaxBegun
  /\ count' = count + 1
  /\ jobs' = jobs \cup Settling
  /\ met' = met \cup {{Tag(a), Cut} : a \in {x \in Busy : actor[x].kind \in Writers \cup {"close"}}}
  /\ actor' = [a \in Actors |-> Idle]
  /\ UNCHANGED <<account, stream, shown, life, born>>

\* An account that was never seen, or one with a device whose list is there or lost.
Init ==
  /\ \E known \in BOOLEAN :
       LET first == CHOOSE d \in Devices : TRUE
           fresh == {[number |-> 1, name |-> "registered"]}
       IN
       /\ account = IF known THEN fresh ELSE {}
       /\ stream = [d \in Devices |-> IF known /\ d = first THEN fresh ELSE {}]
       /\ born = [d \in Devices |-> IF known /\ d = first THEN 0 ELSE None]
       /\ shown \in IF known THEN {{}, {first}} ELSE {{}}
       /\ met = IF known /\ shown = {} THEN {{<<"lost", first>>, Cut}} ELSE {}
  /\ jobs = {} /\ life = 0 /\ count = 0
  /\ actor = [a \in Actors |-> Idle]

Step(a) ==
  \/ Ask(a) \/ Provision(a) \/ Register(a)
  \/ LoadDevice(a) \/ AppendDevice(a) \/ Refresh(a) \/ Show(a)
  \/ List(a) \/ Clear(a) \/ Fill(a) \/ Put(a)
  \/ Report(a) \/ Schedule(a) \/ Settle(a)
  \/ Override(a) \/ LoadAccount(a) \/ AppendAccount(a)
  \/ PurgeJobs(a) \/ PurgeList(a) \/ DeleteAccount(a)

Next == Crash \/ \E a \in Actors : Step(a)

Spec == Init /\ [][Next]_vars

-----------------------------------------------------------------------------
(* Properties. *)

\* The variables have their types: no two events of a stream have one number
\* (the events' unique constraint), jobs and lists name devices that were
\* registered, and a request that has ended leaves nothing behind.
TypeOK ==
  /\ \A s \in {account} \cup {stream[d] : d \in Devices} :
       /\ s \subseteq Event
       /\ \A e, f \in s : e.number = f.number => e = f
  /\ \A d \in shown \cup jobs : d \in Devices /\ born[d] # None
  /\ \A a \in Actors :
       /\ actor[a].kind \in Kinds \cup {"none"}
       /\ (actor[a].pc = "idle") <=> (actor[a] = Idle)
       /\ actor[a].begun \in 0..life
  /\ Cardinality(Settling) <= 1
  /\ life \in 0..MaxLives /\ count \in 0..MaxBegun

DeviceKinds == {"register", "rotate", "decommission", "report", "settle"}

\* closeAccount: "no aggregate for the account exists to replay". After a
\* closure nothing of the ended life is left but what ran beside it brought
\* back: a stream by an append that was loaded for, a listed device by an
\* upsert or by a list rebuilt between the purge and the deletion, a job by a
\* report (or a registration or credential that lets it report again) or by the
\* settlement that was running, an account without its
\* registration by a limit or another closure.
NothingLeft ==
  /\ \A d \in Devices : born[d] # None /\ born[d] < life =>
       /\ stream[d] # {} => Met(DeviceKinds, d, {"close"})
       /\ d \in shown => Met({"register", "settle", "list"}, d, {"close"})
       /\ d \in jobs => Met({"register", "rotate", "report", "settle"}, d, {"close"})
  /\ life > 0 /\ account # {} /\ ~Has(account, "registered") =>
       Met({"override", "close"}, None, {"close"})

\* loadAggregate's version is "Current stream length == the sequence_number the
\* next appended event must use": every stream is numbered without a gap, so
\* that the optimistic append neither refuses a fresh number nor accepts a stale
\* one. Only an append that was loaded for before a closure and made after it
\* leaves a stream that begins in the middle; the owner of such an account
\* stream cannot close it any more once its length is the number before it.
NumberedWhole ==
  LET Whole(s) == {e.number : e \in s} = 1..Cardinality(s) IN
  /\ \A d \in Devices :
       Whole(stream[d]) \/ Met(DeviceKinds \ {"register"}, d, {"close"})
  /\ Whole(account) \/ Met({"override", "close"}, None, {"close"})

\* The trigger endpoint answers a device of an ended life "badauth": a report
\* that began after the deletion is accepted only when the device's registration
\* or a new credential came in beside the closure.
EndedDevicesAreRefused ==
  \A a \in Actors :
    LET d == actor[a].device IN
    /\ actor[a].kind = "report" /\ actor[a].pc \in {"append", "schedule"}
    /\ born[d] < actor[a].begun
    => Met({"register", "rotate"}, d, {"close"})

\* listIpClientsProjection rebuilds a list that is missing and trusts one that is
\* there. At rest a list that is there shows the devices of this life that are not
\* decommissioned, unless two that write it ran side by side about a device (a
\* rebuild reads the ids and the streams before it writes), one was cut short, or
\* Redis has lost the list and the next to write it was not a rebuild.
ListIsComplete ==
  shown # {} /\ (\A a \in Busy : actor[a].kind \notin Writers \cup {"close"}) =>
    \A d \in Devices :
      \/ (d \in shown) <=> (Summary(stream[d]) = "listed")
      \/ born[d] # None /\ born[d] < life
      \/ Met(Writers, d, Writers)
      \/ WasCut("list", None) \/ WasCut("close", None)
      \/ \E k \in Writers \cup {"lost"} : WasCut(k, d)
=============================================================================
