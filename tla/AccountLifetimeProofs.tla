------------------------ MODULE AccountLifetimeProofs ------------------------
(***************************************************************************)
(* AccountLifetime, for every number of requests, devices, events and      *)
(* lives: its types, what a closure leaves behind, how the streams are     *)
(* numbered, that ended devices are refused, and that a list that is there *)
(* is complete.                                                            *)
(***************************************************************************)
EXTENDS AccountLifetime, FiniteSetTheorems, TLAPS

-----------------------------------------------------------------------------
(* The inductive invariant. *)

Pcs == {"idle", "provision", "register", "rotate", "decommission", "report",
        "settle", "override", "close", "list", "append", "refresh", "show",
        "clear", "fill", "put", "schedule", "closing", "purge jobs",
        "purge list", "delete"}

Actor == [pc : Pcs, kind : Kinds \cup {"none"}, device : Devices \cup {None},
          version : Nat, summary : {"none", "gone", "listed"},
          todo : SUBSET Devices, item : Devices \cup {None}, begun : Nat]

\* The stages of each kind.
At(kind, pc) ==
  \/ kind = "register" /\ pc \in {"provision", "register", "refresh", "show"}
  \/ kind = "rotate" /\ pc \in {"provision", "rotate", "append"}
  \/ kind = "decommission" /\ pc \in {"provision", "decommission", "append", "refresh", "show"}
  \/ kind = "list" /\ pc \in {"provision", "list", "clear", "fill", "put"}
  \/ kind = "close" /\ pc \in {"provision", "close", "closing", "purge jobs", "purge list", "delete"}
  \/ kind = "override" /\ pc \in {"override", "append"}
  \/ kind = "report" /\ pc \in {"report", "append", "schedule"}
  \/ kind = "settle" /\ pc \in {"settle", "append", "show"}

\* What is under way is about a device or about the account, and began in this
\* life or an earlier one.
Placed == \A a \in Busy :
  /\ At(actor[a].kind, actor[a].pc)
  /\ IF actor[a].kind \in DeviceKinds THEN actor[a].device \in Devices
                                      ELSE actor[a].device = None
  /\ actor[a].begun <= life
  /\ actor[a].pc = "fill" => actor[a].todo # {}
  /\ actor[a].pc = "put" => actor[a].item \in Devices
  /\ actor[a].kind # "list" => actor[a].todo = {} /\ actor[a].item = None

Resting == \A a \in Actors : actor[a].pc = "idle" => actor[a] = Idle

Distinct(s) == \A e, f \in s : e.number = f.number => e = f

Types ==
  /\ account \in SUBSET Event /\ IsFiniteSet(account)
  /\ stream \in [Devices -> SUBSET Event] /\ \A d \in Devices : IsFiniteSet(stream[d])
  /\ shown \in SUBSET Devices /\ jobs \in SUBSET Devices
  /\ actor \in [Actors -> Actor]
  /\ life \in 0 .. MaxLives /\ count \in 0 .. MaxBegun
  /\ born \in [Devices -> Nat \cup {None}]
  /\ \A d \in Devices : born[d] # None => born[d] <= life

\* One settlement at a time.
OneSettles == \A a, b \in Actors :
  actor[a].kind = "settle" /\ actor[b].kind = "settle" => a = b

\* No stream, list, job or rebuild knows of the device.
Untouched(d) ==
  /\ stream[d] = {} /\ d \notin shown /\ d \notin jobs
  /\ \A a \in Actors : actor[a].item # d /\ d \notin actor[a].todo

\* An id that was not taken is unknown, and so is one that is being registered
\* to all but its registration.
Unborn == \A d \in Devices : born[d] = None =>
  Untouched(d) /\ \A a \in Actors : actor[a].device # d
Registering(a) == actor[a].kind = "register" /\ actor[a].pc \in {"provision", "register"}
FreshIds == \A a \in Actors : Registering(a) =>
  /\ Untouched(actor[a].device)
  /\ \A b \in Actors \ {a} : actor[b].device # actor[a].device

Base == Types /\ Resting /\ Placed /\ OneSettles /\ Unborn /\ FreshIds

Numbers == Distinct(account) /\ \A d \in Devices : Distinct(stream[d])

\* Two under way whose tags matter to each other are remembered.
Paired == \A a, b \in Busy :
  a # b /\ Matters(Tag(a), Tag(b)) => {Tag(a), Tag(b)} \in met

-----------------------------------------------------------------------------
(* What excuses what a closure leaves. *)

Ended(d) == born[d] # None /\ born[d] < life

RegisterExcused(d) == Met({"register"}, d, {"close"})
CredentialExcused(d) == Met({"register", "rotate"}, d, {"close"})
JobExcused(d) == Met({"register", "rotate", "report", "settle"}, d, {"close"})
StreamExcused(d) == Met(DeviceKinds, d, {"close"})
ShownExcused(d) == Met({"register", "settle", "list"}, d, {"close"})
NumberExcused(d) == Met(DeviceKinds \ {"register"}, d, {"close"})
AccountExcused == Met({"override", "close"}, None, {"close"})

\* What is there of a device of an ended life.
DataLeft == \A d \in Devices : Ended(d) =>
  /\ stream[d] # {} => StreamExcused(d)
  /\ Has(stream[d], "registered") => RegisterExcused(d)
  /\ Has(stream[d], "rotated") => CredentialExcused(d)
  /\ d \in shown => ShownExcused(d)
  /\ d \in jobs => JobExcused(d)

\* What is under way about a device of an ended life.
ActorLeft(a) == \A d \in Devices : actor[a].device = d /\ Ended(d) =>
  /\ StreamExcused(d)
  /\ actor[a].kind = "register" => RegisterExcused(d)
  /\ actor[a].kind = "settle" => JobExcused(d)
  /\ actor[a].kind = "rotate" /\ actor[a].pc = "append" => CredentialExcused(d)
  /\ actor[a].kind = "report" /\ actor[a].pc \in {"append", "schedule"} => JobExcused(d)
  /\ actor[a].kind = "settle" /\ actor[a].pc \in {"append", "show"} /\ actor[a].summary = "listed"
       => ShownExcused(d)

\* A rebuild puts a device of an ended life back only beside a closure.
RebuildLeft(a) == \A d \in Devices :
  actor[a].pc = "put" /\ actor[a].item = d /\ actor[a].summary = "listed" /\ Ended(d) =>
    ShownExcused(d)

\* A decommissioned device is never upserted as listed.
Decommissioning(a) == actor[a].kind = "decommission" =>
  /\ actor[a].pc \in {"refresh", "show"} => \A d \in Devices :
       actor[a].device = d /\ Has(stream[d], "registered") => Has(stream[d], "decommissioned")
  /\ actor[a].pc = "show" => actor[a].summary # "listed"

\* A report that goes on began in its device's life, or was let in beside a closure.
Refused(a) == \A d \in Devices :
  /\ actor[a].kind = "report" /\ actor[a].pc \in {"append", "schedule"}
  /\ actor[a].device = d /\ born[d] < actor[a].begun
  => CredentialExcused(d)

\* An account without its registration.
Registered == Has(account, "registered") \/ AccountExcused
AccountLeft(a) ==
  \/ actor[a].kind = "override" /\ actor[a].pc = "append"
  \/ actor[a].kind = "close" /\ actor[a].pc \in {"close", "closing"}
  => Registered

ActorsLeft == \A a \in Busy :
  ActorLeft(a) /\ RebuildLeft(a) /\ Decommissioning(a) /\ Refused(a) /\ AccountLeft(a)

\* What came back after a closure's purges came back beside it.
Purging(c) ==
  /\ actor[c].pc \in {"purge list", "delete"} => \A d \in jobs : JobExcused(d)
  /\ actor[c].pc = "delete" => \A d \in shown : ShownExcused(d)

Left ==
  /\ DataLeft /\ ActorsLeft
  /\ \A c \in Busy : Purging(c)
  /\ account # {} => Registered

-----------------------------------------------------------------------------
(* Numbers. *)

Whole(s) == {e.number : e \in s} = 1 .. Cardinality(s)

\* What was loaded is no longer than what is there.
VersionHeld(a) ==
  /\ actor[a].pc = "append" /\ actor[a].kind # "override" =>
       \/ actor[a].version <= Cardinality(stream[actor[a].device])
       \/ NumberExcused(actor[a].device)
  /\ actor[a].pc = "closing" \/ (actor[a].pc = "append" /\ actor[a].kind = "override") =>
       actor[a].version <= Cardinality(account) \/ AccountExcused

Numbered ==
  /\ \A d \in Devices : Whole(stream[d]) \/ NumberExcused(d)
  /\ Whole(account) \/ AccountExcused
  /\ \A a \in Busy : VersionHeld(a)

-----------------------------------------------------------------------------
(* The list. *)

WriterExcused(d) == Met(Writers, d, Writers)
CutExcused(d) ==
  WasCut("list", None) \/ WasCut("close", None) \/ \E k \in Writers : WasCut(k, d)
Lost(d) == WasCut("lost", d)
Excused(d) == Ended(d) \/ WriterExcused(d) \/ CutExcused(d)

Current(d) == (d \in shown) <=> (Summary(stream[d]) = "listed")

\* Actor a is to put device d right.
Tells(a, d) ==
  \/ actor[a].kind = "close" /\ actor[a].pc = "delete"
  \/ /\ actor[a].kind \in {"register", "decommission"} /\ actor[a].pc \in {"refresh", "show"}
     /\ actor[a].device = d
  \/ /\ actor[a].kind = "list" /\ actor[a].pc \in {"fill", "put"} /\ d \notin shown
     /\ d \in actor[a].todo \/ (actor[a].pc = "put" /\ actor[a].item = d)

Kept(d) == Current(d) \/ Excused(d) \/ Lost(d) \/ \E a \in Busy : Tells(a, d)
ListKept == \A d \in Devices : Kept(d)

\* What an upsert has read is what is there.
UpsertIsCurrent(a) == \A d \in Devices : actor[a].device = d =>
  /\ actor[a].pc = "show" \/ (actor[a].pc = "append" /\ actor[a].kind = "settle") =>
       actor[a].summary = Summary(stream[d]) \/ Excused(d)
  /\ actor[a].kind = "register" /\ actor[a].pc \in {"refresh", "show"} =>
       Has(stream[d], "registered") \/ Ended(d)
  /\ actor[a].kind = "decommission" /\ actor[a].pc \in {"append", "refresh", "show"} =>
       Has(stream[d], "registered") \/ Ended(d)

\* And so is what a rebuild has read; it misses no device.
RebuildIsCurrent(a) == \A d \in Devices :
  /\ actor[a].pc = "put" /\ actor[a].item = d =>
       actor[a].summary = Summary(stream[d]) \/ Excused(d)
  /\ actor[a].pc = "clear" => d \in actor[a].todo \/ Summary(stream[d]) # "listed" \/ Excused(d)

ReadIsCurrent == \A a \in Busy : UpsertIsCurrent(a) /\ RebuildIsCurrent(a)

Complete == ListKept /\ ReadIsCurrent

-----------------------------------------------------------------------------
(* Streams, tags and excuses. *)

LEMMA NamesDiffer ==
  /\ {"registered", "overridden", "closed", "rotated", "decommissioned", "report", "changed"} = Names
  /\ DeviceKinds \subseteq Kinds /\ Writers \subseteq Kinds
  /\ \A k \in Kinds : k # "lost" /\ k # "cut" /\ k # "none"
  BY DEF Names, DeviceKinds, Kinds, Writers, OwnerKinds

LEMMA SummaryTyped == \A s : Summary(s) \in {"none", "gone", "listed"}
  BY DEF Summary

\* What an append makes of a stream.
LEMMA AppendsOne ==
  ASSUME NEW s \in SUBSET Event, IsFiniteSet(s), NEW n \in 1 .. MaxVersion, NEW name \in Names,
         Free(s, n)
  PROVE  LET t == With(s, n, name) IN
         /\ t \in SUBSET Event /\ IsFiniteSet(t) /\ t # {}
         /\ Cardinality(t) = Cardinality(s) + 1 /\ Cardinality(s) \in Nat
         /\ Distinct(s) => Distinct(t)
         /\ \A m \in Names : Has(t, m) <=> Has(s, m) \/ m = name
         /\ {e.number : e \in t} = {e.number : e \in s} \cup {n}
<1> DEFINE new == [number |-> n, name |-> name]
           t == With(s, n, name)
<1>1. new \in Event /\ t = s \cup {new} /\ new.number = n /\ new.name = name
  BY DEF Event, With
<1>2. new \notin s
  BY <1>1 DEF Free
<1>3. /\ IsFiniteSet(t) /\ Cardinality(t) = Cardinality(s) + 1 /\ Cardinality(s) \in Nat
  <2>1. /\ IsFiniteSet(s \cup {new})
        /\ Cardinality(s \cup {new}) = IF new \in s THEN Cardinality(s) ELSE Cardinality(s) + 1
    BY FS_AddElement
  <2>2. Cardinality(s) \in Nat
    BY FS_CardinalityType
  <2> QED
    BY <1>1, <1>2, <2>1, <2>2
<1>4. Distinct(s) => Distinct(t)
  BY <1>1 DEF Free, Distinct
<1>5. \A m \in Names : Has(t, m) <=> Has(s, m) \/ m = name
  BY <1>1 DEF Has
<1>6. {e.number : e \in t} = {e.number : e \in s} \cup {n}
  BY <1>1
<1>7. t \in SUBSET Event /\ t # {}
  BY <1>1
<1> QED
  BY <1>3, <1>4, <1>5, <1>6, <1>7

\* Only a registration or a decommissioning changes how a device is listed.
LEMMA SummaryKept ==
  ASSUME NEW s, NEW t,
         Has(t, "registered") <=> Has(s, "registered"),
         Has(t, "decommissioned") <=> Has(s, "decommissioned")
  PROVE  Summary(t) = Summary(s)
  BY DEF Summary

\* Tags are forgotten only when a list that was lost is rebuilt.
Remembers == \A p \in met : p \in met' \/ \E d \in Devices : p = {<<"lost", d>>, Cut}

LEMMA MetKept ==
  ASSUME Remembers, NEW ks \in SUBSET Kinds, NEW js \in SUBSET Kinds, NEW d, Met(ks, d, js)
  PROVE  Met(ks, d, js)'
<1>1. PICK k \in ks, j \in js, x \in {d, None}, y \in {d, None} : {<<k, x>>, <<j, y>>} \in met
  BY DEF Met
<1>2. k # "lost" /\ k # "cut" /\ j # "lost"
  BY NamesDiffer
<1>3. \A e \in Devices : {<<k, x>>, <<j, y>>} # {<<"lost", e>>, Cut}
  <2> SUFFICES ASSUME NEW e \in Devices, {<<k, x>>, <<j, y>>} = {<<"lost", e>>, Cut}
               PROVE  FALSE
    OBVIOUS
  <2>1. <<k, x>> = <<"lost", e>> \/ <<k, x>> = <<"cut", None>>
    BY DEF Cut
  <2> QED
    BY <2>1, <1>2
<1>4. {<<k, x>>, <<j, y>>} \in met'
  BY <1>1, <1>3 DEF Remembers
<1> QED
  BY <1>4 DEF Met

LEMMA CutKept ==
  ASSUME Remembers, NEW k \in Kinds, NEW d, WasCut(k, d)
  PROVE  WasCut(k, d)'
<1>1. k # "lost" /\ k # "cut"
  BY NamesDiffer
<1>2. \A e \in Devices : {<<k, d>>, Cut} # {<<"lost", e>>, Cut}
  <2> SUFFICES ASSUME NEW e \in Devices, {<<k, d>>, Cut} = {<<"lost", e>>, Cut}
               PROVE  FALSE
    OBVIOUS
  <2>1. <<k, d>> = <<"lost", e>> \/ <<k, d>> = <<"cut", None>>
    BY DEF Cut
  <2> QED
    BY <2>1, <1>1
<1> QED
  BY <1>2 DEF Remembers, WasCut

ExcusesStay ==
  /\ AccountExcused => AccountExcused'
  /\ \A d \in Devices :
       /\ RegisterExcused(d) => RegisterExcused(d)'
       /\ CredentialExcused(d) => CredentialExcused(d)'
       /\ JobExcused(d) => JobExcused(d)'
       /\ StreamExcused(d) => StreamExcused(d)'
       /\ ShownExcused(d) => ShownExcused(d)'
       /\ NumberExcused(d) => NumberExcused(d)'
       /\ WriterExcused(d) => WriterExcused(d)'
       /\ CutExcused(d) => CutExcused(d)'

LEMMA ExcusesKept ==
  ASSUME Remembers
  PROVE  ExcusesStay
<1>1. /\ {"register"} \in SUBSET Kinds /\ {"register", "rotate"} \in SUBSET Kinds
      /\ {"register", "rotate", "report", "settle"} \in SUBSET Kinds
      /\ DeviceKinds \in SUBSET Kinds /\ {"register", "settle", "list"} \in SUBSET Kinds
      /\ DeviceKinds \ {"register"} \in SUBSET Kinds /\ Writers \in SUBSET Kinds
      /\ {"override", "close"} \in SUBSET Kinds /\ {"close"} \in SUBSET Kinds
  BY DEF Kinds, OwnerKinds, DeviceKinds, Writers
<1>2. AccountExcused => AccountExcused'
  BY <1>1, MetKept DEF AccountExcused
<1> SUFFICES ASSUME NEW d \in Devices
             PROVE  /\ RegisterExcused(d) => RegisterExcused(d)'
                    /\ CredentialExcused(d) => CredentialExcused(d)'
                    /\ JobExcused(d) => JobExcused(d)'
                    /\ StreamExcused(d) => StreamExcused(d)'
                    /\ ShownExcused(d) => ShownExcused(d)'
                    /\ NumberExcused(d) => NumberExcused(d)'
                    /\ WriterExcused(d) => WriterExcused(d)'
                    /\ CutExcused(d) => CutExcused(d)'
  BY <1>2 DEF ExcusesStay
<1>3. RegisterExcused(d) => RegisterExcused(d)'
  BY <1>1, MetKept DEF RegisterExcused
<1>4. CredentialExcused(d) => CredentialExcused(d)'
  BY <1>1, MetKept DEF CredentialExcused
<1>5. JobExcused(d) => JobExcused(d)'
  BY <1>1, MetKept DEF JobExcused
<1>6. StreamExcused(d) => StreamExcused(d)'
  BY <1>1, MetKept DEF StreamExcused
<1>7. ShownExcused(d) => ShownExcused(d)'
  BY <1>1, MetKept DEF ShownExcused
<1>8. NumberExcused(d) => NumberExcused(d)'
  BY <1>1, MetKept DEF NumberExcused
<1>9. WriterExcused(d) => WriterExcused(d)'
  BY <1>1, MetKept DEF WriterExcused
<1>10. CutExcused(d) => CutExcused(d)'
  BY <1>1, CutKept DEF CutExcused
<1> QED
  BY <1>3, <1>4, <1>5, <1>6, <1>7, <1>8, <1>9, <1>10

\* The narrower excuse is one of the wider.
LEMMA ExcusesWiden ==
  ASSUME NEW d
  PROVE  /\ RegisterExcused(d) => CredentialExcused(d) /\ ShownExcused(d)
         /\ CredentialExcused(d) => JobExcused(d)
         /\ JobExcused(d) => StreamExcused(d)
<1>1. RegisterExcused(d) => CredentialExcused(d) /\ ShownExcused(d)
  BY DEF RegisterExcused, CredentialExcused, ShownExcused, Met
<1>2. CredentialExcused(d) => JobExcused(d)
  BY DEF CredentialExcused, JobExcused, Met
<1>3. JobExcused(d) => StreamExcused(d)
  BY DEF JobExcused, StreamExcused, DeviceKinds, Met
<1> QED
  BY <1>1, <1>2, <1>3

-----------------------------------------------------------------------------
(* What ran beside what. *)

\* Whatever ran beside a closure is excused.
LEMMA BesideClosure ==
  ASSUME Placed, Paired, NEW a \in Busy, NEW c \in Busy, a # c, actor[c].kind = "close"
  PROVE  /\ actor[a].kind \in DeviceKinds => StreamExcused(actor[a].device)
         /\ actor[a].kind \in DeviceKinds \ {"register"} => NumberExcused(actor[a].device)
         /\ actor[a].kind = "register" => RegisterExcused(actor[a].device)
         /\ actor[a].kind \in {"register", "rotate"} => CredentialExcused(actor[a].device)
         /\ actor[a].kind \in {"register", "rotate", "report", "settle"} => JobExcused(actor[a].device)
         /\ actor[a].kind \in {"register", "settle"} => ShownExcused(actor[a].device)
         /\ actor[a].kind = "list" => \A d \in Devices : ShownExcused(d)
         /\ actor[a].kind \in {"override", "close"} => AccountExcused
<1>1. actor[c].device = None
  BY DEF Placed, DeviceKinds
<1>2. {<<actor[a].kind, actor[a].device>>, <<"close", None>>} \in met
  BY <1>1 DEF Paired, Matters, Tag
<1>3. \A ks, d : actor[a].kind \in ks /\ actor[a].device \in {d, None} => Met(ks, d, {"close"})
  BY <1>2 DEF Met
<1>4. actor[a].kind \notin DeviceKinds => actor[a].device = None
  BY DEF Placed
<1>5. actor[a].kind \in {"list", "override", "close"} => actor[a].kind \notin DeviceKinds
  BY DEF DeviceKinds
<1> QED
  BY <1>3, <1>4, <1>5 DEF StreamExcused, NumberExcused, RegisterExcused, CredentialExcused,
     JobExcused, ShownExcused, AccountExcused

\* Two writers of the list about a device, or about all of them.
LEMMA BesideWriter ==
  ASSUME Paired, NEW a \in Busy, NEW b \in Busy, a # b, NEW d,
         actor[a].kind \in Writers, actor[b].kind \in Writers,
         actor[a].device \in {d, None}, actor[b].device \in {d, None}
  PROVE  WriterExcused(d)
<1>1. {<<actor[a].kind, actor[a].device>>, <<actor[b].kind, actor[b].device>>} \in met
  BY DEF Paired, Matters, Tag
<1> QED
  BY <1>1 DEF WriterExcused, Met

-----------------------------------------------------------------------------
(* What a step does to what is under way. *)

Others(a) == \A b \in Actors \ {a} : actor'[b] = actor[b]

\* The step of a request or job: it goes on about the same, or has ended.
Same(a) ==
  /\ actor'[a].kind = actor[a].kind /\ actor'[a].device = actor[a].device
  /\ actor'[a].begun = actor[a].begun

Ends(a) == actor' \in [Actors -> Actor] /\ Others(a) /\ actor'[a] = Idle
Moves(a, pc) ==
  /\ actor' \in [Actors -> Actor] /\ Others(a) /\ Same(a) /\ actor'[a].pc = pc
  /\ actor'[a].version = actor[a].version /\ actor'[a].summary = actor[a].summary
  /\ actor'[a].todo = actor[a].todo /\ actor'[a].item = actor[a].item
Loads(a, s, pc) ==
  /\ actor' \in [Actors -> Actor] /\ Others(a) /\ Same(a) /\ actor'[a].pc = pc
  /\ actor'[a].version = Cardinality(s) /\ actor'[a].summary = Summary(s)
  /\ actor'[a].todo = actor[a].todo /\ actor'[a].item = actor[a].item
Begins(a, kind, d, pc) ==
  /\ a \notin Busy /\ actor' \in [Actors -> Actor] /\ Others(a)
  /\ actor'[a] = [Idle EXCEPT !.pc = pc, !.kind = kind, !.device = d, !.begun = life]
  /\ met' = met \cup {{<<kind, d>>, Tag(b)} : b \in {x \in Busy : Matters(<<kind, d>>, Tag(x))}}
  /\ count' \in 0 .. MaxBegun

LEMMA IdleTyped == Idle \in Actor /\ Idle.pc = "idle" /\ Idle.kind = "none" /\ Idle.device = None
                   /\ Idle.todo = {} /\ Idle.item = None /\ Idle.begun = 0
  BY DEF Idle, Actor, Pcs

LEMMA GoMoves ==
  ASSUME Types, NEW a \in Actors, NEW pc \in Pcs, Go(a, pc)
  PROVE  Moves(a, pc)
<1>1. actor \in [Actors -> Actor] /\ actor' = [actor EXCEPT ![a].pc = pc]
  BY DEF Types, Go
<1>2. actor'[a] = [actor[a] EXCEPT !.pc = pc] /\ actor[a] \in Actor
  BY <1>1
<1> QED
  BY <1>1, <1>2 DEF Moves, Others, Same, Actor

LEMMA EndEnds ==
  ASSUME Types, NEW a \in Actors, End(a)
  PROVE  Ends(a)
<1>1. actor \in [Actors -> Actor] /\ actor' = [actor EXCEPT ![a] = Idle] /\ Idle \in Actor
  BY IdleTyped DEF Types, End
<1> QED
  BY <1>1 DEF Ends, Others

LEMMA LoadLoads ==
  ASSUME Types, NEW a \in Actors, NEW s, IsFiniteSet(s), NEW pc \in Pcs, Load(a, s, pc)
  PROVE  Loads(a, s, pc)
<1>1. actor \in [Actors -> Actor] /\ Cardinality(s) \in Nat /\ Summary(s) \in {"none", "gone", "listed"}
      /\ actor[a] \in Actor
  BY FS_CardinalityType, SummaryTyped DEF Types
<1>2. actor' = [actor EXCEPT ![a] =
                  [actor[a] EXCEPT !.pc = pc, !.version = Cardinality(s), !.summary = Summary(s)]]
  BY DEF Load
<1>3. actor'[a] = [actor[a] EXCEPT !.pc = pc, !.version = Cardinality(s), !.summary = Summary(s)]
  BY <1>1, <1>2
<1>4. actor'[a] \in Actor /\ Same(a) /\ actor'[a].pc = pc
      /\ actor'[a].version = Cardinality(s) /\ actor'[a].summary = Summary(s)
      /\ actor'[a].todo = actor[a].todo /\ actor'[a].item = actor[a].item
  BY <1>1, <1>3 DEF Actor, Same
<1>5. actor' \in [Actors -> Actor] /\ Others(a)
  BY <1>1, <1>2, <1>3, <1>4 DEF Others
<1> QED
  BY <1>4, <1>5 DEF Loads

LEMMA BeginBegins ==
  ASSUME Types, NEW a \in Actors, NEW kind \in Kinds, NEW d \in Devices \cup {None}, NEW pc \in Pcs,
         Begin(a, kind, d, pc)
  PROVE  Begins(a, kind, d, pc)
<1> DEFINE new == [Idle EXCEPT !.pc = pc, !.kind = kind, !.device = d, !.begun = life]
<1>1. actor \in [Actors -> Actor] /\ life \in Nat /\ count \in 0 .. MaxBegun /\ MaxBegun \in Nat
  BY AccountLifetimeAssumption DEF Types
<1>2. new \in Actor
  BY <1>1 DEF Idle, Actor
<1>3. actor' \in [Actors -> Actor] /\ Others(a) /\ actor'[a] = new
  BY <1>1, <1>2 DEF Begin, Others
<1>4. a \notin Busy
  BY IdleTyped DEF Begin, Busy
<1>5. count' \in 0 .. MaxBegun
  BY <1>1 DEF Begin
<1> QED
  BY <1>3, <1>4, <1>5 DEF Begin, Begins

\* A step that goes on as its kind does.
Steps(a) ==
  /\ a \in Busy /\ Others(a)
  /\ \/ actor'[a] = Idle
     \/ /\ Same(a) /\ At(actor[a].kind, actor'[a].pc)
        /\ actor'[a].pc = "fill" => actor'[a].todo # {}
        /\ actor'[a].pc = "put" => actor'[a].item \in Devices
        /\ actor[a].kind # "list" => actor'[a].todo = {} /\ actor'[a].item = None

LEMMA PlacedKept ==
  ASSUME Types, Resting, Placed, OneSettles, NEW a \in Actors, Steps(a), life' \in Nat, life <= life'
  PROVE  Resting' /\ Placed' /\ OneSettles'
<1>1. \A b \in Actors \ {a} : actor'[b] = actor[b]
  BY DEF Steps, Others
<1>2. Resting'
  BY <1>1 DEF Resting, Steps, At
<1>3. OneSettles'
  <2>1. actor'[a].kind = "settle" => actor[a].kind = "settle"
    BY IdleTyped DEF Steps, Same
  <2> QED
    BY <1>1, <2>1 DEF OneSettles
<1>4. Placed'
  <2> SUFFICES ASSUME NEW b \in Busy'
               PROVE  /\ At(actor'[b].kind, actor'[b].pc)
                      /\ IF actor'[b].kind \in DeviceKinds THEN actor'[b].device \in Devices
                                                          ELSE actor'[b].device = None
                      /\ actor'[b].begun <= life'
                      /\ actor'[b].pc = "fill" => actor'[b].todo # {}
                      /\ actor'[b].pc = "put" => actor'[b].item \in Devices
                      /\ actor'[b].kind # "list" => actor'[b].todo = {} /\ actor'[b].item = None
    BY DEF Placed, At
  <2>1. b \in Actors /\ actor'[b].pc # "idle"
    BY DEF Busy
  <2>2. CASE b # a
    <3>1. actor'[b] = actor[b] /\ b \in Busy /\ actor[b].begun \in Nat /\ life \in Nat
      BY <1>1, <2>1, <2>2 DEF Busy, Types, Actor
    <3>2. /\ At(actor[b].kind, actor[b].pc) /\ actor[b].begun <= life
          /\ IF actor[b].kind \in DeviceKinds THEN actor[b].device \in Devices
                                              ELSE actor[b].device = None
          /\ actor[b].pc = "fill" => actor[b].todo # {}
          /\ actor[b].pc = "put" => actor[b].item \in Devices
          /\ actor[b].kind # "list" => actor[b].todo = {} /\ actor[b].item = None
      BY <3>1 DEF Placed
    <3> QED
      BY <3>1, <3>2
  <2>3. CASE b = a
    <3>1. /\ Same(a) /\ At(actor[a].kind, actor'[a].pc) /\ a \in Busy
          /\ actor'[a].pc = "fill" => actor'[a].todo # {}
          /\ actor'[a].pc = "put" => actor'[a].item \in Devices
          /\ actor[a].kind # "list" => actor'[a].todo = {} /\ actor'[a].item = None
      BY <2>1, <2>3, IdleTyped DEF Steps
    <3>2. actor[a].begun \in Nat /\ life \in Nat
      BY DEF Types, Actor
    <3>3. /\ actor[a].begun <= life
          /\ IF actor[a].kind \in DeviceKinds THEN actor[a].device \in Devices
                                              ELSE actor[a].device = None
      BY <3>1 DEF Placed
    <3> QED
      BY <2>3, <3>1, <3>2, <3>3 DEF Same
  <2> QED
    BY <2>2, <2>3
<1> QED
  BY <1>2, <1>3, <1>4

\* A step leaves alone what is fresh, but for its own device.
LEMMA FreshKept ==
  ASSUME Base, NEW a \in Actors, Others(a), born' = born,
         actor'[a].device \in {actor[a].device, None},
         Registering(a)' => Registering(a) /\ actor'[a].device = actor[a].device,
         \A d \in Devices :
           Untouched(d)' \/ ~Untouched(d) \/ (d = actor[a].device /\ ~Registering(a)')
  PROVE  Unborn' /\ FreshIds'
<1>1. \A b \in Actors \ {a} : actor'[b] = actor[b]
  BY DEF Others
<1>2. Unborn /\ FreshIds /\ None \notin Devices
  BY AccountLifetimeAssumption DEF Base
<1>3. Unborn'
  <2> SUFFICES ASSUME NEW d \in Devices, born[d] = None
               PROVE  Untouched(d)' /\ \A b \in Actors : actor'[b].device # d
    BY DEF Unborn
  <2>1. Untouched(d) /\ \A b \in Actors : actor[b].device # d
    BY <1>2 DEF Unborn
  <2> QED
    BY <1>1, <1>2, <2>1
<1>4. FreshIds'
  <2> SUFFICES ASSUME NEW b \in Actors, Registering(b)'
               PROVE  /\ Untouched(actor[b].device)'
                      /\ \A c \in Actors \ {b} : actor'[c].device # actor'[b].device
    BY DEF FreshIds
  <2>1. Registering(b) /\ actor'[b].device = actor[b].device
    BY <1>1 DEF Registering
  <2>2. Untouched(actor[b].device) /\ \A c \in Actors \ {b} : actor[c].device # actor[b].device
    BY <1>2, <2>1 DEF FreshIds
  <2>3. actor[b].device \in Devices
    <3>1. b \in Busy /\ actor[b].kind \in DeviceKinds
      BY <2>1 DEF Registering, Busy, DeviceKinds
    <3> QED
      BY <3>1 DEF Base, Placed
  <2>4. Untouched(actor[b].device)'
    <3>1. \A d : d = actor[b].device /\ Untouched(d)' => Untouched(actor[b].device)'
      BY <2>1 DEF Untouched
    <3> QED
      BY <2>1, <2>2, <2>3, <3>1
  <2>5. \A c \in Actors \ {b} : actor'[c].device # actor'[b].device
    BY <1>1, <1>2, <2>1, <2>2, <2>3
  <2> QED
    BY <2>4, <2>5
<1> QED
  BY <1>3, <1>4

-----------------------------------------------------------------------------
(* The actions. *)

\* A stage tells the kinds that pass through it.
LEMMA KindsAt ==
  ASSUME Resting, Placed, NEW a \in Actors
  PROVE  LET kind == actor[a].kind pc == actor[a].pc IN
         /\ pc # "idle" <=> a \in Busy
         /\ pc = "idle" => actor[a] = Idle
         /\ pc = "provision" => kind \in OwnerKinds
         /\ pc \in {"register"} => kind = "register"
         /\ pc \in {"rotate", "decommission", "report", "settle", "override"} => kind = pc
         /\ pc = "append" => kind \in {"rotate", "decommission", "report", "settle", "override"}
         /\ pc = "refresh" => kind \in {"register", "decommission"}
         /\ pc = "show" => kind \in {"register", "decommission", "settle"}
         /\ pc \in {"list", "clear", "fill", "put"} => kind = "list"
         /\ pc = "schedule" => kind = "report"
         /\ pc \in {"close", "closing", "purge jobs", "purge list", "delete"} => kind = "close"
         /\ a \in Busy /\ kind \in DeviceKinds => actor[a].device \in Devices
         /\ a \in Busy /\ kind \notin DeviceKinds => actor[a].device = None
<1>2. actor[a].pc # "idle" <=> a \in Busy
  BY DEF Busy
<1>3. a \in Busy => At(actor[a].kind, actor[a].pc)
  BY DEF Placed
<1>4. /\ a \in Busy /\ actor[a].kind \in DeviceKinds => actor[a].device \in Devices
      /\ a \in Busy /\ actor[a].kind \notin DeviceKinds => actor[a].device = None
  BY DEF Placed
<1>5. actor[a].pc = "idle" => actor[a] = Idle
  BY DEF Resting
<1> QED
  BY <1>2, <1>3, <1>4, <1>5 DEF At, OwnerKinds

LEMMA AskDoes ==
  ASSUME Base, NEW a \in Actors, Ask(a)
  PROVE  \E kind \in OwnerKinds, d \in Devices \cup {None}, pc \in OwnerKinds \cup {"provision"} :
           /\ Begins(a, kind, d, pc) /\ UNCHANGED <<account, stream, shown, jobs, life>>
           /\ pc = IF account = {} THEN "provision" ELSE kind
           /\ kind \in {"register", "rotate", "decommission"} => d \in Devices
           /\ kind = "register" => born[d] = None /\ born' = [born EXCEPT ![d] = life]
           /\ kind # "register" => born' = born
           /\ kind \in {"rotate", "decommission"} => stream[d] # {}
           /\ kind \in {"list", "close"} => d = None
<1>1. PICK kind \in OwnerKinds, d \in Devices \cup {None} :
        /\ CASE kind = "register" ->
                  /\ d \in Devices /\ born[d] = None
                  /\ d = CHOOSE x \in Devices : born[x] = None
             [] kind \in {"rotate", "decommission"} -> d \in Devices /\ stream[d] # {}
             [] OTHER -> d = None
        /\ Begin(a, kind, d, IF account = {} THEN "provision" ELSE kind)
        /\ born' = IF kind = "register" THEN [born EXCEPT ![d] = life] ELSE born
        /\ UNCHANGED <<account, stream, shown, jobs, life>>
  BY DEF Ask
<1> DEFINE pc == IF account = {} THEN "provision" ELSE kind
<1>2. pc \in OwnerKinds \cup {"provision"} /\ pc \in Pcs /\ kind \in Kinds
  BY DEF OwnerKinds, Pcs, Kinds
<1>3. Begins(a, kind, d, pc)
  BY <1>1, <1>2, BeginBegins DEF Base
<1>4. /\ kind \in {"register", "rotate", "decommission"} => d \in Devices
      /\ kind = "register" => born[d] = None /\ born' = [born EXCEPT ![d] = life]
      /\ kind # "register" => born' = born
      /\ kind \in {"rotate", "decommission"} => stream[d] # {}
      /\ kind \in {"list", "close"} => d = None
  BY <1>1 DEF OwnerKinds
<1> QED
  BY <1>1, <1>2, <1>3, <1>4

LEMMA ProvisionDoes ==
  ASSUME Base, NEW a \in Actors, Provision(a)
  PROVE  /\ a \in Busy /\ actor[a].pc = "provision" /\ actor[a].kind \in OwnerKinds
         /\ UNCHANGED <<stream, shown, jobs, life, born, met, count>>
         /\ \/ Free(account, 1) /\ account' = With(account, 1, "registered") /\ Moves(a, actor[a].kind)
            \/ account' = account /\ Ends(a)
<1>1. a \in Busy /\ actor[a].kind \in OwnerKinds
  BY KindsAt DEF Base, Provision
<1>2. actor[a].kind \in Pcs
  BY <1>1 DEF OwnerKinds, Pcs
<1> QED
  BY <1>1, <1>2, GoMoves, EndEnds DEF Base, Provision

LEMMA RegisterDoes ==
  ASSUME Base, NEW a \in Actors, Register(a)
  PROVE  /\ a \in Busy /\ actor[a].pc = "register" /\ actor[a].kind = "register"
         /\ actor[a].device \in Devices /\ stream[actor[a].device] = {}
         /\ stream' = [stream EXCEPT ![actor[a].device] = With({}, 1, "registered")]
         /\ Moves(a, "refresh")
         /\ UNCHANGED <<account, shown, jobs, life, born, met, count>>
<1>1. a \in Busy /\ actor[a].kind = "register" /\ actor[a].device \in Devices
  BY KindsAt DEF Base, Register, DeviceKinds
<1>2. stream[actor[a].device] = {}
  BY <1>1 DEF Base, FreshIds, Untouched, Registering, Register
<1>3. stream' = [stream EXCEPT ![actor[a].device] = With({}, 1, "registered")]
  BY <1>1, <1>2 DEF Register, Base, Types
<1>4. Moves(a, "refresh")
  BY GoMoves DEF Base, Register, Pcs
<1> QED
  BY <1>1, <1>2, <1>3, <1>4 DEF Register

LEMMA LoadDeviceDoes ==
  ASSUME Base, NEW a \in Actors, LoadDevice(a)
  PROVE  /\ a \in Busy /\ actor[a].kind \in {"rotate", "decommission", "report", "settle"}
         /\ actor[a].pc = actor[a].kind /\ actor[a].device \in Devices
         /\ UNCHANGED <<account, stream, shown, jobs, life, born, met, count>>
         /\ \/ GoesOn(actor[a].kind, stream[actor[a].device])
               /\ Loads(a, stream[actor[a].device], "append")
            \/ Ends(a)
<1>1. /\ a \in Busy /\ actor[a].kind \in {"rotate", "decommission", "report", "settle"}
      /\ actor[a].pc = actor[a].kind /\ actor[a].device \in Devices
  BY KindsAt DEF Base, LoadDevice, DeviceKinds
<1>2. IsFiniteSet(stream[actor[a].device]) /\ "append" \in Pcs
  BY <1>1 DEF Base, Types, Pcs
<1> QED
  BY <1>1, <1>2, LoadLoads, EndEnds DEF Base, LoadDevice

LEMMA AppendDeviceDoes ==
  ASSUME Base, NEW a \in Actors, AppendDevice(a)
  PROVE  /\ a \in Busy /\ actor[a].kind \in {"rotate", "decommission", "report", "settle"}
         /\ actor[a].pc = "append" /\ actor[a].device \in Devices
         /\ UNCHANGED <<account, shown, jobs, life, born, met, count>>
         /\ \/ /\ Number(actor[a].version) \in 1 .. MaxVersion
               /\ Free(stream[actor[a].device], Number(actor[a].version))
               /\ stream' = [stream EXCEPT ![actor[a].device] =
                     With(stream[actor[a].device], Number(actor[a].version), Appended[actor[a].kind])]
               /\ actor[a].kind = "rotate" => Ends(a)
               /\ actor[a].kind = "decommission" => Moves(a, "refresh")
               /\ actor[a].kind = "report" => Moves(a, "schedule")
               /\ actor[a].kind = "settle" => Moves(a, "show")
            \/ stream' = stream /\ Ends(a)
<1>1. /\ a \in Busy /\ actor[a].kind \in {"rotate", "decommission", "report", "settle"}
      /\ actor[a].pc = "append" /\ actor[a].device \in Devices
  BY KindsAt DEF Base, AppendDevice, DeviceKinds
<1>2. actor[a].version \in Nat /\ stream \in [Devices -> SUBSET Event]
  BY <1>1 DEF Base, Types, Actor
<1>3. CASE Free(stream[actor[a].device], Number(actor[a].version))
  <2>1. Number(actor[a].version) \in 1 .. MaxVersion
    BY <1>2, <1>3, AccountLifetimeAssumption DEF AppendDevice, Number
  <2>2. stream' = [stream EXCEPT ![actor[a].device] =
                     With(stream[actor[a].device], Number(actor[a].version), Appended[actor[a].kind])]
    BY <1>1, <1>2, <1>3 DEF AppendDevice
  <2>3. IF Then[actor[a].kind] = "done" THEN End(a) ELSE Go(a, Then[actor[a].kind])
    BY <1>3 DEF AppendDevice
  <2>4. /\ actor[a].kind = "rotate" => Then[actor[a].kind] = "done"
        /\ actor[a].kind = "decommission" => Then[actor[a].kind] = "refresh"
        /\ actor[a].kind = "report" => Then[actor[a].kind] = "schedule"
        /\ actor[a].kind = "settle" => Then[actor[a].kind] = "show"
    BY DEF Then
  <2>5. /\ actor[a].kind = "rotate" => Ends(a)
        /\ actor[a].kind = "decommission" => Moves(a, "refresh")
        /\ actor[a].kind = "report" => Moves(a, "schedule")
        /\ actor[a].kind = "settle" => Moves(a, "show")
    BY <2>3, <2>4, GoMoves, EndEnds DEF Base, Pcs
  <2> QED
    BY <1>1, <1>3, <2>1, <2>2, <2>5 DEF AppendDevice
<1>4. CASE ~Free(stream[actor[a].device], Number(actor[a].version))
  BY <1>1, <1>4, EndEnds DEF Base, AppendDevice
<1> QED
  BY <1>3, <1>4

LEMMA RefreshDoes ==
  ASSUME Base, NEW a \in Actors, Refresh(a)
  PROVE  /\ a \in Busy /\ actor[a].kind \in {"register", "decommission"}
         /\ actor[a].pc = "refresh" /\ actor[a].device \in Devices
         /\ Loads(a, stream[actor[a].device], "show")
         /\ UNCHANGED <<account, stream, shown, jobs, life, born, met, count>>
<1>1. /\ a \in Busy /\ actor[a].kind \in {"register", "decommission"}
      /\ actor[a].pc = "refresh" /\ actor[a].device \in Devices
  BY KindsAt DEF Base, Refresh, DeviceKinds
<1>2. IsFiniteSet(stream[actor[a].device]) /\ "show" \in Pcs
  BY <1>1 DEF Base, Types, Pcs
<1> QED
  BY <1>1, <1>2, LoadLoads DEF Base, Refresh

LEMMA ShowDoes ==
  ASSUME Base, NEW a \in Actors, Show(a)
  PROVE  /\ a \in Busy /\ actor[a].kind \in {"register", "decommission", "settle"}
         /\ actor[a].pc = "show" /\ actor[a].device \in Devices
         /\ actor[a].summary \in {"none", "gone", "listed"}
         /\ shown' = Upsert(actor[a].summary, actor[a].device) /\ Ends(a)
         /\ UNCHANGED <<account, stream, jobs, life, born, met, count>>
<1>1. /\ a \in Busy /\ actor[a].kind \in {"register", "decommission", "settle"}
      /\ actor[a].pc = "show" /\ actor[a].device \in Devices
  BY KindsAt DEF Base, Show, DeviceKinds
<1>2. actor[a].summary \in {"none", "gone", "listed"}
  BY DEF Base, Types, Actor
<1> QED
  BY <1>1, <1>2, EndEnds DEF Base, Show

LEMMA ListDoes ==
  ASSUME Base, NEW a \in Actors, List(a)
  PROVE  /\ a \in Busy /\ actor[a].kind = "list" /\ actor[a].pc = "list"
         /\ UNCHANGED <<account, stream, shown, jobs, life, born, met, count>>
         /\ \/ Ends(a)
            \/ /\ shown = {} /\ actor' \in [Actors -> Actor] /\ Others(a) /\ Same(a)
               /\ actor'[a].pc = "clear" /\ actor'[a].item = actor[a].item
               /\ actor'[a].todo = {d \in Devices : stream[d] # {}}
<1>1. a \in Busy /\ actor[a].kind = "list" /\ actor[a].pc = "list"
  BY KindsAt DEF Base, List
<1>2. CASE shown # {}
  BY <1>1, <1>2, EndEnds DEF Base, List
<1>3. CASE shown = {}
  <2> DEFINE todo == {d \in Devices : stream[d] # {}}
  <2>1. actor' = [actor EXCEPT ![a] = [actor[a] EXCEPT !.pc = "clear", !.todo = todo]]
        /\ actor \in [Actors -> Actor]
    BY <1>3 DEF List, Base, Types
  <2>2. actor'[a] = [actor[a] EXCEPT !.pc = "clear", !.todo = todo] /\ actor[a] \in Actor
        /\ todo \in SUBSET Devices
    BY <2>1
  <2>3. actor'[a] \in Actor /\ Same(a) /\ actor'[a].pc = "clear" /\ actor'[a].item = actor[a].item
        /\ actor'[a].todo = todo
    BY <2>2 DEF Actor, Same, Pcs
  <2>4. actor' \in [Actors -> Actor] /\ Others(a)
    BY <2>1, <2>2, <2>3 DEF Others
  <2> QED
    BY <1>1, <1>3, <2>3, <2>4 DEF List
<1> QED
  BY <1>2, <1>3

LEMMA ClearDoes ==
  ASSUME Base, NEW a \in Actors, Clear(a)
  PROVE  /\ a \in Busy /\ actor[a].kind = "list" /\ actor[a].pc = "clear"
         /\ shown' = {} /\ met' = met \ {{<<"lost", d>>, Cut} : d \in Devices}
         /\ UNCHANGED <<account, stream, jobs, life, born, count>>
         /\ \/ actor[a].todo = {} /\ Ends(a)
            \/ actor[a].todo # {} /\ Moves(a, "fill")
<1>1. a \in Busy /\ actor[a].kind = "list" /\ "fill" \in Pcs
  BY KindsAt DEF Base, Clear, Pcs
<1> QED
  BY <1>1, GoMoves, EndEnds DEF Base, Clear

LEMMA FillDoes ==
  ASSUME Base, NEW a \in Actors, Fill(a)
  PROVE  /\ a \in Busy /\ actor[a].kind = "list" /\ actor[a].pc = "fill"
         /\ UNCHANGED <<account, stream, shown, jobs, life, born, met, count>>
         /\ actor' \in [Actors -> Actor] /\ Others(a) /\ Same(a) /\ actor'[a].pc = "put"
         /\ \E d \in actor[a].todo : d \in Devices /\ actor'[a].item = d
              /\ actor'[a].todo = actor[a].todo \ {d} /\ actor'[a].summary = Summary(stream[d])
<1>1. a \in Busy /\ actor[a].kind = "list" /\ actor[a].pc = "fill" /\ actor \in [Actors -> Actor]
  BY KindsAt DEF Base, Fill, Types
<1>2. PICK d \in actor[a].todo :
        actor' = [actor EXCEPT ![a] = [actor[a] EXCEPT !.pc = "put", !.item = d,
                    !.todo = actor[a].todo \ {d}, !.summary = Summary(stream[d])]]
  BY <1>1 DEF Fill
<1>3. actor[a] \in Actor /\ d \in Devices /\ Summary(stream[d]) \in {"none", "gone", "listed"}
  BY <1>1, SummaryTyped DEF Actor
<1>4. actor'[a] = [actor[a] EXCEPT !.pc = "put", !.item = d,
                    !.todo = actor[a].todo \ {d}, !.summary = Summary(stream[d])]
  BY <1>1, <1>2
<1>5. actor'[a] \in Actor /\ Same(a) /\ actor'[a].pc = "put" /\ actor'[a].item = d
      /\ actor'[a].todo = actor[a].todo \ {d} /\ actor'[a].summary = Summary(stream[d])
  <2>1. actor[a].todo \ {d} \in SUBSET Devices /\ "put" \in Pcs
    BY <1>3 DEF Actor, Pcs
  <2> QED
    BY <1>3, <1>4, <2>1 DEF Actor, Same
<1>6. actor' \in [Actors -> Actor] /\ Others(a)
  BY <1>1, <1>2, <1>4, <1>5 DEF Others
<1> QED
  BY <1>1, <1>3, <1>5, <1>6 DEF Fill

LEMMA PutDoes ==
  ASSUME Base, NEW a \in Actors, Put(a)
  PROVE  /\ a \in Busy /\ actor[a].kind = "list" /\ actor[a].pc = "put" /\ actor[a].item \in Devices
         /\ shown' = IF actor[a].summary = "listed" THEN shown \cup {actor[a].item} ELSE shown
         /\ UNCHANGED <<account, stream, jobs, life, born, met, count>>
         /\ \/ actor[a].todo = {} /\ Ends(a)
            \/ actor[a].todo # {} /\ Moves(a, "fill")
<1>1. a \in Busy /\ actor[a].kind = "list" /\ actor[a].pc = "put" /\ "fill" \in Pcs
  BY KindsAt DEF Base, Put, Pcs
<1>2. actor[a].item \in Devices
  BY <1>1 DEF Base, Placed
<1> QED
  BY <1>1, <1>2, GoMoves, EndEnds DEF Base, Put

LEMMA ReportDoes ==
  ASSUME Base, NEW a \in Actors, Report(a)
  PROVE  \E d \in Devices : stream[d] # {} /\ Begins(a, "report", d, "report")
           /\ UNCHANGED <<account, stream, shown, jobs, life, born>>
<1>1. "report" \in Kinds /\ "report" \in Pcs
  BY DEF Kinds, Pcs
<1> QED
  BY <1>1, BeginBegins DEF Base, Report

LEMMA ScheduleDoes ==
  ASSUME Base, NEW a \in Actors, Schedule(a)
  PROVE  /\ a \in Busy /\ actor[a].kind = "report" /\ actor[a].pc = "schedule"
         /\ actor[a].device \in Devices
         /\ jobs' = jobs \cup {actor[a].device} /\ Ends(a)
         /\ UNCHANGED <<account, stream, shown, life, born, met, count>>
<1>1. a \in Busy /\ actor[a].kind = "report" /\ actor[a].device \in Devices
  BY KindsAt DEF Base, Schedule, DeviceKinds
<1> QED
  BY <1>1, EndEnds DEF Base, Schedule

LEMMA SettleDoes ==
  ASSUME Base, NEW a \in Actors, Settle(a)
  PROVE  \E d \in jobs : d \in Devices /\ Begins(a, "settle", d, "settle") /\ jobs' = jobs \ {d}
           /\ (\A b \in Actors : actor[b].kind # "settle")
           /\ UNCHANGED <<account, stream, shown, life, born>>
<1>1. "settle" \in Kinds /\ "settle" \in Pcs
  BY DEF Kinds, Pcs
<1>2. \A b \in Actors : actor[b].kind # "settle"
  BY DEF Settle, Settling
<1> QED
  BY <1>1, <1>2, BeginBegins DEF Base, Types, Settle

LEMMA OverrideDoes ==
  ASSUME Base, NEW a \in Actors, Override(a)
  PROVE  Begins(a, "override", None, "override")
         /\ UNCHANGED <<account, stream, shown, jobs, life, born>>
<1>1. "override" \in Kinds /\ "override" \in Pcs
  BY DEF Kinds, Pcs
<1> QED
  BY <1>1, BeginBegins DEF Base, Override

LEMMA LoadAccountDoes ==
  ASSUME Base, NEW a \in Actors, LoadAccount(a)
  PROVE  /\ a \in Busy /\ actor[a].kind \in {"override", "close"} /\ actor[a].pc = actor[a].kind
         /\ UNCHANGED <<account, stream, shown, jobs, life, born, met, count>>
         /\ \/ actor[a].kind = "close" /\ Loads(a, account, "closing")
            \/ actor[a].kind = "override" /\ Has(account, "registered") /\ Loads(a, account, "append")
            \/ Ends(a)
<1>1. a \in Busy /\ actor[a].kind \in {"override", "close"} /\ actor[a].pc = actor[a].kind
  BY KindsAt DEF Base, LoadAccount
<1>2. IsFiniteSet(account) /\ "append" \in Pcs /\ "closing" \in Pcs
  BY DEF Base, Types, Pcs
<1>3. \/ actor[a].kind = "close" /\ Load(a, account, "closing")
      \/ actor[a].kind = "override" /\ Has(account, "registered") /\ Load(a, account, "append")
      \/ End(a)
  BY <1>1 DEF LoadAccount
<1>4. /\ Load(a, account, "closing") => Loads(a, account, "closing")
      /\ Load(a, account, "append") => Loads(a, account, "append")
      /\ End(a) => Ends(a)
  BY <1>2, LoadLoads, EndEnds DEF Base
<1> QED
  BY <1>1, <1>3, <1>4 DEF LoadAccount

LEMMA AppendAccountDoes ==
  ASSUME Base, NEW a \in Actors, AppendAccount(a)
  PROVE  /\ a \in Busy
         /\ \/ actor[a].kind = "close" /\ actor[a].pc = "closing"
            \/ actor[a].kind = "override" /\ actor[a].pc = "append"
         /\ UNCHANGED <<stream, shown, jobs, life, born, met, count>>
         /\ \/ /\ Number(actor[a].version) \in 1 .. MaxVersion
               /\ Free(account, Number(actor[a].version))
               /\ \E name \in {"closed", "overridden"} :
                    account' = With(account, Number(actor[a].version), name)
               /\ actor[a].kind = "close" => Moves(a, "purge jobs")
               /\ actor[a].kind = "override" => Ends(a)
            \/ account' = account /\ Ends(a)
<1>1. /\ a \in Busy
      /\ \/ actor[a].kind = "close" /\ actor[a].pc = "closing"
         \/ actor[a].kind = "override" /\ actor[a].pc = "append"
  BY KindsAt DEF Base, AppendAccount
<1>2. actor[a].version \in Nat
  BY <1>1 DEF Base, Types, Actor
<1>3. CASE Free(account, Number(actor[a].version))
  <2>1. Number(actor[a].version) \in 1 .. MaxVersion
    <3>1. Number(actor[a].version) <= MaxVersion
      BY <1>3 DEF AppendAccount
    <3> QED
      BY <1>2, <3>1, AccountLifetimeAssumption DEF Number
  <2>2. /\ account' = With(account, Number(actor[a].version),
                            IF actor[a].kind = "close" THEN "closed" ELSE "overridden")
        /\ IF actor[a].kind = "close" THEN Go(a, "purge jobs") ELSE End(a)
    BY <1>3 DEF AppendAccount
  <2>3. /\ actor[a].kind = "close" => Moves(a, "purge jobs")
        /\ actor[a].kind = "override" => Ends(a)
    BY <2>2, GoMoves, EndEnds DEF Base, Pcs
  <2> QED
    BY <1>1, <1>3, <2>1, <2>2, <2>3 DEF AppendAccount
<1>4. CASE ~Free(account, Number(actor[a].version))
  BY <1>1, <1>4, EndEnds DEF Base, AppendAccount
<1> QED
  BY <1>3, <1>4

LEMMA PurgeJobsDoes ==
  ASSUME Base, NEW a \in Actors, PurgeJobs(a)
  PROVE  /\ a \in Busy /\ actor[a].kind = "close" /\ actor[a].pc = "purge jobs"
         /\ jobs' = jobs \cap Settling /\ Moves(a, "purge list")
         /\ UNCHANGED <<account, stream, shown, life, born, met, count>>
<1>1. a \in Busy /\ actor[a].kind = "close" /\ "purge list" \in Pcs
  BY KindsAt DEF Base, PurgeJobs, Pcs
<1> QED
  BY <1>1, GoMoves DEF Base, PurgeJobs

LEMMA PurgeListDoes ==
  ASSUME Base, NEW a \in Actors, PurgeList(a)
  PROVE  /\ a \in Busy /\ actor[a].kind = "close" /\ actor[a].pc = "purge list"
         /\ shown' = {} /\ Moves(a, "delete")
         /\ UNCHANGED <<account, stream, jobs, life, born, met, count>>
<1>1. a \in Busy /\ actor[a].kind = "close" /\ "delete" \in Pcs
  BY KindsAt DEF Base, PurgeList, Pcs
<1> QED
  BY <1>1, GoMoves DEF Base, PurgeList, Purged

LEMMA DeleteAccountDoes ==
  ASSUME Base, NEW a \in Actors, DeleteAccount(a)
  PROVE  /\ a \in Busy /\ actor[a].kind = "close" /\ actor[a].pc = "delete"
         /\ account' = {} /\ stream' = [d \in Devices |-> {}]
         /\ life' = life + 1 /\ life' \in 0 .. MaxLives /\ life \in Nat /\ Ends(a)
         /\ UNCHANGED <<shown, jobs, born, met, count>>
<1>1. a \in Busy /\ actor[a].kind = "close"
  BY KindsAt DEF Base, DeleteAccount
<1>2. life \in 0 .. MaxLives /\ MaxLives \in Nat
  BY AccountLifetimeAssumption DEF Base, Types
<1> QED
  BY <1>1, <1>2, EndEnds DEF Base, DeleteAccount

LEMMA CrashDoes ==
  ASSUME Base, Crash
  PROVE  /\ jobs' = jobs \cup Settling
         /\ met' = met \cup {{Tag(a), Cut} : a \in {x \in Busy : actor[x].kind \in Writers \cup {"close"}}}
         /\ actor' = [a \in Actors |-> Idle] /\ actor' \in [Actors -> Actor] /\ Busy' = {}
         /\ count' \in 0 .. MaxBegun
         /\ UNCHANGED <<account, stream, shown, life, born>>
<1>1. count \in 0 .. MaxBegun /\ MaxBegun \in Nat
  BY AccountLifetimeAssumption DEF Base, Types
<1>2. actor' = [a \in Actors |-> Idle]
  BY DEF Crash
<1> QED
  BY <1>1, <1>2, IdleTyped DEF Crash, Busy

-----------------------------------------------------------------------------
(* Types, stages and fresh ids. *)

LEMMA BaseKept ==
  ASSUME Base, NEW a \in Actors, Types', Steps(a), born' = born, life <= life',
         Registering(a)' => Registering(a),
         \A d \in Devices :
           Untouched(d)' \/ ~Untouched(d) \/ (d = actor[a].device /\ ~Registering(a)')
  PROVE  Base'
<1>1. Resting' /\ Placed' /\ OneSettles'
  <2>1. life' \in Nat
    BY DEF Types
  <2> QED
    BY <2>1, PlacedKept DEF Base
<1>2. Unborn' /\ FreshIds'
  <2>1. actor'[a].device \in {actor[a].device, None} /\ Others(a)
    BY IdleTyped DEF Steps, Same
  <2>2. Registering(a)' => actor'[a].device = actor[a].device
    BY IdleTyped DEF Steps, Same, Registering
  <2> QED
    BY <2>1, <2>2, FreshKept
<1> QED
  BY <1>1, <1>2 DEF Base

\* A step that only goes on, or ends.
LEMMA BaseQuiet ==
  ASSUME Base, NEW a \in Actors, Steps(a), actor' \in [Actors -> Actor], UNCHANGED <<stream, born, life, count>>,
         account' \in SUBSET Event, IsFiniteSet(account'), shown' \subseteq shown, jobs' \subseteq jobs,
         Registering(a)' => Registering(a),
         actor'[a].item \in {None, actor[a].item}, actor'[a].todo \subseteq actor[a].todo
  PROVE  Base'
<1>1. Types'
  BY DEF Base, Types
<1>2. \A d \in Devices : Untouched(d) => Untouched(d)'
  <2> SUFFICES ASSUME NEW d \in Devices, Untouched(d)
               PROVE  Untouched(d)'
    OBVIOUS
  <2>1. \A b \in Actors : actor'[b].item # d /\ d \notin actor'[b].todo
    BY AccountLifetimeAssumption DEF Untouched, Steps, Others
  <2>2. stream'[d] = {} /\ d \notin shown' /\ d \notin jobs'
    BY DEF Untouched
  <2> QED
    BY <2>1, <2>2 DEF Untouched
<1>3. life <= life'
  BY DEF Base, Types
<1> QED
  BY <1>1, <1>2, <1>3, BaseKept

\* A request or job begins about the account, a device that has events or a
\* job, or a new id.
LEMMA BaseBegins ==
  ASSUME Base, NEW a \in Actors, NEW kind \in Kinds, NEW d \in Devices \cup {None}, NEW pc \in Pcs,
         Begins(a, kind, d, pc), At(kind, pc), UNCHANGED <<account, stream, shown, life>>,
         jobs' \subseteq jobs,
         IF kind \in DeviceKinds THEN d \in Devices ELSE d = None,
         kind = "settle" => \A b \in Actors : actor[b].kind # "settle",
         pc \notin {"fill", "put"},
         \/ /\ kind = "register" /\ born[d] = None /\ born' = [born EXCEPT ![d] = life]
         \/ kind # "register" /\ born' = born /\ (d \in Devices => stream[d] # {} \/ d \in jobs)
  PROVE  Base'
<1>1. /\ \A b \in Actors \ {a} : actor'[b] = actor[b]
      /\ actor'[a].pc = pc /\ actor'[a].kind = kind /\ actor'[a].device = d
      /\ actor'[a].begun = life /\ actor'[a].todo = {} /\ actor'[a].item = None
  BY DEF Begins, Others, Idle
<1>2. actor[a] = Idle
  BY DEF Begins, Busy, Base, Resting
<1>3. Types'
  <2>1. born' \in [Devices -> Nat \cup {None}] /\ \A e \in Devices : born'[e] # None => born'[e] <= life'
    BY DEF Base, Types, DeviceKinds
  <2> QED
    BY <2>1 DEF Base, Types, Begins
<1>4. Resting'
  BY <1>1, <1>2 DEF Base, Resting, At
<1>5. OneSettles'
  BY <1>1 DEF Base, OneSettles
<1>6. Placed'
  <2> SUFFICES ASSUME NEW b \in Busy'
               PROVE  /\ At(actor'[b].kind, actor'[b].pc)
                      /\ IF actor'[b].kind \in DeviceKinds THEN actor'[b].device \in Devices
                                                          ELSE actor'[b].device = None
                      /\ actor'[b].begun <= life'
                      /\ actor'[b].pc = "fill" => actor'[b].todo # {}
                      /\ actor'[b].pc = "put" => actor'[b].item \in Devices
                      /\ actor'[b].kind # "list" => actor'[b].todo = {} /\ actor'[b].item = None
    BY DEF Placed, At
  <2>1. CASE b = a
    <3>1. life <= life
      BY DEF Base, Types
    <3> QED
      BY <1>1, <2>1, <3>1
  <2>2. CASE b # a
    <3>1. actor'[b] = actor[b] /\ b \in Busy
      BY <1>1, <2>2 DEF Busy
    <3>2. /\ At(actor[b].kind, actor[b].pc) /\ actor[b].begun <= life
          /\ IF actor[b].kind \in DeviceKinds THEN actor[b].device \in Devices
                                              ELSE actor[b].device = None
          /\ actor[b].pc = "fill" => actor[b].todo # {}
          /\ actor[b].pc = "put" => actor[b].item \in Devices
          /\ actor[b].kind # "list" => actor[b].todo = {} /\ actor[b].item = None
      BY <3>1 DEF Base, Placed
    <3> QED
      BY <3>1, <3>2
  <2> QED
    BY <2>1, <2>2
<1>7. \A e \in Devices : Untouched(e) => Untouched(e)'
  <2> SUFFICES ASSUME NEW e \in Devices, Untouched(e)
               PROVE  Untouched(e)'
    OBVIOUS
  <2>1. \A b \in Actors : actor'[b].item # e /\ e \notin actor'[b].todo
    BY <1>1, AccountLifetimeAssumption DEF Untouched
  <2>2. stream'[e] = {} /\ e \notin shown' /\ e \notin jobs'
    BY DEF Untouched
  <2> QED
    BY <2>1, <2>2 DEF Untouched
<1>8. d \in Devices /\ kind # "register" => ~Untouched(d)
  BY DEF Untouched
<1>9. None \notin Devices /\ life \in Nat /\ None \notin Nat
  BY AccountLifetimeAssumption DEF Base, Types
<1>10. Unborn'
  <2> SUFFICES ASSUME NEW e \in Devices, born'[e] = None
               PROVE  Untouched(e)' /\ \A b \in Actors : actor'[b].device # e
    BY DEF Unborn
  <2>1. born[e] = None /\ (kind = "register" => e # d)
    BY <1>9 DEF Base, Types, DeviceKinds
  <2>2. Untouched(e) /\ \A b \in Actors : actor[b].device # e
    BY <2>1 DEF Base, Unborn
  <2> QED
    BY <1>1, <1>7, <1>8, <2>1, <2>2
<1>11. FreshIds'
  <2> SUFFICES ASSUME NEW b \in Actors, Registering(b)'
               PROVE  /\ Untouched(actor[b].device)'
                      /\ \A c \in Actors \ {b} : actor'[c].device # actor'[b].device
    BY DEF FreshIds
  <2>1. \A e : e = actor'[b].device /\ Untouched(e)' => Untouched(actor[b].device)'
    BY DEF Untouched
  <2>2. CASE b = a
    <3>1. kind = "register" /\ d \in Devices
      BY <1>1, <2>2 DEF Registering, DeviceKinds
    <3>2. Untouched(d) /\ \A c \in Actors : actor[c].device # d
      BY <3>1 DEF Base, Unborn
    <3> QED
      BY <1>1, <1>7, <2>1, <2>2, <3>1, <3>2
  <2>3. CASE b # a
    <3>1. Registering(b) /\ actor'[b] = actor[b]
      BY <1>1, <2>3 DEF Registering
    <3>2. actor[b].device \in Devices
      <4>1. b \in Busy /\ actor[b].kind \in DeviceKinds
        BY <3>1 DEF Registering, Busy, DeviceKinds
      <4> QED
        BY <4>1 DEF Base, Placed
    <3>3. Untouched(actor[b].device) /\ \A c \in Actors \ {b} : actor[c].device # actor[b].device
      BY <3>1 DEF Base, FreshIds
    <3>4. actor[b].device # d
      <4>1. kind = "register" => d \in Devices /\ born[d] = None
        BY DEF DeviceKinds
      <4>2. kind = "register" => \A c \in Actors : actor[c].device # d
        BY <4>1 DEF Base, Unborn
      <4> QED
        BY <1>8, <3>2, <3>3, <4>2
    <3> QED
      BY <1>1, <1>7, <2>1, <3>1, <3>2, <3>3, <3>4
  <2> QED
    BY <2>2, <2>3
<1> QED
  BY <1>3, <1>4, <1>5, <1>6, <1>10, <1>11 DEF Base

LEMMA BaseInit == Init => Base /\ Numbers
<1> SUFFICES ASSUME Init
             PROVE  Base /\ Numbers
  OBVIOUS
<1> DEFINE first == CHOOSE d \in Devices : TRUE
           fresh == {[number |-> 1, name |-> "registered"]}
<1>1. first \in Devices /\ None \notin Devices /\ None \notin Nat /\ MaxVersion \in Nat \ {0}
      /\ MaxLives \in Nat /\ MaxBegun \in Nat
  BY AccountLifetimeAssumption
<1>2. fresh \in SUBSET Event /\ IsFiniteSet(fresh) /\ IsFiniteSet({}) /\ Distinct(fresh)
  <2>1. IsFiniteSet(fresh) /\ IsFiniteSet({})
    BY FS_Singleton, FS_EmptySet
  <2>2. 1 \in 1 .. MaxVersion /\ "registered" \in Names
    BY <1>1 DEF Names
  <2>3. fresh \in SUBSET Event
    BY <2>2 DEF Event
  <2>4. Distinct(fresh)
    BY DEF Distinct
  <2> QED
    BY <2>1, <2>3, <2>4
<1>3. PICK known \in BOOLEAN :
        /\ account = IF known THEN fresh ELSE {}
        /\ stream = [d \in Devices |-> IF known /\ d = first THEN fresh ELSE {}]
        /\ born = [d \in Devices |-> IF known /\ d = first THEN 0 ELSE None]
        /\ shown \in IF known THEN {{}, {first}} ELSE {{}}
  BY DEF Init
<1>4. jobs = {} /\ life = 0 /\ count = 0 /\ actor = [a \in Actors |-> Idle]
  BY DEF Init
<1> HIDE DEF first, fresh
<1>5. Types
  BY <1>1, <1>2, <1>3, <1>4, IdleTyped DEF Types
<1>6. Resting /\ Placed /\ OneSettles /\ FreshIds
  BY <1>4, IdleTyped DEF Resting, Placed, OneSettles, FreshIds, Busy, Registering
<1>7. Unborn
  BY <1>1, <1>3, <1>4, IdleTyped DEF Unborn, Untouched
<1>8. Numbers
  BY <1>2, <1>3 DEF Numbers, Distinct
<1> QED
  BY <1>5, <1>6, <1>7, <1>8 DEF Base

LEMMA BaseNext == Base /\ [Next]_vars => Base'
<1> SUFFICES ASSUME Base, [Next]_vars
             PROVE  Base'
  OBVIOUS
<1>0. /\ account \in SUBSET Event /\ IsFiniteSet(account) /\ life \in Nat /\ life <= life
      /\ None \notin Devices /\ None \notin Nat
      /\ \A a \in Actors : actor[a].todo \in SUBSET Devices
      /\ stream \in [Devices -> SUBSET Event] /\ \A d \in Devices : IsFiniteSet(stream[d])
  BY AccountLifetimeAssumption DEF Base, Types, Actor
<1>1. ASSUME NEW a \in Actors, Ask(a)
      PROVE  Base'
  <2>1. PICK kind \in OwnerKinds, d \in Devices \cup {None}, pc \in OwnerKinds \cup {"provision"} :
           /\ Begins(a, kind, d, pc) /\ UNCHANGED <<account, stream, shown, jobs, life>>
           /\ pc = IF account = {} THEN "provision" ELSE kind
           /\ kind \in {"register", "rotate", "decommission"} => d \in Devices
           /\ kind = "register" => born[d] = None /\ born' = [born EXCEPT ![d] = life]
           /\ kind # "register" => born' = born
           /\ kind \in {"rotate", "decommission"} => stream[d] # {}
           /\ kind \in {"list", "close"} => d = None
    BY <1>1, AskDoes
  <2>2. kind \in Kinds /\ pc \in Pcs /\ At(kind, pc) /\ pc \notin {"fill", "put"} /\ kind # "settle"
    BY <2>1 DEF OwnerKinds, Kinds, Pcs, At
  <2>3. IF kind \in DeviceKinds THEN d \in Devices ELSE d = None
    BY <2>1 DEF OwnerKinds, DeviceKinds
  <2>4. \/ kind = "register" /\ born[d] = None /\ born' = [born EXCEPT ![d] = life]
        \/ kind # "register" /\ born' = born /\ (d \in Devices => stream[d] # {} \/ d \in jobs)
    BY <1>0, <2>1 DEF OwnerKinds
  <2> QED
    BY <2>1, <2>2, <2>3, <2>4, BaseBegins
<1>2. ASSUME NEW a \in Actors, Provision(a)
      PROVE  Base'
  <2>1. account' \in SUBSET Event /\ IsFiniteSet(account')
    <3>1. 1 \in 1 .. MaxVersion /\ "registered" \in Names
      BY AccountLifetimeAssumption DEF Names
    <3> QED
      BY <1>0, <1>2, <3>1, ProvisionDoes, AppendsOne
  <2>2. /\ Steps(a) /\ actor' \in [Actors -> Actor] /\ actor'[a].item \in {None, actor[a].item}
        /\ actor'[a].todo \subseteq actor[a].todo
        /\ Registering(a)' => Registering(a)
    BY <1>2, ProvisionDoes, IdleTyped DEF Steps, Moves, Ends, Same, At, OwnerKinds, Registering, Base, Placed
  <2> QED
    BY <1>2, <2>1, <2>2, ProvisionDoes, BaseQuiet
<1>3. ASSUME NEW a \in Actors, Register(a)
      PROVE  Base'
  <2> DEFINE d == actor[a].device
  <2>1. With({}, 1, "registered") \in SUBSET Event /\ IsFiniteSet(With({}, 1, "registered"))
    <3>1. 1 \in 1 .. MaxVersion /\ "registered" \in Names /\ Free({}, 1) /\ IsFiniteSet({})
      BY AccountLifetimeAssumption, FS_EmptySet DEF Names, Free
    <3> QED
      BY <3>1, AppendsOne
  <2>2. Types'
    BY <1>0, <1>3, <2>1, RegisterDoes DEF Base, Types, Moves
  <2>3. Steps(a) /\ ~Registering(a)'
    BY <1>3, RegisterDoes DEF Steps, Moves, Same, At, Registering, Base, Placed
  <2>4. \A e \in Devices : Untouched(e) => Untouched(e)' \/ e = d
    <3> SUFFICES ASSUME NEW e \in Devices, Untouched(e), e # d
                 PROVE  Untouched(e)'
      OBVIOUS
    <3>1. \A b \in Actors : actor'[b].item = actor[b].item /\ actor'[b].todo = actor[b].todo
      BY <1>3, RegisterDoes DEF Moves, Others
    <3>2. stream'[e] = stream[e] /\ UNCHANGED <<shown, jobs>>
      BY <1>0, <1>3, RegisterDoes
    <3> QED
      BY <3>1, <3>2 DEF Untouched
  <2> QED
    BY <1>0, <1>3, <2>2, <2>3, <2>4, RegisterDoes, BaseKept
<1>4. ASSUME NEW a \in Actors, LoadDevice(a)
      PROVE  Base'
  <2>1. /\ Steps(a) /\ actor' \in [Actors -> Actor] /\ actor'[a].item \in {None, actor[a].item}
        /\ actor'[a].todo \subseteq actor[a].todo
        /\ Registering(a)' => Registering(a)
    BY <1>4, LoadDeviceDoes, IdleTyped DEF Steps, Loads, Ends, Same, At, Registering, Base, Placed
  <2> QED
    BY <1>0, <1>4, <2>1, LoadDeviceDoes, BaseQuiet
<1>5. ASSUME NEW a \in Actors, AppendDevice(a)
      PROVE  Base'
  <2> DEFINE d == actor[a].device
  <2>1. /\ a \in Busy /\ actor[a].kind \in {"rotate", "decommission", "report", "settle"}
        /\ actor[a].pc = "append" /\ d \in Devices
        /\ UNCHANGED <<account, shown, jobs, life, born, met, count>>
    BY <1>5, AppendDeviceDoes
  <2>2. /\ Steps(a) /\ actor' \in [Actors -> Actor] /\ actor'[a].item \in {None, actor[a].item}
        /\ actor'[a].todo \subseteq actor[a].todo /\ ~Registering(a)'
    BY <1>5, AppendDeviceDoes, IdleTyped DEF Steps, Moves, Ends, Same, At, Registering, Base, Placed
  <2>3. stream' \in [Devices -> SUBSET Event] /\ (\A e \in Devices : IsFiniteSet(stream'[e]))
        /\ \A e \in Devices : e # d => stream'[e] = stream[e]
    <3>1. Appended[actor[a].kind] \in Names
      BY <2>1 DEF Appended, Names
    <3>2. CASE stream' = stream
      BY <1>0, <3>2
    <3>3. CASE stream' # stream
      <4>1. Number(actor[a].version) \in 1 .. MaxVersion /\ Free(stream[d], Number(actor[a].version))
            /\ stream' = [stream EXCEPT ![d] =
                 With(stream[d], Number(actor[a].version), Appended[actor[a].kind])]
        BY <1>5, <3>3, AppendDeviceDoes
      <4>2. With(stream[d], Number(actor[a].version), Appended[actor[a].kind]) \in SUBSET Event
            /\ IsFiniteSet(With(stream[d], Number(actor[a].version), Appended[actor[a].kind]))
        BY <1>0, <2>1, <3>1, <4>1, AppendsOne
      <4> QED
        BY <1>0, <2>1, <4>1, <4>2
    <3> QED
      BY <3>2, <3>3
  <2>4. Types'
    BY <2>1, <2>2, <2>3 DEF Base, Types
  <2>5. \A e \in Devices : Untouched(e) => Untouched(e)' \/ e = d
    BY <1>0, <2>1, <2>2, <2>3 DEF Untouched, Steps, Others
  <2> QED
    BY <1>0, <2>1, <2>2, <2>4, <2>5, BaseKept
<1>6. ASSUME NEW a \in Actors, Refresh(a)
      PROVE  Base'
  <2>1. /\ Steps(a) /\ actor' \in [Actors -> Actor] /\ actor'[a].item \in {None, actor[a].item}
        /\ actor'[a].todo \subseteq actor[a].todo
        /\ Registering(a)' => Registering(a)
    BY <1>6, RefreshDoes, IdleTyped DEF Steps, Loads, Same, At, Registering, Base, Placed
  <2> QED
    BY <1>0, <1>6, <2>1, RefreshDoes, BaseQuiet
<1>7. ASSUME NEW a \in Actors, Show(a)
      PROVE  Base'
  <2>1. shown' \in SUBSET Devices /\ \A e \in Devices : e \in shown' => e \in shown \/ e = actor[a].device
    BY <1>7, ShowDoes DEF Upsert, Base, Types
  <2>2. Types' /\ Steps(a) /\ ~Registering(a)'
    BY <1>7, <2>1, ShowDoes, IdleTyped DEF Base, Types, Steps, Ends, Registering
  <2>3. \A e \in Devices : Untouched(e) => Untouched(e)' \/ e = actor[a].device
    BY <1>0, <1>7, <2>1, ShowDoes, IdleTyped DEF Untouched, Ends, Others
  <2> QED
    BY <1>0, <1>7, <2>2, <2>3, ShowDoes, BaseKept
<1>8. ASSUME NEW a \in Actors, List(a)
      PROVE  Base'
  <2>1. Types' /\ Steps(a) /\ ~Registering(a)'
    BY <1>8, ListDoes, IdleTyped DEF Base, Types, Placed, Steps, Ends, Same, At, Registering
  <2>2. \A e \in Devices : Untouched(e) => Untouched(e)'
    <3> SUFFICES ASSUME NEW e \in Devices, Untouched(e)
                 PROVE  Untouched(e)'
      OBVIOUS
    <3>1. \A b \in Actors : actor'[b].item # e /\ e \notin actor'[b].todo
      BY <1>0, <1>8, ListDoes, IdleTyped DEF Untouched, Ends, Others
    <3> QED
      BY <1>8, <3>1, ListDoes DEF Untouched
  <2> QED
    BY <1>0, <1>8, <2>1, <2>2, ListDoes, BaseKept
<1>9. ASSUME NEW a \in Actors, Clear(a)
      PROVE  Base'
  <2>1. /\ Steps(a) /\ actor' \in [Actors -> Actor] /\ actor'[a].item \in {None, actor[a].item}
        /\ actor'[a].todo \subseteq actor[a].todo
        /\ Registering(a)' => Registering(a)
    BY <1>9, ClearDoes, IdleTyped DEF Steps, Moves, Ends, Same, At, Registering, Base, Placed
  <2> QED
    BY <1>0, <1>9, <2>1, ClearDoes, BaseQuiet
<1>10. ASSUME NEW a \in Actors, Fill(a)
      PROVE  Base'
  <2>1. Types' /\ Steps(a) /\ ~Registering(a)'
    BY <1>10, FillDoes DEF Base, Types, Placed, Steps, Same, At, Registering
  <2>2. \A e \in Devices : Untouched(e) => Untouched(e)'
    <3> SUFFICES ASSUME NEW e \in Devices, Untouched(e)
                 PROVE  Untouched(e)'
      OBVIOUS
    <3>1. \A b \in Actors : actor'[b].item # e /\ e \notin actor'[b].todo
      BY <1>0, <1>10, FillDoes DEF Untouched, Others
    <3> QED
      BY <1>10, <3>1, FillDoes DEF Untouched
  <2> QED
    BY <1>0, <1>10, <2>1, <2>2, FillDoes, BaseKept
<1>11. ASSUME NEW a \in Actors, Put(a)
      PROVE  Base'
  <2>1. Types' /\ Steps(a) /\ ~Registering(a)'
    <3>1. Types'
      BY <1>11, PutDoes DEF Base, Types, Moves, Ends
    <3>2. Steps(a)
      BY <1>11, PutDoes DEF Steps, Moves, Ends, Same, At
    <3>3. ~Registering(a)'
      BY <1>11, PutDoes, IdleTyped DEF Moves, Ends, Same, Registering
    <3> QED
      BY <3>1, <3>2, <3>3
  <2>2. \A e \in Devices : Untouched(e) => Untouched(e)'
    <3> SUFFICES ASSUME NEW e \in Devices, Untouched(e)
                 PROVE  Untouched(e)'
      OBVIOUS
    <3>1. \A b \in Actors : actor'[b].item # e /\ e \notin actor'[b].todo
      BY <1>0, <1>11, PutDoes, IdleTyped DEF Untouched, Moves, Ends, Others
    <3>2. e # actor[a].item
      BY DEF Untouched
    <3> QED
      BY <1>11, <3>1, <3>2, PutDoes DEF Untouched
  <2> QED
    BY <1>0, <1>11, <2>1, <2>2, PutDoes, BaseKept
<1>12. ASSUME NEW a \in Actors, Report(a)
      PROVE  Base'
  <2>1. "report" \in Kinds /\ "report" \in Pcs /\ At("report", "report") /\ "report" \in DeviceKinds
    BY DEF Kinds, Pcs, At, DeviceKinds
  <2> QED
    BY <1>12, <2>1, ReportDoes, BaseBegins
<1>13. ASSUME NEW a \in Actors, Schedule(a)
      PROVE  Base'
  <2>1. Types' /\ Steps(a) /\ ~Registering(a)'
    BY <1>13, ScheduleDoes, IdleTyped DEF Base, Types, Steps, Ends, Registering
  <2>2. \A e \in Devices : Untouched(e) => Untouched(e)' \/ e = actor[a].device
    BY <1>0, <1>13, ScheduleDoes, IdleTyped DEF Untouched, Ends, Others
  <2> QED
    BY <1>0, <1>13, <2>1, <2>2, ScheduleDoes, BaseKept
<1>14. ASSUME NEW a \in Actors, Settle(a)
      PROVE  Base'
  <2>1. "settle" \in Kinds /\ "settle" \in Pcs /\ At("settle", "settle") /\ "settle" \in DeviceKinds
    BY DEF Kinds, Pcs, At, DeviceKinds
  <2>2. PICK d \in jobs : d \in Devices /\ Begins(a, "settle", d, "settle") /\ jobs' = jobs \ {d}
           /\ (\A b \in Actors : actor[b].kind # "settle")
           /\ UNCHANGED <<account, stream, shown, life, born>>
    BY <1>14, SettleDoes
  <2>3. jobs' \subseteq jobs
    BY <2>2
  <2> QED
    BY <2>1, <2>2, <2>3, BaseBegins
<1>15. ASSUME NEW a \in Actors, Override(a)
      PROVE  Base'
  <2>1. "override" \in Kinds /\ "override" \in Pcs /\ At("override", "override")
        /\ "override" \notin DeviceKinds
    BY DEF Kinds, Pcs, At, DeviceKinds
  <2> QED
    BY <1>0, <1>15, <2>1, OverrideDoes, BaseBegins
<1>16. ASSUME NEW a \in Actors, LoadAccount(a)
      PROVE  Base'
  <2>1. /\ Steps(a) /\ actor' \in [Actors -> Actor] /\ actor'[a].item \in {None, actor[a].item}
        /\ actor'[a].todo \subseteq actor[a].todo
        /\ Registering(a)' => Registering(a)
    BY <1>16, LoadAccountDoes, IdleTyped DEF Steps, Loads, Ends, Same, At, Registering, Base, Placed
  <2> QED
    BY <1>0, <1>16, <2>1, LoadAccountDoes, BaseQuiet
<1>17. ASSUME NEW a \in Actors, AppendAccount(a)
      PROVE  Base'
  <2>1. /\ Steps(a) /\ actor' \in [Actors -> Actor] /\ actor'[a].item \in {None, actor[a].item}
        /\ actor'[a].todo \subseteq actor[a].todo
        /\ Registering(a)' => Registering(a)
    BY <1>17, AppendAccountDoes, IdleTyped DEF Steps, Moves, Ends, Same, At, Registering, Base, Placed
  <2>2. account' \in SUBSET Event /\ IsFiniteSet(account')
    <3>1. {"closed", "overridden"} \subseteq Names
      BY DEF Names
    <3> QED
      <4>1. CASE account' = account
        BY <1>0, <4>1
      <4>2. CASE account' # account
        <5>1. Number(actor[a].version) \in 1 .. MaxVersion /\ Free(account, Number(actor[a].version))
          BY <1>17, <4>2, AppendAccountDoes
        <5>2. PICK name \in {"closed", "overridden"} :
                account' = With(account, Number(actor[a].version), name)
          BY <1>17, <4>2, AppendAccountDoes
        <5>3. name \in Names
          BY <3>1
        <5> QED
          BY <1>0, <5>1, <5>2, <5>3, AppendsOne
      <4> QED
        BY <4>1, <4>2
  <2> QED
    BY <1>17, <2>1, <2>2, AppendAccountDoes, BaseQuiet
<1>18. ASSUME NEW a \in Actors, PurgeJobs(a)
      PROVE  Base'
  <2>1. /\ Steps(a) /\ actor' \in [Actors -> Actor] /\ actor'[a].item \in {None, actor[a].item}
        /\ actor'[a].todo \subseteq actor[a].todo
        /\ Registering(a)' => Registering(a)
    BY <1>18, PurgeJobsDoes DEF Steps, Moves, Same, At, Registering, Base, Placed
  <2> QED
    BY <1>0, <1>18, <2>1, PurgeJobsDoes, BaseQuiet
<1>19. ASSUME NEW a \in Actors, PurgeList(a)
      PROVE  Base'
  <2>1. /\ Steps(a) /\ actor' \in [Actors -> Actor] /\ actor'[a].item \in {None, actor[a].item}
        /\ actor'[a].todo \subseteq actor[a].todo
        /\ Registering(a)' => Registering(a)
    BY <1>19, PurgeListDoes DEF Steps, Moves, Same, At, Registering, Base, Placed
  <2> QED
    BY <1>0, <1>19, <2>1, PurgeListDoes, BaseQuiet
<1>20. ASSUME NEW a \in Actors, DeleteAccount(a)
      PROVE  Base'
  <2>1. Types'
    <3>1. {} \in SUBSET Event /\ IsFiniteSet({})
      BY FS_EmptySet
    <3>2. \A d \in Devices : born'[d] # None => born'[d] <= life'
      BY <1>0, <1>20, DeleteAccountDoes DEF Base, Types
    <3> QED
      BY <1>20, <3>1, <3>2, DeleteAccountDoes DEF Base, Types, Ends
  <2>2. Steps(a) /\ ~Registering(a)' /\ life <= life'
    BY <1>20, DeleteAccountDoes, IdleTyped DEF Steps, Ends, Registering
  <2>3. \A e \in Devices : Untouched(e) => Untouched(e)'
    <3> SUFFICES ASSUME NEW e \in Devices, Untouched(e)
                 PROVE  Untouched(e)'
      OBVIOUS
    <3>1. \A b \in Actors : actor'[b].item # e /\ e \notin actor'[b].todo
      BY <1>0, <1>20, DeleteAccountDoes, IdleTyped DEF Untouched, Ends, Others
    <3> QED
      BY <1>20, <3>1, DeleteAccountDoes DEF Untouched
  <2> QED
    BY <1>20, <2>1, <2>2, <2>3, DeleteAccountDoes, BaseKept
<1>21. CASE Crash
  <2>1. Settling \subseteq {actor[b].device : b \in {x \in Actors : actor[x].kind = "settle"}}
    BY DEF Settling
  <2>2. \A d \in Settling : d \in Devices /\ born[d] # None
    <3> SUFFICES ASSUME NEW b \in Actors, actor[b].kind = "settle"
                 PROVE  actor[b].device \in Devices /\ born[actor[b].device] # None
      BY DEF Settling
    <3>1. b \in Busy /\ actor[b].kind \in DeviceKinds
      BY IdleTyped DEF Base, Resting, Busy, DeviceKinds
    <3>2. actor[b].device \in Devices
      BY <3>1 DEF Base, Placed
    <3> QED
      BY <3>2 DEF Base, Unborn
  <2>3. Types'
    BY <1>21, <2>2, CrashDoes DEF Base, Types
  <2>4. Resting' /\ Placed' /\ OneSettles' /\ FreshIds'
    BY <1>21, CrashDoes, IdleTyped DEF Resting, Placed, OneSettles, FreshIds, Busy, Registering
  <2>5. Unborn'
    BY <1>0, <1>21, <2>2, CrashDoes, IdleTyped DEF Base, Unborn, Untouched
  <2> QED
    BY <2>3, <2>4, <2>5 DEF Base
<1>22. CASE UNCHANGED vars
  BY <1>22 DEF vars, Base, Types, Resting, Placed, OneSettles, Unborn, FreshIds, Untouched,
     Registering, Busy
<1> QED
  BY <1>1, <1>2, <1>3, <1>4, <1>5, <1>6, <1>7, <1>8, <1>9, <1>10, <1>11, <1>12, <1>13, <1>14,
     <1>15, <1>16, <1>17, <1>18, <1>19, <1>20, <1>21, <1>22 DEF Next, Step

-----------------------------------------------------------------------------
(* The shapes of a step. *)

\* Every step is one request's or job's, a beginning, or a crash; only the last
\* two and a rebuild change what is remembered.
LEMMA StepShapes ==
  ASSUME Base, NEW a \in Actors, Step(a)
  PROVE  /\ Remembers
         /\ \/ Steps(a)
            \/ \E kind \in Kinds, d \in Devices \cup {None}, pc \in Pcs : Begins(a, kind, d, pc)
<1> USE DEF Base, Placed, Steps, Moves, Loads, Ends, Same, At
<1>0. met' = met => Remembers
  BY DEF Remembers
<1>a. \A kind, d, pc : Begins(a, kind, d, pc) => Remembers
  BY DEF Remembers, Begins
<1>1. CASE Ask(a)
  <2>1. PICK kind \in OwnerKinds, d \in Devices \cup {None}, pc \in OwnerKinds \cup {"provision"} :
          Begins(a, kind, d, pc)
    BY <1>1, AskDoes
  <2>2. kind \in Kinds /\ pc \in Pcs
    BY DEF OwnerKinds, Kinds, Pcs
  <2> QED
    BY <1>a, <2>1, <2>2
<1>2. CASE Provision(a)
  BY <1>0, <1>2, ProvisionDoes DEF OwnerKinds
<1>3. CASE Register(a)
  BY <1>0, <1>3, RegisterDoes
<1>4. CASE LoadDevice(a)
  BY <1>0, <1>4, LoadDeviceDoes
<1>5. CASE AppendDevice(a)
  BY <1>0, <1>5, AppendDeviceDoes
<1>6. CASE Refresh(a)
  BY <1>0, <1>6, RefreshDoes
<1>7. CASE Show(a)
  BY <1>0, <1>7, ShowDoes
<1>8. CASE List(a)
  BY <1>0, <1>8, ListDoes
<1>9. CASE Clear(a)
  <2>1. Remembers
    BY <1>9, ClearDoes DEF Remembers
  <2> QED
    BY <1>9, <2>1, ClearDoes
<1>10. CASE Fill(a)
  BY <1>0, <1>10, FillDoes
<1>11. CASE Put(a)
  BY <1>0, <1>11, PutDoes
<1>12. CASE Report(a)
  <2>1. "report" \in Kinds /\ "report" \in Pcs
    BY DEF Kinds, Pcs
  <2> QED
    BY <1>12, <2>1, <1>a, ReportDoes
<1>13. CASE Schedule(a)
  BY <1>0, <1>13, ScheduleDoes
<1>14. CASE Settle(a)
  <2>1. "settle" \in Kinds /\ "settle" \in Pcs
    BY DEF Kinds, Pcs
  <2> QED
    BY <1>14, <2>1, <1>a, SettleDoes
<1>15. CASE Override(a)
  <2>1. "override" \in Kinds /\ "override" \in Pcs
    BY DEF Kinds, Pcs
  <2> QED
    BY <1>15, <2>1, <1>a, OverrideDoes
<1>16. CASE LoadAccount(a)
  BY <1>0, <1>16, LoadAccountDoes
<1>17. CASE AppendAccount(a)
  BY <1>0, <1>17, AppendAccountDoes
<1>18. CASE PurgeJobs(a)
  BY <1>0, <1>18, PurgeJobsDoes
<1>19. CASE PurgeList(a)
  BY <1>0, <1>19, PurgeListDoes
<1>20. CASE DeleteAccount(a)
  BY <1>0, <1>20, DeleteAccountDoes
<1> QED
  BY <1>1, <1>2, <1>3, <1>4, <1>5, <1>6, <1>7, <1>8, <1>9, <1>10, <1>11, <1>12, <1>13, <1>14,
     <1>15, <1>16, <1>17, <1>18, <1>19, <1>20 DEF Step

\* Nothing forgets but the rebuild of a list that was lost.
LEMMA AlwaysRemembers ==
  ASSUME Base, [Next]_vars
  PROVE  Remembers /\ ExcusesStay
<1>4. Remembers
  <2>1. CASE Crash
    BY <2>1, CrashDoes DEF Remembers
  <2>2. CASE \E a \in Actors : Step(a)
    BY <2>2, StepShapes
  <2>3. CASE UNCHANGED vars
    BY <2>3 DEF Remembers, vars
  <2> QED
    BY <2>1, <2>2, <2>3 DEF Next
<1> QED
  BY <1>4, ExcusesKept

LEMMA PairedInit == Init => Paired
<1> SUFFICES ASSUME Init
             PROVE  Paired
  OBVIOUS
<1>1. actor = [a \in Actors |-> Idle]
  BY DEF Init
<1> QED
  BY <1>1, IdleTyped DEF Paired, Busy

LEMMA PairedNext == Base /\ Base' /\ Paired /\ [Next]_vars => Paired'
<1> SUFFICES ASSUME Base, Base', Paired, [Next]_vars, NEW b \in Busy', NEW c \in Busy', b # c,
                    Matters(Tag(b)', Tag(c)')
             PROVE  {Tag(b)', Tag(c)'} \in met'
  BY DEF Paired
<1>1. b \in Actors /\ c \in Actors /\ actor'[b].pc # "idle" /\ actor'[c].pc # "idle"
  BY DEF Busy
<1>2. \A x, y \in Busy : x # y /\ Matters(Tag(x), Tag(y)) => {Tag(x), Tag(y)} \in met'
  <2> SUFFICES ASSUME NEW x \in Busy, NEW y \in Busy, x # y, Matters(Tag(x), Tag(y))
               PROVE  {Tag(x), Tag(y)} \in met'
    OBVIOUS
  <2>1. {Tag(x), Tag(y)} \in met
    BY DEF Paired
  <2>2. At(actor[x].kind, actor[x].pc) /\ At(actor[y].kind, actor[y].pc)
    BY DEF Base, Placed
  <2>3. \A e \in Devices : {Tag(x), Tag(y)} # {<<"lost", e>>, Cut}
    <3> SUFFICES ASSUME NEW e \in Devices, {Tag(x), Tag(y)} = {<<"lost", e>>, Cut}
                 PROVE  FALSE
      OBVIOUS
    <3>1. <<actor[x].kind, actor[x].device>> = <<"lost", e>> \/ <<actor[x].kind, actor[x].device>> = <<"cut", None>>
      BY DEF Cut, Tag
    <3>2. actor[x].kind # "lost" /\ actor[x].kind # "cut"
      BY <2>2 DEF At
    <3> QED
      BY <3>1, <3>2
  <2> QED
    BY <2>1, <2>3, AlwaysRemembers DEF Remembers
<1>3. CASE Crash
  BY <1>3, CrashDoes
<1>4. CASE UNCHANGED vars
  <2>1. b \in Busy /\ c \in Busy /\ Tag(b)' = Tag(b) /\ Tag(c)' = Tag(c)
    BY <1>4, <1>1 DEF vars, Busy, Tag
  <2> QED
    BY <1>2, <2>1
<1>5. ASSUME NEW a \in Actors, Steps(a)
      PROVE  {Tag(b)', Tag(c)'} \in met'
  <2>1. \A x \in Actors : actor'[x].pc # "idle" => x \in Busy /\ Tag(x)' = Tag(x)
    BY <1>5, IdleTyped DEF Steps, Others, Same, Busy, Tag
  <2> QED
    BY <1>1, <1>2, <2>1
<1>6. ASSUME NEW a \in Actors, NEW kind \in Kinds, NEW d \in Devices \cup {None}, NEW pc \in Pcs,
             Begins(a, kind, d, pc)
      PROVE  {Tag(b)', Tag(c)'} \in met'
  <2>1. Tag(a)' = <<kind, d>> /\ \A x \in Actors \ {a} : actor'[x] = actor[x] /\ Tag(x)' = Tag(x)
    BY <1>6 DEF Begins, Others, Tag, Idle
  <2>2. \A x \in Actors \ {a} : actor'[x].pc # "idle" => x \in Busy
    BY <2>1 DEF Busy
  <2>3. \A x \in Busy : Matters(<<kind, d>>, Tag(x)) => {<<kind, d>>, Tag(x)} \in met'
    BY <1>6 DEF Begins
  <2>4. \A t, u : Matters(t, u) => Matters(u, t)
    BY DEF Matters
  <2>5. CASE b = a
    BY <1>1, <2>1, <2>2, <2>3, <2>5
  <2>6. CASE c = a
    <3>1. {<<kind, d>>, Tag(b)} \in met'
      BY <1>1, <2>1, <2>2, <2>3, <2>4, <2>6
    <3>2. {<<kind, d>>, Tag(b)} = {Tag(b), <<kind, d>>}
      OBVIOUS
    <3> QED
      BY <1>1, <2>1, <2>6, <3>1, <3>2
  <2>7. CASE b # a /\ c # a
    BY <1>1, <1>2, <2>1, <2>2, <2>7
  <2> QED
    BY <2>5, <2>6, <2>7
<1> QED
  BY <1>3, <1>4, <1>5, <1>6, StepShapes DEF Next

-----------------------------------------------------------------------------
(* The numbers of events. *)

\* A stream stays, goes, or grows by one event with a number that is free.
Grows(s, t) == \E n \in 1 .. MaxVersion, name \in Names : Free(s, n) /\ t = With(s, n, name)

LEMMA StreamsMove ==
  ASSUME Base, [Next]_vars
  PROVE  /\ account' \in {account, {}} \/ Grows(account, account')
         /\ \A d \in Devices : stream'[d] \in {stream[d], {}} \/ Grows(stream[d], stream'[d])
<1>0. stream \in [Devices -> SUBSET Event] /\ 1 \in 1 .. MaxVersion
  BY AccountLifetimeAssumption DEF Base, Types
<1>1. ASSUME NEW a \in Actors, Provision(a)
      PROVE  account' = account \/ Grows(account, account')
  <2>1. "registered" \in Names
    BY DEF Names
  <2> QED
    BY <1>0, <1>1, <2>1, ProvisionDoes DEF Grows
<1>2. ASSUME NEW a \in Actors, Register(a), NEW d \in Devices
      PROVE  stream'[d] = stream[d] \/ Grows(stream[d], stream'[d])
  <2>1. "registered" \in Names /\ Free({}, 1)
    BY DEF Names, Free
  <2> QED
    BY <1>0, <1>2, <2>1, RegisterDoes DEF Grows
<1>3. ASSUME NEW a \in Actors, AppendDevice(a), NEW d \in Devices
      PROVE  stream'[d] = stream[d] \/ Grows(stream[d], stream'[d])
  <2>1. actor[a].kind \in {"rotate", "decommission", "report", "settle"} => Appended[actor[a].kind] \in Names
    BY DEF Names, Appended
  <2> QED
    BY <1>0, <1>3, <2>1, AppendDeviceDoes DEF Grows
<1>4. ASSUME NEW a \in Actors, AppendAccount(a)
      PROVE  account' = account \/ Grows(account, account')
  <2>1. {"closed", "overridden"} \subseteq Names
    BY DEF Names
  <2> QED
    BY <1>4, <2>1, AppendAccountDoes DEF Grows
<1>5. ASSUME NEW a \in Actors, DeleteAccount(a)
      PROVE  account' = {} /\ \A d \in Devices : stream'[d] = {}
  BY <1>5, DeleteAccountDoes
<1>6. ASSUME NEW a \in Actors, Provision(a) \/ AppendAccount(a)
      PROVE  stream' = stream
  BY <1>6 DEF Provision, AppendAccount
<1>7. ASSUME NEW a \in Actors, Register(a) \/ AppendDevice(a)
      PROVE  account' = account
  BY <1>7 DEF Register, AppendDevice
<1>8. ASSUME NEW a \in Actors, Step(a),
             ~Provision(a), ~Register(a), ~AppendDevice(a), ~AppendAccount(a), ~DeleteAccount(a)
      PROVE  UNCHANGED <<account, stream>>
  BY <1>8 DEF Step, Ask, LoadDevice, Refresh, Show, List, Clear, Fill, Put, Report, Schedule,
     Settle, Override, LoadAccount, PurgeJobs, PurgeList
<1>9. Crash \/ UNCHANGED vars => UNCHANGED <<account, stream>>
  BY DEF Crash, vars
<1> QED
  BY <1>1, <1>2, <1>3, <1>4, <1>5, <1>6, <1>7, <1>8, <1>9 DEF Next

LEMMA NumbersNext == Base /\ Numbers /\ [Next]_vars => Numbers'
<1> SUFFICES ASSUME Base, Numbers, [Next]_vars
             PROVE  Numbers'
  OBVIOUS
<1>1. \A s, t : s \in SUBSET Event /\ IsFiniteSet(s) /\ Distinct(s) /\ Grows(s, t) => Distinct(t)
  BY AppendsOne DEF Grows
<1>2. Distinct({})
  BY DEF Distinct
<1>3. account \in SUBSET Event /\ IsFiniteSet(account)
      /\ \A d \in Devices : stream[d] \in SUBSET Event /\ IsFiniteSet(stream[d])
  BY DEF Base, Types
<1>4. Distinct(account')
  BY <1>1, <1>2, <1>3, StreamsMove DEF Numbers
<1>5. \A d \in Devices : Distinct(stream'[d])
  BY <1>1, <1>2, <1>3, StreamsMove DEF Numbers
<1> QED
  BY <1>4, <1>5 DEF Numbers, Distinct

\* The number after what was loaded is free only when nothing was appended
\* since: the stream stays whole.
LEMMA WholeGrows ==
  ASSUME NEW s \in SUBSET Event, IsFiniteSet(s), Whole(s), NEW v \in Nat, v <= Cardinality(s),
         v + 1 \in 1 .. MaxVersion, Free(s, v + 1), NEW name \in Names
  PROVE  Whole(With(s, v + 1, name))
<1> DEFINE t == With(s, v + 1, name)
<1>1. Cardinality(t) = Cardinality(s) + 1 /\ Cardinality(s) \in Nat
      /\ {e.number : e \in t} = {e.number : e \in s} \cup {v + 1}
  BY AppendsOne
<1>2. v + 1 \notin {e.number : e \in s}
  BY DEF Free
<1>3. v = Cardinality(s)
  BY <1>1, <1>2 DEF Whole
<1> HIDE DEF t
<1>4. {e.number : e \in t} = 1 .. Cardinality(t)
  BY <1>1, <1>3 DEF Whole
<1> QED
  BY <1>4 DEF Whole, t

LEMMA EmptyWhole == Whole({}) /\ Cardinality({}) = 0
<1>1. Cardinality({}) = 0
  BY FS_EmptySet
<1>2. {e.number : e \in {}} = {}
  OBVIOUS
<1> QED
  BY <1>1, <1>2 DEF Whole

LEMMA BeginsWith ==
  ASSUME NEW a, NEW kind, NEW d, NEW pc, Begins(a, kind, d, pc)
  PROVE  /\ actor'[a].pc = pc /\ actor'[a].kind = kind /\ actor'[a].device = d
         /\ actor'[a].summary = "none" /\ actor'[a].todo = {} /\ actor'[a].item = None
         /\ actor'[a].begun = life
  BY DEF Begins, Idle

\* Who has loaded a version, and who does next.
LEMMA HoldersAreLoaders ==
  ASSUME Base, NEW a \in Actors, Step(a), ~LoadDevice(a), ~LoadAccount(a)
  PROVE  actor'[a].pc \notin {"append", "closing"}
<1> USE DEF Ends, Moves, Loads
<1>1. CASE Ask(a)
  BY <1>1, AskDoes, BeginsWith DEF OwnerKinds
<1>2. CASE Provision(a) \/ Register(a)
  BY <1>2, ProvisionDoes, RegisterDoes, IdleTyped DEF OwnerKinds
<1>3. CASE AppendDevice(a)
  BY <1>3, AppendDeviceDoes, IdleTyped
<1>4. CASE Refresh(a) \/ Show(a) \/ List(a) \/ Clear(a) \/ Fill(a) \/ Put(a)
  BY <1>4, RefreshDoes, ShowDoes, ListDoes, ClearDoes, FillDoes, PutDoes, IdleTyped
<1>5. CASE Report(a) \/ Settle(a) \/ Override(a)
  BY <1>5, ReportDoes, SettleDoes, OverrideDoes, BeginsWith
<1>6. CASE Schedule(a) \/ AppendAccount(a) \/ PurgeJobs(a) \/ PurgeList(a) \/ DeleteAccount(a)
  BY <1>6, ScheduleDoes, AppendAccountDoes, PurgeJobsDoes, PurgeListDoes, DeleteAccountDoes, IdleTyped
<1> QED
  BY <1>1, <1>2, <1>3, <1>4, <1>5, <1>6 DEF Step

LEMMA NumberedInit == Init => Numbered
<1> SUFFICES ASSUME Init
             PROVE  Numbered
  OBVIOUS
<1> DEFINE fresh == {[number |-> 1, name |-> "registered"]}
<1>1. account \in {fresh, {}} /\ \A d \in Devices : stream[d] \in {fresh, {}}
  BY DEF Init
<1>2. Cardinality(fresh) = 1 /\ {e.number : e \in fresh} = {1}
  BY FS_Singleton
<1>3. Whole(fresh) /\ Whole({})
  <2>1. Whole({})
    BY EmptyWhole
  <2>2. 1 .. 1 = {1}
    OBVIOUS
  <2> QED
    BY <1>2, <2>1, <2>2 DEF Whole
<1>4. Busy = {}
  BY IdleTyped DEF Init, Busy
<1> QED
  BY <1>1, <1>3, <1>4 DEF Numbered

\* What the steps of one leave of the numbers of all others.
LEMMA NumberedKept ==
  ASSUME Base, Numbered, ExcusesStay, NEW a \in Actors, Others(a),
         \A d \in Devices : /\ Cardinality(stream[d]) <= Cardinality(stream'[d])
                            /\ Cardinality(stream'[d]) \in Nat
                            /\ Whole(stream'[d]) \/ NumberExcused(d)',
         Cardinality(account) <= Cardinality(account'), Cardinality(account') \in Nat,
         Whole(account') \/ AccountExcused',
         a \in Busy' => VersionHeld(a)'
  PROVE  Numbered'
<1> SUFFICES ASSUME NEW b \in Busy', b # a
             PROVE  VersionHeld(b)'
  BY DEF Numbered, Whole
<1>1. actor'[b] = actor[b] /\ b \in Busy /\ b \in Actors
  BY DEF Others, Busy
<1>2. actor[b].version \in Nat /\ Cardinality(account) \in Nat
      /\ \A d \in Devices : Cardinality(stream[d]) \in Nat
  BY <1>1, FS_CardinalityType DEF Base, Types, Actor
<1>3. VersionHeld(b)
  BY <1>1 DEF Numbered
<1>4. CASE actor[b].pc = "append" /\ actor[b].kind # "override"
  <2>1. PICK d \in Devices : d = actor[b].device
    BY <1>1, <1>4, KindsAt DEF Base, DeviceKinds
  <2>2. actor[b].version <= Cardinality(stream[d]) \/ NumberExcused(d)
    BY <1>3, <1>4, <2>1 DEF VersionHeld
  <2>3. actor[b].version <= Cardinality(stream'[d]) \/ NumberExcused(d)'
    BY <1>2, <2>2 DEF ExcusesStay
  <2>4. actor'[b].device = d /\ actor'[b].version = actor[b].version
        /\ actor'[b].pc = "append" /\ actor'[b].kind # "override"
    BY <1>1, <1>4, <2>1
  <2> QED
    BY <2>3, <2>4 DEF VersionHeld
<1>5. CASE actor[b].pc = "closing" \/ (actor[b].pc = "append" /\ actor[b].kind = "override")
  <2>1. actor[b].version <= Cardinality(account) \/ AccountExcused
    BY <1>3, <1>5 DEF VersionHeld
  <2>2. actor'[b].version <= Cardinality(account') \/ AccountExcused'
    BY <1>1, <1>2, <2>1 DEF ExcusesStay
  <2> QED
    BY <1>1, <1>5, <2>2 DEF VersionHeld
<1>6. CASE actor[b].pc \notin {"append", "closing"}
  BY <1>1, <1>6 DEF VersionHeld
<1> QED
  BY <1>4, <1>5, <1>6

LEMMA NumberedNext ==
  Base /\ Base' /\ Numbered /\ Paired /\ [Next]_vars => Numbered'
<1> SUFFICES ASSUME Base, Base', Numbered, Paired, [Next]_vars
             PROVE  Numbered'
  OBVIOUS
<1>0. ExcusesStay
  BY AlwaysRemembers
<1>1. /\ account \in SUBSET Event /\ IsFiniteSet(account) /\ Cardinality(account) \in Nat
      /\ stream \in [Devices -> SUBSET Event]
      /\ \A d \in Devices : IsFiniteSet(stream[d]) /\ Cardinality(stream[d]) \in Nat
      /\ \A b \in Actors : actor[b].version \in Nat
  BY FS_CardinalityType DEF Base, Types, Actor
<1>2. /\ \A d \in Devices : Whole(stream[d]) \/ NumberExcused(d)'
      /\ Whole(account) \/ AccountExcused'
  BY <1>0 DEF Numbered, ExcusesStay
<1>3. ASSUME NEW a \in Actors, Others(a), UNCHANGED <<account, stream>>, a \in Busy' => VersionHeld(a)'
      PROVE  Numbered'
  BY <1>0, <1>1, <1>2, <1>3, NumberedKept
<1>4. ASSUME NEW a \in Actors, Step(a), ~LoadDevice(a), ~LoadAccount(a)
      PROVE  Others(a) /\ VersionHeld(a)'
  <2>1. actor'[a].pc \notin {"append", "closing"}
    BY <1>4, HoldersAreLoaders
  <2>2. Others(a)
    BY <1>4, StepShapes DEF Steps, Begins
  <2> QED
    BY <2>1, <2>2 DEF VersionHeld
<1>5. ASSUME NEW a \in Actors, Step(a), ~LoadDevice(a), ~LoadAccount(a),
             ~Provision(a), ~Register(a), ~AppendDevice(a), ~AppendAccount(a), ~DeleteAccount(a)
      PROVE  Numbered'
  <2>1. UNCHANGED <<account, stream>>
    BY <1>5 DEF Step, Ask, Refresh, Show, List, Clear, Fill, Put, Report, Schedule,
       Settle, Override, PurgeJobs, PurgeList
  <2> QED
    BY <1>3, <1>4, <1>5, <2>1
<1>6. ASSUME NEW a \in Actors, LoadDevice(a)
      PROVE  Numbered'
  <2>1. actor[a].device \in Devices /\ UNCHANGED <<account, stream>> /\ Others(a)
    BY <1>6, LoadDeviceDoes DEF Loads, Ends
  <2>2. CASE Ends(a)
    <3>1. a \notin Busy'
      BY <2>2, IdleTyped DEF Ends, Busy
    <3> QED
      BY <1>3, <2>1, <3>1
  <2>3. CASE Loads(a, stream[actor[a].device], "append")
    <3>1. /\ actor'[a].version = Cardinality(stream'[actor'[a].device])
          /\ actor'[a].pc = "append" /\ actor'[a].kind # "override"
      BY <1>6, <2>1, <2>3, LoadDeviceDoes DEF Loads, Same
    <3>2. VersionHeld(a)'
      BY <1>1, <2>1, <3>1 DEF VersionHeld, Base, Types, Actor
    <3> QED
      BY <1>3, <2>1, <3>2
  <2> QED
    BY <1>6, <2>2, <2>3, LoadDeviceDoes
<1>7. ASSUME NEW a \in Actors, LoadAccount(a)
      PROVE  Numbered'
  <2>1. UNCHANGED <<account, stream>> /\ Others(a)
    BY <1>7, LoadAccountDoes DEF Loads, Ends
  <2>2. CASE Ends(a)
    <3>1. a \notin Busy'
      BY <2>2, IdleTyped DEF Ends, Busy
    <3> QED
      BY <1>3, <2>1, <3>1
  <2>3. CASE ~Ends(a)
    <3>1. /\ actor'[a].version = Cardinality(account')
          /\ \/ actor'[a].kind = "close" /\ actor'[a].pc = "closing"
             \/ actor'[a].kind = "override" /\ actor'[a].pc = "append"
      BY <1>7, <2>1, <2>3, LoadAccountDoes DEF Loads, Same
    <3>2. VersionHeld(a)'
      BY <1>1, <2>1, <3>1 DEF VersionHeld, Base, Types, Actor
    <3> QED
      BY <1>3, <2>1, <3>2
  <2> QED
    BY <2>2, <2>3
<1>8. ASSUME NEW a \in Actors, Provision(a)
      PROVE  Numbered'
  <2>1. Others(a) /\ VersionHeld(a)' /\ UNCHANGED stream
    BY <1>4, <1>8, ProvisionDoes DEF Step, Provision, LoadDevice, LoadAccount
  <2>2. CASE account' = account
    BY <1>3, <2>1, <2>2
  <2>3. CASE account' # account
    <3>1. Free(account, 1) /\ account' = With(account, 1, "registered")
      BY <1>8, <2>3, ProvisionDoes
    <3>2. 1 \in 1 .. MaxVersion /\ "registered" \in Names
      BY AccountLifetimeAssumption DEF Names
    <3>3. IsFiniteSet(account') /\ Cardinality(account') = Cardinality(account) + 1
      BY <1>1, <3>1, <3>2, AppendsOne
    <3>4. Whole(account') \/ AccountExcused'
      <4>1. CASE Whole(account)
        <5>1. 0 \in Nat /\ 0 <= Cardinality(account) /\ 0 + 1 = 1
          BY <1>1
        <5> QED
          BY <1>1, <3>1, <3>2, <4>1, <5>1, WholeGrows
      <4> QED
        BY <1>2, <4>1
    <3>5. Cardinality(account) <= Cardinality(account') /\ Cardinality(account') \in Nat
      BY <1>1, <3>3
    <3> QED
      BY <1>0, <1>1, <1>2, <2>1, <3>4, <3>5, NumberedKept
  <2> QED
    BY <2>2, <2>3
<1>9. ASSUME NEW a \in Actors, AppendAccount(a)
      PROVE  Numbered'
  <2>1. Others(a) /\ VersionHeld(a)' /\ UNCHANGED stream
    BY <1>4, <1>9, AppendAccountDoes DEF Step, AppendAccount, LoadDevice, LoadAccount
  <2>2. CASE account' = account
    BY <1>3, <2>1, <2>2
  <2>3. CASE account' # account
    <3>1. Number(actor[a].version) \in 1 .. MaxVersion /\ Free(account, Number(actor[a].version))
      BY <1>9, <2>3, AppendAccountDoes
    <3>2. PICK name \in {"closed", "overridden"} : account' = With(account, Number(actor[a].version), name)
      BY <1>9, <2>3, AppendAccountDoes
    <3>3. name \in Names
      BY DEF Names
    <3>4. Cardinality(account') = Cardinality(account) + 1
      BY <1>1, <3>1, <3>2, <3>3, AppendsOne
    <3>5. Whole(account') \/ AccountExcused'
      <4>1. actor[a].version <= Cardinality(account) \/ AccountExcused
        BY <1>9, AppendAccountDoes DEF Numbered, VersionHeld
      <4>2. CASE Whole(account) /\ actor[a].version <= Cardinality(account)
        BY <1>1, <3>1, <3>2, <3>3, <4>2, WholeGrows DEF Number
      <4> QED
        BY <1>0, <1>2, <4>1, <4>2 DEF ExcusesStay
    <3>6. Cardinality(account) <= Cardinality(account') /\ Cardinality(account') \in Nat
      BY <1>1, <3>4
    <3> QED
      BY <1>0, <1>1, <1>2, <2>1, <3>5, <3>6, NumberedKept
  <2> QED
    BY <2>2, <2>3
<1>10. ASSUME NEW a \in Actors, Register(a)
      PROVE  Numbered'
  <2>0. PICK d \in Devices : d = actor[a].device
    BY <1>10, RegisterDoes
  <2>1. Others(a) /\ VersionHeld(a)' /\ UNCHANGED account /\ stream[d] = {}
        /\ stream' = [stream EXCEPT ![d] = With({}, 1, "registered")]
    BY <1>4, <1>10, <2>0, RegisterDoes DEF Step, Register, LoadDevice, LoadAccount
  <2>2. 1 \in 1 .. MaxVersion /\ "registered" \in Names /\ Free({}, 1) /\ IsFiniteSet({})
        /\ 0 <= Cardinality({}) /\ 0 + 1 = 1 /\ Cardinality({}) = 0 /\ Whole({})
    BY AccountLifetimeAssumption, FS_EmptySet, EmptyWhole DEF Names, Free
  <2>3. Cardinality(With({}, 1, "registered")) = Cardinality({}) + 1
    BY <2>2, AppendsOne
  <2>4. Whole(With({}, 1, "registered"))
    BY <2>2, WholeGrows
  <2>5. \A e \in Devices : /\ Cardinality(stream[e]) <= Cardinality(stream'[e])
                           /\ Cardinality(stream'[e]) \in Nat
                           /\ Whole(stream'[e]) \/ NumberExcused(e)'
    <3>1. stream'[d] = With({}, 1, "registered") /\ \A e \in Devices : e # d => stream'[e] = stream[e]
      BY <1>1, <2>1
    <3>2. Cardinality(stream[d]) = 0 /\ Cardinality(stream'[d]) = 1 /\ Whole(stream'[d])
      BY <2>1, <2>2, <2>3, <2>4, <3>1
    <3> QED
      BY <1>1, <1>2, <3>1, <3>2
  <2> QED
    BY <1>0, <1>1, <1>2, <2>1, <2>5, NumberedKept
<1>11. ASSUME NEW a \in Actors, AppendDevice(a)
      PROVE  Numbered'
  <2>0. PICK d \in Devices : d = actor[a].device
    BY <1>11, AppendDeviceDoes
  <2> DEFINE new == With(stream[d], Number(actor[a].version), Appended[actor[a].kind])
  <2>1. Others(a) /\ VersionHeld(a)' /\ UNCHANGED account
        /\ Appended[actor[a].kind] \in Names
    BY <1>4, <1>11, AppendDeviceDoes DEF Step, AppendDevice, LoadDevice, LoadAccount, Appended, Names
  <2>2. CASE stream' = stream
    BY <1>3, <2>1, <2>2
  <2>3. CASE stream' # stream
    <3>1. Number(actor[a].version) \in 1 .. MaxVersion /\ Free(stream[d], Number(actor[a].version))
          /\ stream' = [stream EXCEPT ![d] = new]
      BY <1>11, <2>0, <2>3, AppendDeviceDoes
    <3>2. Cardinality(new) = Cardinality(stream[d]) + 1
      BY <1>1, <2>1, <3>1, AppendsOne
    <3>3. Whole(new) \/ NumberExcused(d)'
      <4>1. actor[a].version <= Cardinality(stream[d]) \/ NumberExcused(d)
        BY <1>11, <2>0, AppendDeviceDoes DEF Numbered, VersionHeld
      <4>2. CASE Whole(stream[d]) /\ actor[a].version <= Cardinality(stream[d])
        BY <1>1, <2>1, <3>1, <4>2, WholeGrows DEF Number
      <4>3. NumberExcused(d) => NumberExcused(d)'
        BY <1>0, <2>1 DEF ExcusesStay
      <4>4. Whole(stream[d]) \/ NumberExcused(d)
        BY <2>1 DEF Numbered
      <4> QED
        BY <4>1, <4>2, <4>3, <4>4
    <3> HIDE DEF new
    <3>4. \A e \in Devices : /\ Cardinality(stream[e]) <= Cardinality(stream'[e])
                             /\ Cardinality(stream'[e]) \in Nat
                             /\ Whole(stream'[e]) \/ NumberExcused(e)'
      <4>1. \A e \in Devices : e # d => stream'[e] = stream[e]
        BY <1>1, <3>1
      <4>2. stream'[d] = new
        BY <1>1, <2>1, <3>1
      <4>3. ASSUME NEW e \in Devices, e # d
            PROVE  /\ Cardinality(stream[e]) <= Cardinality(stream'[e])
                   /\ Cardinality(stream'[e]) \in Nat
                   /\ Whole(stream'[e]) \/ NumberExcused(e)'
        BY <1>1, <1>2, <4>1, <4>3
      <4>4. /\ Cardinality(stream[d]) <= Cardinality(stream'[d])
            /\ Cardinality(stream'[d]) \in Nat
            /\ Whole(stream'[d]) \/ NumberExcused(d)'
        BY <1>1, <2>1, <3>2, <3>3, <4>2
      <4> QED
        BY <4>3, <4>4
    <3> QED
      BY <1>0, <1>1, <1>2, <2>1, <3>4, NumberedKept
  <2> QED
    BY <2>2, <2>3
<1>12. ASSUME NEW a \in Actors, DeleteAccount(a)
      PROVE  Numbered'
  <2>1. Whole({}) /\ account' = {} /\ \A d \in Devices : stream'[d] = {}
    BY <1>12, DeleteAccountDoes, EmptyWhole
  <2>2. ASSUME NEW b \in Busy'
        PROVE  VersionHeld(b)'
    <3>1. b # a /\ b \in Busy /\ actor'[b] = actor[b] /\ b \in Actors
      BY <1>12, DeleteAccountDoes, IdleTyped DEF Busy, Ends, Others
    <3>2. a \in Busy /\ actor[a].kind = "close"
      BY <1>12, DeleteAccountDoes
    <3>3. CASE actor[b].pc = "append" /\ actor[b].kind # "override"
      <4>1. actor[b].kind \in DeviceKinds \ {"register"}
        BY <3>1, <3>3, KindsAt DEF Base, DeviceKinds
      <4>2. PICK d \in Devices : d = actor[b].device
        BY <3>1, <4>1, KindsAt DEF Base
      <4>3. NumberExcused(d)
        BY <3>1, <3>2, <4>1, <4>2, BesideClosure DEF Base
      <4>4. NumberExcused(d)' /\ actor'[b].device = d /\ actor'[b].kind # "override"
            /\ actor'[b].pc = "append"
        BY <1>0, <3>1, <3>3, <4>2, <4>3 DEF ExcusesStay
      <4> QED
        BY <4>4 DEF VersionHeld
    <3>4. CASE actor[b].pc = "closing" \/ (actor[b].pc = "append" /\ actor[b].kind = "override")
      <4>1. actor[b].pc = "closing" => actor[b].kind = "close"
        BY <3>1, KindsAt DEF Base
      <4>2. AccountExcused
        BY <3>1, <3>2, <3>4, <4>1, BesideClosure DEF Base
      <4> QED
        BY <1>0, <3>1, <3>4, <4>2 DEF VersionHeld, ExcusesStay
    <3>5. CASE actor[b].pc \notin {"append", "closing"}
      BY <3>1, <3>5 DEF VersionHeld
    <3> QED
      BY <3>3, <3>4, <3>5
  <2> QED
    BY <2>1, <2>2 DEF Numbered, Whole
<1>13. CASE Crash
  <2>1. Busy' = {} /\ UNCHANGED <<account, stream>>
    BY <1>13, CrashDoes
  <2> QED
    BY <1>2, <2>1 DEF Numbered, Whole
<1>14. CASE UNCHANGED vars
  <2>1. UNCHANGED <<account, stream, actor, met>> /\ Busy' = Busy
    BY <1>14 DEF vars, Busy
  <2> QED
    BY <2>1 DEF Numbered, VersionHeld, Whole, NumberExcused, AccountExcused, Met
<1> QED
  BY <1>5, <1>6, <1>7, <1>8, <1>9, <1>10, <1>11, <1>12, <1>13, <1>14 DEF Next

-----------------------------------------------------------------------------
(* What a step does to lives, streams, the list and the jobs. *)

\* All but a deletion leave the lives as they are, and a new id is of this life.
Calm ==
  /\ life' = life
  /\ \A d \in Devices : /\ born[d] # None => born'[d] = born[d]
                        /\ Ended(d)' => Ended(d)

LEMMA CalmSteps ==
  ASSUME Base, NEW a \in Actors, Step(a), ~DeleteAccount(a)
  PROVE  Calm
<1>0. life \in Nat /\ born \in [Devices -> Nat \cup {None}] /\ ~(life < life)
  BY AccountLifetimeAssumption DEF Base, Types
<1>1. CASE Ask(a)
  <2>1. life' = life /\ (born' = born \/ \E d \in Devices : born[d] = None /\ born' = [born EXCEPT ![d] = life])
    BY <1>1, AskDoes
  <2> QED
    BY <1>0, <2>1 DEF Calm, Ended
<1>2. CASE ~Ask(a)
  <2>1. life' = life /\ born' = born
    BY <1>2 DEF Step, Provision, Register, LoadDevice, AppendDevice, Refresh, Show, List, Clear,
       Fill, Put, Report, Schedule, Settle, Override, LoadAccount, AppendAccount, PurgeJobs, PurgeList
  <2> QED
    BY <2>1 DEF Calm, Ended
<1> QED
  BY <1>1, <1>2

LEMMA StreamGrows ==
  ASSUME Base, NEW a \in Actors, Step(a), ~DeleteAccount(a), NEW d \in Devices
  PROVE  /\ \A name \in Names : Has(stream[d], name) => Has(stream'[d], name)
         /\ \A name \in Names : Has(stream'[d], name) =>
              \/ Has(stream[d], name)
              \/ Register(a) /\ actor[a].device = d /\ name = "registered"
              \/ AppendDevice(a) /\ actor[a].device = d /\ name = Appended[actor[a].kind]
         /\ stream'[d] # {} =>
              stream[d] # {} \/ (actor[a].device = d /\ (Register(a) \/ AppendDevice(a)))
<1>0. stream \in [Devices -> SUBSET Event] /\ IsFiniteSet(stream[d]) /\ 1 \in 1 .. MaxVersion
  BY AccountLifetimeAssumption DEF Base, Types
<1>1. CASE Register(a)
  <2>1. "registered" \in Names /\ Free({}, 1) /\ IsFiniteSet({}) /\ {} \in SUBSET Event
    BY FS_EmptySet DEF Names, Free
  <2>2. \A m \in Names : Has(With({}, 1, "registered"), m) <=> Has({}, m) \/ m = "registered"
    BY <1>0, <2>1, AppendsOne
  <2>3. IF actor[a].device = d THEN stream[d] = {} /\ stream'[d] = With({}, 1, "registered")
                               ELSE stream'[d] = stream[d]
    BY <1>0, <1>1, RegisterDoes
  <2> QED
    BY <1>1, <2>2, <2>3
<1>2. CASE AppendDevice(a)
  <2> DEFINE n == Number(actor[a].version)
             name == Appended[actor[a].kind]
  <2>1. name \in Names
    BY <1>2, AppendDeviceDoes DEF Names, Appended
  <2>2. CASE stream'[d] = stream[d]
    BY <2>2
  <2>3. CASE stream'[d] # stream[d]
    <3>1. actor[a].device = d /\ n \in 1 .. MaxVersion /\ Free(stream[d], n)
          /\ stream'[d] = With(stream[d], n, name)
      BY <1>0, <1>2, <2>3, AppendDeviceDoes
    <3>2. \A m \in Names : Has(stream'[d], m) <=> Has(stream[d], m) \/ m = name
      BY <1>0, <2>1, <3>1, AppendsOne
    <3> QED
      BY <1>2, <3>1, <3>2
  <2> QED
    BY <2>2, <2>3
<1>3. CASE ~Register(a) /\ ~AppendDevice(a)
  <2>1. stream' = stream
    BY <1>3 DEF Step, Ask, Provision, LoadDevice, Refresh, Show, List, Clear,
       Fill, Put, Report, Schedule, Settle, Override, LoadAccount, AppendAccount, PurgeJobs, PurgeList
  <2> QED
    BY <2>1
<1> QED
  BY <1>1, <1>2, <1>3

LEMMA AccountGrows ==
  ASSUME Base, NEW a \in Actors, Step(a), ~DeleteAccount(a)
  PROVE  /\ Has(account, "registered") => Has(account', "registered")
         /\ account' # {} => account # {} \/ AppendAccount(a) \/ Has(account', "registered")
         /\ Provision(a) => actor'[a] = Idle \/ Has(account', "registered")
<1>0. account \in SUBSET Event /\ IsFiniteSet(account) /\ "registered" \in Names
      /\ {"closed", "overridden"} \subseteq Names /\ 1 \in 1 .. MaxVersion
  BY AccountLifetimeAssumption DEF Base, Types, Names
<1>1. CASE Provision(a)
  <2>1. CASE account' = account /\ Ends(a)
    BY <2>1 DEF Ends
  <2>2. CASE Free(account, 1) /\ account' = With(account, 1, "registered")
    <3>1. Has(account', "registered")
      BY <1>0, <2>2, AppendsOne
    <3> QED
      BY <3>1
  <2> QED
    BY <1>1, <2>1, <2>2, ProvisionDoes
<1>2. CASE AppendAccount(a)
  <2>0. ~Provision(a)
    BY <1>2, AppendAccountDoes, ProvisionDoes
  <2>1. CASE account' = account
    BY <1>2, <2>0, <2>1
  <2>2. CASE account' # account
    <3>1. Number(actor[a].version) \in 1 .. MaxVersion /\ Free(account, Number(actor[a].version))
      BY <1>2, <2>2, AppendAccountDoes
    <3>2. PICK name \in {"closed", "overridden"} : account' = With(account, Number(actor[a].version), name)
      BY <1>2, <2>2, AppendAccountDoes
    <3>3. name \in Names
      BY <1>0
    <3>4. Has(account', "registered") <=> Has(account, "registered") \/ "registered" = name
      BY <1>0, <3>1, <3>2, <3>3, AppendsOne
    <3> QED
      BY <1>2, <2>0, <3>4
  <2> QED
    BY <2>1, <2>2
<1>3. CASE ~Provision(a) /\ ~AppendAccount(a)
  <2>1. account' = account
    BY <1>3 DEF Step, Ask, Register, LoadDevice, AppendDevice, Refresh, Show, List, Clear,
       Fill, Put, Report, Schedule, Settle, Override, LoadAccount, PurgeJobs, PurgeList
  <2> QED
    BY <1>3, <2>1
<1> QED
  BY <1>1, <1>2, <1>3

LEMMA ShownGrows ==
  ASSUME Base, NEW a \in Actors, Step(a), NEW d \in shown', d \notin shown
  PROVE  /\ actor[a].summary = "listed" /\ d \in Devices
         /\ (Show(a) /\ actor[a].device = d) \/ (Put(a) /\ actor[a].item = d)
<1>1. CASE Show(a)
  <2>1. shown' = Upsert(actor[a].summary, actor[a].device) /\ actor[a].device \in Devices
        /\ actor[a].summary \in {"none", "gone", "listed"}
    BY <1>1, ShowDoes
  <2>2. actor[a].summary = "listed" /\ shown' = shown \cup {actor[a].device}
    <3>1. actor[a].summary = "none" => shown' = shown
      BY <2>1 DEF Upsert
    <3>2. actor[a].summary = "gone" => shown' = shown \ {actor[a].device}
      BY <2>1 DEF Upsert
    <3>3. actor[a].summary = "listed" => shown' = shown \cup {actor[a].device}
      BY <2>1 DEF Upsert
    <3> QED
      BY <2>1, <3>1, <3>2, <3>3
  <2>3. actor[a].device = d
    BY <2>2
  <2> QED
    BY <1>1, <2>1, <2>2, <2>3
<1>2. CASE Put(a)
  BY <1>2, PutDoes
<1>3. CASE ~Show(a) /\ ~Put(a)
  <2>1. shown' \in {shown, {}}
    BY <1>3 DEF Step, Ask, Provision, Register, LoadDevice, AppendDevice, Refresh, List, Clear,
       Fill, Report, Schedule, Settle, Override, LoadAccount, AppendAccount, PurgeJobs, PurgeList,
       Purged, DeleteAccount
  <2> QED
    BY <2>1
<1> QED
  BY <1>1, <1>2, <1>3

LEMMA JobsGrow ==
  ASSUME Base, NEW a \in Actors, Step(a), NEW d \in jobs', d \notin jobs
  PROVE  Schedule(a) /\ actor[a].device = d /\ d \in Devices
<1>1. CASE Schedule(a)
  BY <1>1, ScheduleDoes
<1>2. CASE ~Schedule(a)
  <2>1. jobs' \subseteq jobs
    BY <1>2 DEF Step, Ask, Provision, Register, LoadDevice, AppendDevice, Refresh, Show, List, Clear,
       Fill, Put, Report, Settle, Override, LoadAccount, AppendAccount, PurgeJobs, PurgeList,
       DeleteAccount
  <2> QED
    BY <2>1
<1> QED
  BY <1>1, <1>2

-----------------------------------------------------------------------------
(* What a closure leaves. *)

LEMMA LeftInit == Init => Left
<1> SUFFICES ASSUME Init
             PROVE  Left
  OBVIOUS
<1>1. Busy = {} /\ life = 0 /\ born \in [Devices -> {0, None}]
  BY IdleTyped DEF Init, Busy
<1>2. \A d \in Devices : ~Ended(d)
  BY <1>1 DEF Ended
<1>3. account # {} => Has(account, "registered")
  BY DEF Init, Has
<1> QED
  BY <1>1, <1>2, <1>3 DEF Left, DataLeft, ActorsLeft, Registered

\* What is left of the data: what grew was brought by one that is excused.
LEMMA DataLeftKept ==
  ASSUME Base, Left, ExcusesStay, NEW a \in Actors, Step(a), ~DeleteAccount(a)
  PROVE  DataLeft'
<1> SUFFICES ASSUME NEW d \in Devices, Ended(d)'
             PROVE  /\ stream'[d] # {} => StreamExcused(d)'
                    /\ Has(stream'[d], "registered") => RegisterExcused(d)'
                    /\ Has(stream'[d], "rotated") => CredentialExcused(d)'
                    /\ d \in shown' => ShownExcused(d)'
                    /\ d \in jobs' => JobExcused(d)'
  BY DEF DataLeft, Has
<1>1. Ended(d)
  BY CalmSteps DEF Calm
<1>2. /\ stream[d] # {} => StreamExcused(d)
      /\ Has(stream[d], "registered") => RegisterExcused(d)
      /\ Has(stream[d], "rotated") => CredentialExcused(d)
      /\ d \in shown => ShownExcused(d)
      /\ d \in jobs => JobExcused(d)
  BY <1>1 DEF Left, DataLeft
<1>3. a \in Busy /\ actor[a].device = d =>
        /\ StreamExcused(d)
        /\ actor[a].kind = "register" => RegisterExcused(d)
        /\ actor[a].kind = "rotate" /\ actor[a].pc = "append" => CredentialExcused(d)
        /\ actor[a].kind = "report" /\ actor[a].pc \in {"append", "schedule"} => JobExcused(d)
        /\ actor[a].kind = "settle" /\ actor[a].pc \in {"append", "show"} /\ actor[a].summary = "listed"
             => ShownExcused(d)
  BY <1>1 DEF Left, ActorsLeft, ActorLeft
<1>4. /\ RegisterExcused(d) => RegisterExcused(d)'
      /\ CredentialExcused(d) => CredentialExcused(d)'
      /\ JobExcused(d) => JobExcused(d)'
      /\ StreamExcused(d) => StreamExcused(d)'
      /\ ShownExcused(d) => ShownExcused(d)'
  BY DEF ExcusesStay
<1>5. /\ Register(a) => a \in Busy /\ actor[a].kind = "register"
      /\ AppendDevice(a) => a \in Busy /\ actor[a].pc = "append"
           /\ actor[a].kind \in {"rotate", "decommission", "report", "settle"}
      /\ Show(a) => a \in Busy /\ actor[a].pc = "show"
           /\ actor[a].kind \in {"register", "decommission", "settle"}
      /\ Put(a) => a \in Busy /\ actor[a].pc = "put"
      /\ Schedule(a) => a \in Busy /\ actor[a].kind = "report" /\ actor[a].pc = "schedule"
  BY RegisterDoes, AppendDeviceDoes, ShowDoes, PutDoes, ScheduleDoes
<1>6. stream'[d] # {} => StreamExcused(d)'
  BY <1>2, <1>3, <1>4, <1>5, StreamGrows
<1>7. Has(stream'[d], "registered") => RegisterExcused(d)'
  <2>1. actor[a].kind \in {"rotate", "decommission", "report", "settle"} =>
          Appended[actor[a].kind] # "registered"
    BY DEF Appended
  <2>2. "registered" \in Names
    BY DEF Names
  <2> QED
    BY <1>2, <1>3, <1>4, <1>5, <2>1, <2>2, StreamGrows
<1>8. Has(stream'[d], "rotated") => CredentialExcused(d)'
  <2>1. actor[a].kind \in {"decommission", "report", "settle"} => Appended[actor[a].kind] # "rotated"
    BY DEF Appended
  <2>2. "rotated" \in Names
    BY DEF Names
  <2> QED
    BY <1>2, <1>3, <1>4, <1>5, <2>1, <2>2, StreamGrows
<1>9. d \in shown' => ShownExcused(d)'
  <2>1. CASE d \in shown
    BY <1>2, <1>4, <2>1
  <2>2. CASE d \notin shown
    <3> SUFFICES ASSUME d \in shown'
                 PROVE  ShownExcused(d)'
      OBVIOUS
    <3>1. actor[a].summary = "listed" /\ ((Show(a) /\ actor[a].device = d) \/ (Put(a) /\ actor[a].item = d))
      BY <2>2, ShownGrows
    <3>2. CASE Show(a) /\ actor[a].device = d
      <4>1. actor[a].kind # "decommission"
        BY <1>5, <3>1, <3>2 DEF Left, ActorsLeft, Decommissioning
      <4> QED
        BY <1>3, <1>4, <1>5, <3>1, <3>2, <4>1, ExcusesWiden
    <3>3. CASE Put(a) /\ actor[a].item = d
      <4>1. ShownExcused(d)
        BY <1>1, <1>5, <3>1, <3>3 DEF Left, ActorsLeft, RebuildLeft
      <4> QED
        BY <1>4, <4>1
    <3> QED
      BY <3>1, <3>2, <3>3
  <2> QED
    BY <2>1, <2>2
<1>10. d \in jobs' => JobExcused(d)'
  BY <1>2, <1>3, <1>4, <1>5, JobsGrow
<1> QED
  BY <1>6, <1>7, <1>8, <1>9, <1>10

\* What came back after a purge.
LEMMA PurgingKept ==
  ASSUME Base, Paired, Left, ExcusesStay, NEW a \in Actors, Step(a), ~DeleteAccount(a), NEW c \in Busy'
  PROVE  Purging(c)'
<1>0. shown \in SUBSET Devices /\ jobs \in SUBSET Devices /\ Placed
  BY DEF Base, Types
<1>1. CASE c # a
  <2>1. c \in Busy /\ actor'[c] = actor[c]
    BY <1>1, StepShapes DEF Steps, Begins, Others, Busy
  <2>2. /\ actor[c].pc \in {"purge list", "delete"} => \A d \in jobs : JobExcused(d)
        /\ actor[c].pc = "delete" => \A d \in shown : ShownExcused(d)
    BY <2>1 DEF Left, Purging
  <2>3. actor[c].pc \in {"purge list", "delete"} => actor[c].kind = "close"
    BY <2>1, KindsAt DEF Base, Busy
  <2>4. actor[c].pc \in {"purge list", "delete"} => \A d \in jobs' : JobExcused(d)'
    <3> SUFFICES ASSUME actor[c].pc \in {"purge list", "delete"}, NEW d \in jobs'
                 PROVE  JobExcused(d)'
      OBVIOUS
    <3>1. JobExcused(d) /\ d \in Devices
      <4>1. CASE d \notin jobs
        <5>1. Schedule(a) /\ actor[a].device = d /\ d \in Devices
          BY <4>1, JobsGrow
        <5>2. a \in Busy /\ actor[a].kind = "report"
          BY <5>1, ScheduleDoes
        <5> QED
          BY <1>0, <1>1, <2>1, <2>3, <5>1, <5>2, BesideClosure
      <4> QED
        BY <1>0, <2>2, <4>1
    <3> QED
      BY <3>1 DEF ExcusesStay
  <2>5. actor[c].pc = "delete" => \A d \in shown' : ShownExcused(d)'
    <3> SUFFICES ASSUME actor[c].pc = "delete", NEW d \in shown'
                 PROVE  ShownExcused(d)'
      OBVIOUS
    <3>1. ShownExcused(d) /\ d \in Devices
      <4>1. CASE d \notin shown
        <5>1. actor[a].summary = "listed" /\ d \in Devices
              /\ ((Show(a) /\ actor[a].device = d) \/ (Put(a) /\ actor[a].item = d))
          BY <4>1, ShownGrows
        <5>2. CASE Show(a) /\ actor[a].device = d
          <6>1. a \in Busy /\ actor[a].pc = "show" /\ actor[a].kind \in {"register", "decommission", "settle"}
            BY <5>2, ShowDoes
          <6>2. actor[a].kind # "decommission"
            BY <5>1, <6>1 DEF Left, ActorsLeft, Decommissioning
          <6> QED
            BY <1>0, <1>1, <2>1, <2>3, <5>1, <5>2, <6>1, <6>2, BesideClosure
        <5>3. CASE Put(a)
          <6>1. a \in Busy /\ actor[a].kind = "list"
            BY <5>3, PutDoes
          <6> QED
            BY <1>0, <1>1, <2>1, <2>3, <5>1, <6>1, BesideClosure
        <5> QED
          BY <5>1, <5>2, <5>3
      <4> QED
        BY <1>0, <2>2, <4>1
    <3> QED
      BY <3>1 DEF ExcusesStay
  <2> QED
    BY <2>1, <2>4, <2>5 DEF Purging
<1>2. CASE c = a /\ PurgeJobs(a)
  <2>1. a \in Busy /\ actor[a].kind = "close" /\ jobs' = jobs \cap Settling /\ actor'[a].pc = "purge list"
    BY <1>2, PurgeJobsDoes DEF Moves
  <2>2. \A d \in jobs' : JobExcused(d)'
    <3> SUFFICES ASSUME NEW d \in jobs'
                 PROVE  JobExcused(d)'
      OBVIOUS
    <3>1. PICK b \in Actors : actor[b].kind = "settle" /\ d = actor[b].device
      BY <2>1 DEF Settling
    <3>2. b \in Busy /\ b # a
      BY <2>1, <3>1, IdleTyped DEF Base, Resting, Busy
    <3>3. JobExcused(d) /\ d \in Devices
      BY <1>0, <2>1, <3>1, <3>2, BesideClosure
    <3> QED
      BY <3>3 DEF ExcusesStay
  <2> QED
    BY <1>2, <2>1, <2>2 DEF Purging
<1>3. CASE c = a /\ PurgeList(a)
  <2>1. a \in Busy /\ actor[a].pc = "purge list" /\ shown' = {} /\ jobs' = jobs
    BY <1>3, PurgeListDoes
  <2>2. \A d \in jobs' : JobExcused(d)'
    BY <1>0, <2>1 DEF Left, Purging, ExcusesStay
  <2> QED
    BY <1>3, <2>1, <2>2 DEF Purging
<1>4. CASE c = a /\ ~PurgeJobs(a) /\ ~PurgeList(a)
  <2>1. actor'[a].pc \notin {"purge list", "delete"}
    <3> USE <1>4 DEF Ends, Moves, Loads
    <3>1. CASE Ask(a)
      BY <3>1, AskDoes, BeginsWith DEF OwnerKinds
    <3>2. CASE Provision(a) \/ Register(a)
      BY <3>2, ProvisionDoes, RegisterDoes, IdleTyped DEF OwnerKinds
    <3>3. CASE AppendDevice(a) \/ LoadDevice(a)
      BY <3>3, AppendDeviceDoes, LoadDeviceDoes, IdleTyped
    <3>4. CASE Refresh(a) \/ Show(a) \/ List(a) \/ Clear(a) \/ Fill(a) \/ Put(a)
      BY <3>4, RefreshDoes, ShowDoes, ListDoes, ClearDoes, FillDoes, PutDoes, IdleTyped
    <3>5. CASE Report(a) \/ Settle(a) \/ Override(a)
      <4>1. CASE Report(a)
        BY <4>1, ReportDoes, BeginsWith
      <4>2. CASE Settle(a)
        <5>1. PICK d \in jobs : Begins(a, "settle", d, "settle")
          BY <4>2, SettleDoes
        <5>2. actor'[a].pc = "settle"
          BY <5>1, BeginsWith
        <5> QED
          BY <5>2
      <4>3. CASE Override(a)
        <5>1. Begins(a, "override", None, "override")
          BY <4>3, OverrideDoes
        <5>2. actor'[a].pc = "override"
          BY <5>1, BeginsWith
        <5> QED
          BY <5>2
      <4> QED
        BY <3>5, <4>1, <4>2, <4>3
    <3>6. CASE Schedule(a) \/ AppendAccount(a) \/ LoadAccount(a)
      BY <3>6, ScheduleDoes, AppendAccountDoes, LoadAccountDoes, IdleTyped
    <3> QED
      BY <3>1, <3>2, <3>3, <3>4, <3>5, <3>6 DEF Step
  <2> QED
    BY <1>4, <2>1 DEF Purging
<1> QED
  BY <1>1, <1>2, <1>3, <1>4

\* What the steps of one leave of all others.
LEMMA OthersLeft ==
  ASSUME Base, Left, ExcusesStay, NEW a \in Actors, Step(a), ~DeleteAccount(a),
         NEW b \in Busy', b # a
  PROVE  /\ ActorLeft(b)' /\ RebuildLeft(b)' /\ Decommissioning(b)' /\ Refused(b)'
         /\ AccountLeft(b)'
<1>1. actor'[b] = actor[b] /\ b \in Busy
  BY StepShapes DEF Steps, Begins, Others, Busy
<1>2. Calm
  BY CalmSteps
<1>3. ActorLeft(b) /\ RebuildLeft(b) /\ Decommissioning(b) /\ Refused(b) /\ AccountLeft(b)
  BY <1>1 DEF Left, ActorsLeft
<1>4. ActorLeft(b)' /\ RebuildLeft(b)'
  BY <1>1, <1>2, <1>3 DEF ActorLeft, RebuildLeft, Calm, ExcusesStay
<1>5. Decommissioning(b)'
  <2> SUFFICES ASSUME actor[b].kind = "decommission", actor[b].pc \in {"refresh", "show"},
                      NEW d \in Devices, actor[b].device = d, Has(stream'[d], "registered")
               PROVE  Has(stream'[d], "decommissioned")
    BY <1>1, <1>3 DEF Decommissioning, Has
  <2>1. ~(Register(a) /\ actor[a].device = d)
    <3>1. Register(a) => Registering(a)
      BY RegisterDoes DEF Registering
    <3> QED
      BY <1>1, <3>1 DEF Base, FreshIds, Busy
  <2>2. AppendDevice(a) => Appended[actor[a].kind] # "registered"
    BY AppendDeviceDoes DEF Appended
  <2>3. "registered" \in Names /\ "decommissioned" \in Names
    BY DEF Names
  <2>4. Has(stream[d], "registered")
    BY <2>1, <2>2, <2>3, StreamGrows
  <2>5. Has(stream[d], "decommissioned")
    BY <1>3, <2>4 DEF Decommissioning
  <2> QED
    BY <2>3, <2>5, StreamGrows
<1>6. Refused(b)'
  <2> SUFFICES ASSUME NEW d \in Devices, actor[b].kind = "report", actor[b].pc \in {"append", "schedule"},
                      actor[b].device = d, born'[d] < actor[b].begun
               PROVE  CredentialExcused(d)'
    BY <1>1 DEF Refused
  <2>1. born'[d] = born[d]
    <3>1. born[d] # None
      BY <1>1 DEF Base, Unborn, Busy
    <3> QED
      BY <1>2, <3>1 DEF Calm
  <2> QED
    BY <1>3, <2>1 DEF Refused, ExcusesStay
<1>7. AccountLeft(b)'
  <2>1. Registered => Registered'
    BY AccountGrows DEF Registered, ExcusesStay
  <2> QED
    BY <1>1, <1>3, <2>1 DEF AccountLeft
<1> QED
  BY <1>4, <1>5, <1>6, <1>7

\* An idle one is left nothing to bring back, and so is one that begins with
\* the account alone.
LEMMA IdleLeft ==
  ASSUME NEW a, actor'[a] = Idle
  PROVE  ~(a \in Busy')
  BY IdleTyped DEF Busy

\* What a step brings for the one that takes it.
LEMMA OwnLeft ==
  ASSUME Base, Base', Left, ExcusesStay, NEW a \in Busy', Step(a), ~DeleteAccount(a)
  PROVE  /\ ActorLeft(a)' /\ RebuildLeft(a)' /\ Decommissioning(a)' /\ Refused(a)'
         /\ AccountLeft(a)'
<1>0. a \in Actors /\ actor'[a] # Idle
  BY IdleTyped DEF Busy
<1>a. Calm /\ (Registered => Registered')
  BY <1>0, CalmSteps, AccountGrows DEF Registered, ExcusesStay
<1>b. a \in Busy => ActorLeft(a) /\ RebuildLeft(a) /\ Decommissioning(a) /\ Refused(a) /\ AccountLeft(a)
  BY DEF Left, ActorsLeft
<1>c. \A d \in Devices : Ended(d)' =>
        /\ Ended(d)
        /\ stream[d] # {} => StreamExcused(d)'
        /\ Has(stream[d], "registered") => RegisterExcused(d)' /\ CredentialExcused(d)' /\ ShownExcused(d)'
             /\ JobExcused(d)' /\ StreamExcused(d)'
        /\ Has(stream[d], "rotated") => CredentialExcused(d)' /\ JobExcused(d)'
        /\ d \in jobs => JobExcused(d)' /\ StreamExcused(d)'
  <2> SUFFICES ASSUME NEW d \in Devices, Ended(d)'
               PROVE  /\ Ended(d)
                      /\ stream[d] # {} => StreamExcused(d)'
                      /\ Has(stream[d], "registered") => RegisterExcused(d)' /\ CredentialExcused(d)' /\ ShownExcused(d)'
                           /\ JobExcused(d)' /\ StreamExcused(d)'
                      /\ Has(stream[d], "rotated") => CredentialExcused(d)' /\ JobExcused(d)'
                      /\ d \in jobs => JobExcused(d)' /\ StreamExcused(d)'
    OBVIOUS
  <2>1. Ended(d)
    BY <1>a DEF Calm
  <2>2. /\ stream[d] # {} => StreamExcused(d)
        /\ Has(stream[d], "registered") => RegisterExcused(d)
        /\ Has(stream[d], "rotated") => CredentialExcused(d)
        /\ d \in jobs => JobExcused(d)
    BY <2>1 DEF Left, DataLeft
  <2> QED
    BY <2>1, <2>2, ExcusesWiden DEF ExcusesStay
<1>1. ASSUME NEW kind, NEW d, NEW pc, Begins(a, kind, d, pc),
             d \in Devices => stream[d] # {} \/ d \in jobs \/ ~Ended(d)',
             kind = "settle" => d \in jobs, kind = "register" => ~Ended(d)',
             pc \notin {"append", "schedule", "put", "refresh", "show", "closing"},
             kind = "close" /\ pc = "close" => account # {}
      PROVE  /\ ActorLeft(a)' /\ RebuildLeft(a)' /\ Decommissioning(a)' /\ Refused(a)'
             /\ AccountLeft(a)'
  <2>1. actor'[a].kind = kind /\ actor'[a].pc = pc /\ actor'[a].device = d
    BY <1>1, BeginsWith
  <2>2. ActorLeft(a)'
    <3> SUFFICES ASSUME NEW e \in Devices, actor'[a].device = e, Ended(e)'
                 PROVE  /\ StreamExcused(e)'
                        /\ actor'[a].kind = "register" => RegisterExcused(e)'
                        /\ actor'[a].kind = "settle" => JobExcused(e)'
      BY <1>1, <2>1 DEF ActorLeft
    <3>1. e = d
      BY <2>1
    <3>2. ~(kind = "register")
      <4>1. kind = "register" => ~Ended(e)'
        BY <1>1, <3>1
      <4> QED
        BY <4>1
    <3>3. stream[e] # {} \/ e \in jobs
      <4>1. stream[e] # {} \/ e \in jobs \/ ~Ended(e)'
        BY <1>1, <3>1
      <4> QED
        BY <4>1
    <3> QED
      BY <1>1, <1>c, <2>1, <3>1, <3>2, <3>3
  <2>3. RebuildLeft(a)' /\ Decommissioning(a)' /\ Refused(a)'
    BY <1>1, <2>1 DEF RebuildLeft, Decommissioning, Refused
  <2>4. AccountLeft(a)'
    BY <1>1, <1>a, <2>1 DEF AccountLeft, Left
  <2> QED
    BY <2>2, <2>3, <2>4
\* The stages at which nothing new is to be excused.
<1>2. ASSUME a \in Busy, Same(a), actor'[a].pc # "put", AccountLeft(a)',
             actor[a].kind \in {"rotate", "report", "settle"} => actor'[a].pc \notin {"append", "schedule", "show"},
             actor[a].kind = "decommission" => actor'[a].pc \notin {"refresh", "show"}
      PROVE  /\ ActorLeft(a)' /\ RebuildLeft(a)' /\ Decommissioning(a)' /\ Refused(a)'
             /\ AccountLeft(a)'
  <2>1. actor'[a].kind = actor[a].kind /\ actor'[a].device = actor[a].device
    BY <1>2 DEF Same
  <2>2. ActorLeft(a)'
    <3> SUFFICES ASSUME NEW e \in Devices, actor[a].device = e, Ended(e)'
                 PROVE  /\ StreamExcused(e)'
                        /\ actor[a].kind = "register" => RegisterExcused(e)'
                        /\ actor[a].kind = "settle" => JobExcused(e)'
      BY <1>2, <2>1 DEF ActorLeft
    <3>1. Ended(e)
      BY <1>c
    <3>2. /\ StreamExcused(e)
          /\ actor[a].kind = "register" => RegisterExcused(e)
          /\ actor[a].kind = "settle" => JobExcused(e)
      BY <1>2, <1>b, <3>1 DEF ActorLeft
    <3> QED
      BY <3>2 DEF ExcusesStay
  <2>3. RebuildLeft(a)' /\ Decommissioning(a)' /\ Refused(a)'
    BY <1>2, <2>1 DEF RebuildLeft, Decommissioning, Refused
  <2> QED
    BY <1>2, <2>2, <2>3
<1>3. CASE Ask(a)
  <2>1. PICK kind \in OwnerKinds, d \in Devices \cup {None}, pc \in OwnerKinds \cup {"provision"} :
          /\ Begins(a, kind, d, pc)
          /\ pc = IF account = {} THEN "provision" ELSE kind
          /\ kind = "register" => born[d] = None /\ d \in Devices
          /\ kind \in {"rotate", "decommission"} => stream[d] # {}
          /\ kind \in {"list", "close"} => d = None
    BY <1>0, <1>3, AskDoes
  <2>2. kind # "settle" /\ pc \notin {"append", "schedule", "put", "refresh", "show", "closing"}
    BY DEF OwnerKinds
  <2>3. kind = "register" => ~Ended(d)'
    <3>1. ASSUME kind = "register", Ended(d)'
          PROVE  FALSE
      <4>1. d \in Devices /\ born[d] = None
        BY <2>1, <3>1
      <4>2. born[d] # None
        BY <1>c, <3>1, <4>1 DEF Ended
      <4> QED
        BY <4>1, <4>2
    <3> QED
      BY <3>1
  <2>4. d \in Devices => stream[d] # {} \/ d \in jobs \/ ~Ended(d)'
    BY <2>1, <2>3, AccountLifetimeAssumption DEF OwnerKinds
  <2>5. kind = "close" /\ pc = "close" => account # {}
    BY <2>1
  <2> QED
    BY <1>1, <2>1, <2>2, <2>3, <2>4, <2>5
<1>4. CASE Report(a)
  <2>1. PICK d \in Devices : stream[d] # {} /\ Begins(a, "report", d, "report")
    BY <1>0, <1>4, ReportDoes
  <2> QED
    BY <1>1, <2>1
<1>5. CASE Settle(a)
  <2>1. PICK d \in jobs : Begins(a, "settle", d, "settle")
    BY <1>0, <1>5, SettleDoes
  <2> QED
    BY <1>1, <2>1
<1>6. CASE Override(a)
  <2>1. Begins(a, "override", None, "override") /\ None \notin Devices
    BY <1>0, <1>6, OverrideDoes, AccountLifetimeAssumption
  <2> QED
    BY <1>1, <2>1
<1>7. CASE Provision(a)
  <2>1. a \in Busy /\ actor[a].kind \in OwnerKinds /\ Same(a) /\ actor'[a].pc = actor[a].kind
    BY <1>0, <1>7, ProvisionDoes DEF Moves, Ends
  <2>2. Has(account', "registered")
    BY <1>0, <1>7, AccountGrows
  <2>3. AccountLeft(a)'
    BY <2>2 DEF AccountLeft, Registered
  <2> QED
    BY <1>2, <2>1, <2>3 DEF OwnerKinds
<1>8. CASE Register(a) \/ List(a) \/ Clear(a) \/ Put(a) \/ PurgeJobs(a) \/ PurgeList(a)
  <2>1. /\ a \in Busy /\ Same(a)
        /\ actor[a].kind \in {"register", "list", "close"}
        /\ actor'[a].pc \in {"refresh", "clear", "fill", "purge list", "delete"}
    BY <1>0, <1>8, RegisterDoes, ListDoes, ClearDoes, PutDoes, PurgeJobsDoes, PurgeListDoes
       DEF Moves, Ends
  <2>2. AccountLeft(a)'
    BY <2>1 DEF AccountLeft
  <2> QED
    BY <1>2, <2>1, <2>2
<1>9. CASE AppendAccount(a)
  <2>1. a \in Busy /\ Same(a) /\ actor[a].kind = "close" /\ actor'[a].pc = "purge jobs"
    BY <1>0, <1>9, AppendAccountDoes DEF Moves, Ends
  <2>2. AccountLeft(a)'
    BY <2>1 DEF AccountLeft
  <2> QED
    BY <1>2, <2>1, <2>2
<1>10. CASE LoadAccount(a)
  <2>1. /\ a \in Busy /\ Same(a) /\ actor[a].pc = actor[a].kind
        /\ actor[a].kind \in {"override", "close"} /\ actor'[a].pc \in {"append", "closing"}
        /\ actor[a].kind = "override" => Has(account, "registered")
    BY <1>0, <1>10, LoadAccountDoes DEF Loads, Ends
  <2>2. Registered'
    BY <1>a, <1>b, <2>1 DEF AccountLeft, Registered
  <2>3. AccountLeft(a)'
    BY <2>2 DEF AccountLeft
  <2> QED
    BY <1>2, <2>1, <2>3
<1>11. CASE Refresh(a)
  <2>1. /\ a \in Busy /\ Loads(a, stream[actor[a].device], "show") /\ stream' = stream
        /\ actor[a].kind \in {"register", "decommission"} /\ actor[a].pc = "refresh"
    BY <1>0, <1>11, RefreshDoes
  <2>2. AccountLeft(a)'
    BY <2>1 DEF AccountLeft, Loads
  <2>3. CASE actor[a].kind = "register"
    BY <1>2, <2>1, <2>2, <2>3 DEF Loads
  <2>4. CASE actor[a].kind = "decommission"
    <3>1. PICK d \in Devices : d = actor[a].device
      BY <1>0, <1>11, RefreshDoes
    <3>2. Has(stream[d], "registered") => Has(stream[d], "decommissioned")
      BY <1>b, <2>1, <2>4, <3>1 DEF Decommissioning
    <3>3. actor'[a].summary # "listed"
      BY <2>1, <3>1, <3>2 DEF Loads, Summary
    <3>4. actor'[a].kind = "decommission" /\ actor'[a].pc = "show" /\ actor'[a].device = d
      BY <2>1, <2>4, <3>1 DEF Loads, Same
    <3>5. Decommissioning(a)'
      BY <2>1, <3>2, <3>3, <3>4 DEF Decommissioning
    <3>6. RebuildLeft(a)' /\ Refused(a)'
      BY <3>4 DEF RebuildLeft, Refused
    <3>7. ActorLeft(a)'
      <4>1. Ended(d)' => StreamExcused(d)'
        BY <1>b, <1>c, <2>1, <3>1 DEF ActorLeft, ExcusesStay
      <4> QED
        BY <3>4, <4>1 DEF ActorLeft
    <3> QED
      BY <2>2, <3>5, <3>6, <3>7
  <2> QED
    BY <2>1, <2>3, <2>4
<1>12. CASE Fill(a)
  <2>1. PICK d \in Devices : actor'[a].item = d /\ actor'[a].summary = Summary(stream[d])
    BY <1>0, <1>12, FillDoes
  <2>2. a \in Busy /\ actor[a].kind = "list" /\ Same(a) /\ actor'[a].kind = "list" /\ actor'[a].pc = "put"
    BY <1>0, <1>12, FillDoes DEF Same
  <2>3. RebuildLeft(a)'
    <3>1. Summary(stream[d]) = "listed" /\ Ended(d)' => ShownExcused(d)'
      BY <1>c DEF Summary
    <3> QED
      BY <2>1, <3>1 DEF RebuildLeft
  <2>4. Decommissioning(a)' /\ Refused(a)' /\ AccountLeft(a)'
    BY <2>2 DEF Decommissioning, Refused, AccountLeft
  <2>5. ActorLeft(a)'
    <3>1. actor'[a].device \notin Devices
      <4>1. actor'[a].device = None
        BY <2>2 DEF Base, Placed, DeviceKinds
      <4> QED
        BY <4>1, AccountLifetimeAssumption
    <3> QED
      BY <3>1 DEF ActorLeft
  <2> QED
    BY <2>3, <2>4, <2>5
<1>13. CASE LoadDevice(a)
  <2>1. PICK d \in Devices : d = actor[a].device
    BY <1>0, <1>13, LoadDeviceDoes
  <2>2. /\ a \in Busy /\ actor[a].kind \in {"rotate", "decommission", "report", "settle"}
        /\ actor[a].pc = actor[a].kind /\ UNCHANGED <<stream, life, born>>
        /\ GoesOn(actor[a].kind, stream[d]) /\ Loads(a, stream[d], "append")
    BY <1>0, <1>13, <2>1, LoadDeviceDoes DEF Ends
  <2>3. /\ actor'[a].kind = actor[a].kind /\ actor'[a].device = d /\ actor'[a].pc = "append"
        /\ actor'[a].begun = actor[a].begun /\ actor'[a].summary = Summary(stream[d])
    BY <2>1, <2>2 DEF Loads, Same
  <2>4. ActorLeft(a)'
    <3> SUFFICES ASSUME Ended(d)'
                 PROVE  /\ StreamExcused(d)'
                        /\ actor[a].kind = "settle" => JobExcused(d)'
                        /\ actor[a].kind = "rotate" => CredentialExcused(d)'
                        /\ actor[a].kind = "report" => JobExcused(d)'
                        /\ actor[a].kind = "settle" /\ Summary(stream[d]) = "listed" => ShownExcused(d)'
      BY <2>2, <2>3 DEF ActorLeft
    <3>1. Ended(d)
      BY <1>c
    <3>2. StreamExcused(d)' /\ (actor[a].kind = "settle" => JobExcused(d)')
      BY <1>b, <2>1, <2>2, <3>1 DEF ActorLeft, ExcusesStay
    <3>3. actor[a].kind = "rotate" => CredentialExcused(d)'
      BY <1>c, <2>2 DEF GoesOn, Summary
    <3>4. actor[a].kind = "report" => JobExcused(d)'
      BY <1>c, <2>2 DEF GoesOn, Accepted
    <3>5. Summary(stream[d]) = "listed" => ShownExcused(d)'
      BY <1>c DEF Summary
    <3> QED
      BY <3>2, <3>3, <3>4, <3>5
  <2>5. Refused(a)'
    <3> SUFFICES ASSUME actor[a].kind = "report", born'[d] < actor[a].begun
                 PROVE  CredentialExcused(d)'
      BY <2>2, <2>3 DEF Refused
    <3>1. born[d] # None /\ actor[a].begun <= life
      BY <2>1, <2>2 DEF Base, Unborn, Placed, Busy
    <3>2. born[d] \in Nat /\ life \in Nat /\ actor[a].begun \in Nat
      BY <1>0, <3>1 DEF Base, Types, Actor
    <3>3. born[d] < life
      BY <2>2, <3>1, <3>2
    <3>4. Ended(d)'
      BY <2>2, <3>1, <3>3 DEF Ended
    <3> QED
      BY <1>c, <2>2, <3>4 DEF GoesOn, Accepted
  <2>6. RebuildLeft(a)' /\ Decommissioning(a)' /\ AccountLeft(a)'
    BY <2>2, <2>3 DEF RebuildLeft, Decommissioning, AccountLeft
  <2> QED
    BY <2>4, <2>5, <2>6
<1>14. CASE AppendDevice(a)
  <2>1. PICK d \in Devices : d = actor[a].device
    BY <1>0, <1>14, AppendDeviceDoes
  <2> DEFINE n == Number(actor[a].version)
  <2>2. /\ a \in Busy /\ actor[a].kind \in {"decommission", "report", "settle"}
        /\ actor[a].pc = "append" /\ UNCHANGED <<life, born>>
        /\ n \in 1 .. MaxVersion /\ Free(stream[d], n)
        /\ stream' = [stream EXCEPT ![d] = With(stream[d], n, Appended[actor[a].kind])]
        /\ actor[a].kind = "decommission" => Moves(a, "refresh")
        /\ actor[a].kind = "report" => Moves(a, "schedule")
        /\ actor[a].kind = "settle" => Moves(a, "show")
    BY <1>0, <1>14, <2>1, AppendDeviceDoes DEF Ends
  <2>3. /\ actor'[a].kind = actor[a].kind /\ actor'[a].device = d
        /\ actor'[a].begun = actor[a].begun /\ actor'[a].summary = actor[a].summary
        /\ actor[a].kind = "decommission" => actor'[a].pc = "refresh"
        /\ actor[a].kind = "report" => actor'[a].pc = "schedule"
        /\ actor[a].kind = "settle" => actor'[a].pc = "show"
    BY <2>1, <2>2 DEF Moves, Same
  <2>4. ActorLeft(a)'
    <3> SUFFICES ASSUME Ended(d)'
                 PROVE  /\ StreamExcused(d)'
                        /\ actor[a].kind = "settle" => JobExcused(d)'
                        /\ actor[a].kind = "report" => JobExcused(d)'
                        /\ actor[a].kind = "settle" /\ actor[a].summary = "listed" => ShownExcused(d)'
      BY <2>2, <2>3 DEF ActorLeft
    <3>1. Ended(d)
      BY <1>c
    <3>2. /\ StreamExcused(d)
          /\ actor[a].kind = "settle" => JobExcused(d)
          /\ actor[a].kind = "report" => JobExcused(d)
          /\ actor[a].kind = "settle" /\ actor[a].summary = "listed" => ShownExcused(d)
      BY <1>b, <2>1, <2>2, <3>1 DEF ActorLeft
    <3> QED
      BY <3>2 DEF ExcusesStay
  <2>5. Refused(a)'
    <3> SUFFICES ASSUME actor[a].kind = "report", born[d] < actor[a].begun
                 PROVE  CredentialExcused(d)'
      BY <2>2, <2>3 DEF Refused
    <3>1. CredentialExcused(d)
      BY <1>b, <2>1, <2>2 DEF Refused
    <3> QED
      BY <3>1 DEF ExcusesStay
  <2>6. Decommissioning(a)'
    <3> SUFFICES ASSUME actor[a].kind = "decommission"
                 PROVE  Has(stream'[d], "decommissioned")
      BY <2>2, <2>3 DEF Decommissioning
    <3>1. stream'[d] = With(stream[d], n, "decommissioned")
      BY <2>2 DEF Appended, Base, Types
    <3>2. [number |-> n, name |-> "decommissioned"] \in stream'[d]
      BY <3>1 DEF With
    <3>3. [number |-> n, name |-> "decommissioned"].name = "decommissioned"
      OBVIOUS
    <3> HIDE DEF n
    <3> QED
      BY <3>2, <3>3 DEF Has
  <2>7. RebuildLeft(a)' /\ AccountLeft(a)'
    BY <2>2, <2>3 DEF RebuildLeft, AccountLeft
  <2> QED
    BY <2>4, <2>5, <2>6, <2>7
<1>15. CASE Show(a) \/ Schedule(a)
  BY <1>0, <1>15, ShowDoes, ScheduleDoes DEF Ends
<1> QED
  BY <1>3, <1>4, <1>5, <1>6, <1>7, <1>8, <1>9, <1>10, <1>11, <1>12, <1>13, <1>14, <1>15 DEF Step

\* The deletion: what was under way ran beside the closure.
LEMMA LeftDeleted ==
  ASSUME Base, Base', Paired, Left, ExcusesStay, NEW a \in Actors, DeleteAccount(a)
  PROVE  Left'
<1>0. /\ a \in Busy /\ actor[a].kind = "close" /\ actor[a].pc = "delete"
      /\ account' = {} /\ \A d \in Devices : stream'[d] = {}
      /\ Ends(a) /\ UNCHANGED <<shown, jobs, born, met, count>>
      /\ shown \in SUBSET Devices /\ jobs \in SUBSET Devices
  BY DeleteAccountDoes DEF Base, Types
<1>1. DataLeft'
  <2> SUFFICES ASSUME NEW d \in Devices
               PROVE  /\ d \in shown => ShownExcused(d)'
                      /\ d \in jobs => JobExcused(d)'
    BY <1>0 DEF DataLeft, Has
  <2>1. (d \in shown => ShownExcused(d)) /\ (d \in jobs => JobExcused(d))
    BY <1>0 DEF Left, Purging
  <2> QED
    BY <2>1 DEF ExcusesStay
<1>2. ASSUME NEW b \in Busy'
      PROVE  b \in Busy /\ b # a /\ actor'[b] = actor[b] /\ b \in Actors
  BY <1>0, IdleTyped DEF Busy, Ends, Others
<1>3. ASSUME NEW b \in Busy'
      PROVE  ActorLeft(b)' /\ RebuildLeft(b)' /\ Decommissioning(b)' /\ Refused(b)' /\ AccountLeft(b)'
  <2>0. b \in Busy /\ b # a /\ actor'[b] = actor[b] /\ b \in Actors
    BY <1>2
  <2>1. ActorLeft(b)'
    <3> SUFFICES ASSUME NEW d \in Devices, actor[b].device = d
                 PROVE  /\ StreamExcused(d)'
                        /\ actor[b].kind = "register" => RegisterExcused(d)'
                        /\ actor[b].kind = "settle" => JobExcused(d)'
                        /\ actor[b].kind = "rotate" => CredentialExcused(d)'
                        /\ actor[b].kind = "report" => JobExcused(d)'
                        /\ actor[b].kind = "settle" => ShownExcused(d)'
      BY <2>0 DEF ActorLeft
    <3>1. actor[b].kind \in DeviceKinds
      BY <2>0, AccountLifetimeAssumption DEF Base, Placed
    <3>2. /\ StreamExcused(d)
          /\ actor[b].kind = "register" => RegisterExcused(d)
          /\ actor[b].kind = "settle" => JobExcused(d)
          /\ actor[b].kind = "rotate" => CredentialExcused(d)
          /\ actor[b].kind = "report" => JobExcused(d)
          /\ actor[b].kind = "settle" => ShownExcused(d)
      BY <1>0, <2>0, <3>1, BesideClosure DEF Base
    <3> QED
      BY <3>2 DEF ExcusesStay
  <2>2. RebuildLeft(b)'
    <3>1. actor[b].pc = "put" => actor[b].kind = "list"
      BY <2>0, KindsAt DEF Base
    <3>2. actor[b].kind = "list" => \A d \in Devices : ShownExcused(d)
      BY <1>0, <2>0, BesideClosure DEF Base
    <3> QED
      BY <2>0, <3>1, <3>2 DEF RebuildLeft, ExcusesStay
  <2>3. Decommissioning(b)'
    <3>1. Decommissioning(b)
      BY <2>0 DEF Left, ActorsLeft
    <3> QED
      BY <1>0, <2>0, <3>1 DEF Decommissioning, Has
  <2>4. Refused(b)'
    <3>1. Refused(b)
      BY <2>0 DEF Left, ActorsLeft
    <3> QED
      BY <1>0, <2>0, <3>1 DEF Refused, ExcusesStay
  <2>5. AccountLeft(b)'
    <3>1. actor[b].kind \in {"override", "close"} => AccountExcused
      BY <1>0, <2>0, BesideClosure DEF Base
    <3> QED
      BY <2>0, <3>1 DEF AccountLeft, Registered, ExcusesStay
  <2> QED
    BY <2>1, <2>2, <2>3, <2>4, <2>5
<1>4. ASSUME NEW c \in Busy'
      PROVE  Purging(c)'
  <2>1. Purging(c) /\ actor'[c] = actor[c]
    BY <1>2 DEF Left
  <2> QED
    BY <1>0, <2>1 DEF Purging, ExcusesStay
<1> QED
  BY <1>0, <1>1, <1>3, <1>4 DEF Left, ActorsLeft

LEMMA LeftNext == Base /\ Base' /\ Paired /\ Left /\ [Next]_vars => Left'
<1> SUFFICES ASSUME Base, Base', Paired, Left, [Next]_vars
             PROVE  Left'
  OBVIOUS
<1>0. ExcusesStay
  BY AlwaysRemembers
<1>1. ASSUME NEW a \in Actors, Step(a), ~DeleteAccount(a)
      PROVE  Left'
  <2>1. DataLeft'
    BY <1>0, <1>1, DataLeftKept
  <2>2. \A c \in Busy' : Purging(c)'
    BY <1>0, <1>1, PurgingKept
  <2>3. ASSUME NEW b \in Busy'
        PROVE  ActorLeft(b)' /\ RebuildLeft(b)' /\ Decommissioning(b)' /\ Refused(b)' /\ AccountLeft(b)'
    <3>1. CASE b = a
      BY <1>0, <1>1, <3>1, OwnLeft
    <3>2. CASE b # a
      BY <1>0, <1>1, <3>2, OthersLeft
    <3> QED
      BY <3>1, <3>2
  <2>4. account' # {} => Registered'
    <3>1. Registered => Registered'
      BY <1>0, <1>1, AccountGrows DEF Registered, ExcusesStay
    <3>2. AppendAccount(a) => Registered
      <4>1. ASSUME AppendAccount(a)
            PROVE  Registered
        <5>1. a \in Busy /\ ((actor[a].kind = "close" /\ actor[a].pc = "closing")
                              \/ (actor[a].kind = "override" /\ actor[a].pc = "append"))
          BY <4>1, AppendAccountDoes
        <5> QED
          BY <5>1 DEF Left, ActorsLeft, AccountLeft
      <4> QED
        BY <4>1
    <3>3. Has(account', "registered") => Registered'
      BY DEF Registered
    <3> QED
      BY <1>1, <3>1, <3>2, <3>3, AccountGrows DEF Left
  <2> QED
    BY <2>1, <2>2, <2>3, <2>4 DEF Left, ActorsLeft
<1>2. ASSUME NEW a \in Actors, DeleteAccount(a)
      PROVE  Left'
  BY <1>0, <1>2, LeftDeleted
<1>3. CASE Crash
  <2>1. /\ jobs' = jobs \cup Settling /\ Busy' = {}
        /\ UNCHANGED <<account, stream, shown, life, born>>
    BY <1>3, CrashDoes
  <2>2. DataLeft'
    <3> SUFFICES ASSUME NEW d \in Devices, Ended(d)
                 PROVE  /\ stream[d] # {} => StreamExcused(d)'
                        /\ Has(stream[d], "registered") => RegisterExcused(d)'
                        /\ Has(stream[d], "rotated") => CredentialExcused(d)'
                        /\ d \in shown => ShownExcused(d)'
                        /\ d \in jobs' => JobExcused(d)'
      BY <2>1 DEF DataLeft, Ended
    <3>1. /\ stream[d] # {} => StreamExcused(d)
          /\ Has(stream[d], "registered") => RegisterExcused(d)
          /\ Has(stream[d], "rotated") => CredentialExcused(d)
          /\ d \in shown => ShownExcused(d)
          /\ d \in jobs => JobExcused(d)
      BY DEF Left, DataLeft
    <3>2. d \in Settling => JobExcused(d)
      <4>1. ASSUME d \in Settling
            PROVE  JobExcused(d)
        <5>1. PICK b \in Actors : actor[b].kind = "settle" /\ d = actor[b].device
          BY <4>1 DEF Settling
        <5>2. b \in Busy
          BY <5>1, IdleTyped DEF Base, Resting, Busy
        <5> QED
          BY <5>1, <5>2 DEF Left, ActorsLeft, ActorLeft
      <4> QED
        BY <4>1
    <3> QED
      BY <1>0, <2>1, <3>1, <3>2 DEF ExcusesStay
  <2>3. account' # {} => Registered'
    BY <1>0, <2>1 DEF Left, Registered, ExcusesStay
  <2> QED
    BY <2>1, <2>2, <2>3 DEF Left, ActorsLeft
<1>4. CASE UNCHANGED vars
  <2>1. UNCHANGED <<account, stream, shown, jobs, actor, life, born, met>> /\ Busy' = Busy
    BY <1>4 DEF vars, Busy
  <2>2. DataLeft'
    BY <1>0, <2>1 DEF Left, DataLeft, Ended, ExcusesStay, Has
  <2>3. ASSUME NEW b \in Busy
        PROVE  ActorLeft(b)' /\ RebuildLeft(b)' /\ Decommissioning(b)' /\ Refused(b)' /\ AccountLeft(b)'
    <3>1. ActorLeft(b) /\ RebuildLeft(b) /\ Decommissioning(b) /\ Refused(b) /\ AccountLeft(b)
      BY DEF Left, ActorsLeft
    <3>2. ActorLeft(b)' /\ RebuildLeft(b)'
      BY <1>0, <2>1, <3>1 DEF ActorLeft, RebuildLeft, Ended, ExcusesStay
    <3>3. Decommissioning(b)' /\ Refused(b)' /\ AccountLeft(b)'
      BY <1>0, <2>1, <3>1 DEF Decommissioning, Refused, AccountLeft, Registered, ExcusesStay, Has
    <3> QED
      BY <3>2, <3>3
  <2>4. ASSUME NEW c \in Busy
        PROVE  Purging(c)'
    <3>1. Purging(c) /\ shown \in SUBSET Devices /\ jobs \in SUBSET Devices
      BY DEF Left, Base, Types
    <3> QED
      BY <1>0, <2>1, <3>1 DEF Purging, ExcusesStay
  <2>5. account' # {} => Registered'
    BY <1>0, <2>1 DEF Left, Registered, ExcusesStay, Has
  <2> QED
    BY <2>1, <2>2, <2>3, <2>4, <2>5 DEF Left, ActorsLeft
<1> QED
  BY <1>1, <1>2, <1>3, <1>4 DEF Next

-----------------------------------------------------------------------------
(* The list. *)

LEMMA CompleteInit == Init => Complete
<1> SUFFICES ASSUME Init
             PROVE  Complete
  OBVIOUS
<1>1. Busy = {}
  BY IdleTyped DEF Init, Busy
<1>2. ASSUME NEW d \in Devices
      PROVE  Kept(d)
  <2> DEFINE first == CHOOSE x \in Devices : TRUE
             fresh == {[number |-> 1, name |-> "registered"]}
  <2>1. PICK known \in BOOLEAN :
          /\ stream[d] = IF known /\ d = first THEN fresh ELSE {}
          /\ shown \in IF known THEN {{}, {first}} ELSE {{}}
          /\ met = IF known /\ shown = {} THEN {{<<"lost", first>>, Cut}} ELSE {}
    BY DEF Init
  <2>2. Summary({}) = "none" /\ Summary(fresh) = "listed"
    BY DEF Summary, Has
  <2> HIDE DEF first, fresh
  <2>3. CASE known /\ d = first
    <3>1. CASE shown = {}
      <4>1. {<<"lost", d>>, Cut} \in met
        BY <2>1, <2>3, <3>1
      <4> QED
        BY <4>1 DEF Kept, Lost, WasCut
    <3>2. CASE shown # {}
      BY <2>1, <2>2, <2>3, <3>2 DEF Kept, Current
    <3> QED
      BY <3>1, <3>2
  <2>4. CASE ~(known /\ d = first)
    BY <2>1, <2>2, <2>4 DEF Kept, Current
  <2> QED
    BY <2>3, <2>4
<1> QED
  BY <1>1, <1>2 DEF Complete, ListKept, ReadIsCurrent

\* What is excused stays so.
LEMMA ExcusedStays ==
  ASSUME Base, [Next]_vars, NEW d \in Devices, Excused(d)
  PROVE  Excused(d)'
<1>1. WriterExcused(d) => WriterExcused(d)'
  BY AlwaysRemembers DEF ExcusesStay
<1>2. CutExcused(d) => CutExcused(d)'
  BY AlwaysRemembers DEF ExcusesStay
<1>3. Ended(d) => Ended(d)'
  <2> SUFFICES ASSUME Ended(d)
               PROVE  Ended(d)'
    OBVIOUS
  <2>0. life \in Nat /\ born[d] \in Nat
    BY DEF Base, Types, Ended
  <2>1. ASSUME NEW a \in Actors, Step(a)
        PROVE  Ended(d)'
    <3>1. CASE DeleteAccount(a)
      BY <2>0, <3>1, DeleteAccountDoes DEF Ended
    <3>2. CASE ~DeleteAccount(a)
      BY <2>1, <3>2, CalmSteps DEF Calm, Ended
    <3> QED
      BY <3>1, <3>2
  <2>2. CASE Crash
    BY <2>2, CrashDoes DEF Ended
  <2>3. CASE UNCHANGED vars
    BY <2>3 DEF vars, Ended
  <2> QED
    BY <2>1, <2>2, <2>3 DEF Next
<1> QED
  BY <1>1, <1>2, <1>3 DEF Excused

\* Only the two that write a registration or a decommissioning change how a
\* device is listed.
Rewrites(a, d) ==
  /\ a \in Busy /\ actor[a].kind \in {"register", "decommission"} /\ actor[a].device = d
  /\ Register(a) \/ AppendDevice(a)

LEMMA SummaryMoves ==
  ASSUME Base, NEW a \in Actors, Step(a), ~DeleteAccount(a), NEW d \in Devices, ~Rewrites(a, d)
  PROVE  Summary(stream'[d]) = Summary(stream[d])
<1>1. Register(a) => a \in Busy /\ actor[a].kind = "register"
  BY RegisterDoes
<1>2. AppendDevice(a) => /\ a \in Busy
                         /\ actor[a].kind \in {"rotate", "decommission", "report", "settle"}
  BY AppendDeviceDoes
<1>3. actor[a].kind \in {"rotate", "report", "settle"} =>
        Appended[actor[a].kind] \notin {"registered", "decommissioned"}
  BY DEF Appended
<1>4. {"registered", "decommissioned"} \subseteq Names
  BY DEF Names
<1>5. \A name \in {"registered", "decommissioned"} : Has(stream'[d], name) <=> Has(stream[d], name)
  BY <1>1, <1>2, <1>3, <1>4, StreamGrows DEF Rewrites
<1> QED
  BY <1>5, SummaryKept

\* What a writer of the list reads of a device changes under it only when both
\* are remembered.
LEMMA SummaryHeld ==
  ASSUME Base, Paired, NEW a \in Actors, Step(a), ~DeleteAccount(a), NEW d \in Devices,
         NEW b \in Busy, b # a, actor[b].kind \in Writers, actor[b].device \in {d, None},
         ~WriterExcused(d)
  PROVE  Summary(stream'[d]) = Summary(stream[d])
<1>1. ~Rewrites(a, d)
  BY BesideWriter DEF Rewrites, Writers
<1> QED
  BY <1>1, SummaryMoves

\* A deletion ends the life of every device there is.
LEMMA DeletionEnds ==
  ASSUME Base, NEW a \in Actors, DeleteAccount(a), NEW d \in Devices
  PROVE  born[d] # None => Ended(d)' /\ Excused(d)'
<1>1. born[d] # None => born[d] \in Nat /\ born[d] <= life
  BY DEF Base, Types
<1>2. life' = life + 1 /\ born' = born /\ life \in Nat
  BY DeleteAccountDoes
<1>3. born[d] # None => Ended(d)'
  BY <1>1, <1>2 DEF Ended
<1> QED
  BY <1>3 DEF Excused

LEMMA OthersRead ==
  ASSUME Base, Paired, ReadIsCurrent, NEW a \in Actors, Step(a), NEW b \in Busy', b # a
  PROVE  UpsertIsCurrent(b)' /\ RebuildIsCurrent(b)'
<1>0. actor'[b] = actor[b] /\ b \in Busy /\ b \in Actors /\ [Next]_vars
  BY StepShapes DEF Steps, Begins, Others, Busy, Next
<1>1. UpsertIsCurrent(b) /\ RebuildIsCurrent(b)
  BY <1>0 DEF ReadIsCurrent
<1>2. \A d \in Devices : (Excused(d) => Excused(d)') /\ (WriterExcused(d) => Excused(d)')
  BY <1>0, ExcusedStays DEF Excused
<1>3. ASSUME NEW d \in Devices, DeleteAccount(a), actor[b].device = d \/ actor[b].item = d
      PROVE  Ended(d)' /\ Excused(d)'
  <2>1. born[d] # None
    BY <1>0, <1>3 DEF Base, Unborn, Untouched
  <2> QED
    BY <1>3, <2>1, DeletionEnds
<1>4. UpsertIsCurrent(b)'
  <2> SUFFICES ASSUME NEW d \in Devices, actor[b].device = d
               PROVE  /\ actor[b].pc = "show" \/ (actor[b].pc = "append" /\ actor[b].kind = "settle") =>
                           actor[b].summary = Summary(stream'[d]) \/ Excused(d)'
                      /\ actor[b].kind = "register" /\ actor[b].pc \in {"refresh", "show"} =>
                           Has(stream'[d], "registered") \/ Ended(d)'
                      /\ actor[b].kind = "decommission" /\ actor[b].pc \in {"append", "refresh", "show"} =>
                           Has(stream'[d], "registered") \/ Ended(d)'
    BY <1>0 DEF UpsertIsCurrent, Summary, Has
  <2>1. CASE DeleteAccount(a)
    BY <1>3, <2>1
  <2>2. CASE ~DeleteAccount(a)
    <3>1. /\ actor[b].pc = "show" \/ (actor[b].pc = "append" /\ actor[b].kind = "settle") =>
               actor[b].summary = Summary(stream[d]) \/ Excused(d)
          /\ actor[b].kind = "register" /\ actor[b].pc \in {"refresh", "show"} =>
               Has(stream[d], "registered") \/ Ended(d)
          /\ actor[b].kind = "decommission" /\ actor[b].pc \in {"append", "refresh", "show"} =>
               Has(stream[d], "registered") \/ Ended(d)
      BY <1>1 DEF UpsertIsCurrent
    <3>2. Has(stream[d], "registered") \/ Ended(d) => Has(stream'[d], "registered") \/ Ended(d)'
      <4>1. Has(stream[d], "registered") => Has(stream'[d], "registered")
        BY <2>2, StreamGrows DEF Names
      <4>2. Ended(d) => Ended(d)'
        BY <2>2, CalmSteps DEF Calm, Ended
      <4> QED
        BY <4>1, <4>2
    <3>3. actor[b].pc = "show" \/ (actor[b].pc = "append" /\ actor[b].kind = "settle") =>
            actor[b].summary = Summary(stream'[d]) \/ Excused(d)'
      <4>1. actor[b].pc = "show" \/ actor[b].kind = "settle" => actor[b].kind \in Writers
        BY <1>0, KindsAt DEF Base, Writers
      <4>2. actor[b].kind \in Writers /\ ~WriterExcused(d) => Summary(stream'[d]) = Summary(stream[d])
        BY <1>0, <2>2, SummaryHeld
      <4> QED
        BY <1>2, <3>1, <4>1, <4>2
    <3> QED
      BY <3>1, <3>2, <3>3
  <2> QED
    BY <2>1, <2>2
<1>5. RebuildIsCurrent(b)'
  <2> SUFFICES ASSUME NEW d \in Devices
               PROVE  /\ actor[b].pc = "put" /\ actor[b].item = d =>
                           actor[b].summary = Summary(stream'[d]) \/ Excused(d)'
                      /\ actor[b].pc = "clear" =>
                           d \in actor[b].todo \/ Summary(stream'[d]) # "listed" \/ Excused(d)'
    BY <1>0 DEF RebuildIsCurrent, Summary, Has
  <2>1. CASE DeleteAccount(a)
    <3>1. Summary(stream'[d]) # "listed"
      BY <2>1, DeleteAccountDoes DEF Summary, Has
    <3> QED
      BY <1>3, <2>1, <3>1
  <2>2. CASE ~DeleteAccount(a)
    <3>1. /\ actor[b].pc = "put" /\ actor[b].item = d =>
               actor[b].summary = Summary(stream[d]) \/ Excused(d)
          /\ actor[b].pc = "clear" => d \in actor[b].todo \/ Summary(stream[d]) # "listed" \/ Excused(d)
      BY <1>1 DEF RebuildIsCurrent
    <3>2. actor[b].pc \in {"put", "clear"} => actor[b].kind = "list" /\ actor[b].device = None
      BY <1>0, KindsAt DEF Base, DeviceKinds
    <3>3. actor[b].pc \in {"put", "clear"} /\ ~WriterExcused(d) => Summary(stream'[d]) = Summary(stream[d])
      BY <1>0, <2>2, <3>2, SummaryHeld DEF Writers
    <3> QED
      BY <1>2, <3>1, <3>3
  <2> QED
    BY <2>1, <2>2
<1> QED
  BY <1>4, <1>5

LEMMA OwnRead ==
  ASSUME Base, ReadIsCurrent, NEW a \in Busy', Step(a)
  PROVE  UpsertIsCurrent(a)' /\ RebuildIsCurrent(a)'
<1>0. a \in Actors /\ actor'[a] # Idle /\ [Next]_vars
  BY IdleTyped DEF Busy, Next
<1>1. a \in Busy => UpsertIsCurrent(a) /\ RebuildIsCurrent(a)
  BY DEF ReadIsCurrent
<1>2. ASSUME actor'[a].pc \notin {"append", "refresh", "show", "put", "clear"}
      PROVE  UpsertIsCurrent(a)' /\ RebuildIsCurrent(a)'
  BY <1>2 DEF UpsertIsCurrent, RebuildIsCurrent
<1>3. CASE Ask(a)
  <2>1. PICK kind \in OwnerKinds, d \in Devices \cup {None}, pc \in OwnerKinds \cup {"provision"} :
          Begins(a, kind, d, pc)
    BY <1>0, <1>3, AskDoes
  <2>2. actor'[a].pc \in OwnerKinds \cup {"provision"}
    BY <2>1, BeginsWith
  <2> QED
    BY <1>2, <2>2 DEF OwnerKinds
<1>4. CASE Report(a)
  <2>1. PICK d \in Devices : Begins(a, "report", d, "report")
    BY <1>0, <1>4, ReportDoes
  <2>2. actor'[a].pc = "report"
    BY <2>1, BeginsWith
  <2> QED
    BY <1>2, <2>2
<1>5. CASE Settle(a)
  <2>1. PICK d \in jobs : Begins(a, "settle", d, "settle")
    BY <1>0, <1>5, SettleDoes
  <2>2. actor'[a].pc = "settle"
    BY <2>1, BeginsWith
  <2> QED
    BY <1>2, <2>2
<1>6. CASE Override(a)
  <2>1. Begins(a, "override", None, "override")
    BY <1>0, <1>6, OverrideDoes
  <2>2. actor'[a].pc = "override"
    BY <2>1, BeginsWith
  <2> QED
    BY <1>2, <2>2
<1>7. CASE Provision(a) \/ Clear(a) \/ Put(a) \/ AppendAccount(a) \/ PurgeJobs(a) \/ PurgeList(a)
  <2>1. actor'[a].pc \in OwnerKinds \cup {"fill", "purge jobs", "purge list", "delete"}
    BY <1>0, <1>7, ProvisionDoes, ClearDoes, PutDoes, AppendAccountDoes, PurgeJobsDoes, PurgeListDoes
       DEF Moves, Ends
  <2> QED
    BY <1>2, <2>1 DEF OwnerKinds
<1>8. CASE Show(a) \/ Schedule(a) \/ DeleteAccount(a)
  BY <1>0, <1>8, ShowDoes, ScheduleDoes, DeleteAccountDoes DEF Ends
<1>9. CASE LoadAccount(a)
  <2>1. actor'[a].kind \in {"override", "close"} /\ actor'[a].pc \in {"append", "closing"}
    BY <1>0, <1>9, LoadAccountDoes DEF Loads, Same, Ends
  <2> QED
    BY <2>1 DEF UpsertIsCurrent, RebuildIsCurrent
<1>10. CASE Register(a)
  <2>1. PICK d \in Devices : d = actor[a].device
    BY <1>0, <1>10, RegisterDoes
  <2>2. /\ actor'[a].kind = "register" /\ actor'[a].pc = "refresh" /\ actor'[a].device = d
        /\ stream' = [stream EXCEPT ![d] = With({}, 1, "registered")]
    BY <1>0, <1>10, <2>1, RegisterDoes DEF Moves, Same
  <2>3. Has(stream'[d], "registered")
    <3>1. stream'[d] = {[number |-> 1, name |-> "registered"]}
      BY <2>2 DEF Base, Types, With
    <3> QED
      BY <3>1 DEF Has
  <2>4. UpsertIsCurrent(a)'
    BY <2>2, <2>3 DEF UpsertIsCurrent
  <2>5. RebuildIsCurrent(a)'
    BY <2>2 DEF RebuildIsCurrent
  <2> QED
    BY <2>4, <2>5
<1>11. CASE LoadDevice(a)
  <2>1. PICK d \in Devices : d = actor[a].device
    BY <1>0, <1>11, LoadDeviceDoes
  <2>2. /\ actor'[a].kind = actor[a].kind /\ actor'[a].pc = "append" /\ actor'[a].device = d
        /\ actor'[a].kind \in {"rotate", "decommission", "report", "settle"}
        /\ stream' = stream /\ GoesOn(actor[a].kind, stream[d])
        /\ actor'[a].summary = Summary(stream[d])
    BY <1>0, <1>11, <2>1, LoadDeviceDoes DEF Loads, Same, Ends
  <2>3. actor'[a].kind = "decommission" => Has(stream'[d], "registered")
    BY <2>2 DEF GoesOn, Summary
  <2>4. UpsertIsCurrent(a)'
    BY <2>2, <2>3 DEF UpsertIsCurrent
  <2>5. RebuildIsCurrent(a)'
    BY <2>2 DEF RebuildIsCurrent
  <2> QED
    BY <2>4, <2>5
<1>12. CASE AppendDevice(a)
  <2>1. PICK d \in Devices : d = actor[a].device
    BY <1>0, <1>12, AppendDeviceDoes
  <2>2. /\ a \in Busy /\ actor'[a].kind = actor[a].kind /\ actor'[a].device = d
        /\ actor[a].pc = "append" /\ actor[a].kind \in {"decommission", "report", "settle"}
        /\ actor[a].kind = "decommission" => actor'[a].pc = "refresh"
        /\ actor[a].kind = "report" => actor'[a].pc = "schedule"
        /\ actor[a].kind = "settle" => actor'[a].pc = "show"
        /\ actor'[a].summary = actor[a].summary
    BY <1>0, <1>12, <2>1, AppendDeviceDoes DEF Moves, Same, Ends
  <2>3. ~DeleteAccount(a)
    BY <1>0, <2>2, DeleteAccountDoes
  <2>4. actor[a].kind = "decommission" => Has(stream'[d], "registered") \/ Ended(d)'
    <3>1. actor[a].kind = "decommission" => Has(stream[d], "registered") \/ Ended(d)
      BY <1>1, <2>1, <2>2 DEF UpsertIsCurrent
    <3>2. Has(stream[d], "registered") => Has(stream'[d], "registered")
      BY <1>0, <2>3, StreamGrows DEF Names
    <3>3. Ended(d) => Ended(d)'
      BY <1>0, <2>3, CalmSteps DEF Calm, Ended
    <3> QED
      BY <3>1, <3>2, <3>3
  <2>5. actor[a].kind = "settle" => actor'[a].summary = Summary(stream'[d]) \/ Excused(d)'
    <3>1. actor[a].kind = "settle" => actor[a].summary = Summary(stream[d]) \/ Excused(d)
      BY <1>1, <2>1, <2>2 DEF UpsertIsCurrent
    <3>2. actor[a].kind = "settle" => Summary(stream'[d]) = Summary(stream[d])
      BY <1>0, <2>3, SummaryMoves DEF Rewrites
    <3> QED
      BY <1>0, <2>2, <3>1, <3>2, ExcusedStays
  <2>6. UpsertIsCurrent(a)'
    BY <2>2, <2>4, <2>5 DEF UpsertIsCurrent
  <2>7. RebuildIsCurrent(a)'
    BY <2>2 DEF RebuildIsCurrent
  <2> QED
    BY <2>6, <2>7
<1>13. CASE Refresh(a)
  <2>1. PICK d \in Devices : d = actor[a].device
    BY <1>0, <1>13, RefreshDoes
  <2>2. /\ a \in Busy /\ actor'[a].kind = actor[a].kind /\ actor'[a].device = d
        /\ actor[a].pc = "refresh" /\ actor'[a].pc = "show" /\ UNCHANGED <<stream, life, born>>
        /\ actor'[a].summary = Summary(stream[d]) /\ actor[a].kind \in {"register", "decommission"}
    BY <1>0, <1>13, <2>1, RefreshDoes DEF Loads, Same
  <2>3. Has(stream[d], "registered") \/ Ended(d)
    BY <1>1, <2>1, <2>2 DEF UpsertIsCurrent
  <2>4. Has(stream'[d], "registered") \/ Ended(d)'
    BY <2>2, <2>3 DEF Ended
  <2>5. UpsertIsCurrent(a)'
    BY <2>2, <2>4 DEF UpsertIsCurrent
  <2>6. RebuildIsCurrent(a)'
    BY <2>2 DEF RebuildIsCurrent
  <2> QED
    BY <2>5, <2>6
<1>14. CASE List(a)
  <2>1. /\ actor'[a].pc = "clear" /\ actor'[a].kind = "list" /\ stream' = stream
        /\ actor'[a].todo = {d \in Devices : stream[d] # {}}
    BY <1>0, <1>14, ListDoes DEF Same, Ends
  <2>2. UpsertIsCurrent(a)'
    BY <2>1 DEF UpsertIsCurrent
  <2>3. \A d \in Devices : stream[d] = {} => Summary(stream'[d]) # "listed"
    BY <2>1 DEF Summary, Has
  <2>4. RebuildIsCurrent(a)'
    BY <2>1, <2>3 DEF RebuildIsCurrent
  <2> QED
    BY <2>2, <2>4
<1>15. CASE Fill(a)
  <2>1. PICK d \in Devices : actor'[a].item = d /\ actor'[a].summary = Summary(stream[d])
    BY <1>0, <1>15, FillDoes
  <2>2. actor'[a].pc = "put" /\ actor'[a].kind = "list" /\ stream' = stream
    BY <1>0, <1>15, FillDoes DEF Same
  <2>3. UpsertIsCurrent(a)'
    <3>1. actor'[a].device \notin Devices
      <4>1. actor'[a].device = None
        BY <1>0, <1>15, FillDoes, KindsAt DEF Base, Same, DeviceKinds
      <4> QED
        BY <4>1, AccountLifetimeAssumption
    <3> QED
      BY <3>1 DEF UpsertIsCurrent
  <2>4. RebuildIsCurrent(a)'
    BY <2>1, <2>2 DEF RebuildIsCurrent
  <2> QED
    BY <2>3, <2>4
<1> QED
  BY <1>3, <1>4, <1>5, <1>6, <1>7, <1>8, <1>9, <1>10, <1>11, <1>12, <1>13, <1>14, <1>15 DEF Step

\* A step that leaves what is shown of a device as it was, and its own telling.
LEMMA KeptBy ==
  ASSUME Base, ListKept, NEW a \in Actors, [Next]_vars, Others(a), NEW d \in Devices,
         Lost(d) => Lost(d)', d \in shown' <=> d \in shown, Summary(stream'[d]) = Summary(stream[d]),
         a \in Busy /\ Tells(a, d) => Current(d)' \/ (a \in Busy' /\ Tells(a, d)')
  PROVE  Kept(d)'
<1>1. Current(d) => Current(d)'
  BY DEF Current
<1>2. Excused(d) => Excused(d)'
  BY ExcusedStays
<1>3. ASSUME NEW b \in Busy, Tells(b, d), b # a
      PROVE  b \in Busy' /\ Tells(b, d)'
  BY <1>3 DEF Busy, Others, Tells
<1>4. Current(d) \/ Excused(d) \/ Lost(d) \/ \E b \in Busy : Tells(b, d)
  BY DEF ListKept, Kept
<1>5. (\E b \in Busy : Tells(b, d)) => Current(d)' \/ \E b \in Busy' : Tells(b, d)'
  <2>1. ASSUME NEW b \in Busy, Tells(b, d)
        PROVE  Current(d)' \/ \E c \in Busy' : Tells(c, d)'
    <3>1. CASE b = a
      BY <2>1, <3>1
    <3>2. CASE b # a
      BY <1>3, <2>1, <3>2
    <3> QED
      BY <3>1, <3>2
  <2> QED
    BY <2>1
<1> QED
  BY <1>1, <1>2, <1>4, <1>5 DEF Kept

\* Redis has still lost what it had lost, until the list is cleared.
LEMMA LostStays ==
  ASSUME Base, NEW a \in Actors, Step(a), ~Clear(a), NEW d \in Devices, Lost(d)
  PROVE  Lost(d)'
<1>1. met \subseteq met'
  <2>1. CASE Ask(a) \/ Report(a) \/ Settle(a) \/ Override(a)
    BY <2>1 DEF Ask, Report, Settle, Override, Begin
  <2>2. CASE ~(Ask(a) \/ Report(a) \/ Settle(a) \/ Override(a))
    BY <2>2 DEF Step, Provision, Register, LoadDevice, AppendDevice, Refresh, Show, List,
       Fill, Put, Schedule, LoadAccount, AppendAccount, PurgeJobs, PurgeList, DeleteAccount
  <2> QED
    BY <2>1, <2>2
<1> QED
  BY <1>1 DEF Lost, WasCut

LEMMA ListKeptStep ==
  ASSUME Base, Complete, NEW a \in Actors, Step(a), NEW d \in Devices
  PROVE  Kept(d)'
<1>0. Others(a) /\ [Next]_vars
  BY StepShapes DEF Steps, Begins, Next
<1>a. /\ ListKept /\ (a \in Busy => UpsertIsCurrent(a) /\ RebuildIsCurrent(a))
      /\ (Excused(d) => Excused(d)')
  BY <1>0, ExcusedStays DEF Complete, ReadIsCurrent
<1>b. ~Clear(a) => (Lost(d) => Lost(d)')
  BY LostStays
<1>1. CASE Register(a) /\ actor[a].device = d
  <2>1. actor'[a].pc = "refresh" /\ actor'[a].kind = "register" /\ actor'[a].device = d
    BY <1>1, RegisterDoes DEF Moves, Same
  <2> QED
    BY <2>1 DEF Kept, Tells, Busy
<1>2. CASE AppendDevice(a) /\ Rewrites(a, d)
  <2>1. CASE stream' = stream
    <3>1. /\ shown' = shown /\ actor[a].pc = "append"
      BY <1>2, AppendDeviceDoes
    <3>2. ~Clear(a)
      BY <3>1 DEF Clear
    <3> QED
      BY <1>0, <1>a, <1>b, <2>1, <3>1, <3>2, KeptBy DEF Tells
  <2>2. CASE stream' # stream
    <3>1. actor'[a].pc = "refresh" /\ actor'[a].kind = "decommission" /\ actor'[a].device = d
      BY <1>2, <2>2, AppendDeviceDoes DEF Moves, Same, Rewrites
    <3> QED
      BY <3>1 DEF Kept, Tells, Busy
  <2> QED
    BY <2>1, <2>2
<1>3. CASE Show(a)
  <2>1. /\ a \in Busy /\ actor[a].kind \in {"register", "decommission", "settle"}
        /\ actor[a].pc = "show" /\ actor[a].summary \in {"none", "gone", "listed"}
        /\ shown' = Upsert(actor[a].summary, actor[a].device) /\ stream' = stream
    BY <1>3, ShowDoes
  <2>2. ~Clear(a)
    BY <2>1 DEF Clear
  <2>3. /\ actor[a].summary = "none" => shown' = shown
        /\ actor[a].summary = "gone" => shown' = shown \ {actor[a].device}
        /\ actor[a].summary = "listed" => shown' = shown \cup {actor[a].device}
    BY <2>1 DEF Upsert
  <2>4. CASE actor[a].device # d
    <3>1. d \in shown' <=> d \in shown
      BY <2>1, <2>3, <2>4
    <3>2. ~Tells(a, d)
      BY <2>1, <2>4 DEF Tells
    <3> QED
      BY <1>0, <1>a, <1>b, <2>1, <2>2, <3>1, <3>2, KeptBy
  <2>5. CASE actor[a].device = d
    <3>1. actor[a].summary = Summary(stream[d]) \/ Excused(d)
      BY <1>a, <2>1, <2>5 DEF UpsertIsCurrent
    <3>2. CASE Excused(d)
      BY <1>a, <3>2 DEF Kept
    <3>3. CASE ~Excused(d) /\ Summary(stream[d]) = "none"
      <4>1. ~Has(stream[d], "registered")
        BY <3>3 DEF Summary
      <4>2. ~Ended(d)
        BY <3>3 DEF Excused
      <4>3. actor[a].kind = "settle"
        BY <1>a, <2>1, <2>5, <4>1, <4>2 DEF UpsertIsCurrent
      <4>4. ~Tells(a, d) /\ shown' = shown
        BY <2>1, <2>3, <3>1, <3>3, <4>3 DEF Tells
      <4> QED
        BY <1>0, <1>a, <1>b, <2>1, <2>2, <4>4, KeptBy
    <3>4. CASE ~Excused(d) /\ Summary(stream[d]) # "none"
      <4>1. (d \in shown') <=> (Summary(stream[d]) = "listed")
        BY <2>1, <2>3, <2>5, <3>1, <3>4
      <4> QED
        BY <2>1, <4>1 DEF Kept, Current
    <3> QED
      BY <3>2, <3>3, <3>4
  <2> QED
    BY <2>4, <2>5
<1>4. CASE Put(a)
  <2>1. /\ a \in Busy /\ actor[a].kind = "list" /\ actor[a].pc = "put"
        /\ shown' = (IF actor[a].summary = "listed" THEN shown \cup {actor[a].item} ELSE shown)
        /\ stream' = stream
        /\ actor[a].todo # {} => actor'[a].pc = "fill" /\ actor'[a].kind = "list"
                                 /\ actor'[a].todo = actor[a].todo
    BY <1>4, PutDoes DEF Moves, Same
  <2>2. ~Clear(a)
    BY <2>1 DEF Clear
  <2>3. CASE actor[a].item # d
    <3>1. d \in shown' <=> d \in shown
      BY <2>1, <2>3
    <3>2. Tells(a, d) => a \in Busy' /\ Tells(a, d)'
      BY <2>1, <2>3, <3>1 DEF Tells, Busy
    <3> QED
      BY <1>0, <1>a, <1>b, <2>1, <2>2, <3>1, <3>2, KeptBy
  <2>4. CASE actor[a].item = d
    <3>1. actor[a].summary = Summary(stream[d]) \/ Excused(d)
      BY <1>a, <2>1, <2>4 DEF RebuildIsCurrent
    <3>2. CASE Excused(d)
      BY <1>a, <3>2 DEF Kept
    <3>3. CASE ~Excused(d) /\ Summary(stream[d]) = "listed"
      BY <2>1, <2>4, <3>1, <3>3 DEF Kept, Current
    <3>4. CASE ~Excused(d) /\ Summary(stream[d]) # "listed"
      <4>1. shown' = shown
        BY <2>1, <3>1, <3>4
      <4>2. Tells(a, d) => Current(d)'
        BY <2>1, <3>4, <4>1 DEF Tells, Current
      <4> QED
        BY <1>0, <1>a, <1>b, <2>1, <2>2, <4>1, <4>2, KeptBy
    <3> QED
      BY <3>2, <3>3, <3>4
  <2> QED
    BY <2>3, <2>4
<1>5. CASE Clear(a)
  <2>1. /\ a \in Busy /\ actor[a].pc = "clear" /\ shown' = {} /\ stream' = stream
        /\ actor[a].todo # {} => actor'[a].pc = "fill" /\ actor'[a].kind = "list"
                                 /\ actor'[a].todo = actor[a].todo
    BY <1>5, ClearDoes DEF Moves, Same
  <2>2. d \in actor[a].todo \/ Summary(stream[d]) # "listed" \/ Excused(d)
    BY <1>a, <2>1 DEF RebuildIsCurrent
  <2>3. CASE d \in actor[a].todo
    <3>1. a \in Busy' /\ Tells(a, d)'
      BY <2>1, <2>3 DEF Tells, Busy
    <3> QED
      BY <3>1 DEF Kept
  <2>4. CASE Summary(stream[d]) # "listed"
    BY <2>1, <2>4 DEF Kept, Current
  <2>5. CASE Excused(d)
    BY <1>a, <2>5 DEF Kept
  <2> QED
    BY <2>2, <2>3, <2>4, <2>5
<1>6. CASE PurgeList(a)
  <2>1. actor'[a].pc = "delete" /\ actor'[a].kind = "close"
    BY <1>6, PurgeListDoes DEF Moves, Same
  <2> QED
    BY <2>1 DEF Kept, Tells, Busy
<1>7. CASE DeleteAccount(a)
  <2>1. CASE born[d] # None
    BY <1>7, <2>1, DeletionEnds DEF Kept
  <2>2. CASE born[d] = None
    <3>1. d \notin shown
      BY <2>2 DEF Base, Unborn, Untouched
    <3>2. stream'[d] = {} /\ shown' = shown
      BY <1>7, DeleteAccountDoes
    <3> QED
      BY <3>1, <3>2 DEF Kept, Current, Summary, Has
  <2> QED
    BY <2>1, <2>2
<1>8. CASE /\ ~(Register(a) /\ actor[a].device = d) /\ ~(AppendDevice(a) /\ Rewrites(a, d))
           /\ ~Show(a) /\ ~Put(a) /\ ~Clear(a) /\ ~PurgeList(a) /\ ~DeleteAccount(a)
  <2>1. shown' = shown
    BY <1>8 DEF Step, Ask, Provision, Register, LoadDevice, AppendDevice, Refresh, List,
       Fill, Report, Schedule, Settle, Override, LoadAccount, AppendAccount, PurgeJobs
  <2>2. Summary(stream'[d]) = Summary(stream[d])
    <3>1. ~Rewrites(a, d)
      BY <1>8 DEF Rewrites
    <3> QED
      BY <1>8, <3>1, SummaryMoves
  <2>3. a \in Busy /\ Tells(a, d) => a \in Busy' /\ Tells(a, d)'
    <3> SUFFICES ASSUME a \in Busy, Tells(a, d)
                 PROVE  a \in Busy' /\ Tells(a, d)'
      OBVIOUS
    <3>1. actor[a].pc \in {"delete", "refresh", "show", "fill", "put"}
      BY DEF Tells
    <3>2. Refresh(a) \/ Fill(a)
      <4>1. ~Begin(a, "report", d, "report") /\ actor[a] # Idle
        BY <3>1, IdleTyped DEF Begin
      <4> QED
        BY <1>8, <3>1, <4>1 DEF Step, Ask, Provision, Register, LoadDevice, AppendDevice, List, Report,
           Schedule, Settle, Override, LoadAccount, AppendAccount, PurgeJobs, Begin, Go
    <3>3. CASE Refresh(a)
      <4>1. /\ actor'[a].pc = "show" /\ actor'[a].kind = actor[a].kind /\ actor'[a].device = actor[a].device
            /\ actor[a].pc = "refresh" /\ actor[a].kind \in {"register", "decommission"}
        BY <3>3, RefreshDoes DEF Loads, Same
      <4> QED
        BY <4>1 DEF Tells, Busy
    <3>4. CASE Fill(a)
      <4>1. /\ actor'[a].pc = "put" /\ actor'[a].kind = "list" /\ actor[a].kind = "list"
            /\ actor[a].pc = "fill"
            /\ \E e \in actor[a].todo : actor'[a].item = e /\ actor'[a].todo = actor[a].todo \ {e}
        BY <3>4, FillDoes DEF Same
      <4> QED
        BY <2>1, <4>1 DEF Tells, Busy
    <3> QED
      BY <3>2, <3>3, <3>4
  <2> QED
    BY <1>0, <1>a, <1>b, <1>8, <2>1, <2>2, <2>3, KeptBy
<1> QED
  BY <1>1, <1>2, <1>3, <1>4, <1>5, <1>6, <1>7, <1>8

LEMMA CompleteNext == Base /\ Paired /\ Complete /\ [Next]_vars => Complete'
<1> SUFFICES ASSUME Base, Paired, Complete, [Next]_vars
             PROVE  Complete'
  OBVIOUS
<1>1. ASSUME NEW a \in Actors, Step(a)
      PROVE  Complete'
  <2>1. ListKept'
    BY <1>1, ListKeptStep DEF ListKept
  <2>2. ASSUME NEW b \in Busy'
        PROVE  UpsertIsCurrent(b)' /\ RebuildIsCurrent(b)'
    BY <1>1, OwnRead, OthersRead DEF Complete
  <2> QED
    BY <2>1, <2>2 DEF Complete, ReadIsCurrent
<1>2. CASE Crash
  <2>1. /\ Busy' = {} /\ UNCHANGED <<stream, shown>>
        /\ met' = met \cup {{Tag(b), Cut} : b \in {x \in Busy : actor[x].kind \in Writers \cup {"close"}}}
    BY <1>2, CrashDoes
  <2>2. ASSUME NEW d \in Devices
        PROVE  Kept(d)'
    <3>1. Current(d) => Current(d)'
      BY <2>1 DEF Current
    <3>2. Excused(d) => Excused(d)'
      BY ExcusedStays
    <3>3. Lost(d) => Lost(d)'
      BY <2>1 DEF Lost, WasCut
    <3>4. ASSUME NEW b \in Busy, Tells(b, d)
          PROVE  Excused(d)'
      <4>1. /\ actor[b].kind \in Writers \cup {"close"}
            /\ actor[b].kind \in {"register", "decommission"} => actor[b].device = d
            /\ actor[b].kind \in {"register", "decommission", "list", "close"}
        BY <3>4 DEF Tells, Writers
      <4>2. actor[b].kind \in {"list", "close"} => actor[b].device = None
        BY DEF Base, Placed, DeviceKinds
      <4>3. {<<actor[b].kind, actor[b].device>>, Cut} \in met'
        BY <2>1, <4>1 DEF Tag
      <4>4. CutExcused(d)'
        BY <4>1, <4>2, <4>3 DEF CutExcused, WasCut, Writers
      <4> QED
        BY <4>4 DEF Excused
    <3>5. Current(d) \/ Excused(d) \/ Lost(d) \/ \E b \in Busy : Tells(b, d)
      BY DEF Complete, ListKept, Kept
    <3> QED
      BY <3>1, <3>2, <3>3, <3>4, <3>5 DEF Kept
  <2> QED
    BY <2>1, <2>2 DEF Complete, ListKept, ReadIsCurrent
<1>3. CASE UNCHANGED vars
  <2>1. UNCHANGED <<stream, shown, actor, met>> /\ Busy' = Busy
    BY <1>3 DEF vars, Busy
  <2>2. ASSUME NEW d \in Devices
        PROVE  Kept(d)'
    <3>1. Kept(d) /\ (Excused(d) => Excused(d)')
      BY ExcusedStays DEF Complete, ListKept
    <3>2. /\ Current(d) => Current(d)'
          /\ Lost(d) => Lost(d)'
          /\ \A b \in Busy : Tells(b, d) => Tells(b, d)'
      BY <2>1 DEF Current, Lost, WasCut, Tells
    <3> QED
      BY <2>1, <3>1, <3>2 DEF Kept
  <2>3. ASSUME NEW b \in Busy
        PROVE  UpsertIsCurrent(b)' /\ RebuildIsCurrent(b)'
    <3>1. UpsertIsCurrent(b) /\ RebuildIsCurrent(b)
      BY DEF Complete, ReadIsCurrent
    <3>2. \A d \in Devices : (Excused(d) => Excused(d)') /\ (Ended(d) => Ended(d)')
      BY <1>3, ExcusedStays DEF vars, Ended
    <3> QED
      BY <2>1, <3>1, <3>2 DEF UpsertIsCurrent, RebuildIsCurrent, Summary, Has
  <2> QED
    BY <2>1, <2>2, <2>3 DEF Complete, ListKept, ReadIsCurrent
<1> QED
  BY <1>1, <1>2, <1>3 DEF Next

-----------------------------------------------------------------------------
(* The theorems. *)

Inv == Base /\ Numbers /\ Paired /\ Left /\ Numbered /\ Complete

LEMMA InvInit == Init => Inv
  BY BaseInit, PairedInit, LeftInit, NumberedInit, CompleteInit DEF Inv

LEMMA InvNext == Inv /\ [Next]_vars => Inv'
<1> SUFFICES ASSUME Inv, [Next]_vars
             PROVE  Inv'
  OBVIOUS
<1>1. Base' /\ Numbers'
  BY BaseNext, NumbersNext DEF Inv
<1>2. Paired'
  BY <1>1, PairedNext DEF Inv
<1>3. Left'
  BY <1>1, LeftNext DEF Inv
<1>4. Numbered'
  BY <1>1, NumberedNext DEF Inv
<1>5. Complete'
  BY CompleteNext DEF Inv
<1> QED
  BY <1>1, <1>2, <1>3, <1>4, <1>5 DEF Inv

\* Every reachable state satisfies the invariant.
LEMMA Invariant == Spec => []Inv
<1> QED
  BY InvInit, InvNext, PTL DEF Spec

\* The variables have their types: streams hold events of which no two have a
\* number in common, jobs and lists name devices that were registered, and
\* one settlement runs at a time.
THEOREM TypesHold == Spec => []TypeOK
<1>1. Inv => TypeOK
  <2> SUFFICES ASSUME Inv
               PROVE  TypeOK
    OBVIOUS
  <2>1. ASSUME NEW s \in {account} \cup {stream[d] : d \in Devices}
        PROVE  s \subseteq Event /\ \A e, f \in s : e.number = f.number => e = f
    BY DEF Inv, Base, Types, Numbers, Distinct
  <2>2. ASSUME NEW d \in shown \cup jobs
        PROVE  d \in Devices /\ born[d] # None
    BY DEF Inv, Base, Types, Unborn, Untouched
  <2>3. ASSUME NEW a \in Actors
        PROVE  /\ actor[a].kind \in Kinds \cup {"none"}
               /\ (actor[a].pc = "idle") <=> (actor[a] = Idle)
               /\ actor[a].begun \in 0 .. life
    <3>1. actor[a] \in Actor /\ life \in Nat
      BY DEF Inv, Base, Types
    <3>2. (actor[a].pc = "idle") <=> (actor[a] = Idle)
      BY IdleTyped DEF Inv, Base, Resting
    <3>3. actor[a].kind \in Kinds \cup {"none"} /\ actor[a].begun \in Nat
      BY <3>1 DEF Actor
    <3>4. CASE actor[a].pc = "idle"
      BY <3>1, <3>2, <3>3, <3>4, IdleTyped
    <3>5. CASE actor[a].pc # "idle"
      <4>1. actor[a].begun <= life
        BY <3>5 DEF Inv, Base, Placed, Busy
      <4> QED
        BY <3>1, <3>2, <3>3, <4>1
    <3> QED
      BY <3>4, <3>5
  <2>4. Cardinality(Settling) <= 1
    <3>1. CASE Settling = {}
      BY <3>1, FS_EmptySet
    <3>2. CASE Settling # {}
      <4>1. PICK a \in Actors : actor[a].kind = "settle"
        BY <3>2 DEF Settling
      <4>2. Settling = {actor[a].device}
        BY <4>1 DEF Settling, Inv, Base, OneSettles
      <4> QED
        BY <4>2, FS_Singleton
    <3> QED
      BY <3>1, <3>2
  <2>5. life \in 0 .. MaxLives /\ count \in 0 .. MaxBegun
    BY DEF Inv, Base, Types
  <2> QED
    BY <2>1, <2>2, <2>3, <2>4, <2>5 DEF TypeOK
<1> QED
  BY <1>1, Invariant, PTL

\* closeAccount leaves nothing of the ended life but what ran beside it brought
\* back.
THEOREM NothingIsLeft == Spec => []NothingLeft
<1>1. Inv => NothingLeft
  <2> SUFFICES ASSUME Inv
               PROVE  NothingLeft
    OBVIOUS
  <2>1. ASSUME NEW d \in Devices, born[d] # None, born[d] < life
        PROVE  /\ stream[d] # {} => Met(DeviceKinds, d, {"close"})
               /\ d \in shown => Met({"register", "settle", "list"}, d, {"close"})
               /\ d \in jobs => Met({"register", "rotate", "report", "settle"}, d, {"close"})
    BY <2>1 DEF Inv, Left, DataLeft, Ended, StreamExcused, ShownExcused, JobExcused
  <2>2. account # {} /\ ~Has(account, "registered") => Met({"override", "close"}, None, {"close"})
    BY DEF Inv, Left, Registered, AccountExcused
  <2> QED
    BY <2>1, <2>2 DEF NothingLeft
<1> QED
  BY <1>1, Invariant, PTL

\* loadAggregate's version numbers every stream without a gap, but for an append
\* that was loaded for before a closure and made after it.
THEOREM StreamsAreWhole == Spec => []NumberedWhole
<1>1. Inv => NumberedWhole
  BY DEF Inv, Numbered, Whole, NumberExcused, AccountExcused, NumberedWhole
<1> QED
  BY <1>1, Invariant, PTL

\* The trigger endpoint refuses the device of an ended life, unless its
\* registration or a credential came in beside the closure.
THEOREM EndedAreRefused == Spec => []EndedDevicesAreRefused
<1>1. Inv => EndedDevicesAreRefused
  <2> SUFFICES ASSUME Inv, NEW a \in Actors, actor[a].kind = "report",
                      actor[a].pc \in {"append", "schedule"}, born[actor[a].device] < actor[a].begun
               PROVE  Met({"register", "rotate"}, actor[a].device, {"close"})
    BY DEF EndedDevicesAreRefused
  <2>1. a \in Busy
    BY DEF Busy
  <2>2. PICK d \in Devices : d = actor[a].device
    BY <2>1 DEF Inv, Base, Placed, DeviceKinds
  <2>3. CredentialExcused(d)
    BY <2>1, <2>2 DEF Inv, Left, ActorsLeft, Refused
  <2> QED
    BY <2>2, <2>3 DEF CredentialExcused
<1> QED
  BY <1>1, Invariant, PTL

\* listIpClientsProjection trusts a list that is there: at rest it shows the
\* devices of this life that are not decommissioned, unless two that write it ran
\* side by side, one was cut short, or Redis had lost the list.
THEOREM ListsAreComplete == Spec => []ListIsComplete
<1>1. Inv => ListIsComplete
  <2> SUFFICES ASSUME Inv, \A a \in Busy : actor[a].kind \notin Writers \cup {"close"},
                      NEW d \in Devices
               PROVE  \/ (d \in shown) <=> (Summary(stream[d]) = "listed")
                      \/ born[d] # None /\ born[d] < life
                      \/ Met(Writers, d, Writers)
                      \/ WasCut("list", None) \/ WasCut("close", None)
                      \/ \E k \in Writers \cup {"lost"} : WasCut(k, d)
    BY DEF ListIsComplete
  <2>1. ~\E a \in Busy : Tells(a, d)
    BY DEF Tells, Writers
  <2>2. Current(d) \/ Excused(d) \/ Lost(d)
    BY <2>1 DEF Inv, Complete, ListKept, Kept
  <2> QED
    BY <2>2 DEF Current, Excused, Ended, WriterExcused, CutExcused, Lost
<1> QED
  BY <1>1, Invariant, PTL
=============================================================================
