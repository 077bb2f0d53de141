------------------------ MODULE OwnerRequestsProofs ------------------------
(***************************************************************************)
(* OwnerRequests, for every set of requests and of objects to begin with;  *)
(* and after it GuidedFlow, the wizards of one tab that make such          *)
(* requests, for all bounds and whatever an owner may type.                *)
(***************************************************************************)
EXTENDS OwnerRequests, GuidedFlow, FiniteSetTheorems, TLAPS

-----------------------------------------------------------------------------
(* The type invariant, part by part. *)

AccountRecord == [limit : Limits, version : Nat]
ChannelRecord == [status : {"none", "active", "revoked"}, version : Nat]
DeviceRecord == [status : Statuses \cup {"decommissioned"}, version : Nat]
ResourceRecord ==
  [kind : {"none", "credential", "provider"}, status : {"none", "active", "removed"},
   name : Names \cup {None}, tokens : SUBSET Resources, by : Requests \cup {None}]
ActionRecord ==
  [status : Statuses \cup {"detached"}, device : DeviceIds \cup {None},
   target : Resources \cup {None}, version : Nat, by : Requests \cup {None}]

StreamTypes ==
  /\ account \in AccountRecord /\ channel \in ChannelRecord
  /\ device \in [DeviceIds -> DeviceRecord]
  /\ resource \in [Resources -> ResourceRecord]
  /\ action \in [ActionIds -> ActionRecord]
  /\ due \subseteq Resources

\* What exists names what exists, and a stream that does not is empty.
Existing ==
  /\ \A d \in DeviceIds : device[d].status = "none" => device[d].version = 0
  /\ \A x \in Resources : /\ resource[x].kind = "none" <=> resource[x].status = "none"
                          /\ resource[x].kind = "none" => resource[x].tokens = {}
  /\ \A a \in ActionIds :
       IF action[a].status = "none" THEN action[a].version = 0
       ELSE /\ action[a].device \in DeviceIds /\ device[action[a].device].status # "none"
            /\ action[a].target \in Resources /\ resource[action[a].target].kind # "none"

IsRequest(q) ==
  q = [pc |-> q.pc, ask |-> q.ask, seen |-> q.seen, todo |-> q.todo, found |-> q.found,
       beside |-> q.beside]

Pcs == {"new", "list", "read", "append", "provider", "credential", "token", "reload", "project",
        "find", "collect", "current", "done"}

RequestTypes ==
  /\ req = [r \in Requests |-> req[r]]
  /\ \A r \in Requests : /\ IsRequest(req[r]) /\ req[r].pc \in Pcs
                         /\ req[r].pc # "new" => req[r].ask \in Asks
                         /\ req[r].pc = "new" => req[r].beside = {}
                         /\ IsFiniteSet(req[r].found)

\* What a request creates is there from its append on.
Creates(r, kind, pcs) == req[r].pc \in pcs /\ req[r].ask.kind = kind
Created ==
  \A r \in Requests :
    /\ device[r].status # "none" => Creates(r, "register", {"reload", "project", "done"})
    /\ resource[r].kind # "none" => Creates(r, "create", {"token", "done"})
    /\ action[r].status # "none" =>
         Creates(r, "attach", {"reload", "project", "current", "done"})

\* Where a request of a kind can be, and that what it names exists.
PcsOf(kind) ==
  CASE kind \in {"limit", "channel", "issue", "withdraw"} -> {"append", "done"}
    [] kind = "register" -> {"list", "read", "append", "reload", "project", "done"}
    [] kind = "device" -> {"append", "reload", "project", "find", "collect", "done"}
    [] kind = "create" -> {"list", "read", "append", "token", "done"}
    [] kind \in {"rename", "remove"} -> {"list", "read", "append", "done"}
    [] kind = "action" -> {"append", "reload", "project", "current", "done"}
    [] kind = "attach" ->
         {"provider", "list", "read", "append", "reload", "project", "current", "done"}
    [] kind = "reconfigure" ->
         {"provider", "credential", "list", "read", "append", "reload", "project", "current", "done"}

Named(r) ==
  LET ask == req[r].ask IN
  /\ ask.kind = "device" => device[ask.id].status # "none"
  /\ ask.kind \in {"rename", "issue", "withdraw"} => IsProvider(ask.id)
  /\ ask.kind \in {"remove", "attach", "reconfigure"} => resource[ask.id].kind # "none"
  /\ ask.kind = "attach" => device[ask.device].status # "none"
  /\ ask.kind \in {"action", "reconfigure"} => action[ask.action].status # "none"
  /\ ask.kind \in {"attach", "reconfigure"} /\ req[r].pc \in {"provider", "list", "read"} =>
       IsProvider(ask.id)
  /\ req[r].pc = "token" => ask.what = "provider" /\ resource[r].kind # "none"

Placed == \A r \in Requests : req[r].pc # "new" => req[r].pc \in PcsOf(req[r].ask.kind) /\ Named(r)

\* Requests under way at the same time know of each other, now and for ever.
Beside ==
  /\ \A r, s \in Requests : s \in req[r].beside => r \in req[s].beside
  /\ \A r, s \in UnderWay : r # s => s \in req[r].beside
  /\ \A r \in Requests : req[r].beside \subseteq Requests \ {r}

Base == StreamTypes /\ Existing /\ RequestTypes /\ Created /\ Placed /\ Beside

LEMMA AskKinds ==
  ASSUME NEW ask \in Asks
  PROVE  /\ ask.kind \in {"register", "limit", "device", "create", "rename", "remove", "issue",
                          "withdraw", "attach", "reconfigure", "action", "channel"}
         /\ ask.kind = "limit" => ask.to \in Limits
         /\ ask.kind = "device" => /\ ask.id \in DeviceIds
                                   /\ ask.to \in {"enabled", "disabled", "decommissioned"}
         /\ ask.kind = "create" => ask.what \in {"credential", "provider"} /\ ask.name \in Names
         /\ ask.kind = "rename" => ask.id \in Resources /\ ask.name \in Names
         /\ ask.kind \in {"remove", "issue", "withdraw"} => ask.id \in Resources
         /\ ask.kind = "attach" => ask.device \in DeviceIds /\ ask.id \in Resources
         /\ ask.kind = "reconfigure" => ask.action \in ActionIds /\ ask.id \in Resources
         /\ ask.kind = "action" => /\ ask.action \in ActionIds
                                   /\ ask.to \in {"enabled", "disabled", "detached"}
         /\ ask.kind = "channel" => ask.to \in {"registered", "reconfigured", "revoked"}
  BY DEF Asks

LEMMA IdSets == Requests \subseteq DeviceIds /\ Requests \subseteq Resources /\ Requests \subseteq ActionIds
  BY DEF DeviceIds, Resources, ActionIds

-----------------------------------------------------------------------------
(* How a request proceeds. *)

Proceeds(r) ==
  /\ r \in UnderWay
  /\ \A q \in Requests : q # r => req'[q] = req[q]
  /\ req' = [q \in Requests |-> req'[q]] /\ IsRequest(req'[r])
  /\ req'[r].ask = req[r].ask /\ req'[r].seen = req[r].seen /\ req'[r].beside = req[r].beside

LEMMA GotoProceeds ==
  ASSUME RequestTypes, NEW r \in UnderWay, NEW pc, Goto(r, pc)
  PROVE  /\ Proceeds(r) /\ req'[r].pc = pc
         /\ req'[r].todo = req[r].todo /\ req'[r].found = req[r].found
  BY DEF RequestTypes, IsRequest, Proceeds, Goto, UnderWay

\* One field at a time: g is f with another value in one field of r's record.
Sets(f, g, r, fields) ==
  /\ g = [q \in Requests |-> g[q]] /\ IsRequest(g[r])
  /\ \A q \in Requests \ {r} : g[q] = f[q]
  /\ "pc" \in fields \/ g[r].pc = f[r].pc
  /\ "todo" \in fields \/ g[r].todo = f[r].todo
  /\ "found" \in fields \/ g[r].found = f[r].found
  /\ g[r].ask = f[r].ask /\ g[r].seen = f[r].seen /\ g[r].beside = f[r].beside

\* What each step other than a load makes of the request's record.
LEMMA ListStep ==
  ASSUME RequestTypes, NEW r \in Requests, List(r)
  PROVE  /\ Proceeds(r) /\ req'[r].todo = Listed(req[r].ask) /\ req'[r].found = {}
         /\ req'[r].pc = IF req[r].pc = "list" THEN "read" ELSE "collect"
<1>1. r \in UnderWay
  BY DEF List, UnderWay
<1>2. req = [q \in Requests |-> req[q]] /\ IsRequest(req[r])
  BY DEF RequestTypes
<1>3. PICK pc : pc = IF req[r].pc = "list" THEN "read" ELSE "collect"
  OBVIOUS
<1>4. PICK f : f = [req EXCEPT ![r].todo = Listed(req[r].ask)]
  OBVIOUS
<1>5. Sets(req, f, r, {"todo"}) /\ f[r].todo = Listed(req[r].ask)
  BY <1>2, <1>4 DEF Sets, IsRequest
<1>6. f = [q \in Requests |-> f[q]] /\ IsRequest(f[r])
  BY <1>5 DEF Sets
<1>7. PICK g : g = [f EXCEPT ![r].found = {}]
  OBVIOUS
<1>8. Sets(f, g, r, {"found"}) /\ g[r].found = {}
  BY <1>6, <1>7 DEF Sets, IsRequest
<1>9. g = [q \in Requests |-> g[q]] /\ IsRequest(g[r])
  BY <1>8 DEF Sets
<1>10. PICK h : h = [g EXCEPT ![r].pc = pc]
  OBVIOUS
<1>11. Sets(g, h, r, {"pc"}) /\ h[r].pc = pc
  BY <1>9, <1>10 DEF Sets, IsRequest
<1>12. req' = h
  BY <1>3, <1>4, <1>7, <1>10 DEF List
<1> QED
  BY <1>1, <1>3, <1>5, <1>8, <1>11, <1>12 DEF Sets, Proceeds

LEMMA ReadStep ==
  ASSUME RequestTypes, NEW r \in Requests, ReadNext(r)
  PROVE  /\ Proceeds(r) /\ req'[r].pc = req[r].pc
         /\ \E x \in req[r].todo :
              /\ req'[r].todo = req[r].todo \ {x}
              /\ req'[r].found =
                   IF ~Counts(r, x) THEN req[r].found
                   ELSE req[r].found \cup {IF req[r].pc = "read" THEN x ELSE action[x].target}
<1>1. r \in UnderWay
  BY DEF ReadNext, UnderWay
<1>2. req = [q \in Requests |-> req[q]] /\ IsRequest(req[r])
  BY DEF RequestTypes
<1>3. PICK x \in req[r].todo :
        req' = [req EXCEPT ![r].todo = @ \ {x},
         ![r].found = IF ~Counts(r, x) THEN @
                      ELSE @ \cup {IF req[r].pc = "read" THEN x ELSE action[x].target}]
  BY DEF ReadNext
<1>4. PICK todo : todo = req[r].todo \ {x}
  OBVIOUS
<1>5. PICK f : f = [req EXCEPT ![r].todo = todo]
  OBVIOUS
<1>6. Sets(req, f, r, {"todo"}) /\ f[r].todo = todo
  BY <1>2, <1>5 DEF Sets, IsRequest
<1>7. PICK found : found = IF ~Counts(r, x) THEN f[r].found
                 ELSE f[r].found \cup {IF req[r].pc = "read" THEN x ELSE action[x].target}
  OBVIOUS
<1>8. f = [q \in Requests |-> f[q]] /\ IsRequest(f[r])
  BY <1>6 DEF Sets
<1>9. PICK g : g = [f EXCEPT ![r].found = found]
  OBVIOUS
<1>10. Sets(f, g, r, {"found"}) /\ g[r].found = found
  BY <1>8, <1>9 DEF Sets, IsRequest
<1>11. req' = g
  BY <1>2, <1>3, <1>4, <1>5, <1>7, <1>9
<1> QED
  BY <1>1, <1>4, <1>6, <1>7, <1>10, <1>11 DEF Sets, Proceeds

LEMMA ReloadStep ==
  ASSUME RequestTypes, NEW r \in Requests, Reload(r)
  PROVE  /\ Proceeds(r) /\ req'[r].pc = "project"
         /\ req'[r].found = {IF About(r) = "device" THEN device[ObjectOf(r)].status
                             ELSE action[ObjectOf(r)].status}
<1>1. r \in UnderWay
  BY DEF Reload, UnderWay
<1>2. req = [q \in Requests |-> req[q]] /\ IsRequest(req[r])
  BY DEF RequestTypes
<1>3. PICK found : found = {IF About(r) = "device" THEN device[ObjectOf(r)].status
                            ELSE action[ObjectOf(r)].status}
  OBVIOUS
<1>4. PICK f : f = [req EXCEPT ![r].pc = "project"]
  OBVIOUS
<1>5. Sets(req, f, r, {"pc"}) /\ f[r].pc = "project"
  BY <1>2, <1>4 DEF Sets, IsRequest
<1>6. f = [q \in Requests |-> f[q]] /\ IsRequest(f[r])
  BY <1>5 DEF Sets
<1>7. PICK g : g = [f EXCEPT ![r].found = found]
  OBVIOUS
<1>8. Sets(f, g, r, {"found"}) /\ g[r].found = found
  BY <1>6, <1>7 DEF Sets, IsRequest
<1>9. req' = g
  BY <1>3, <1>4, <1>7 DEF Reload
<1> QED
  BY <1>1, <1>3, <1>5, <1>8, <1>9 DEF Sets, Proceeds

LEMMA ProjectStep ==
  ASSUME RequestTypes, NEW r \in Requests, Project(r)
  PROVE  /\ Proceeds(r) /\ req'[r].found = {}
         /\ req'[r].pc = CASE req[r].ask.kind = "register" -> "done"
                           [] req[r].ask.kind = "device" -> "find"
                           [] OTHER -> "current"
<1>1. r \in UnderWay
  BY DEF Project, UnderWay
<1>2. req = [q \in Requests |-> req[q]] /\ IsRequest(req[r])
  BY DEF RequestTypes
<1>3. PICK pc : pc = CASE req[r].ask.kind = "register" -> "done"
                       [] req[r].ask.kind = "device" -> "find"
                       [] OTHER -> "current"
  OBVIOUS
<1>4. PICK f : f = [req EXCEPT ![r].found = {}]
  OBVIOUS
<1>5. Sets(req, f, r, {"found"}) /\ f[r].found = {}
  BY <1>2, <1>4 DEF Sets, IsRequest
<1>6. f = [q \in Requests |-> f[q]] /\ IsRequest(f[r])
  BY <1>5 DEF Sets
<1>7. PICK g : g = [f EXCEPT ![r].pc = pc]
  OBVIOUS
<1>8. Sets(f, g, r, {"pc"}) /\ g[r].pc = pc
  BY <1>6, <1>7 DEF Sets, IsRequest
<1>9. req' = g
  BY <1>3, <1>4, <1>7 DEF Project
<1> QED
  BY <1>1, <1>3, <1>5, <1>8, <1>9 DEF Sets, Proceeds

\* A load: the request begins, and those under way learn of it.
Opens(r, ask, seen, pc) ==
  /\ req' = [q \in Requests |-> req'[q]]
  /\ req'[r] = [pc |-> pc, ask |-> ask, seen |-> seen, todo |-> req[r].todo,
                found |-> req[r].found, beside |-> UnderWay]
  /\ \A q \in Requests \ {r} :
       req'[q] = IF q \in UnderWay
                   THEN [pc |-> req[q].pc, ask |-> req[q].ask, seen |-> req[q].seen,
                         todo |-> req[q].todo, found |-> req[q].found,
                         beside |-> req[q].beside \cup {r}]
                   ELSE req[q]

LEMMA BeginOpens ==
  ASSUME RequestTypes, NEW r \in Requests, NEW ask, NEW seen, NEW pc, Begin(r, ask, seen, pc)
  PROVE  /\ Opens(r, ask, seen, pc) /\ ask.kind \in MayAsk[r]
         /\ UNCHANGED <<account, channel, device, resource, action, shown, due>>
<1>1. ASSUME NEW q \in Requests, NEW rec, rec = req[q]
      PROVE  /\ [rec EXCEPT !.ask = ask, !.seen = seen, !.pc = pc, !.beside = UnderWay]
                  = [pc |-> pc, ask |-> ask, seen |-> seen, todo |-> rec.todo,
                     found |-> rec.found, beside |-> UnderWay]
             /\ [rec EXCEPT !.beside = @ \cup {r}]
                  = [pc |-> rec.pc, ask |-> rec.ask, seen |-> rec.seen, todo |-> rec.todo,
                     found |-> rec.found, beside |-> rec.beside \cup {r}]
  <2>1. rec = [pc |-> rec.pc, ask |-> rec.ask, seen |-> rec.seen, todo |-> rec.todo,
               found |-> rec.found, beside |-> rec.beside]
    BY <1>1 DEF RequestTypes, IsRequest
  <2>2. PICK one : one = [rec EXCEPT !.ask = ask]
    OBVIOUS
  <2>3. one = [pc |-> rec.pc, ask |-> ask, seen |-> rec.seen, todo |-> rec.todo,
               found |-> rec.found, beside |-> rec.beside]
    BY <2>1, <2>2
  <2>4. PICK two : two = [one EXCEPT !.seen = seen]
    OBVIOUS
  <2>5. two = [pc |-> rec.pc, ask |-> ask, seen |-> seen, todo |-> rec.todo,
               found |-> rec.found, beside |-> rec.beside]
    BY <2>3, <2>4
  <2>6. PICK three : three = [two EXCEPT !.pc = pc]
    OBVIOUS
  <2>7. three = [pc |-> pc, ask |-> ask, seen |-> seen, todo |-> rec.todo,
                 found |-> rec.found, beside |-> rec.beside]
    BY <2>5, <2>6
  <2>8. PICK four : four = [three EXCEPT !.beside = UnderWay]
    OBVIOUS
  <2>9. four = [pc |-> pc, ask |-> ask, seen |-> seen, todo |-> rec.todo,
                found |-> rec.found, beside |-> UnderWay]
    BY <2>7, <2>8
  <2>10. [rec EXCEPT !.ask = ask, !.seen = seen, !.pc = pc, !.beside = UnderWay] = four
    BY <2>2, <2>4, <2>6, <2>8
  <2>11. [rec EXCEPT !.beside = @ \cup {r}]
           = [pc |-> rec.pc, ask |-> rec.ask, seen |-> rec.seen, todo |-> rec.todo,
              found |-> rec.found, beside |-> rec.beside \cup {r}]
    BY <2>1
  <2> QED
    BY <2>9, <2>10, <2>11
<1>2. req'[r] = [pc |-> pc, ask |-> ask, seen |-> seen, todo |-> req[r].todo,
                 found |-> req[r].found, beside |-> UnderWay]
  BY <1>1 DEF Begin
<1>3. ASSUME NEW q \in Requests \ {r}, q \in UnderWay
      PROVE  req'[q] = [pc |-> req[q].pc, ask |-> req[q].ask, seen |-> req[q].seen,
                        todo |-> req[q].todo, found |-> req[q].found,
                        beside |-> req[q].beside \cup {r}]
  BY <1>1, <1>3 DEF Begin
<1>4. ASSUME NEW q \in Requests \ {r}, q \notin UnderWay
      PROVE  req'[q] = req[q]
  BY <1>4 DEF Begin
<1>5. req' = [q \in Requests |-> req'[q]]
  BY DEF Begin
<1>6. UNCHANGED <<account, channel, device, resource, action, shown, due>>
  BY DEF Begin, streams
<1> QED
  BY <1>2, <1>3, <1>4, <1>5, <1>6 DEF Opens, Begin

\* What a load finds.
Starts(ask, seen, pc) ==
  /\ ask \in Asks
  /\ ask.kind \in {"register", "limit"} => seen = account
  /\ ask.kind = "channel" =>
       seen = channel /\ ((channel.status = "active") <=> (ask.to # "registered"))
  /\ ask.kind = "device" => Live(ask.id) /\ seen = device[ask.id]
  /\ ask.kind \in {"rename", "remove", "issue", "withdraw"} => Active(ask.id)
  /\ ask.kind \in {"rename", "issue", "withdraw"} => IsProvider(ask.id)
  /\ ask.kind = "issue" => /\ seen = resource[ask.id]
                           /\ Cardinality(resource[ask.id].tokens) < MaxTokens
  /\ ask.kind = "attach" =>
       /\ device[ask.device].status # "none" /\ resource[ask.id].kind # "none"
       /\ IF IsProvider(ask.id) THEN pc = "provider" ELSE pc = "append" /\ Active(ask.id)
  /\ ask.kind = "action" => Attached(ask.action)
  /\ ask.kind = "reconfigure" =>
       /\ resource[ask.id].kind # "none"
       /\ \/ pc = resource[ask.id].kind
          \/ pc = "append" /\ ask.id = action[ask.action].target
  /\ ask.kind \in {"action", "reconfigure"} =>
       action[ask.action].status # "none" /\ seen = action[ask.action]
  /\ ask.kind \in {"limit", "channel", "device", "issue", "withdraw", "action"} => pc = "append"
  /\ ask.kind \in {"register", "create", "rename", "remove"} => pc = "list"

LEMMA LoadOpens ==
  ASSUME Base, NEW r \in Requests, Load(r)
  PROVE  /\ req[r].pc = "new"
         /\ \E ask, seen, pc : Opens(r, ask, seen, pc) /\ Starts(ask, seen, pc)
         /\ UNCHANGED <<account, channel, device, resource, action, shown, due>>
<1> USE DEF Base
<1>a. ASSUME NEW ask, NEW seen, NEW pc, Begin(r, ask, seen, pc), Starts(ask, seen, pc)
      PROVE  /\ \E a, s, p : Opens(r, a, s, p) /\ Starts(a, s, p)
             /\ UNCHANGED <<account, channel, device, resource, action, shown, due>>
  BY <1>a, BeginOpens
<1>1. CASE LoadAccount(r)
  <2>1. CASE Begin(r, [kind |-> "register"], account, "list")
    <3>1. Starts([kind |-> "register"], account, "list")
      BY DEF Starts, Asks
    <3> QED
      BY <2>1, <3>1, <1>a DEF Load
  <2>2. CASE \E n \in Limits : Begin(r, [kind |-> "limit", to |-> n], account, "append")
    <3>1. PICK n \in Limits : Begin(r, [kind |-> "limit", to |-> n], account, "append")
      BY <2>2
    <3>2. Starts([kind |-> "limit", to |-> n], account, "append")
      BY DEF Starts, Asks
    <3> QED
      BY <3>1, <3>2, <1>a DEF Load
  <2> QED
    BY <1>1, <2>1, <2>2 DEF LoadAccount
<1>2. CASE LoadChannel(r)
  <2>1. PICK to \in {"registered", "reconfigured", "revoked"} :
          /\ (channel.status = "active") <=> (to # "registered")
          /\ Begin(r, [kind |-> "channel", to |-> to], channel, "append")
    BY <1>2 DEF LoadChannel
  <2>2. Starts([kind |-> "channel", to |-> to], channel, "append")
    BY <2>1 DEF Starts, Asks
  <2> QED
    BY <2>1, <2>2, <1>a DEF Load
<1>3. CASE LoadDevice(r)
  <2>1. CASE \E d \in DeviceIds, to \in {"enabled", "disabled", "decommissioned"} :
               Live(d) /\ Begin(r, [kind |-> "device", id |-> d, to |-> to], device[d], "append")
    <3>1. PICK d \in DeviceIds, to \in {"enabled", "disabled", "decommissioned"} :
            Live(d) /\ Begin(r, [kind |-> "device", id |-> d, to |-> to], device[d], "append")
      BY <2>1
    <3>2. Starts([kind |-> "device", id |-> d, to |-> to], device[d], "append")
      BY <3>1 DEF Starts, Asks
    <3> QED
      BY <3>1, <3>2, <1>a DEF Load
  <2>2. CASE \E d \in DeviceIds, p \in Resources :
               /\ Live(d) /\ IsProvider(p)
               /\ Begin(r, [kind |-> "attach", device |-> d, id |-> p], device[d], "provider")
    <3>1. PICK d \in DeviceIds, p \in Resources :
               /\ Live(d) /\ IsProvider(p)
               /\ Begin(r, [kind |-> "attach", device |-> d, id |-> p], device[d], "provider")
      BY <2>2
    <3>2. Starts([kind |-> "attach", device |-> d, id |-> p], device[d], "provider")
      BY <3>1 DEF Starts, Asks, Live, IsProvider
    <3> QED
      BY <3>1, <3>2, <1>a DEF Load
  <2> QED
    BY <1>3, <2>1, <2>2 DEF LoadDevice
<1>4. CASE LoadCredential(r)
  <2>1. PICK c \in Resources :
    /\ Active(c) /\ ~IsProvider(c)
    /\ \/ Begin(r, [kind |-> "remove", id |-> c], resource[c], "list")
       \/ \E d \in DeviceIds : device[d].status # "none"
            /\ Begin(r, [kind |-> "attach", device |-> d, id |-> c], resource[c], "append")
    BY <1>4 DEF LoadCredential
  <2>2. resource[c].kind # "none"
    BY <2>1 DEF Existing, Active
  <2>3. CASE Begin(r, [kind |-> "remove", id |-> c], resource[c], "list")
    <3>1. Starts([kind |-> "remove", id |-> c], resource[c], "list")
      BY <2>1 DEF Starts, Asks
    <3> QED
      BY <2>3, <3>1, <1>a DEF Load
  <2>4. CASE \E d \in DeviceIds : device[d].status # "none"
            /\ Begin(r, [kind |-> "attach", device |-> d, id |-> c], resource[c], "append")
    <3>1. PICK d \in DeviceIds : device[d].status # "none"
            /\ Begin(r, [kind |-> "attach", device |-> d, id |-> c], resource[c], "append")
      BY <2>4
    <3>2. Starts([kind |-> "attach", device |-> d, id |-> c], resource[c], "append")
      BY <2>1, <2>2, <3>1 DEF Starts, Asks
    <3> QED
      BY <3>1, <3>2, <1>a DEF Load
  <2> QED
    BY <2>1, <2>3, <2>4
<1>5. CASE LoadProvider(r)
  <2>1. PICK p \in Resources :
    /\ Active(p) /\ IsProvider(p)
    /\ \/ \E n \in Names \ {resource[p].name} :
            Begin(r, [kind |-> "rename", id |-> p, name |-> n], resource[p], "list")
       \/ Begin(r, [kind |-> "remove", id |-> p], resource[p], "list")
       \/ /\ Cardinality(resource[p].tokens) < MaxTokens
          /\ Begin(r, [kind |-> "issue", id |-> p], resource[p], "append")
       \/ \E t \in resource[p].tokens :
            Begin(r, [kind |-> "withdraw", id |-> p, token |-> t], resource[p], "append")
    BY <1>5 DEF LoadProvider
  <2>2. CASE \E n \in Names \ {resource[p].name} :
            Begin(r, [kind |-> "rename", id |-> p, name |-> n], resource[p], "list")
    <3>1. PICK n \in Names \ {resource[p].name} :
            Begin(r, [kind |-> "rename", id |-> p, name |-> n], resource[p], "list")
      BY <2>2
    <3>2. Starts([kind |-> "rename", id |-> p, name |-> n], resource[p], "list")
      BY <2>1 DEF Starts, Asks
    <3> QED
      BY <3>1, <3>2, <1>a DEF Load
  <2>3. CASE Begin(r, [kind |-> "remove", id |-> p], resource[p], "list")
    <3>1. Starts([kind |-> "remove", id |-> p], resource[p], "list")
      BY <2>1 DEF Starts, Asks
    <3> QED
      BY <2>3, <3>1, <1>a DEF Load
  <2>4. CASE /\ Cardinality(resource[p].tokens) < MaxTokens
             /\ Begin(r, [kind |-> "issue", id |-> p], resource[p], "append")
    <3>1. Starts([kind |-> "issue", id |-> p], resource[p], "append")
      BY <2>1, <2>4 DEF Starts, Asks
    <3> QED
      BY <2>4, <3>1, <1>a DEF Load
  <2>5. CASE \E t \in resource[p].tokens :
            Begin(r, [kind |-> "withdraw", id |-> p, token |-> t], resource[p], "append")
    <3>1. PICK t \in resource[p].tokens :
            Begin(r, [kind |-> "withdraw", id |-> p, token |-> t], resource[p], "append")
      BY <2>5
    <3>2. t \in Resources
      BY <3>1 DEF StreamTypes, ResourceRecord
    <3>3. Starts([kind |-> "withdraw", id |-> p, token |-> t], resource[p], "append")
      BY <2>1, <3>2 DEF Starts, Asks
    <3> QED
      BY <3>1, <3>3, <1>a DEF Load
  <2> QED
    BY <2>1, <2>2, <2>3, <2>4, <2>5
<1>6. CASE LoadAction(r)
  <2>1. PICK a \in ActionIds :
    \/ \E to \in {"enabled", "disabled", "detached"} :
         /\ Attached(a)
         /\ Begin(r, [kind |-> "action", action |-> a, to |-> to], action[a], "append")
    \/ \E x \in Resources :
         /\ action[a].status # "none"
         /\ resource[x].kind = resource[action[a].target].kind
         /\ Begin(r, [kind |-> "reconfigure", action |-> a, id |-> x], action[a],
                  resource[x].kind)
    \/ /\ action[a].status # "none"
       /\ Begin(r, [kind |-> "reconfigure", action |-> a, id |-> action[a].target],
                action[a], "append")
    BY <1>6 DEF LoadAction
  <2>2. action[a].status # "none" => /\ action[a].target \in Resources
                                     /\ resource[action[a].target].kind # "none"
    BY DEF Existing
  <2>3. CASE \E to \in {"enabled", "disabled", "detached"} :
         /\ Attached(a)
         /\ Begin(r, [kind |-> "action", action |-> a, to |-> to], action[a], "append")
    <3>1. PICK to \in {"enabled", "disabled", "detached"} :
         /\ Attached(a)
         /\ Begin(r, [kind |-> "action", action |-> a, to |-> to], action[a], "append")
      BY <2>3
    <3>2. Starts([kind |-> "action", action |-> a, to |-> to], action[a], "append")
      BY <3>1 DEF Starts, Asks, Attached
    <3> QED
      BY <3>1, <3>2, <1>a DEF Load
  <2>4. CASE \E x \in Resources :
         /\ action[a].status # "none"
         /\ resource[x].kind = resource[action[a].target].kind
         /\ Begin(r, [kind |-> "reconfigure", action |-> a, id |-> x], action[a],
                  resource[x].kind)
    <3>1. PICK x \in Resources :
         /\ action[a].status # "none"
         /\ resource[x].kind = resource[action[a].target].kind
         /\ Begin(r, [kind |-> "reconfigure", action |-> a, id |-> x], action[a],
                  resource[x].kind)
      BY <2>4
    <3>2. Starts([kind |-> "reconfigure", action |-> a, id |-> x], action[a], resource[x].kind)
      BY <2>2, <3>1 DEF Starts, Asks
    <3> QED
      BY <3>1, <3>2, <1>a DEF Load
  <2>5. CASE /\ action[a].status # "none"
             /\ Begin(r, [kind |-> "reconfigure", action |-> a, id |-> action[a].target],
                      action[a], "append")
    <3>1. Starts([kind |-> "reconfigure", action |-> a, id |-> action[a].target],
                 action[a], "append")
      BY <2>2, <2>5 DEF Starts, Asks
    <3> QED
      BY <2>5, <3>1, <1>a DEF Load
  <2> QED
    BY <2>1, <2>3, <2>4, <2>5
<1>7. CASE NameNew(r)
  <2>1. PICK what \in {"credential", "provider"}, n \in Names :
          Begin(r, [kind |-> "create", what |-> what, name |-> n], None, "list")
    BY <1>7 DEF NameNew
  <2>2. Starts([kind |-> "create", what |-> what, name |-> n], None, "list")
    BY DEF Starts, Asks
  <2> QED
    BY <2>1, <2>2, <1>a DEF Load
<1> QED
  BY <1>1, <1>2, <1>3, <1>4, <1>5, <1>6, <1>7 DEF Load

-----------------------------------------------------------------------------
(* What each append does. *)

Same == UNCHANGED <<account, channel, device, resource, action, shown, due>>

Appended(r, pc) ==
  /\ req[r].pc = "append"
  /\ Proceeds(r) /\ req'[r].pc = pc
  /\ req'[r].todo = req[r].todo /\ req'[r].found = req[r].found
  /\ shown' = shown
  /\ due' = due \cup {p \in Resources :
       IsProvider(p) /\ Content(p, device, action) # Content(p, device', action')}

LEMMA AppendsAppended ==
  ASSUME RequestTypes, NEW r \in Requests, NEW pc, req[r].pc = "append", Appends(r, pc)
  PROVE  Appended(r, pc)
<1>1. r \in UnderWay
  BY DEF UnderWay
<1>2. Goto(r, pc)
  BY DEF Appends
<1> QED
  BY <1>1, <1>2, GotoProceeds DEF Appends, Appended

LEMMA CheckTargetStep ==
  ASSUME RequestTypes, NEW r \in Requests, CheckTarget(r)
  PROVE  /\ Proceeds(r) /\ Same
         /\ req'[r].pc =
              IF ~Active(req[r].ask.id) THEN "done"
              ELSE IF req[r].pc = "provider" THEN "list" ELSE "append"
         /\ req'[r].todo = req[r].todo /\ req'[r].found = req[r].found
<1>1. r \in UnderWay
  BY DEF UnderWay, CheckTarget
<1>2. Goto(r, IF ~Active(req[r].ask.id) THEN "done"
              ELSE IF req[r].pc = "provider" THEN "list" ELSE "append")
  BY DEF CheckTarget, Refuse
<1>3. Same
  BY DEF CheckTarget, streams, Same
<1> QED
  BY <1>1, <1>2, <1>3, GotoProceeds

LEMMA DecideStep ==
  ASSUME RequestTypes, NEW r \in Requests, Decide(r)
  PROVE  /\ Proceeds(r) /\ Same /\ req[r].pc = "read" /\ req[r].todo = {}
         /\ \/ req'[r].pc = "done"
            \/ /\ req'[r].pc = "append"
               /\ ~(Cardinality(req[r].found) >=
                      (IF req[r].ask.kind = "register" THEN req[r].seen.limit ELSE 1))
         /\ req'[r].todo = req[r].todo /\ req'[r].found = req[r].found
<1>1. r \in UnderWay
  BY DEF UnderWay, Decide
<1>2. \/ Goto(r, "done")
      \/ /\ Goto(r, "append")
         /\ ~(Cardinality(req[r].found) >=
                      (IF req[r].ask.kind = "register" THEN req[r].seen.limit ELSE 1))
  BY DEF Decide, Refuse
<1>3. Same
  BY DEF Decide, streams, Same
<1> QED
  BY <1>1, <1>2, <1>3, GotoProceeds DEF Decide

LEMMA ConflictStep ==
  ASSUME RequestTypes, NEW r \in Requests, Conflict(r)
  PROVE  /\ Proceeds(r) /\ Same /\ req[r].pc = "append" /\ req'[r].pc = "done"
         /\ req'[r].todo = req[r].todo /\ req'[r].found = req[r].found
<1>1. r \in UnderWay
  BY DEF UnderWay, Conflict
<1>2. Goto(r, "done")
  BY DEF Conflict, Refuse
<1>3. Same
  BY DEF Conflict, streams, Same
<1> QED
  BY <1>1, <1>2, <1>3, GotoProceeds DEF Conflict

LEMMA AppendAccountStep ==
  ASSUME Base, NEW r \in Requests, AppendAccount(r)
  PROVE  /\ Appended(r, "done") /\ req[r].ask.kind = "limit"
         /\ account.version = req[r].seen.version
         /\ account' = [limit |-> req[r].ask.to, version |-> account.version + 1]
         /\ UNCHANGED <<channel, device, resource, action>>
<1>1. Appends(r, "done") /\ req[r].pc = "append"
  BY DEF AppendAccount, Asked
<1> QED
  BY <1>1, AppendsAppended DEF AppendAccount, Asked, Fresh, Base

LEMMA AppendChannelStep ==
  ASSUME Base, NEW r \in Requests, AppendChannel(r)
  PROVE  /\ Appended(r, "done") /\ req[r].ask.kind = "channel"
         /\ channel.version = req[r].seen.version
         /\ channel' = [status |-> IF req[r].ask.to = "revoked" THEN "revoked" ELSE "active",
                        version |-> channel.version + 1]
         /\ UNCHANGED <<account, device, resource, action>>
<1>1. Appends(r, "done") /\ req[r].pc = "append"
  BY DEF AppendChannel, Asked
<1> QED
  BY <1>1, AppendsAppended DEF AppendChannel, Asked, Fresh, Base

LEMMA RegisterStep ==
  ASSUME Base, NEW r \in Requests, Register(r)
  PROVE  /\ Appended(r, "reload") /\ req[r].ask.kind = "register"
         /\ r \in DeviceIds /\ device[r].status = "none" /\ device[r].version = 0
         /\ device' \in [DeviceIds -> DeviceRecord]
         /\ device'[r] = [status |-> "enabled", version |-> 1]
         /\ \A d \in DeviceIds \ {r} : device'[d] = device[d]
         /\ UNCHANGED <<account, channel, resource, action>>
<1>1. Appends(r, "reload") /\ req[r].pc = "append" /\ req[r].ask.kind = "register"
  BY DEF Register, Asked
<1>2. r \in DeviceIds
  BY IdSets
<1>3. device[r].status = "none"
  BY <1>1 DEF Base, Created, Creates
<1>4. device[r].version = 0
  BY <1>2, <1>3 DEF Base, Existing
<1>5. device' = [device EXCEPT ![r] = [status |-> "enabled", version |-> 1]]
  BY DEF Register
<1>6. [status |-> "enabled", version |-> 1] \in DeviceRecord
  BY DEF DeviceRecord, Statuses
<1>7. /\ device' \in [DeviceIds -> DeviceRecord]
      /\ device'[r] = [status |-> "enabled", version |-> 1]
      /\ \A d \in DeviceIds \ {r} : device'[d] = device[d]
  BY <1>2, <1>5, <1>6 DEF Base, StreamTypes
<1>8. Appended(r, "reload")
  BY <1>1, AppendsAppended DEF Base
<1>9. UNCHANGED <<account, channel, resource, action>>
  BY DEF Register
<1> QED
  BY <1>1, <1>2, <1>3, <1>4, <1>7, <1>8, <1>9

LEMMA AppendDeviceStep ==
  ASSUME Base, NEW r \in Requests, AppendDevice(r), NEW o, o = req[r].ask.id
  PROVE  /\ Appended(r, "reload") /\ req[r].ask.kind = "device"
         /\ req[r].ask.to \in {"enabled", "disabled", "decommissioned"}
         /\ o \in DeviceIds /\ device[o].status # "none"
         /\ device[o].version = req[r].seen.version /\ device[o].version \in Nat
         /\ device' \in [DeviceIds -> DeviceRecord]
         /\ device'[o] = [status |-> req[r].ask.to, version |-> device[o].version + 1]
         /\ \A d \in DeviceIds \ {o} : device'[d] = device[d]
         /\ UNCHANGED <<account, channel, resource, action>>
<1>1. Appends(r, "reload") /\ req[r].pc = "append" /\ req[r].ask.kind = "device"
  BY DEF AppendDevice, Asked
<1>2. req[r].ask \in Asks /\ Named(r)
  BY <1>1 DEF Base, Placed, RequestTypes
<1>3. o \in DeviceIds /\ req[r].ask.to \in {"enabled", "disabled", "decommissioned"}
  BY <1>1, <1>2, AskKinds
<1>4. device[o].status # "none"
  BY <1>1, <1>2 DEF Named
<1>5. device[o] \in DeviceRecord
  BY <1>3 DEF Base, StreamTypes
<1>6. PICK rec : rec = [status |-> req[r].ask.to, version |-> device[o].version + 1]
  OBVIOUS
<1>7. device[o].version \in Nat
  BY <1>5 DEF DeviceRecord
<1>8. rec \in DeviceRecord
  BY <1>3, <1>6, <1>7 DEF DeviceRecord, Statuses
<1>9. device' = [device EXCEPT ![o].status = req[r].ask.to, ![o].version = @ + 1]
  BY DEF AppendDevice
<1>10. PICK mid : mid = [device EXCEPT ![o].status = req[r].ask.to]
  OBVIOUS
<1>11. /\ mid = [d \in DeviceIds |-> mid[d]]
       /\ mid[o] = [status |-> req[r].ask.to, version |-> device[o].version]
       /\ \A d \in DeviceIds \ {o} : mid[d] = device[d]
  BY <1>3, <1>5, <1>10 DEF Base, StreamTypes, DeviceRecord
<1>12. PICK new : new = [mid EXCEPT ![o].version = @ + 1]
  OBVIOUS
<1>13. /\ new = [d \in DeviceIds |-> new[d]] /\ new[o] = rec
       /\ \A d \in DeviceIds \ {o} : new[d] = device[d]
  BY <1>3, <1>6, <1>11, <1>12
<1>14. device' = new
  BY <1>9, <1>10, <1>12
<1>15. \A d \in DeviceIds : device[d] \in DeviceRecord
  BY DEF Base, StreamTypes
<1>16. new \in [DeviceIds -> DeviceRecord]
  <2>1. ASSUME NEW d \in DeviceIds
        PROVE  new[d] \in DeviceRecord
    BY <1>8, <1>13, <1>15
  <2> QED
    BY <2>1, <1>13
<1>17. Appended(r, "reload")
  BY <1>1, AppendsAppended DEF Base
<1>18. UNCHANGED <<account, channel, resource, action>>
  BY DEF AppendDevice
<1>19. device[o].version = req[r].seen.version
  BY DEF AppendDevice, Fresh
<1> QED
  BY <1>1, <1>3, <1>4, <1>6, <1>7, <1>13, <1>14, <1>16, <1>17, <1>18, <1>19

LEMMA CreateStep ==
  ASSUME Base, NEW r \in Requests, Create(r)
  PROVE  /\ Appended(r, IF req[r].ask.what = "provider" THEN "token" ELSE "done")
         /\ req[r].ask.kind = "create" /\ req[r].ask.what \in {"credential", "provider"}
         /\ r \in Resources /\ resource[r].kind = "none" /\ resource[r].tokens = {}
         /\ resource' \in [Resources -> ResourceRecord]
         /\ resource'[r] = [kind |-> req[r].ask.what, status |-> "active",
                            name |-> req[r].ask.name, tokens |-> {}, by |-> r]
         /\ \A x \in Resources \ {r} : resource'[x] = resource[x]
         /\ UNCHANGED <<account, channel, device, action>>
<1>1. /\ Appends(r, IF req[r].ask.what = "provider" THEN "token" ELSE "done")
      /\ req[r].pc = "append" /\ req[r].ask.kind = "create"
  BY DEF Create, Asked
<1>2. r \in Resources
  BY IdSets
<1>3. resource[r].kind = "none" /\ resource[r].tokens = {}
  BY <1>1, <1>2 DEF Base, Created, Creates, Existing
<1>4. req[r].ask.what \in {"credential", "provider"} /\ req[r].ask.name \in Names
  <2>1. req[r].ask \in Asks
    BY <1>1 DEF Base, RequestTypes
  <2> QED
    BY <1>1, <2>1, AskKinds
<1>5. PICK new : new = [kind |-> req[r].ask.what, status |-> "active",
                        name |-> req[r].ask.name, tokens |-> {}, by |-> r]
  OBVIOUS
<1>6. new \in ResourceRecord
  BY <1>4, <1>5 DEF ResourceRecord
<1>7. resource' = [resource EXCEPT ![r] = new]
  BY <1>5 DEF Create
<1>8. /\ resource' \in [Resources -> ResourceRecord] /\ resource'[r] = new
      /\ \A x \in Resources \ {r} : resource'[x] = resource[x]
  BY <1>2, <1>6, <1>7 DEF Base, StreamTypes
<1>9. Appended(r, IF req[r].ask.what = "provider" THEN "token" ELSE "done")
  BY <1>1, AppendsAppended DEF Base
<1>10. UNCHANGED <<account, channel, device, action>>
  BY DEF Create
<1> QED
  BY <1>1, <1>2, <1>3, <1>4, <1>5, <1>8, <1>9, <1>10

LEMMA FirstTokenStep ==
  ASSUME Base, NEW r \in Requests, FirstToken(r)
  PROVE  /\ Proceeds(r) /\ req[r].pc = "token" /\ req'[r].pc = "done"
         /\ req'[r].todo = req[r].todo /\ req'[r].found = req[r].found
         /\ r \in Resources /\ resource[r].kind # "none"
         /\ resource' \in [Resources -> ResourceRecord]
         /\ resource'[r] = [kind |-> resource[r].kind, status |-> resource[r].status,
                            name |-> resource[r].name, tokens |-> resource[r].tokens \cup {r},
                            by |-> resource[r].by]
         /\ \A x \in Resources \ {r} : resource'[x] = resource[x]
         /\ UNCHANGED <<account, channel, device, action, shown, due>>
<1>1. req[r].pc = "token" /\ Goto(r, "done")
  BY DEF FirstToken
<1>2. r \in Resources /\ r \in UnderWay
  BY <1>1, IdSets DEF UnderWay
<1>3. resource[r].kind # "none"
  BY <1>1 DEF Base, Placed, Named
<1>4. resource[r] \in ResourceRecord
  BY <1>2 DEF Base, StreamTypes
<1>5. PICK new : new = [resource[r] EXCEPT !.tokens = @ \cup {r}]
  OBVIOUS
<1>6. new = [kind |-> resource[r].kind, status |-> resource[r].status,
             name |-> resource[r].name, tokens |-> resource[r].tokens \cup {r},
             by |-> resource[r].by]
  BY <1>4, <1>5 DEF ResourceRecord
<1>7. new \in ResourceRecord
  BY <1>2, <1>4, <1>6 DEF ResourceRecord
<1>8. resource' = [resource EXCEPT ![r] = new]
  BY <1>5 DEF FirstToken
<1>9. /\ resource' \in [Resources -> ResourceRecord] /\ resource'[r] = new
      /\ \A x \in Resources \ {r} : resource'[x] = resource[x]
  BY <1>2, <1>7, <1>8 DEF Base, StreamTypes
<1>10. /\ Proceeds(r) /\ req'[r].pc = "done"
       /\ req'[r].todo = req[r].todo /\ req'[r].found = req[r].found
  BY <1>1, <1>2, GotoProceeds DEF Base
<1>11. UNCHANGED <<account, channel, device, action, shown, due>>
  BY DEF FirstToken
<1> QED
  BY <1>1, <1>2, <1>3, <1>6, <1>9, <1>10, <1>11

LEMMA RemoveStep ==
  ASSUME Base, NEW r \in Requests, Remove(r), NEW o, o = req[r].ask.id
  PROVE  /\ Appended(r, "done") /\ req[r].ask.kind = "remove"
         /\ o \in Resources /\ resource[o].kind # "none"
         /\ IsProvider(o) \/ Active(o)
         /\ resource' \in [Resources -> ResourceRecord]
         /\ resource'[o] = [kind |-> resource[o].kind, status |-> "removed",
                            name |-> resource[o].name, tokens |-> resource[o].tokens, by |-> r]
         /\ \A x \in Resources \ {o} : resource'[x] = resource[x]
         /\ UNCHANGED <<account, channel, device, action>>
<1>1. Appends(r, "done") /\ req[r].pc = "append" /\ req[r].ask.kind = "remove"
  BY DEF Remove, Asked
<1>2. req[r].ask \in Asks /\ Named(r)
  BY <1>1 DEF Base, Placed, RequestTypes
<1>3. o \in Resources /\ resource[o].kind # "none"
  BY <1>1, <1>2, AskKinds DEF Named
<1>4. resource[o] \in ResourceRecord
  BY <1>3 DEF Base, StreamTypes
<1>5. PICK mid : mid = [resource[o] EXCEPT !.status = "removed"]
  OBVIOUS
<1>6. mid = [kind |-> resource[o].kind, status |-> "removed",
             name |-> resource[o].name, tokens |-> resource[o].tokens, by |-> resource[o].by]
  BY <1>4, <1>5 DEF ResourceRecord
<1>7. PICK new : new = [mid EXCEPT !.by = r]
  OBVIOUS
<1>8. new = [kind |-> resource[o].kind, status |-> "removed",
             name |-> resource[o].name, tokens |-> resource[o].tokens, by |-> r]
  BY <1>6, <1>7
<1>9. new \in ResourceRecord
  BY <1>4, <1>8 DEF ResourceRecord
<1>10. PICK f : f = [resource EXCEPT ![o].status = "removed"]
  OBVIOUS
<1>11. f = [resource EXCEPT ![o] = mid]
  BY <1>5, <1>10
<1>12. /\ f = [x \in Resources |-> f[x]] /\ f[o] = mid
       /\ \A x \in Resources \ {o} : f[x] = resource[x]
  BY <1>3, <1>11 DEF Base, StreamTypes
<1>13. resource' = [f EXCEPT ![o].by = r]
  BY <1>10 DEF Remove
<1>14. resource' = [f EXCEPT ![o] = new]
  BY <1>7, <1>12, <1>13
<1>15. /\ resource' = [x \in Resources |-> resource'[x]] /\ resource'[o] = new
       /\ \A x \in Resources \ {o} : resource'[x] = resource[x]
  BY <1>3, <1>12, <1>14
<1>16. resource' \in [Resources -> ResourceRecord]
  BY <1>9, <1>15 DEF Base, StreamTypes
<1>17. Appended(r, "done")
  BY <1>1, AppendsAppended DEF Base
<1>18. UNCHANGED <<account, channel, device, action>> /\ (IsProvider(o) \/ Active(o))
  BY DEF Remove
<1> QED
  BY <1>1, <1>3, <1>8, <1>15, <1>16, <1>17, <1>18

LEMMA ChangeProviderStep ==
  ASSUME Base, NEW r \in Requests, ChangeProvider(r), NEW o, o = req[r].ask.id
  PROVE  /\ Appended(r, "done")
         /\ o \in Resources /\ resource[o].kind = "provider"
         /\ resource' \in [Resources -> ResourceRecord]
         /\ resource'[o].kind = resource[o].kind /\ resource'[o].status = resource[o].status
         /\ \/ /\ req[r].ask.kind = "rename" /\ resource'[o].tokens = resource[o].tokens
               /\ resource'[o].name = req[r].ask.name
               /\ resource'[o].by = IF Active(o) THEN r ELSE resource[o].by
            \/ /\ req[r].ask.kind = "issue"
               /\ resource'[o].tokens = resource[o].tokens \cup {r}
               /\ resource'[o].name = resource[o].name /\ resource'[o].by = resource[o].by
            \/ /\ req[r].ask.kind = "withdraw"
               /\ resource'[o].tokens = resource[o].tokens \ {req[r].ask.token}
               /\ resource'[o].name = resource[o].name /\ resource'[o].by = resource[o].by
         /\ \A x \in Resources \ {o} : resource'[x] = resource[x]
         /\ UNCHANGED <<account, channel, device, action>>
<1>1. /\ Appends(r, "done") /\ req[r].pc = "append"
      /\ req[r].ask.kind \in {"rename", "issue", "withdraw"}
  BY DEF ChangeProvider, Asked
<1>2. req[r].ask \in Asks /\ Named(r)
  BY <1>1 DEF Base, Placed, RequestTypes
<1>3. o \in Resources /\ resource[o].kind = "provider"
  BY <1>1, <1>2, AskKinds DEF Named, IsProvider
<1>4. resource[o] \in ResourceRecord /\ r \in Resources
  BY <1>3, IdSets DEF Base, StreamTypes
<1>5. Appended(r, "done")
  BY <1>1, AppendsAppended DEF Base
<1>6. UNCHANGED <<account, channel, device, action>>
  BY DEF ChangeProvider
<1>7. CASE req[r].ask.kind = "rename"
  <2>0. req[r].ask.name \in Names
    BY <1>2, <1>7, AskKinds
  <2>1. resource' = [resource EXCEPT ![o].name = req[r].ask.name,
                                     ![o].by = IF Active(o) THEN r ELSE @]
    BY <1>7 DEF ChangeProvider
  <2>2. PICK f : f = [resource EXCEPT ![o].name = req[r].ask.name]
    OBVIOUS
  <2>3. /\ f = [x \in Resources |-> f[x]]
        /\ \A x \in Resources \ {o} : f[x] = resource[x]
        /\ f[o] = [kind |-> resource[o].kind, status |-> resource[o].status,
                   name |-> req[r].ask.name, tokens |-> resource[o].tokens,
                   by |-> resource[o].by]
    BY <1>3, <1>4, <2>2 DEF Base, StreamTypes, ResourceRecord
  <2>4. PICK by : by = IF Active(o) THEN r ELSE resource[o].by
    OBVIOUS
  <2>5. resource' = [f EXCEPT ![o].by = by]
    BY <1>3, <2>1, <2>2, <2>3, <2>4
  <2>6. PICK new : new = [f[o] EXCEPT !.by = by]
    OBVIOUS
  <2>7. new = [kind |-> resource[o].kind, status |-> resource[o].status,
               name |-> req[r].ask.name, tokens |-> resource[o].tokens, by |-> by]
    BY <2>3, <2>6
  <2>8. resource' = [f EXCEPT ![o] = new]
    BY <2>5, <2>6
  <2>9. /\ resource' = [x \in Resources |-> resource'[x]] /\ resource'[o] = new
        /\ \A x \in Resources \ {o} : resource'[x] = resource[x]
    BY <1>3, <2>3, <2>8
  <2>10. new \in ResourceRecord
    BY <1>4, <2>0, <2>4, <2>7 DEF ResourceRecord
  <2>11. resource' \in [Resources -> ResourceRecord]
    BY <2>9, <2>10 DEF Base, StreamTypes
  <2> QED
    BY <1>3, <1>5, <1>6, <1>7, <2>4, <2>7, <2>9, <2>11
<1>8. ASSUME req[r].ask.kind # "rename"
      PROVE  \E tokens \in SUBSET Resources :
               /\ resource' = [resource EXCEPT ![o].tokens = tokens]
               /\ \/ req[r].ask.kind = "issue" /\ tokens = resource[o].tokens \cup {r}
                  \/ /\ req[r].ask.kind = "withdraw"
                     /\ tokens = resource[o].tokens \ {req[r].ask.token}
  <2>1. resource[o].tokens \subseteq Resources
    BY <1>4 DEF ResourceRecord
  <2>2. CASE req[r].ask.kind = "issue"
    <3>1. resource' = [resource EXCEPT ![o].tokens = @ \cup {r}]
      BY <2>2 DEF ChangeProvider
    <3>2. resource' = [resource EXCEPT ![o].tokens = resource[o].tokens \cup {r}]
      BY <1>3, <3>1
    <3> QED
      BY <1>4, <2>1, <2>2, <3>2
  <2>3. CASE req[r].ask.kind = "withdraw"
    <3>1. resource' = [resource EXCEPT ![o].tokens = @ \ {req[r].ask.token}]
      BY <2>3 DEF ChangeProvider
    <3>2. resource' = [resource EXCEPT ![o].tokens = resource[o].tokens \ {req[r].ask.token}]
      BY <1>3, <3>1
    <3> QED
      BY <1>4, <2>1, <2>3, <3>2
  <2> QED
    BY <1>1, <1>8, <2>2, <2>3
<1>9. CASE req[r].ask.kind # "rename"
  <2>1. PICK tokens \in SUBSET Resources :
          /\ resource' = [resource EXCEPT ![o].tokens = tokens]
          /\ \/ req[r].ask.kind = "issue" /\ tokens = resource[o].tokens \cup {r}
             \/ /\ req[r].ask.kind = "withdraw"
                /\ tokens = resource[o].tokens \ {req[r].ask.token}
    BY <1>8, <1>9
  <2>2. PICK new : new = [resource[o] EXCEPT !.tokens = tokens]
    OBVIOUS
  <2>3. new = [kind |-> resource[o].kind, status |-> resource[o].status,
               name |-> resource[o].name, tokens |-> tokens, by |-> resource[o].by]
    BY <1>4, <2>2 DEF ResourceRecord
  <2>4. resource' = [resource EXCEPT ![o] = new]
    BY <2>1, <2>2
  <2>5. /\ resource' = [x \in Resources |-> resource'[x]] /\ resource'[o] = new
        /\ \A x \in Resources \ {o} : resource'[x] = resource[x]
    BY <1>3, <2>4 DEF Base, StreamTypes
  <2>6. new \in ResourceRecord
    BY <1>4, <2>3 DEF ResourceRecord
  <2>7. resource' \in [Resources -> ResourceRecord]
    BY <2>5, <2>6 DEF Base, StreamTypes
  <2>8. /\ resource'[o].kind = resource[o].kind /\ resource'[o].status = resource[o].status
        /\ resource'[o].name = resource[o].name /\ resource'[o].by = resource[o].by
        /\ resource'[o].tokens = tokens
    BY <2>3, <2>5
  <2> QED
    BY <1>3, <1>5, <1>6, <2>1, <2>5, <2>7, <2>8
<1> QED
  BY <1>7, <1>9

LEMMA AttachStep ==
  ASSUME Base, NEW r \in Requests, Attach(r)
  PROVE  /\ Appended(r, "reload") /\ req[r].ask.kind = "attach"
         /\ req[r].ask.device \in DeviceIds /\ device[req[r].ask.device].status # "none"
         /\ req[r].ask.id \in Resources /\ resource[req[r].ask.id].kind # "none"
         /\ r \in ActionIds /\ action[r].status = "none" /\ action[r].version = 0
         /\ action' \in [ActionIds -> ActionRecord]
         /\ action'[r] = [status |-> "enabled", device |-> req[r].ask.device,
                          target |-> req[r].ask.id, version |-> 1, by |-> r]
         /\ \A a \in ActionIds \ {r} : action'[a] = action[a]
         /\ UNCHANGED <<account, channel, device, resource>>
<1>1. Appends(r, "reload") /\ req[r].pc = "append" /\ req[r].ask.kind = "attach"
  BY DEF Attach, Asked
<1>2. req[r].ask \in Asks /\ Named(r)
  BY <1>1 DEF Base, Placed, RequestTypes
<1>3. /\ req[r].ask.device \in DeviceIds /\ device[req[r].ask.device].status # "none"
      /\ req[r].ask.id \in Resources /\ resource[req[r].ask.id].kind # "none"
  BY <1>1, <1>2, AskKinds DEF Named
<1>4. r \in ActionIds /\ action[r].status = "none"
  BY <1>1, IdSets DEF Base, Created, Creates
<1>5. action[r].version = 0
  BY <1>4 DEF Base, Existing
<1>6. PICK new : new = [status |-> "enabled", device |-> req[r].ask.device,
                        target |-> req[r].ask.id, version |-> 1, by |-> r]
  OBVIOUS
<1>7. new \in ActionRecord
  BY <1>3, <1>6 DEF ActionRecord, Statuses
<1>8. action' = [action EXCEPT ![r] = new]
  BY <1>6 DEF Attach
<1>9. /\ action' \in [ActionIds -> ActionRecord] /\ action'[r] = new
      /\ \A a \in ActionIds \ {r} : action'[a] = action[a]
  BY <1>4, <1>7, <1>8 DEF Base, StreamTypes
<1>10. Appended(r, "reload")
  BY <1>1, AppendsAppended DEF Base
<1>11. UNCHANGED <<account, channel, device, resource>>
  BY DEF Attach
<1> QED
  BY <1>1, <1>3, <1>4, <1>5, <1>6, <1>9, <1>10, <1>11

LEMMA AppendActionStep ==
  ASSUME Base, NEW r \in Requests, AppendAction(r), NEW o, o = req[r].ask.action
  PROVE  /\ Appended(r, "reload")
         /\ o \in ActionIds /\ action[o].status # "none"
         /\ action[o].version = req[r].seen.version /\ action[o].version \in Nat
         /\ action' \in [ActionIds -> ActionRecord]
         /\ \/ /\ req[r].ask.kind = "action"
               /\ req[r].ask.to \in {"enabled", "disabled", "detached"}
               /\ action'[o] = [status |-> req[r].ask.to, device |-> action[o].device,
                                target |-> action[o].target, version |-> action[o].version + 1,
                                by |-> action[o].by]
            \/ /\ req[r].ask.kind = "reconfigure"
               /\ req[r].ask.id \in Resources /\ resource[req[r].ask.id].kind # "none"
               /\ action'[o] = [status |-> action[o].status, device |-> action[o].device,
                                target |-> req[r].ask.id, version |-> action[o].version + 1,
                                by |-> IF req[r].ask.id = action[o].target
                                         THEN action[o].by ELSE r]
         /\ \A a \in ActionIds \ {o} : action'[a] = action[a]
         /\ UNCHANGED <<account, channel, device, resource>>
<1>1. Appends(r, "reload") /\ req[r].pc = "append" /\ req[r].ask.kind \in {"action", "reconfigure"}
  BY DEF AppendAction, Asked
<1>2. req[r].ask \in Asks /\ Named(r)
  BY <1>1 DEF Base, Placed, RequestTypes
<1>3. o \in ActionIds /\ action[o].status # "none"
  BY <1>1, <1>2, AskKinds DEF Named
<1>4. action[o] \in ActionRecord
  BY <1>3 DEF Base, StreamTypes
<1>5. action[o].version \in Nat
  BY <1>4 DEF ActionRecord
<1>6. action[o].version = req[r].seen.version
  BY DEF AppendAction, Fresh
<1>7. Appended(r, "reload")
  BY <1>1, AppendsAppended DEF Base
<1>8. UNCHANGED <<account, channel, device, resource>>
  BY DEF AppendAction
<1>10. action[o] = [status |-> action[o].status, device |-> action[o].device,
                    target |-> action[o].target, version |-> action[o].version,
                    by |-> action[o].by]
  BY <1>4 DEF ActionRecord
<1>11. CASE req[r].ask.kind = "action"
  <2>1. req[r].ask.to \in {"enabled", "disabled", "detached"}
    BY <1>2, <1>11, AskKinds
  <2>2. action' = [action EXCEPT ![o].status = req[r].ask.to, ![o].version = @ + 1]
    BY <1>11 DEF AppendAction
  <2>3. PICK f : f = [action EXCEPT ![o].status = req[r].ask.to]
    OBVIOUS
  <2>4. /\ f = [a \in ActionIds |-> f[a]]
        /\ \A a \in ActionIds \ {o} : f[a] = action[a]
        /\ f[o] = [status |-> req[r].ask.to, device |-> action[o].device,
                   target |-> action[o].target, version |-> action[o].version,
                   by |-> action[o].by]
    BY <1>3, <1>10, <2>3 DEF Base, StreamTypes
  <2>5. PICK g : g = [f EXCEPT ![o].version = @ + 1]
    OBVIOUS
  <2>5a. PICK rec : rec = [f[o] EXCEPT !.version = @ + 1]
    OBVIOUS
  <2>5b. rec = [status |-> req[r].ask.to, device |-> action[o].device,
               target |-> action[o].target, version |-> action[o].version + 1,
               by |-> action[o].by]
    BY <2>4, <2>5a
  <2>5c. g = [f EXCEPT ![o] = rec]
    BY <2>5, <2>5a
  <2>6. /\ g = [a \in ActionIds |-> g[a]]
        /\ \A a \in ActionIds \ {o} : g[a] = action[a]
        /\ g[o] = [status |-> req[r].ask.to, device |-> action[o].device,
                   target |-> action[o].target, version |-> action[o].version + 1,
                   by |-> action[o].by]
    BY <1>3, <2>4, <2>5b, <2>5c
  <2>7. action' = g
    BY <2>2, <2>3, <2>5
  <2>8. g[o] \in ActionRecord
    <3>1. action[o].version + 1 \in Nat
      BY <1>5
    <3> QED
      BY <1>4, <2>1, <2>6, <3>1 DEF ActionRecord, Statuses
  <2>9. g \in [ActionIds -> ActionRecord]
    BY <2>6, <2>8 DEF Base, StreamTypes
  <2> QED
    BY <1>3, <1>5, <1>6, <1>7, <1>8, <1>11, <2>1, <2>6, <2>7, <2>9
<1>12. CASE req[r].ask.kind = "reconfigure"
  <2>1. req[r].ask.id \in Resources /\ resource[req[r].ask.id].kind # "none"
    BY <1>2, <1>12, AskKinds DEF Named
  <2>2. PICK by : by = IF req[r].ask.id = action[o].target THEN action[o].by ELSE r
    OBVIOUS
  <2>3. action' = [action EXCEPT ![o].target = req[r].ask.id, ![o].version = @ + 1,
                     ![o].by = IF req[r].ask.id = action[o].target THEN @ ELSE r]
    BY <1>12 DEF AppendAction
  <2>4. PICK f : f = [action EXCEPT ![o].target = req[r].ask.id]
    OBVIOUS
  <2>5. /\ f = [a \in ActionIds |-> f[a]]
        /\ \A a \in ActionIds \ {o} : f[a] = action[a]
        /\ f[o] = [status |-> action[o].status, device |-> action[o].device,
                   target |-> req[r].ask.id, version |-> action[o].version,
                   by |-> action[o].by]
    BY <1>3, <1>10, <2>4 DEF Base, StreamTypes
  <2>6. PICK g : g = [f EXCEPT ![o].version = @ + 1]
    OBVIOUS
  <2>6a. PICK rec : rec = [f[o] EXCEPT !.version = @ + 1]
    OBVIOUS
  <2>6b. rec = [status |-> action[o].status, device |-> action[o].device,
               target |-> req[r].ask.id, version |-> action[o].version + 1,
               by |-> action[o].by]
    BY <2>5, <2>6a
  <2>6c. g = [f EXCEPT ![o] = rec]
    BY <2>6, <2>6a
  <2>7. /\ g = [a \in ActionIds |-> g[a]]
        /\ \A a \in ActionIds \ {o} : g[a] = action[a]
        /\ g[o] = [status |-> action[o].status, device |-> action[o].device,
                   target |-> req[r].ask.id, version |-> action[o].version + 1,
                   by |-> action[o].by]
    BY <1>3, <2>5, <2>6b, <2>6c
  <2>8. PICK h : h = [g EXCEPT ![o].by = by]
    OBVIOUS
  <2>8a. PICK end : end = [g[o] EXCEPT !.by = by]
    OBVIOUS
  <2>8b. end = [status |-> action[o].status, device |-> action[o].device,
               target |-> req[r].ask.id, version |-> action[o].version + 1,
               by |-> by]
    BY <2>7, <2>8a
  <2>8c. h = [g EXCEPT ![o] = end]
    BY <2>8, <2>8a
  <2>9. /\ h = [a \in ActionIds |-> h[a]]
        /\ \A a \in ActionIds \ {o} : h[a] = action[a]
        /\ h[o] = [status |-> action[o].status, device |-> action[o].device,
                   target |-> req[r].ask.id, version |-> action[o].version + 1,
                   by |-> by]
    BY <1>3, <2>7, <2>8b, <2>8c
  <2>10. action' = [action EXCEPT ![o].target = req[r].ask.id, ![o].version = @ + 1,
                                  ![o].by = by]
    BY <2>2, <2>3
  <2>12. action' = h
    BY <2>4, <2>6, <2>8, <2>10
  <2>13. h[o] \in ActionRecord
    <3>1. action[o].version + 1 \in Nat
      BY <1>5
    <3> QED
      BY <1>4, <2>1, <2>2, <2>9, <3>1 DEF ActionRecord, Statuses
  <2>14. h \in [ActionIds -> ActionRecord]
    BY <2>9, <2>13 DEF Base, StreamTypes
  <2> QED
    BY <1>3, <1>5, <1>6, <1>7, <1>8, <1>12, <2>1, <2>2, <2>9, <2>12, <2>14
<1> QED
  BY <1>1, <1>11, <1>12

LEMMA ScheduleStep ==
  ASSUME RequestTypes, NEW r \in Requests, ScheduleDelivery(r) \/ ScheduleDevice(r)
  PROVE  /\ Proceeds(r) /\ req'[r].pc = "done" /\ req[r].pc \in {"current", "collect"}
         /\ req'[r].todo = req[r].todo /\ req'[r].found = req[r].found
         /\ due' \subseteq due
         /\ UNCHANGED <<account, channel, device, resource, action, shown>>
<1>1. Goto(r, "done") /\ req[r].pc \in {"current", "collect"}
  BY DEF ScheduleDelivery, ScheduleDevice
<1>2. r \in UnderWay
  BY <1>1 DEF UnderWay
<1>3. due' \subseteq due /\ UNCHANGED <<account, channel, device, resource, action, shown>>
  BY DEF ScheduleDelivery, ScheduleDevice, streams
<1> QED
  BY <1>1, <1>2, <1>3, GotoProceeds

-----------------------------------------------------------------------------
(* The type invariant is inductive. Moved is what a step makes of its request, *)
(* Changed what it makes of the streams. *)

Turn(r) ==
  \/ CheckTarget(r) \/ List(r) \/ ReadNext(r) \/ Decide(r) \/ Conflict(r)
  \/ AppendAccount(r) \/ AppendChannel(r) \/ Register(r) \/ AppendDevice(r)
  \/ Create(r) \/ FirstToken(r) \/ Remove(r) \/ ChangeProvider(r)
  \/ Attach(r) \/ AppendAction(r)
  \/ Reload(r) \/ Project(r) \/ ScheduleDelivery(r) \/ ScheduleDevice(r)

LEMMA NextTurns == Next <=> \E r \in Requests : Load(r) \/ Turn(r)
  BY DEF Next, Turn

Checking == {"provider", "list", "read"}
Moves(kind, pc, next) ==
  /\ next \in PcsOf(kind) \ {"new"}
  /\ next \in Checking => pc \in Checking
  /\ kind = "register" /\ pc \in {"reload", "project", "done"} => next \in {"project", "done"}
  /\ kind = "create" /\ pc \in {"token", "done"} => next = "done"
  /\ kind = "attach" /\ pc \in {"reload", "project", "current", "done"} =>
       next \in {"project", "current", "done"}

Moved(r) ==
  /\ Proceeds(r) /\ IsFiniteSet(req'[r].found)
  /\ Moves(req[r].ask.kind, req[r].pc, req'[r].pc)
  /\ req'[r].pc = "token" => req[r].ask.what = "provider" /\ resource'[r].kind # "none"

LEMMA KindsOfPcs ==
  ASSUME NEW kind \in {"register", "limit", "device", "create", "rename", "remove", "issue",
                       "withdraw", "attach", "reconfigure", "action", "channel"},
         NEW pc \in PcsOf(kind)
  PROVE  /\ pc = "provider" => kind \in {"attach", "reconfigure"}
         /\ pc = "credential" => kind = "reconfigure"
         /\ pc \in {"list", "read"} =>
              kind \in {"register", "create", "rename", "remove", "attach", "reconfigure"}
         /\ pc = "token" => kind = "create"
         /\ pc \in {"reload", "project"} =>
              kind \in {"register", "device", "attach", "action", "reconfigure"}
         /\ pc \in {"find", "collect"} => kind = "device"
         /\ pc = "current" => kind \in {"attach", "action", "reconfigure"}
         /\ pc # "new"
  BY DEF PcsOf

LEMMA OfKind ==
  ASSUME Base, NEW r \in Requests, req[r].pc # "new"
  PROVE  /\ req[r].ask \in Asks
         /\ req[r].ask.kind \in {"register", "limit", "device", "create", "rename", "remove",
              "issue", "withdraw", "attach", "reconfigure", "action", "channel"}
         /\ req[r].pc \in PcsOf(req[r].ask.kind) /\ Named(r)
<1>1. req[r].ask \in Asks
  BY DEF Base, RequestTypes
<1>2. req[r].pc \in PcsOf(req[r].ask.kind) /\ Named(r)
  BY DEF Base, Placed
<1> QED
  BY <1>1, <1>2, AskKinds

LEMMA CheckingMoves ==
  ASSUME NEW kind \in {"register", "limit", "device", "create", "rename", "remove", "issue",
                       "withdraw", "attach", "reconfigure", "action", "channel"}
  PROVE  /\ \A pc \in {"provider", "credential"} \cap PcsOf(kind) :
              /\ Moves(kind, pc, "done") /\ Moves(kind, pc, "append")
              /\ pc = "provider" => Moves(kind, pc, "list")
         /\ "list" \in PcsOf(kind) => Moves(kind, "list", "read")
         /\ "find" \in PcsOf(kind) => Moves(kind, "find", "collect")
         /\ "collect" \in PcsOf(kind) => Moves(kind, "collect", "collect")
         /\ "read" \in PcsOf(kind) => /\ Moves(kind, "read", "read") /\ Moves(kind, "read", "done")
                                      /\ Moves(kind, "read", "append")
         /\ "append" \in PcsOf(kind) => Moves(kind, "append", "done")
  BY DEF Moves, PcsOf, Checking

LEMMA LaterMoves ==
  /\ \A kind \in {"register", "device", "attach", "action", "reconfigure"} :
       Moves(kind, "append", "reload") /\ Moves(kind, "reload", "project")
  /\ Moves("create", "append", "token") /\ Moves("create", "token", "done")
  /\ Moves("register", "project", "done") /\ Moves("device", "project", "find")
  /\ Moves("device", "collect", "done")
  /\ \A kind \in {"attach", "action", "reconfigure"} :
       Moves(kind, "project", "current") /\ Moves(kind, "current", "done")
  BY DEF Moves, PcsOf, Checking

LEMMA TurnMoves ==
  ASSUME Base, NEW r \in Requests, Turn(r)
  PROVE  Moved(r) /\ r \in UnderWay
<1> DEFINE kind == req[r].ask.kind
<1>a. RequestTypes /\ IsFiniteSet(req[r].found)
  BY DEF Base, RequestTypes
<1>b. Proceeds(r) => r \in UnderWay /\ req[r].pc \notin {"new", "done"}
  BY DEF Proceeds, UnderWay
<1>c. ASSUME req[r].pc # "new"
      PROVE  /\ kind \in {"register", "limit", "device", "create", "rename", "remove",
                          "issue", "withdraw", "attach", "reconfigure", "action", "channel"}
             /\ req[r].pc \in PcsOf(kind)
  BY <1>c, OfKind
<1>d. ASSUME NEW pc, Appended(r, pc)
      PROVE  /\ Proceeds(r) /\ req[r].pc = "append" /\ req'[r].pc = pc
             /\ IsFiniteSet(req'[r].found) /\ r \in UnderWay
  BY <1>a, <1>b, <1>d DEF Appended
<1>1. CASE CheckTarget(r)
  <2>1. /\ Proceeds(r) /\ req'[r].found = req[r].found
        /\ req[r].pc \in {"provider", "credential"}
        /\ req'[r].pc = IF ~Active(req[r].ask.id) THEN "done"
                        ELSE IF req[r].pc = "provider" THEN "list" ELSE "append"
    BY <1>1, <1>a, CheckTargetStep DEF CheckTarget
  <2>2. Moves(kind, req[r].pc, req'[r].pc)
    BY <2>1, <1>b, <1>c, CheckingMoves
  <2> QED
    BY <1>a, <1>b, <2>1, <2>2 DEF Moved
<1>2. CASE List(r)
  <2>1. /\ Proceeds(r) /\ req'[r].found = {} /\ req[r].pc \in {"list", "find"}
        /\ req'[r].pc = IF req[r].pc = "list" THEN "read" ELSE "collect"
    BY <1>2, <1>a, ListStep DEF List
  <2>2. Moves(kind, req[r].pc, req'[r].pc)
    BY <2>1, <1>b, <1>c, CheckingMoves
  <2>3. IsFiniteSet(req'[r].found)
    BY <2>1, FS_EmptySet
  <2> QED
    BY <1>a, <1>b, <2>1, <2>2, <2>3 DEF Moved
<1>3. CASE ReadNext(r)
  <2>1. Proceeds(r) /\ req'[r].pc = req[r].pc /\ req[r].pc \in {"read", "collect"}
    BY <1>3, <1>a, ReadStep DEF ReadNext
  <2>2. \E y : req'[r].found \in {req[r].found, req[r].found \cup {y}}
    <3>1. PICK x \in req[r].todo :
             req'[r].found =
                   IF ~Counts(r, x) THEN req[r].found
                   ELSE req[r].found \cup {IF req[r].pc = "read" THEN x ELSE action[x].target}
      BY <1>3, <1>a, ReadStep
    <3> QED
      BY <3>1
  <2>3. IsFiniteSet(req'[r].found)
    BY <1>a, <2>2, FS_AddElement
  <2>4. Moves(kind, req[r].pc, req'[r].pc)
    BY <2>1, <1>b, <1>c, CheckingMoves
  <2> QED
    BY <1>a, <1>b, <2>1, <2>3, <2>4 DEF Moved
<1>4. CASE Decide(r)
  <2>1. /\ Proceeds(r) /\ req'[r].found = req[r].found
        /\ req[r].pc = "read" /\ req'[r].pc \in {"done", "append"}
    BY <1>4, <1>a, DecideStep
  <2>2. Moves(kind, req[r].pc, req'[r].pc)
    BY <2>1, <1>b, <1>c, CheckingMoves
  <2> QED
    BY <1>a, <1>b, <2>1, <2>2 DEF Moved
<1>5. CASE Conflict(r)
  <2>1. /\ Proceeds(r) /\ req'[r].found = req[r].found
        /\ req[r].pc = "append" /\ req'[r].pc = "done"
    BY <1>5, <1>a, ConflictStep
  <2>2. Moves(kind, req[r].pc, req'[r].pc)
    BY <2>1, <1>b, <1>c, CheckingMoves
  <2> QED
    BY <1>a, <1>b, <2>1, <2>2 DEF Moved
<1>6. CASE AppendAccount(r) \/ AppendChannel(r) \/ Remove(r) \/ ChangeProvider(r)
  <2>1. Appended(r, "done")
    BY <1>6, AppendAccountStep, AppendChannelStep, RemoveStep, ChangeProviderStep
  <2>2. Moves(kind, "append", "done")
    BY <2>1, <1>b, <1>c, <1>d, CheckingMoves
  <2> QED
    BY <1>d, <2>1, <2>2 DEF Moved
<1>7. CASE Register(r) \/ AppendDevice(r) \/ Attach(r) \/ AppendAction(r)
  <2>1. Appended(r, "reload") /\ kind \in {"register", "device", "attach", "action", "reconfigure"}
    BY <1>7, RegisterStep, AppendDeviceStep, AttachStep, AppendActionStep
  <2>2. Moves(kind, "append", "reload")
    BY <2>1, LaterMoves
  <2> QED
    BY <1>d, <2>1, <2>2 DEF Moved
<1>8. CASE Create(r)
  <2>0. PICK pc : pc = IF req[r].ask.what = "provider" THEN "token" ELSE "done"
    OBVIOUS
  <2>1. /\ Appended(r, pc)
        /\ kind = "create" /\ resource'[r].kind = req[r].ask.what
        /\ req[r].ask.what \in {"credential", "provider"}
    <3>1. /\ Appended(r, IF req[r].ask.what = "provider" THEN "token" ELSE "done")
          /\ kind = "create" /\ req[r].ask.what \in {"credential", "provider"}
      BY <1>8, CreateStep, Zenon
    <3>2. resource'[r] = [kind |-> req[r].ask.what, status |-> "active",
                          name |-> req[r].ask.name, tokens |-> {}, by |-> r]
      BY <1>8, CreateStep, Zenon
    <3> QED
      BY <2>0, <3>1, <3>2
  <2>2. Moves("create", "append", "token") /\ Moves(kind, "append", "done")
    BY <2>1, <1>b, <1>c, <1>d, CheckingMoves, LaterMoves
  <2> QED
    BY <1>d, <2>0, <2>1, <2>2 DEF Moved
<1>9. CASE FirstToken(r)
  <2>1. /\ Proceeds(r) /\ req[r].pc = "token" /\ req'[r].pc = "done"
        /\ req'[r].found = req[r].found
    BY <1>9, FirstTokenStep
  <2>2. kind = "create"
    BY <2>1, <1>c, KindsOfPcs
  <2>3. Moves(kind, req[r].pc, req'[r].pc)
    BY <2>1, <2>2, LaterMoves
  <2> QED
    BY <1>a, <1>b, <2>1, <2>3 DEF Moved
<1>10. CASE Reload(r)
  <2>1. Proceeds(r) /\ req[r].pc = "reload" /\ req'[r].pc = "project"
    BY <1>10, <1>a, ReloadStep DEF Reload
  <2>2. IsFiniteSet(req'[r].found)
    <3>1. \E y : req'[r].found = {y}
      BY <1>10, <1>a, ReloadStep
    <3> QED
      BY <3>1, FS_Singleton
  <2>3. kind \in {"register", "device", "attach", "action", "reconfigure"}
    BY <2>1, <1>c, KindsOfPcs
  <2>4. Moves(kind, req[r].pc, req'[r].pc)
    BY <2>1, <2>3, LaterMoves
  <2> QED
    BY <1>b, <2>1, <2>2, <2>4 DEF Moved
<1>11. CASE Project(r)
  <2>1. /\ Proceeds(r) /\ req[r].pc = "project" /\ req'[r].found = {}
        /\ req'[r].pc = CASE kind = "register" -> "done"
                          [] kind = "device" -> "find"
                          [] OTHER -> "current"
    BY <1>11, <1>a, ProjectStep DEF Project
  <2>2. kind \in {"register", "device", "attach", "action", "reconfigure"}
    BY <2>1, <1>c, KindsOfPcs
  <2>3. Moves(kind, req[r].pc, req'[r].pc)
    BY <2>1, <2>2, LaterMoves
  <2>4. IsFiniteSet(req'[r].found)
    BY <2>1, FS_EmptySet
  <2> QED
    BY <1>b, <2>1, <2>3, <2>4, LaterMoves DEF Moved, Moves, PcsOf
<1>12. CASE ScheduleDelivery(r) \/ ScheduleDevice(r)
  <2>1. /\ Proceeds(r) /\ req'[r].pc = "done" /\ req[r].pc \in {"current", "collect"}
        /\ req'[r].found = req[r].found
    BY <1>12, <1>a, ScheduleStep
  <2>2. Moves(kind, req[r].pc, req'[r].pc)
    BY <2>1, <1>c, KindsOfPcs, LaterMoves
  <2> QED
    BY <1>a, <1>b, <2>1, <2>2 DEF Moved
<1> QED
  BY <1>1, <1>2, <1>3, <1>4, <1>5, <1>6, <1>7, <1>8, <1>9, <1>10, <1>11, <1>12 DEF Turn

\* A stream that changes grows; what exists stays, with its kind and its device.
Grew ==
  /\ account' = account \/ account'.version > account.version
  /\ channel' = channel \/ channel'.version > channel.version
  /\ \A d \in DeviceIds : /\ device'[d] = device[d] \/ device'[d].version > device[d].version
                          /\ device[d].status # "none" => device'[d].status # "none"
  /\ \A x \in Resources : resource[x].kind # "none" => resource'[x].kind = resource[x].kind
  /\ \A a \in ActionIds : /\ action'[a] = action[a] \/ action'[a].version > action[a].version
                          /\ action[a].status # "none" => /\ action'[a].status # "none"
                                                          /\ action'[a].device = action[a].device

\* Nothing comes into being but what r creates.
OnlyCreates(r) ==
  /\ \A d \in DeviceIds : device[d].status = "none" /\ device'[d].status # "none" =>
       d = r /\ req[r].ask.kind = "register" /\ req'[r].pc = "reload"
  /\ \A x \in Resources : resource[x].kind = "none" /\ resource'[x].kind # "none" =>
       x = r /\ req[r].ask.kind = "create" /\ req'[r].pc \in {"token", "done"}
  /\ \A a \in ActionIds : action[a].status = "none" /\ action'[a].status # "none" =>
       a = r /\ req[r].ask.kind = "attach" /\ req'[r].pc = "reload"

Changed(r) == StreamTypes' /\ Existing' /\ Grew /\ OnlyCreates(r)

LEMMA NothingChanged ==
  ASSUME Base, NEW r, UNCHANGED <<account, channel, device, resource, action>>, due' \subseteq due
  PROVE  Changed(r)
  BY DEF Base, StreamTypes, Existing, Changed, Grew, OnlyCreates

LEMMA DueTyped ==
  ASSUME Base, NEW r, NEW pc, Appended(r, pc)
  PROVE  due' \subseteq Resources
  BY DEF Base, StreamTypes, Appended

LEMMA TurnChanges ==
  ASSUME Base, NEW r \in Requests, Turn(r)
  PROVE  Changed(r)
<1>a. StreamTypes /\ Existing /\ RequestTypes
  BY DEF Base
<1>1. CASE CheckTarget(r) \/ List(r) \/ ReadNext(r) \/ Decide(r) \/ Conflict(r)
           \/ Reload(r) \/ Project(r) \/ ScheduleDelivery(r) \/ ScheduleDevice(r)
  <2>1. UNCHANGED <<account, channel, device, resource, action>>
    BY <1>1 DEF CheckTarget, List, ReadNext, Decide, Conflict, Reload, Project,
                ScheduleDelivery, ScheduleDevice, streams
  <2>2. due' \subseteq due
    BY <1>1 DEF CheckTarget, List, ReadNext, Decide, Conflict, Reload, Project,
                ScheduleDelivery, ScheduleDevice
  <2> QED
    BY <2>1, <2>2, NothingChanged
<1>2. CASE AppendAccount(r)
  <2>1. /\ account' = [limit |-> req[r].ask.to, version |-> account.version + 1]
        /\ UNCHANGED <<channel, device, resource, action>> /\ req[r].ask.kind = "limit"
        /\ due' \subseteq Resources
    BY <1>2, AppendAccountStep, DueTyped
  <2>2. req[r].ask.to \in Limits
    <3>1. req[r].pc # "new"
      BY <1>2 DEF AppendAccount, Asked
    <3> QED
      BY <2>1, <3>1, OfKind, AskKinds
  <2>3. account' \in AccountRecord /\ account'.version > account.version
    BY <2>1, <2>2, <1>a DEF StreamTypes, AccountRecord
  <2> QED
    BY <2>1, <2>3, <1>a DEF StreamTypes, Existing, Changed, Grew, OnlyCreates
<1>3. CASE AppendChannel(r)
  <2>1. /\ channel' = [status |-> IF req[r].ask.to = "revoked" THEN "revoked" ELSE "active",
                       version |-> channel.version + 1]
        /\ UNCHANGED <<account, device, resource, action>>
        /\ due' \subseteq Resources
    BY <1>3, AppendChannelStep, DueTyped
  <2>2. channel' \in ChannelRecord /\ channel'.version > channel.version
    BY <2>1, <1>a DEF StreamTypes, ChannelRecord
  <2> QED
    BY <2>1, <2>2, <1>a DEF StreamTypes, Existing, Changed, Grew, OnlyCreates
<1>4. CASE Register(r)
  <2>1. /\ r \in DeviceIds /\ device[r].status = "none" /\ device[r].version = 0
        /\ device' \in [DeviceIds -> DeviceRecord]
        /\ device'[r].status = "enabled" /\ device'[r].version = 1
        /\ \A d \in DeviceIds \ {r} : device'[d] = device[d]
        /\ UNCHANGED <<account, channel, resource, action>>
        /\ due' \subseteq Resources
        /\ req[r].ask.kind = "register" /\ req'[r].pc = "reload"
    BY <1>4, RegisterStep, DueTyped DEF Appended
  <2>2. StreamTypes' /\ Existing'
    BY <2>1, <1>a DEF StreamTypes, Existing
  <2>3. Grew /\ OnlyCreates(r)
    BY <2>1 DEF Grew, OnlyCreates
  <2> QED
    BY <2>2, <2>3 DEF Changed
<1>5. CASE AppendDevice(r)
  <2> PICK o : o = req[r].ask.id
    OBVIOUS
  <2>1. /\ o \in DeviceIds /\ device[o].status # "none" /\ device[o].version \in Nat
        /\ req[r].ask.to \in {"enabled", "disabled", "decommissioned"}
        /\ device' \in [DeviceIds -> DeviceRecord]
        /\ device'[o] = [status |-> req[r].ask.to, version |-> device[o].version + 1]
        /\ \A d \in DeviceIds \ {o} : device'[d] = device[d]
        /\ UNCHANGED <<account, channel, resource, action>>
        /\ due' \subseteq Resources
    BY <1>5, AppendDeviceStep, DueTyped
  <2>2. device'[o].status # "none" /\ device'[o].version > device[o].version
    BY <2>1
  <2>3. StreamTypes' /\ Existing'
    BY <2>1, <2>2, <1>a DEF StreamTypes, Existing
  <2>4. Grew /\ OnlyCreates(r)
    BY <2>1, <2>2 DEF Grew, OnlyCreates
  <2> QED
    BY <2>3, <2>4 DEF Changed
<1>6. CASE Create(r)
  <2>1. /\ r \in Resources /\ resource[r].kind = "none"
        /\ resource' \in [Resources -> ResourceRecord]
        /\ resource'[r] = [kind |-> req[r].ask.what, status |-> "active",
                           name |-> req[r].ask.name, tokens |-> {}, by |-> r]
        /\ \A x \in Resources \ {r} : resource'[x] = resource[x]
        /\ UNCHANGED <<account, channel, device, action>>
        /\ req[r].ask.kind = "create" /\ req[r].ask.what \in {"credential", "provider"}
    BY <1>6, CreateStep
  <2>2. due' \subseteq Resources /\ req'[r].pc \in {"token", "done"}
    <3>1. PICK pc : pc = IF req[r].ask.what = "provider" THEN "token" ELSE "done"
      OBVIOUS
    <3>2. Appended(r, pc)
      BY <1>6, <3>1, CreateStep
    <3> QED
      BY <3>1, <3>2, DueTyped DEF Appended
  <2>3. /\ resource'[r].kind # "none" /\ resource'[r].status # "none"
    BY <2>1
  <2>4. StreamTypes' /\ Existing'
    BY <2>1, <2>2, <2>3, <1>a DEF StreamTypes, Existing
  <2>5. Grew /\ OnlyCreates(r)
    BY <2>1, <2>2 DEF Grew, OnlyCreates
  <2> QED
    BY <2>4, <2>5 DEF Changed
<1>7. CASE FirstToken(r) \/ Remove(r) \/ ChangeProvider(r)
  <2>1. \E o \in Resources :
          /\ resource[o].kind # "none" /\ resource'[o].kind = resource[o].kind
          /\ \A x \in Resources \ {o} : resource'[x] = resource[x]
          /\ resource'[o].status # "none"
    <3>1. CASE FirstToken(r)
      <4>0. /\ r \in Resources /\ resource[r].kind # "none"
            /\ resource'[r] = [kind |-> resource[r].kind, status |-> resource[r].status,
                 name |-> resource[r].name, tokens |-> resource[r].tokens \cup {r},
                 by |-> resource[r].by]
        BY <3>1, FirstTokenStep
      <4>1. resource'[r].kind = resource[r].kind /\ resource'[r].status = resource[r].status
        BY <4>0
      <4>2. resource[r].status # "none"
        BY <4>0, <1>a DEF Existing
      <4>3. \A x \in Resources \ {r} : resource'[x] = resource[x]
        BY <3>1, FirstTokenStep
      <4> QED
        BY <4>0, <4>1, <4>2, <4>3
    <3>2. CASE Remove(r)
      <4> PICK o : o = req[r].ask.id
        OBVIOUS
      <4>1. /\ o \in Resources /\ resource[o].kind # "none"
            /\ resource'[o] = [kind |-> resource[o].kind, status |-> "removed",
                               name |-> resource[o].name, tokens |-> resource[o].tokens, by |-> r]
            /\ \A x \in Resources \ {o} : resource'[x] = resource[x]
        BY <3>2, RemoveStep
      <4> QED
        BY <4>1
    <3>3. CASE ChangeProvider(r)
      <4> PICK o : o = req[r].ask.id
        OBVIOUS
      <4>1. /\ o \in Resources /\ resource[o].kind = "provider"
            /\ resource'[o].kind = resource[o].kind /\ resource'[o].status = resource[o].status
            /\ \A x \in Resources \ {o} : resource'[x] = resource[x]
        BY <3>3, ChangeProviderStep
      <4>2. resource[o].status # "none"
        BY <4>1, <1>a DEF Existing
      <4> QED
        BY <4>1, <4>2
    <3> QED
      BY <1>7, <3>1, <3>2, <3>3
  <2>2. /\ resource' \in [Resources -> ResourceRecord]
        /\ UNCHANGED <<account, channel, device, action>>
    BY <1>7, FirstTokenStep, RemoveStep, ChangeProviderStep
  <2>3. due' \subseteq Resources
    <3>1. CASE FirstToken(r)
      BY <3>1, <1>a, FirstTokenStep DEF StreamTypes
    <3>2. CASE Remove(r) \/ ChangeProvider(r)
      <4>1. Appended(r, "done")
        BY <3>2, RemoveStep, ChangeProviderStep
      <4> QED
        BY <4>1, DueTyped
    <3> QED
      BY <1>7, <3>1, <3>2
  <2>4. StreamTypes' /\ Existing'
    BY <2>1, <2>2, <2>3, <1>a DEF StreamTypes, Existing
  <2>5. Grew /\ OnlyCreates(r)
    BY <2>1, <2>2 DEF Grew, OnlyCreates
  <2> QED
    BY <2>4, <2>5 DEF Changed
<1>8. CASE Attach(r)
  <2>1. /\ r \in ActionIds /\ action[r].status = "none" /\ action[r].version = 0
        /\ req[r].ask.device \in DeviceIds /\ device[req[r].ask.device].status # "none"
        /\ req[r].ask.id \in Resources /\ resource[req[r].ask.id].kind # "none"
        /\ action' \in [ActionIds -> ActionRecord]
        /\ action'[r] = [status |-> "enabled", device |-> req[r].ask.device,
                         target |-> req[r].ask.id, version |-> 1, by |-> r]
        /\ \A a \in ActionIds \ {r} : action'[a] = action[a]
        /\ UNCHANGED <<account, channel, device, resource>>
        /\ Appended(r, "reload") /\ req[r].ask.kind = "attach"
    BY <1>8, AttachStep
  <2>2. due' \subseteq Resources /\ req'[r].pc = "reload"
    BY <2>1, DueTyped DEF Appended
  <2>3. /\ action'[r].device = req[r].ask.device /\ action'[r].target = req[r].ask.id
        /\ action'[r].status = "enabled" /\ action'[r].version = 1
    BY <2>1
  <2>4. StreamTypes' /\ Existing'
    BY <2>1, <2>2, <2>3, <1>a DEF StreamTypes, Existing
  <2>5. Grew /\ OnlyCreates(r)
    BY <2>1, <2>2, <2>3 DEF Grew, OnlyCreates
  <2> QED
    BY <2>4, <2>5 DEF Changed
<1>9. CASE AppendAction(r)
  <2> PICK o : o = req[r].ask.action
    OBVIOUS
  <2>1. /\ o \in ActionIds /\ action[o].status # "none" /\ action[o].version \in Nat
        /\ action' \in [ActionIds -> ActionRecord]
        /\ \A a \in ActionIds \ {o} : action'[a] = action[a]
        /\ UNCHANGED <<account, channel, device, resource>>
        /\ Appended(r, "reload")
    BY <1>9, AppendActionStep
  <2>2. due' \subseteq Resources
    BY <2>1, DueTyped
  <2>3. /\ action'[o].device = action[o].device /\ action'[o].status # "none"
        /\ action'[o].version = action[o].version + 1
        /\ \/ action'[o].target = action[o].target
           \/ /\ action'[o].target \in Resources
              /\ resource[action'[o].target].kind # "none"
    <3>1. CASE req[r].ask.kind = "action"
      <4>1. /\ req[r].ask.to \in {"enabled", "disabled", "detached"}
            /\ action'[o] = [status |-> req[r].ask.to, device |-> action[o].device,
                             target |-> action[o].target, version |-> action[o].version + 1,
                             by |-> action[o].by]
        BY <1>9, <3>1, AppendActionStep
      <4> QED
        BY <4>1
    <3>2. CASE req[r].ask.kind = "reconfigure"
      <4>1. /\ req[r].ask.id \in Resources /\ resource[req[r].ask.id].kind # "none"
            /\ action'[o] = [status |-> action[o].status, device |-> action[o].device,
                                target |-> req[r].ask.id, version |-> action[o].version + 1,
                                by |-> IF req[r].ask.id = action[o].target
                                         THEN action[o].by ELSE r]
        BY <1>9, <3>2, AppendActionStep
      <4> QED
        BY <4>1, <2>1
    <3> QED
      BY <1>9, <3>1, <3>2 DEF AppendAction, Asked
  <2>4. StreamTypes' /\ Existing'
    BY <2>1, <2>2, <2>3, <1>a DEF StreamTypes, Existing
  <2>5. Grew /\ OnlyCreates(r)
    BY <2>1, <2>3 DEF Grew, OnlyCreates
  <2> QED
    BY <2>4, <2>5 DEF Changed
<1> QED
  BY <1>1, <1>2, <1>3, <1>4, <1>5, <1>6, <1>7, <1>8, <1>9 DEF Turn

\* What a request names stays, so it stays rightly placed.
LEMMA NamedStays ==
  ASSUME Base, Grew, NEW q \in Requests, req[q].pc # "new",
         req'[q].ask = req[q].ask, req'[q].pc = req[q].pc
  PROVE  Named(q)'
<1>1. Named(q) /\ req[q].ask \in Asks
  BY OfKind
<1>2. q \in Resources
  BY IdSets
<1> QED
  BY <1>1, <1>2, AskKinds DEF Named, Grew, IsProvider

LEMMA OthersBeside ==
  ASSUME Beside, NEW r \in Requests, r \in UnderWay,
         \A q \in Requests : req'[q].beside = req[q].beside,
         \A q \in Requests \ {r} : req'[q].pc = req[q].pc
  PROVE  Beside'
<1>1. UnderWay' \subseteq UnderWay
  BY DEF UnderWay
<1> QED
  BY <1>1 DEF Beside

LEMMA TurnKeepsBase ==
  ASSUME Base, NEW r \in Requests, Turn(r)
  PROVE  Base'
<1>1. Moved(r) /\ r \in UnderWay
  BY TurnMoves
<1>2. Changed(r)
  BY TurnChanges
<1>3. /\ \A q \in Requests \ {r} : req'[q] = req[q]
      /\ req' = [q \in Requests |-> req'[q]] /\ IsRequest(req'[r])
      /\ req'[r].ask = req[r].ask /\ req'[r].seen = req[r].seen
      /\ req'[r].beside = req[r].beside
  BY <1>1 DEF Moved, Proceeds
<1>4. /\ req[r].pc \notin {"new", "done"} /\ req[r].ask \in Asks
      /\ req[r].ask.kind \in {"register", "limit", "device", "create", "rename", "remove",
              "issue", "withdraw", "attach", "reconfigure", "action", "channel"}
      /\ req[r].pc \in PcsOf(req[r].ask.kind) /\ Named(r)
  BY <1>1, OfKind DEF UnderWay
<1>5. /\ Moves(req[r].ask.kind, req[r].pc, req'[r].pc) /\ IsFiniteSet(req'[r].found)
      /\ req'[r].pc = "token" => req[r].ask.what = "provider" /\ resource'[r].kind # "none"
  BY <1>1 DEF Moved
<1>6. req'[r].pc \in PcsOf(req[r].ask.kind) /\ req'[r].pc # "new"
  BY <1>5 DEF Moves
<1>7. req'[r].pc \in Pcs
  BY <1>4, <1>6 DEF Pcs, PcsOf
<1>8. RequestTypes'
  <2>1. ASSUME NEW q \in Requests
        PROVE  /\ IsRequest(req'[q]) /\ req'[q].pc \in Pcs
               /\ req'[q].pc # "new" => req'[q].ask \in Asks
               /\ req'[q].pc = "new" => req'[q].beside = {}
               /\ IsFiniteSet(req'[q].found)
    <3>1. CASE q = r
      BY <3>1, <1>3, <1>4, <1>5, <1>6, <1>7
    <3>2. CASE q # r
      BY <3>2, <1>3 DEF Base, RequestTypes
    <3> QED
      BY <3>1, <3>2
  <2> QED
    BY <2>1, <1>3 DEF RequestTypes
<1>9. Created'
  <2>1. ASSUME NEW s \in Requests
        PROVE  /\ device'[s].status # "none" =>
                    Creates(s, "register", {"reload", "project", "done"})'
               /\ resource'[s].kind # "none" => Creates(s, "create", {"token", "done"})'
               /\ action'[s].status # "none" =>
                    Creates(s, "attach", {"reload", "project", "current", "done"})'
    <3>1. s \in DeviceIds /\ s \in Resources /\ s \in ActionIds
      BY IdSets
    <3>2. CASE s # r
      <4>1. req'[s] = req[s]
        BY <3>2, <1>3
      <4>2. /\ device'[s].status # "none" => device[s].status # "none"
            /\ resource'[s].kind # "none" => resource[s].kind # "none"
            /\ action'[s].status # "none" => action[s].status # "none"
        BY <3>1, <3>2, <1>2 DEF Changed, OnlyCreates
      <4> QED
        BY <4>1, <4>2 DEF Base, Created, Creates
    <3>3. CASE s = r
      <4>1. ASSUME device'[r].status # "none"
            PROVE  Creates(r, "register", {"reload", "project", "done"})'
        <5>1. CASE device[r].status # "none"
          <6>1. req[r].ask.kind = "register" /\ req[r].pc \in {"reload", "project", "done"}
            BY <5>1 DEF Base, Created, Creates
          <6> QED
            BY <6>1, <1>3, <1>5 DEF Moves, Creates
        <5>2. CASE device[r].status = "none"
          <6>1. req[r].ask.kind = "register" /\ req'[r].pc = "reload"
            BY <5>2, <4>1, <3>1, <3>3, <1>2 DEF Changed, OnlyCreates
          <6> QED
            BY <6>1, <1>3 DEF Creates
        <5> QED
          BY <5>1, <5>2
      <4>2. ASSUME resource'[r].kind # "none"
            PROVE  Creates(r, "create", {"token", "done"})'
        <5>1. CASE resource[r].kind # "none"
          <6>1. req[r].ask.kind = "create" /\ req[r].pc \in {"token", "done"}
            BY <5>1 DEF Base, Created, Creates
          <6> QED
            BY <6>1, <1>3, <1>5 DEF Moves, Creates
        <5>2. CASE resource[r].kind = "none"
          <6>1. req[r].ask.kind = "create" /\ req'[r].pc \in {"token", "done"}
            BY <5>2, <4>2, <3>1, <3>3, <1>2 DEF Changed, OnlyCreates
          <6> QED
            BY <6>1, <1>3 DEF Creates
        <5> QED
          BY <5>1, <5>2
      <4>3. ASSUME action'[r].status # "none"
            PROVE  Creates(r, "attach", {"reload", "project", "current", "done"})'
        <5>1. CASE action[r].status # "none"
          <6>1. /\ req[r].ask.kind = "attach"
                /\ req[r].pc \in {"reload", "project", "current", "done"}
            BY <5>1 DEF Base, Created, Creates
          <6> QED
            BY <6>1, <1>3, <1>5 DEF Moves, Creates
        <5>2. CASE action[r].status = "none"
          <6>1. req[r].ask.kind = "attach" /\ req'[r].pc = "reload"
            BY <5>2, <4>3, <3>1, <3>3, <1>2 DEF Changed, OnlyCreates
          <6> QED
            BY <6>1, <1>3 DEF Creates
        <5> QED
          BY <5>1, <5>2
      <4> QED
        BY <3>3, <4>1, <4>2, <4>3
    <3> QED
      BY <3>2, <3>3
  <2> QED
    BY <2>1 DEF Created
<1>10. Placed'
  <2>1. ASSUME NEW q \in Requests, req'[q].pc # "new"
        PROVE  req'[q].pc \in PcsOf(req'[q].ask.kind) /\ Named(q)'
    <3>1. CASE q # r
      <4>1. req'[q] = req[q]
        BY <3>1, <1>3
      <4>2. Named(q)'
        BY <4>1, <2>1, <1>2, NamedStays DEF Changed
      <4> QED
        BY <4>1, <4>2, <2>1, OfKind
    <3>2. CASE q = r
      <4>1. req'[r].pc \in {"provider", "list", "read"} => req[r].pc \in {"provider", "list", "read"}
        BY <1>5 DEF Moves, Checking
      <4>2. r \in Resources
        BY IdSets
      <4>3. Grew
        BY <1>2 DEF Changed
      <4>4. Named(r)'
        BY <4>1, <4>2, <4>3, <1>3, <1>4, <1>5, AskKinds DEF Named, Grew, IsProvider
      <4> QED
        BY <3>2, <4>4, <1>3, <1>6
    <3> QED
      BY <3>1, <3>2
  <2> QED
    BY <2>1 DEF Placed
<1>11. Beside'
  BY <1>1, <1>3, OthersBeside DEF Base
<1> QED
  BY <1>2, <1>8, <1>9, <1>10, <1>11 DEF Base, Changed

LEMMA LoadKeepsBase ==
  ASSUME Base, NEW r \in Requests, Load(r)
  PROVE  Base'
<1>1. /\ req[r].pc = "new"
      /\ UNCHANGED <<account, channel, device, resource, action, shown, due>>
  BY LoadOpens
<1>2. PICK ask, seen, pc : Opens(r, ask, seen, pc) /\ Starts(ask, seen, pc)
  BY LoadOpens
<1>3. Changed(r)
  BY <1>1, NothingChanged
<1>4. /\ req' = [q \in Requests |-> req'[q]]
      /\ req'[r] = [pc |-> pc, ask |-> ask, seen |-> seen, todo |-> req[r].todo,
                    found |-> req[r].found, beside |-> UnderWay]
  BY <1>2 DEF Opens
<1>5. /\ req'[r].pc = pc /\ req'[r].ask = ask /\ req'[r].beside = UnderWay
      /\ req'[r].found = req[r].found /\ IsRequest(req'[r])
  BY <1>4 DEF IsRequest
<1>6. ASSUME NEW q \in Requests \ {r}
      PROVE  /\ req'[q].pc = req[q].pc /\ req'[q].ask = req[q].ask
             /\ req'[q].found = req[q].found /\ IsRequest(req'[q])
             /\ req'[q].beside = IF q \in UnderWay THEN req[q].beside \cup {r} ELSE req[q].beside
  <2>1. CASE q \in UnderWay
    BY <2>1, <1>2 DEF Opens, IsRequest
  <2>2. CASE q \notin UnderWay
    BY <2>2, <1>2 DEF Opens, Base, RequestTypes
  <2> QED
    BY <2>1, <2>2
<1>7. /\ ask \in Asks
      /\ ask.kind \in {"register", "limit", "device", "create", "rename", "remove",
              "issue", "withdraw", "attach", "reconfigure", "action", "channel"}
  BY <1>2, AskKinds DEF Starts
<1>8. pc \in PcsOf(ask.kind) /\ pc \in {"provider", "credential", "list", "append"}
  <2>1. ask.kind = "reconfigure" => pc \in {"provider", "credential", "append"}
    <3>1. ASSUME ask.kind = "reconfigure"
          PROVE  ask.id \in Resources
      BY <3>1, <1>7, AskKinds
    <3>2. \A x \in Resources : resource[x].kind \in {"none", "credential", "provider"}
      BY DEF Base, StreamTypes, ResourceRecord
    <3> QED
      BY <3>1, <3>2, <1>2 DEF Starts
  <2> QED
    BY <2>1, <1>2, <1>7 DEF Starts, PcsOf
<1>9. RequestTypes'
  <2>1. ASSUME NEW q \in Requests
        PROVE  /\ IsRequest(req'[q]) /\ req'[q].pc \in Pcs
               /\ req'[q].pc # "new" => req'[q].ask \in Asks
               /\ req'[q].pc = "new" => req'[q].beside = {}
               /\ IsFiniteSet(req'[q].found)
    <3>1. CASE q = r
      BY <3>1, <1>5, <1>7, <1>8 DEF Base, RequestTypes, Pcs
    <3>2. CASE q # r
      BY <3>2, <1>6 DEF Base, RequestTypes, UnderWay
    <3> QED
      BY <3>1, <3>2
  <2> QED
    BY <2>1, <1>4 DEF RequestTypes
<1>10. Created'
  <2>1. ASSUME NEW s \in Requests
        PROVE  /\ device'[s].status # "none" =>
                    Creates(s, "register", {"reload", "project", "done"})'
               /\ resource'[s].kind # "none" => Creates(s, "create", {"token", "done"})'
               /\ action'[s].status # "none" =>
                    Creates(s, "attach", {"reload", "project", "current", "done"})'
    BY <1>1, <1>6 DEF Base, Created, Creates
  <2> QED
    BY <2>1 DEF Created
<1>11. Placed'
  <2>1. ASSUME NEW q \in Requests, req'[q].pc # "new"
        PROVE  req'[q].pc \in PcsOf(req'[q].ask.kind) /\ Named(q)'
    <3>1. CASE q # r
      <4>1. req'[q].pc = req[q].pc /\ req'[q].ask = req[q].ask
        BY <3>1, <1>6
      <4>2. Named(q)'
        BY <4>1, <2>1, <1>3, NamedStays DEF Changed
      <4> QED
        BY <4>1, <4>2, <2>1, OfKind
    <3>2. CASE q = r
      <4>1. /\ ask.kind = "device" => ask.id \in DeviceIds
            /\ ask.kind = "attach" => ask.device \in DeviceIds
            /\ ask.kind \in {"rename", "remove", "issue", "withdraw", "attach", "reconfigure"} =>
                 ask.id \in Resources
        BY <1>7, AskKinds
      <4>2. ask.kind \in {"rename", "remove", "issue", "withdraw"} => resource[ask.id].kind # "none"
        BY <4>1, <1>2 DEF Starts, Active, Base, Existing
      <4>a. /\ ask.kind = "device" => device[ask.id].status # "none"
            /\ ask.kind \in {"rename", "issue", "withdraw"} => IsProvider(ask.id)
        BY <4>1, <1>2 DEF Starts, Live
      <4>b. ask.kind \in {"attach", "reconfigure"} => resource[ask.id].kind # "none"
        BY <1>2 DEF Starts
      <4>c. /\ ask.kind = "attach" => device[ask.device].status # "none"
            /\ ask.kind \in {"action", "reconfigure"} => action[ask.action].status # "none"
        BY <1>2 DEF Starts
      <4>d. ask.kind \in {"attach", "reconfigure"} /\ pc \in {"provider", "list", "read"} =>
              IsProvider(ask.id)
        <5>1. ASSUME ask.kind = "attach", pc \in {"provider", "list", "read"}
              PROVE  IsProvider(ask.id)
          BY <5>1, <1>2 DEF Starts
        <5>2. ASSUME ask.kind = "reconfigure", pc \in {"provider", "list", "read"}
              PROVE  resource[ask.id].kind = "provider"
          <6>1. pc = resource[ask.id].kind
            BY <5>2, <1>2 DEF Starts
          <6>2. resource[ask.id].kind \in {"none", "credential", "provider"}
            BY <5>2, <1>7, AskKinds DEF Base, StreamTypes, ResourceRecord
          <6> QED
            BY <5>2, <6>1, <6>2
        <5> QED
          BY <5>1, <5>2 DEF IsProvider
      <4>e. pc # "token"
        BY <1>8
      <4>3. Named(r)'
        BY <4>a, <4>b, <4>c, <4>d, <4>e, <4>2, <1>1, <1>5 DEF Named, IsProvider
      <4> QED
        BY <3>2, <4>3, <1>5, <1>8
    <3> QED
      BY <3>1, <3>2
  <2> QED
    BY <2>1 DEF Placed
<1>12. Beside'
  <2>0. r \notin UnderWay /\ req[r].beside = {}
    BY <1>1 DEF UnderWay, Base, RequestTypes
  <2>a. /\ \A q \in Requests \ {r} : q \in UnderWay => req'[q].beside = req[q].beside \cup {r}
        /\ \A q \in Requests \ {r} : q \notin UnderWay => req'[q].beside = req[q].beside
        /\ UnderWay \subseteq Requests
    BY <1>6 DEF UnderWay
  <2>b. /\ \A q, s \in Requests : s \in req[q].beside => q \in req[s].beside
        /\ \A q, s \in UnderWay : q # s => s \in req[q].beside
        /\ \A q \in Requests : req[q].beside \subseteq Requests \ {q}
        /\ \A q \in Requests : r \notin req[q].beside
    BY <2>0 DEF Base, Beside
  <2>1. ASSUME NEW q \in Requests, NEW s \in Requests, s \in req'[q].beside
        PROVE  q \in req'[s].beside
    <3>1. CASE q = r
      BY <2>0, <2>1, <2>a, <3>1, <1>5
    <3>2. CASE q # r /\ s = r
      <4>1. q \in UnderWay
        BY <2>1, <2>a, <2>b, <3>2
      <4> QED
        BY <4>1, <3>2, <1>5
    <3>3. CASE q # r /\ s # r
      <4>1. s \in req[q].beside
        BY <2>1, <2>a, <3>3
      <4>2. q \in req[s].beside
        BY <4>1, <2>b
      <4> QED
        BY <4>2, <2>a, <3>3
    <3> QED
      BY <3>1, <3>2, <3>3
  <2>2. UnderWay' = UnderWay \cup {r}
    BY <1>5, <1>6, <1>8 DEF UnderWay
  <2>3. ASSUME NEW q \in UnderWay', NEW s \in UnderWay', q # s
        PROVE  s \in req'[q].beside
    <3>1. CASE q = r
      BY <2>2, <2>3, <3>1, <1>5
    <3>2. CASE q # r
      BY <2>2, <2>3, <2>a, <2>b, <3>2
    <3> QED
      BY <3>1, <3>2
  <2>4. ASSUME NEW q \in Requests
        PROVE  req'[q].beside \subseteq Requests \ {q}
    <3>1. CASE q = r
      BY <2>0, <2>a, <3>1, <1>5
    <3>2. CASE q # r
      BY <2>a, <2>b, <3>2
    <3> QED
      BY <3>1, <3>2
  <2> QED
    BY <2>1, <2>3, <2>4 DEF Beside
<1> QED
  BY <1>3, <1>9, <1>10, <1>11, <1>12 DEF Base, Changed

LEMMA InitBase == Init => Base
<1> SUFFICES ASSUME Init PROVE Base
  OBVIOUS
<1>1. req = [r \in Requests |->
       [pc |-> "new", ask |-> None, seen |-> None, todo |-> {}, found |-> {}, beside |-> {}]]
  BY DEF Init
<1>2. RequestTypes
  BY <1>1, FS_EmptySet DEF RequestTypes, IsRequest, Pcs
<1>3. Placed /\ Beside
  BY <1>1 DEF Placed, Beside, UnderWay
<1>4. \A r \in Requests : r \notin Devices /\ r \notin Actions
  BY OwnerRequestsAssumption
<1>5. account \in AccountRecord /\ channel \in ChannelRecord /\ due \subseteq Resources
  BY DEF Init, AccountRecord, ChannelRecord
<1>6. device = [d \in DeviceIds |->
       IF d \in Devices THEN [status |-> "enabled", version |-> 1]
                        ELSE [status |-> "none", version |-> 0]]
  BY DEF Init
<1>7. /\ device \in [DeviceIds -> DeviceRecord]
      /\ \A d \in DeviceIds : device[d].status = "none" => device[d].version = 0
      /\ \A d \in Devices : device[d].status # "none"
      /\ \A r \in Requests : device[r].status = "none"
  <2>1. ASSUME NEW d \in DeviceIds
        PROVE  /\ device[d] \in DeviceRecord
               /\ device[d].status = "none" => device[d].version = 0
               /\ d \in Devices => device[d].status # "none"
               /\ d \in Requests => device[d].status = "none"
    BY <1>4, <1>6 DEF DeviceRecord, Statuses
  <2> QED
    BY <1>6, <2>1 DEF DeviceIds
<1>8. PICK name \in [Credentials \cup Providers -> Names] :
        resource = [x \in Resources |->
            IF x \in Requests
              THEN [kind |-> "none", status |-> "none", name |-> None, tokens |-> {}, by |-> None]
              ELSE [kind |-> IF x \in Providers THEN "provider" ELSE "credential",
                    status |-> "active", name |-> name[x],
                    tokens |-> IF x \in Providers THEN {x} ELSE {}, by |-> None]]
  BY DEF Init
<1>9. ASSUME NEW x \in Resources
      PROVE  /\ resource[x] \in ResourceRecord
             /\ resource[x].kind = "none" <=> resource[x].status = "none"
             /\ resource[x].kind = "none" => resource[x].tokens = {}
             /\ x \in Requests => resource[x].kind = "none"
             /\ x \notin Requests => resource[x].kind # "none"
  <2>1. CASE x \in Requests
    BY <2>1, <1>8 DEF ResourceRecord
  <2>2. CASE x \notin Requests
    <3>1. x \in Credentials \cup Providers
      BY <2>2 DEF Resources
    <3>2. PICK tokens : tokens = IF x \in Providers THEN {x} ELSE {}
      OBVIOUS
    <3>3. PICK kind : kind = IF x \in Providers THEN "provider" ELSE "credential"
      OBVIOUS
    <3>4. resource[x] = [kind |-> kind, status |-> "active", name |-> name[x],
                         tokens |-> tokens, by |-> None]
      BY <2>2, <3>2, <3>3, <1>8
    <3>5. tokens \subseteq Resources /\ kind \in {"provider", "credential"} /\ name[x] \in Names
      BY <3>1, <3>2, <3>3
    <3> QED
      BY <2>2, <3>4, <3>5 DEF ResourceRecord
  <2> QED
    BY <2>1, <2>2
<1>10. resource \in [Resources -> ResourceRecord]
  BY <1>8, <1>9
<1>11. action = [a \in ActionIds |->
       IF a \in Actions
         THEN [status |-> "enabled", device |-> DeviceOf[a], target |-> TargetOf[a],
               version |-> 1, by |-> None]
         ELSE [status |-> "none", device |-> None, target |-> None,
               version |-> 0, by |-> None]]
  BY DEF Init
<1>12. ASSUME NEW a \in ActionIds
       PROVE  /\ action[a] \in ActionRecord
              /\ a \in Requests => action[a].status = "none"
              /\ IF action[a].status = "none" THEN action[a].version = 0
                 ELSE /\ action[a].device \in Devices
                      /\ action[a].target \in Credentials \cup Providers
  <2>1. CASE a \in Actions
    <3>1. DeviceOf[a] \in Devices /\ TargetOf[a] \in Credentials \cup Providers
      BY <2>1, OwnerRequestsAssumption
    <3>2. action[a] = [status |-> "enabled", device |-> DeviceOf[a], target |-> TargetOf[a],
                       version |-> 1, by |-> None]
      BY <2>1, <1>11
    <3>3. DeviceOf[a] \in DeviceIds /\ TargetOf[a] \in Resources
      BY <3>1 DEF DeviceIds, Resources
    <3> QED
      BY <2>1, <3>1, <3>2, <3>3, <1>4 DEF ActionRecord, Statuses
  <2>2. CASE a \notin Actions
    BY <2>2, <1>11 DEF ActionRecord, Statuses
  <2> QED
    BY <2>1, <2>2
<1>13. action \in [ActionIds -> ActionRecord]
  BY <1>11, <1>12
<1>14. StreamTypes
  BY <1>5, <1>7, <1>10, <1>13 DEF StreamTypes
<1>15. \A x \in Credentials \cup Providers : x \in Resources /\ x \notin Requests
  BY OwnerRequestsAssumption DEF Resources
<1>16. Existing
  <2>1. ASSUME NEW a \in ActionIds
        PROVE  IF action[a].status = "none" THEN action[a].version = 0
               ELSE /\ action[a].device \in DeviceIds /\ device[action[a].device].status # "none"
                    /\ action[a].target \in Resources /\ resource[action[a].target].kind # "none"
    BY <1>7, <1>9, <1>12, <1>15 DEF DeviceIds
  <2> QED
    BY <1>7, <1>9, <2>1 DEF Existing
<1>17. Created
  BY <1>7, <1>9, <1>12, IdSets DEF Created
<1> QED
  BY <1>2, <1>3, <1>14, <1>16, <1>17 DEF Base

LEMMA NextBase == Base /\ [Next]_vars => Base'
<1>1. ASSUME Base, UNCHANGED vars
      PROVE  Base'
  BY <1>1 DEF vars, Base, StreamTypes, Existing, RequestTypes, Created, Creates, Placed, Named,
              IsProvider, Beside, UnderWay
<1>2. ASSUME Base, NEW r \in Requests, Load(r) \/ Turn(r)
      PROVE  Base'
  BY <1>2, LoadKeepsBase, TurnKeepsBase
<1> QED
  BY <1>1, <1>2, NextTurns

LEMMA BaseHolds == Spec => []Base
  BY InitBase, NextBase, PTL DEF Spec

-----------------------------------------------------------------------------
(* What is still to be read was there when it was listed. *)

Listing ==
  \A r \in Requests : \A ask \in Asks :
    req[r].pc \in {"read", "collect"} /\ req[r].ask = ask => req[r].todo \subseteq Listed(ask)

Collected ==
  \A r \in Requests : req[r].pc = "collect" => \A p \in req[r].found : p \in Resources /\ IsProvider(p)

\* What is counted when a request reads x is as the stream of x says.
LEMMA ListedGrows ==
  ASSUME Grew, NEW ask \in Asks
  PROVE  Listed(ask) \subseteq Listed(ask)'
<1>1. ask.kind = "create" => ask.what # "none"
  BY AskKinds
<1> QED
  BY <1>1 DEF Listed, Grew, IsProvider

\* By which step a request gets where it checks or appends.
LEMMA ArrivesAt ==
  ASSUME Base, NEW r \in Requests, Turn(r)
  PROVE  /\ req'[r].pc \in {"read", "collect"} =>
              \/ List(r)
              \/ /\ ReadNext(r) /\ req'[r].pc = req[r].pc /\ req[r].pc \in {"read", "collect"}
         /\ req'[r].pc = "list" => CheckTarget(r) /\ req[r].pc = "provider"
         /\ req'[r].pc = "append" => Decide(r) \/ CheckTarget(r)
         /\ req'[r].pc \notin {"new", "provider", "credential"}
<1>a. RequestTypes
  BY DEF Base
<1>1. CASE CheckTarget(r)
  <2>1. /\ req'[r].pc = IF ~Active(req[r].ask.id) THEN "done"
                        ELSE IF req[r].pc = "provider" THEN "list" ELSE "append"
        /\ req[r].pc \in {"provider", "credential"}
    BY <1>1, <1>a, CheckTargetStep DEF CheckTarget
  <2> QED
    BY <1>1, <2>1
<1>0. CASE List(r)
  <2>1. req'[r].pc = IF req[r].pc = "list" THEN "read" ELSE "collect"
    BY <1>0, <1>a, ListStep
  <2> QED
    BY <1>0, <2>1
<1>2. CASE ReadNext(r)
  BY <1>2, <1>a, ReadStep DEF ReadNext
<1>3. CASE Decide(r) \/ Conflict(r) \/ ScheduleDelivery(r) \/ ScheduleDevice(r)
  BY <1>3, <1>a, DecideStep, ConflictStep, ScheduleStep
<1>4. CASE AppendAccount(r) \/ AppendChannel(r) \/ Remove(r) \/ ChangeProvider(r)
  <2>1. Appended(r, "done")
    BY <1>4, AppendAccountStep, AppendChannelStep, RemoveStep, ChangeProviderStep
  <2> QED
    BY <2>1 DEF Appended
<1>5. CASE Register(r) \/ AppendDevice(r) \/ Attach(r) \/ AppendAction(r)
  <2>1. Appended(r, "reload")
    BY <1>5, RegisterStep, AppendDeviceStep, AttachStep, AppendActionStep
  <2> QED
    BY <2>1 DEF Appended
<1>6. CASE Create(r)
  <2>1. PICK pc : pc = IF req[r].ask.what = "provider" THEN "token" ELSE "done"
    OBVIOUS
  <2>2. Appended(r, pc)
    BY <1>6, <2>1, CreateStep
  <2> QED
    BY <2>1, <2>2 DEF Appended
<1>7. CASE FirstToken(r)
  BY <1>7, FirstTokenStep
<1>8. CASE Reload(r)
  BY <1>8, <1>a, ReloadStep
<1>9. CASE Project(r)
  <2>1. req'[r].pc = CASE req[r].ask.kind = "register" -> "done"
                       [] req[r].ask.kind = "device" -> "find"
                       [] OTHER -> "current"
    BY <1>9, <1>a, ProjectStep
  <2> QED
    BY <2>1
<1> QED
  BY <1>0, <1>1, <1>2, <1>3, <1>4, <1>5, <1>6, <1>7, <1>8, <1>9 DEF Turn

LEMMA NextListing == Base /\ Listing /\ Collected /\ [Next]_vars => Listing' /\ Collected'
<1>1. ASSUME Base, Listing, Collected, UNCHANGED vars
      PROVE  Listing' /\ Collected'
  BY <1>1 DEF vars, Listing, Collected, Listed, IsProvider
<1>2. ASSUME Base, Listing, Collected, NEW r \in Requests, Load(r)
      PROVE  Listing' /\ Collected'
  <2>1. PICK ask, seen, pc : Opens(r, ask, seen, pc) /\ Starts(ask, seen, pc)
    BY <1>2, LoadOpens
  <2>2. UNCHANGED <<device, resource, action>>
    BY <1>2, LoadOpens
  <2>3. req'[r].pc = pc /\ pc \notin {"read", "collect"}
    <3>1. \A x \in Resources : resource[x].kind \in {"none", "credential", "provider"}
      BY <1>2 DEF Base, StreamTypes, ResourceRecord
    <3>2. ask \in Asks
      BY <2>1 DEF Starts
    <3> QED
      BY <2>1, <3>1, <3>2, AskKinds DEF Opens, Starts
  <2>4. ASSUME NEW q \in Requests \ {r}
        PROVE  /\ req'[q].pc = req[q].pc /\ req'[q].ask = req[q].ask
               /\ req'[q].todo = req[q].todo /\ req'[q].found = req[q].found
    <3>1. CASE q \in UnderWay
      BY <3>1, <2>1 DEF Opens
    <3>2. CASE q \notin UnderWay
      BY <3>2, <2>1 DEF Opens
    <3> QED
      BY <3>1, <3>2
  <2>5. \A x : Listed(x)' = Listed(x)
    BY <2>2 DEF Listed, IsProvider
  <2> QED
    BY <1>2, <2>2, <2>3, <2>4, <2>5 DEF Listing, Collected, IsProvider
<1>3. ASSUME Base, Listing, Collected, NEW r \in Requests, Turn(r)
      PROVE  Listing' /\ Collected'
  <2>1. Proceeds(r) /\ r \in UnderWay /\ Grew
    BY <1>3, TurnMoves, TurnChanges DEF Moved, Changed
  <2>2. /\ \A q \in Requests \ {r} : req'[q] = req[q]
        /\ req'[r].ask = req[r].ask
    BY <2>1 DEF Proceeds
  <2>a. \A x \in Resources : IsProvider(x) => IsProvider(x)'
    BY <2>1 DEF Grew, IsProvider
  <2>3. ASSUME NEW q \in Requests \ {r}, NEW ask \in Asks
        PROVE  /\ req'[q].pc \in {"read", "collect"} /\ req'[q].ask = ask =>
                    req'[q].todo \subseteq Listed(ask)'
               /\ req'[q].pc = "collect" =>
                    \A p \in req'[q].found : p \in Resources /\ IsProvider(p)'
    <3>1. req'[q] = req[q]
      BY <2>2
    <3>2. Listed(ask) \subseteq Listed(ask)'
      BY <2>1, ListedGrows
    <3> QED
      BY <3>1, <3>2, <2>a, <1>3 DEF Listing, Collected
  <2>4. CASE req'[r].pc \notin {"read", "collect"}
    <3>1. [kind |-> "register"] \in Asks
      BY DEF Asks
    <3> QED
      BY <3>1, <2>3, <2>4 DEF Listing, Collected
  <2>r. req[r].ask \in Asks
    BY <1>3, <2>1, OfKind DEF UnderWay
  <2> PICK ask \in Asks : ask = req[r].ask
    BY <2>r
  <2>g. Listed(ask) \subseteq Listed(ask)'
    BY <2>1, ListedGrows
  <2>5. CASE List(r)
    <3>1. req'[r].todo = Listed(req[r].ask) /\ req'[r].found = {}
      BY <2>5, <1>3, <2>1, ListStep DEF UnderWay, Base
    <3>2. req'[r].todo \subseteq Listed(ask)'
      BY <3>1, <2>g
    <3> QED
      BY <2>2, <2>3, <3>1, <3>2 DEF Listing, Collected
  <2>6. CASE /\ ReadNext(r) /\ req'[r].pc = req[r].pc
             /\ req[r].pc \in {"read", "collect"}
    <3>0. /\ req[r].pc \in PcsOf(req[r].ask.kind)
          /\ req[r].ask.kind \in {"register", "limit", "device", "create", "rename", "remove",
              "issue", "withdraw", "attach", "reconfigure", "action", "channel"}
      BY <1>3, <2>6, OfKind
    <3>1. PICK x \in req[r].todo :
              /\ req'[r].todo = req[r].todo \ {x}
              /\ req'[r].found =
                   IF ~Counts(r, x) THEN req[r].found
                   ELSE req[r].found \cup {IF req[r].pc = "read" THEN x ELSE action[x].target}
      BY <1>3, <2>6, ReadStep DEF Base
    <3>a. req[r].todo \subseteq Listed(ask)
      BY <1>3, <2>6 DEF Listing
    <3>2. req'[r].todo \subseteq Listed(ask)'
      BY <3>1, <3>a, <2>g
    <3>3. ASSUME req[r].pc = "collect"
          PROVE  \A p \in req'[r].found : p \in Resources /\ IsProvider(p)'
      <4>1. req[r].ask.kind = "device"
        BY <3>0, <3>3, KindsOfPcs
      <4>2. x \in ActionIds /\ action[x].status # "none"
        BY <3>1, <3>a, <4>1 DEF Listed
      <4>3. action[x].target \in Resources
        BY <4>2, <1>3 DEF Base, Existing
      <4>4. Counts(r, x) => IsProvider(action[x].target)
        BY <4>1 DEF Counts
      <4>5. \A p \in req[r].found : p \in Resources /\ IsProvider(p)
        BY <1>3, <3>3 DEF Collected
      <4> QED
        BY <3>1, <3>3, <4>3, <4>4, <4>5, <2>a
    <3> QED
      BY <2>2, <2>3, <2>6, <3>2, <3>3 DEF Listing, Collected
  <2> QED
    BY <1>3, <2>4, <2>5, <2>6, ArrivesAt
<1> QED
  BY <1>1, <1>2, <1>3, NextTurns

LEMMA ListingHolds == Spec => [](Base /\ Listing /\ Collected)
<1>1. Init => Listing /\ Collected
  BY DEF Init, Listing, Collected
<1> QED
  BY <1>1, NextListing, BaseHolds, PTL DEF Spec

\* The streams keep their shape, requests ask for what exists, and a device's
\* deliveries are looked for among providers.
THEOREM TypeCorrect == Spec => []TypeOK
<1>1. StreamTypes => /\ account \in [limit : Limits, version : Nat]
                     /\ channel \in [status : {"none", "active", "revoked"}, version : Nat]
                     /\ device \in [DeviceIds -> DeviceRecord]
                     /\ resource \in [Resources -> ResourceRecord]
                     /\ action \in [ActionIds -> ActionRecord] /\ due \subseteq Resources
  BY DEF StreamTypes, AccountRecord, ChannelRecord
<1>2. ASSUME Base, Collected, NEW r \in Requests
      PROVE  /\ req[r].pc # "new" => req[r].ask \in Asks
             /\ req[r].pc = "collect" => \A p \in req[r].found : p \in Resources /\ IsProvider(p)
             /\ req[r].beside \subseteq Requests
  BY <1>2 DEF Base, RequestTypes, Collected, Beside
<1>3. Base /\ Collected => TypeOK
  BY <1>1, <1>2 DEF Base, TypeOK, DeviceRecord, ResourceRecord, ActionRecord
<1> QED
  BY <1>3, ListingHolds, PTL

-----------------------------------------------------------------------------
(* What a request has loaded is the stream as it is, or as it was at a lower *)
(* version. *)

LoadedAs(seen, now) == now = seen \/ now.version > seen.version

Loaded(r) ==
  LET ask == req[r].ask
      seen == req[r].seen
  IN /\ ask.kind = "device" =>
          /\ seen \in DeviceRecord /\ seen.status \in {"enabled", "disabled"}
          /\ LoadedAs(seen, device[ask.id])
     /\ ask.kind = "channel" =>
          /\ seen \in ChannelRecord /\ (seen.status = "active" <=> ask.to # "registered")
          /\ LoadedAs(seen, channel)
     /\ ask.kind \in {"action", "reconfigure"} =>
          /\ seen \in ActionRecord /\ seen.device = action[ask.action].device
          /\ LoadedAs(seen, action[ask.action])
     /\ ask.kind = "action" => seen.status \in {"enabled", "disabled"}

AllLoaded == \A r \in Requests : req[r].pc # "new" => Loaded(r)

\* What a step leaves of the requests that do not take it.
LEMMA OtherRequests ==
  ASSUME Base, NEW r \in Requests, Load(r) \/ Turn(r), NEW q \in Requests, q # r
  PROVE  /\ req'[q].pc = req[q].pc /\ req'[q].ask = req[q].ask /\ req'[q].seen = req[q].seen
         /\ req'[q].todo = req[q].todo /\ req'[q].found = req[q].found
         /\ req[q].beside \subseteq req'[q].beside
<1>1. CASE Turn(r)
  BY <1>1, TurnMoves DEF Moved, Proceeds
<1>2. CASE Load(r)
  <2>1. PICK ask, seen, pc : Opens(r, ask, seen, pc) /\ Starts(ask, seen, pc)
    BY <1>2, LoadOpens
  <2>2. CASE q \in UnderWay
    BY <2>1, <2>2 DEF Opens
  <2>3. CASE q \notin UnderWay
    BY <2>1, <2>3 DEF Opens
  <2> QED
    BY <2>2, <2>3
<1> QED
  BY <1>1, <1>2

LEMMA NextGrew == ASSUME Base, NEW r \in Requests, Load(r) \/ Turn(r) PROVE Grew
<1>1. CASE Turn(r)
  BY <1>1, TurnChanges DEF Changed
<1>2. CASE Load(r)
  BY <1>2, LoadOpens, NothingChanged DEF Changed
<1> QED
  BY <1>1, <1>2

LEMMA StillLoaded ==
  ASSUME Base, Base', Grew, NEW q \in Requests, req[q].pc # "new", Loaded(q),
         req'[q].ask = req[q].ask, req'[q].seen = req[q].seen
  PROVE  Loaded(q)'
<1>1. req[q].ask \in Asks /\ Named(q)
  BY OfKind
<1> PICK ask, seen : ask = req[q].ask /\ seen = req[q].seen
  OBVIOUS
<1>2. ASSUME ask.kind = "device"
      PROVE  LoadedAs(seen, device'[ask.id])
  <2>1. ask.id \in DeviceIds
    BY <1>1, <1>2, AskKinds
  <2>2. seen \in DeviceRecord /\ device[ask.id] \in DeviceRecord /\ device'[ask.id] \in DeviceRecord
    BY <1>2, <2>1 DEF Loaded, Base, StreamTypes
  <2>3. LoadedAs(seen, device[ask.id])
    BY <1>2 DEF Loaded
  <2>4. device'[ask.id] = device[ask.id] \/ device'[ask.id].version > device[ask.id].version
    BY <2>1 DEF Grew
  <2>5. seen.version \in Nat /\ device[ask.id].version \in Nat /\ device'[ask.id].version \in Nat
    BY <2>2 DEF DeviceRecord
  <2> QED
    BY <2>3, <2>4, <2>5 DEF LoadedAs
<1>3. ASSUME ask.kind = "channel"
      PROVE  LoadedAs(seen, channel')
  <2>1. seen \in ChannelRecord /\ channel \in ChannelRecord /\ channel' \in ChannelRecord
    BY <1>3 DEF Loaded, Base, StreamTypes
  <2>2. LoadedAs(seen, channel)
    BY <1>3 DEF Loaded
  <2>3. channel' = channel \/ channel'.version > channel.version
    BY DEF Grew
  <2>4. seen.version \in Nat /\ channel.version \in Nat /\ channel'.version \in Nat
    BY <2>1 DEF ChannelRecord
  <2> QED
    BY <2>2, <2>3, <2>4 DEF LoadedAs
<1>4. ASSUME ask.kind \in {"action", "reconfigure"}
      PROVE  LoadedAs(seen, action'[ask.action]) /\ seen.device = action'[ask.action].device
  <2>1. ask.action \in ActionIds /\ action[ask.action].status # "none"
    BY <1>1, <1>4, AskKinds DEF Named
  <2>2. /\ seen \in ActionRecord /\ action[ask.action] \in ActionRecord
        /\ action'[ask.action] \in ActionRecord
    BY <1>4, <2>1 DEF Loaded, Base, StreamTypes
  <2>3. LoadedAs(seen, action[ask.action]) /\ seen.device = action[ask.action].device
    BY <1>4 DEF Loaded
  <2>4. action'[ask.action] = action[ask.action]
          \/ action'[ask.action].version > action[ask.action].version
    BY <2>1 DEF Grew
  <2>5. /\ seen.version \in Nat /\ action[ask.action].version \in Nat
        /\ action'[ask.action].version \in Nat
    BY <2>2 DEF ActionRecord
  <2>6. action'[ask.action].device = action[ask.action].device
    BY <2>1 DEF Grew
  <2> QED
    BY <2>3, <2>4, <2>5, <2>6 DEF LoadedAs
<1> QED
  BY <1>2, <1>3, <1>4 DEF Loaded

LEMMA NextLoaded == Base /\ AllLoaded /\ [Next]_vars => AllLoaded'
<1>1. ASSUME Base, AllLoaded, UNCHANGED vars
      PROVE  AllLoaded'
  BY <1>1 DEF vars, AllLoaded, Loaded, LoadedAs
<1>2. ASSUME Base, AllLoaded, NEW r \in Requests, Load(r) \/ Turn(r)
      PROVE  AllLoaded'
  <2>1. Base' /\ Grew
    BY <1>2, NextGrew, LoadKeepsBase, TurnKeepsBase
  <2>2. ASSUME NEW q \in Requests, q # r, req'[q].pc # "new"
        PROVE  Loaded(q)'
    <3>1. /\ req'[q].pc = req[q].pc /\ req'[q].ask = req[q].ask /\ req'[q].seen = req[q].seen
      BY <1>2, <2>2, OtherRequests
    <3> QED
      BY <1>2, <2>1, <2>2, <3>1, StillLoaded DEF AllLoaded
  <2>3. CASE Turn(r)
    <3>1. /\ req'[r].ask = req[r].ask /\ req'[r].seen = req[r].seen
          /\ req[r].pc # "new"
      BY <1>2, <2>3, TurnMoves DEF Moved, Proceeds, UnderWay
    <3>2. Loaded(r)'
      BY <1>2, <2>1, <3>1, StillLoaded DEF AllLoaded
    <3> QED
      BY <2>2, <3>2 DEF AllLoaded
  <2>4. CASE Load(r)
    <3>1. PICK ask, seen, pc : Opens(r, ask, seen, pc) /\ Starts(ask, seen, pc)
      BY <1>2, <2>4, LoadOpens
    <3>2. req'[r].ask = ask /\ req'[r].seen = seen /\ UNCHANGED <<channel, device, action>>
      BY <1>2, <2>4, <3>1, LoadOpens DEF Opens
    <3>3. ask \in Asks
      BY <3>1 DEF Starts
    <3>4. ask.kind = "device" => /\ seen \in DeviceRecord /\ seen = device[ask.id]
                                 /\ seen.status \in {"enabled", "disabled"}
      BY <1>2, <3>1, <3>3, AskKinds DEF Starts, Live, Base, StreamTypes
    <3>5. ask.kind = "channel" => /\ seen \in ChannelRecord /\ seen = channel
                                  /\ (seen.status = "active" <=> ask.to # "registered")
      BY <1>2, <3>1 DEF Starts, Base, StreamTypes
    <3>6. ask.kind \in {"action", "reconfigure"} =>
            seen \in ActionRecord /\ seen = action[ask.action]
      BY <1>2, <3>1, <3>3, AskKinds DEF Starts, Base, StreamTypes
    <3>7. ask.kind = "action" => seen.status \in {"enabled", "disabled"}
      BY <3>1, <3>6 DEF Starts, Attached
    <3>8. Loaded(r)'
      BY <3>2, <3>4, <3>5, <3>6, <3>7 DEF Loaded, LoadedAs
    <3> QED
      BY <2>2, <3>8 DEF AllLoaded
  <2> QED
    BY <1>2, <2>3, <2>4
<1> QED
  BY <1>1, <1>2, NextTurns

LEMMA LoadedHolds == Spec => [](Base /\ AllLoaded)
<1>1. Init => AllLoaded
  BY DEF Init, AllLoaded
<1> QED
  BY <1>1, NextLoaded, BaseHolds, PTL DEF Spec

\* The version a request has loaded identifies what it has loaded.
LEMMA FreshIsLoaded ==
  ASSUME Base, AllLoaded, NEW r \in Requests
  PROVE  /\ AppendDevice(r) => device[req[r].ask.id] = req[r].seen
         /\ AppendChannel(r) => channel = req[r].seen
         /\ AppendAction(r) => action[req[r].ask.action] = req[r].seen
<1>1. ASSUME AppendDevice(r)
      PROVE  device[req[r].ask.id] = req[r].seen
  <2> PICK o : o = req[r].ask.id
    OBVIOUS
  <2>1. /\ req[r].ask.kind = "device" /\ device[o].version = req[r].seen.version
        /\ device[o].version \in Nat /\ req[r].pc = "append"
    BY <1>1, AppendDeviceStep DEF Appended
  <2>2. LoadedAs(req[r].seen, device[o])
    BY <2>1 DEF AllLoaded, Loaded
  <2> QED
    BY <2>1, <2>2 DEF LoadedAs
<1>2. ASSUME AppendChannel(r)
      PROVE  channel = req[r].seen
  <2>1. /\ req[r].ask.kind = "channel" /\ channel.version = req[r].seen.version
        /\ req[r].pc = "append"
    BY <1>2, AppendChannelStep DEF Appended
  <2>2. LoadedAs(req[r].seen, channel)
    BY <2>1 DEF AllLoaded, Loaded
  <2>3. channel.version \in Nat
    BY DEF Base, StreamTypes, ChannelRecord
  <2> QED
    BY <2>1, <2>2, <2>3 DEF LoadedAs
<1>3. ASSUME AppendAction(r)
      PROVE  action[req[r].ask.action] = req[r].seen
  <2> PICK o : o = req[r].ask.action
    OBVIOUS
  <2>1. /\ action[o].version = req[r].seen.version
        /\ action[o].version \in Nat
    BY <1>3, AppendActionStep
  <2>2. req[r].ask.kind \in {"action", "reconfigure"} /\ req[r].pc = "append"
    BY <1>3 DEF AppendAction, Asked
  <2>3. LoadedAs(req[r].seen, action[o])
    BY <2>2 DEF AllLoaded, Loaded
  <2> QED
    BY <2>1, <2>3 DEF LoadedAs
<1> QED
  BY <1>1, <1>2, <1>3

\* Which steps change the device, the actions and the channel.
LEMMA WhoChanges ==
  ASSUME NEW r \in Requests, Load(r) \/ Turn(r), Base
  PROVE  /\ Register(r) \/ AppendDevice(r) \/ device' = device
         /\ Attach(r) \/ AppendAction(r) \/ action' = action
         /\ AppendChannel(r) \/ channel' = channel
         /\ Create(r) \/ FirstToken(r) \/ Remove(r) \/ ChangeProvider(r) \/ resource' = resource
<1>1. CASE Load(r)
  BY <1>1, LoadOpens
<1>2. CASE CheckTarget(r) \/ List(r) \/ ReadNext(r) \/ Decide(r) \/ Conflict(r)
           \/ Reload(r) \/ Project(r) \/ ScheduleDelivery(r) \/ ScheduleDevice(r)
  BY <1>2 DEF CheckTarget, List, ReadNext, Decide, Conflict, Reload, Project,
              ScheduleDelivery, ScheduleDevice, streams
<1>3. CASE AppendAccount(r) \/ AppendChannel(r) \/ Register(r) \/ AppendDevice(r)
           \/ Create(r) \/ FirstToken(r) \/ Remove(r) \/ ChangeProvider(r)
           \/ Attach(r) \/ AppendAction(r)
  BY <1>3 DEF AppendAccount, AppendChannel, Register, AppendDevice, Create, FirstToken, Remove,
              ChangeProvider, Attach, AppendAction
<1> QED
  BY <1>1, <1>2, <1>3 DEF Turn

EndsStay ==
  /\ \A d \in DeviceIds : device[d].status = "decommissioned" =>
          device'[d].status = "decommissioned"
  /\ \A a \in ActionIds : action[a].status = "detached" => action'[a].status = "detached"
  /\ channel.status = "revoked" /\ channel' # channel =>
          \E r \in Requests : /\ req[r].pc = "append" /\ req'[r].pc = "done"
                              /\ req[r].ask = [kind |-> "channel", to |-> "registered"]

LEMMA StepEndsStay ==
  ASSUME Base, AllLoaded, NEW r \in Requests, Load(r) \/ Turn(r)
  PROVE  EndsStay
<1>1. ASSUME NEW d \in DeviceIds, device[d].status = "decommissioned"
      PROVE  device'[d].status = "decommissioned"
  <2>1. CASE device' = device
    BY <2>1, <1>1
  <2>2. CASE Register(r)
    BY <2>2, <1>1, RegisterStep
  <2>3. CASE AppendDevice(r)
    <3> PICK o : o = req[r].ask.id
      OBVIOUS
    <3>1. /\ \A x \in DeviceIds \ {o} : device'[x] = device[x]
          /\ req[r].ask.kind = "device" /\ req[r].pc = "append"
      BY <2>3, AppendDeviceStep DEF Appended
    <3>2. device[o].status \in {"enabled", "disabled"}
      BY <2>3, <3>1, FreshIsLoaded DEF AllLoaded, Loaded
    <3> QED
      BY <1>1, <3>1, <3>2
  <2> QED
    BY <2>1, <2>2, <2>3, WhoChanges
<1>2. ASSUME NEW a \in ActionIds, action[a].status = "detached"
      PROVE  action'[a].status = "detached"
  <2>1. CASE action' = action
    BY <2>1, <1>2
  <2>2. CASE Attach(r)
    BY <2>2, <1>2, AttachStep
  <2>3. CASE AppendAction(r)
    <3> PICK o : o = req[r].ask.action
      OBVIOUS
    <3>1. /\ \A x \in ActionIds \ {o} : action'[x] = action[x]
          /\ req[r].pc = "append"
      BY <2>3, AppendActionStep DEF AppendAction, Asked
    <3>2. CASE req[r].ask.kind = "action"
      <4>1. action[o].status \in {"enabled", "disabled"}
        BY <2>3, <3>1, <3>2, FreshIsLoaded DEF AllLoaded, Loaded
      <4> QED
        BY <1>2, <3>1, <4>1
    <3>3. CASE req[r].ask.kind = "reconfigure"
      <4>1. action'[o] = [status |-> action[o].status, device |-> action[o].device,
                                target |-> req[r].ask.id, version |-> action[o].version + 1,
                                by |-> IF req[r].ask.id = action[o].target
                                         THEN action[o].by ELSE r]
        BY <2>3, <3>3, AppendActionStep
      <4>2. action'[o].status = action[o].status
        BY <4>1
      <4> QED
        BY <1>2, <3>1, <4>2
    <3> QED
      BY <2>3, <3>2, <3>3 DEF AppendAction, Asked
  <2> QED
    BY <2>1, <2>2, <2>3, WhoChanges
<1>3. ASSUME channel.status = "revoked", channel' # channel
      PROVE  \E q \in Requests : /\ req[q].pc = "append" /\ req'[q].pc = "done"
                                 /\ req[q].ask = [kind |-> "channel", to |-> "registered"]
  <2>1. AppendChannel(r)
    BY <1>3, WhoChanges
  <2>2. /\ req[r].pc = "append" /\ req'[r].pc = "done" /\ req[r].ask.kind = "channel"
    BY <2>1, AppendChannelStep DEF Appended
  <2>3. channel = req[r].seen /\ (req[r].seen.status = "active" <=> req[r].ask.to # "registered")
    BY <2>1, <2>2, FreshIsLoaded DEF AllLoaded, Loaded
  <2>4. req[r].ask.to = "registered"
    BY <1>3, <2>3
  <2>5. req[r].ask \in Asks
    BY <2>2, OfKind
  <2>6. req[r].ask = [kind |-> "channel", to |-> "registered"]
    BY <2>2, <2>4, <2>5 DEF Asks
  <2> QED
    BY <2>2, <2>6
<1> QED
  BY <1>1, <1>2, <1>3 DEF EndsStay

\* A device or an action loaded before its end cannot be brought back by a request
\* that still believes it alive: the append sees that the stream has grown. And a
\* channel that was revoked changes only by a registration.
THEOREM EndsStayFinal == Spec => EndsAreFinal
<1>1. Base /\ AllLoaded /\ [Next]_vars => [EndsStay]_vars
  BY StepEndsStay, NextTurns
<1>2. Spec => [][EndsStay]_vars
  BY <1>1, LoadedHolds, PTL DEF Spec
<1> QED
  BY <1>2 DEF EndsStay, EndsAreFinal

-----------------------------------------------------------------------------
(* Names and uses. A request that has checked for rivals, or is about to, has *)
(* met every rival there is: it has yet to read it, has counted it, or was    *)
(* under way together with the request that made it one.                      *)

\* x has the name that is asked for.
NameRival(ask, x) ==
  /\ Active(x) /\ resource[x].name = ask.name
  /\ \/ ask.kind = "create" /\ resource[x].kind = ask.what
     \/ ask.kind = "rename" /\ IsProvider(x) /\ x # ask.id

\* a uses what is to be removed, or delivers what is to be delivered.
UseRival(ask, a) ==
  /\ Attached(a) /\ action[a].target = ask.id
  /\ \/ ask.kind = "remove"
     \/ ask.kind = "attach" /\ action[a].device = ask.device
     \/ ask.kind = "reconfigure" /\ a # ask.action /\ action[a].device = action[ask.action].device

\* What names the target anew: not a reconfiguration that keeps it.
NamesTarget(r) ==
  \/ req[r].ask.kind = "attach"
  \/ req[r].ask.kind = "reconfigure" /\ req[r].ask.id # req[r].seen.target

Met(r, x, by) ==
  /\ req[r].pc = "read" => x \in req[r].todo \cup req[r].found \/ by \in req[r].beside
  /\ req[r].pc = "append" => by \in req[r].beside

NamesMet(r, ask) ==
  ask.kind \in {"create", "rename"} =>
    \A x \in Resources : NameRival(ask, x) => Met(r, x, resource[x].by)

UsesMet(r, ask) ==
  (ask.kind = "remove" \/ (NamesTarget(r) /\ IsProvider(ask.id))) =>
    \A a \in ActionIds : UseRival(ask, a) => Met(r, a, action[a].by)

TargetMet(r, ask) ==
  /\ NamesTarget(r) /\ req[r].pc \in {"list", "read", "append"} =>
       Active(ask.id) \/ resource[ask.id].by \in req[r].beside
  /\ req[r].pc = "credential" => ~IsProvider(ask.id)

AllMet ==
  \A r \in Requests : \A ask \in Asks :
    req[r].pc # "new" /\ req[r].ask = ask =>
      NamesMet(r, ask) /\ UsesMet(r, ask) /\ TargetMet(r, ask)

\* How a step makes names rivals: it leaves them alone, or it gives one.
GivesName(r, x) ==
  /\ req[r].pc = "append" /\ req[r].ask.kind \in {"create", "rename"}
  /\ resource'[x].by = r
  /\ \A y \in Resources \ {x} : resource'[y] = resource[y]
  /\ \A ask \in Asks : \A y \in Resources \ {x} :
       req[r].ask = ask /\ Active(y) /\ resource[y].kind = resource'[x].kind
         /\ resource[y].name = resource'[x].name => NameRival(ask, y)

LEMMA NameStep ==
  ASSUME Base, NEW r \in Requests, Load(r) \/ Turn(r)
  PROVE  \/ \A x \in Resources : Active(x)' =>
              /\ Active(x) /\ resource'[x].kind = resource[x].kind
              /\ resource'[x].name = resource[x].name /\ resource'[x].by = resource[x].by
         \/ \E x \in Resources : GivesName(r, x)
<1>1. CASE resource' = resource
  BY <1>1 DEF Active
<1>2. CASE Create(r)
  <2>1. /\ req[r].ask.kind = "create" /\ r \in Resources
        /\ resource'[r] = [kind |-> req[r].ask.what, status |-> "active",
                            name |-> req[r].ask.name, tokens |-> {}, by |-> r]
        /\ \A x \in Resources \ {r} : resource'[x] = resource[x]
    BY <1>2, CreateStep
  <2>2. /\ resource'[r].by = r /\ resource'[r].kind = req[r].ask.what
        /\ resource'[r].name = req[r].ask.name
    BY <2>1
  <2>3. req[r].pc = "append"
    BY <1>2 DEF Create, Asked
  <2>4. GivesName(r, r)
    BY <2>1, <2>2, <2>3 DEF GivesName, NameRival
  <2> QED
    BY <2>1, <2>4
<1>3. CASE FirstToken(r)
  <2>1. /\ r \in Resources
        /\ resource'[r] = [kind |-> resource[r].kind, status |-> resource[r].status,
                           name |-> resource[r].name, tokens |-> resource[r].tokens \cup {r},
                           by |-> resource[r].by]
        /\ \A x \in Resources \ {r} : resource'[x] = resource[x]
    BY <1>3, FirstTokenStep
  <2>2. /\ resource'[r].kind = resource[r].kind /\ resource'[r].status = resource[r].status
        /\ resource'[r].name = resource[r].name /\ resource'[r].by = resource[r].by
    BY <2>1
  <2> QED
    BY <2>1, <2>2 DEF Active
<1>4. CASE Remove(r)
  <2> PICK o : o = req[r].ask.id
    OBVIOUS
  <2>1. /\ o \in Resources
        /\ resource'[o] = [kind |-> resource[o].kind, status |-> "removed",
                            name |-> resource[o].name, tokens |-> resource[o].tokens, by |-> r]
        /\ \A x \in Resources \ {o} : resource'[x] = resource[x]
    BY <1>4, RemoveStep
  <2>2. resource'[o].status = "removed"
    BY <2>1
  <2> QED
    BY <2>1, <2>2 DEF Active
<1>5. CASE ChangeProvider(r)
  <2> PICK o : o = req[r].ask.id
    OBVIOUS
  <2>1. /\ o \in Resources /\ resource[o].kind = "provider"
        /\ resource'[o].kind = resource[o].kind /\ resource'[o].status = resource[o].status
        /\ \A x \in Resources \ {o} : resource'[x] = resource[x]
    BY <1>5, ChangeProviderStep
  <2>2. CASE req[r].ask.kind # "rename"
    <3>1. resource'[o].name = resource[o].name /\ resource'[o].by = resource[o].by
      BY <1>5, <2>2, ChangeProviderStep
    <3> QED
      BY <2>1, <3>1 DEF Active
  <2>3. CASE req[r].ask.kind = "rename"
    <3>1. /\ resource'[o].name = req[r].ask.name
          /\ resource'[o].by = IF Active(o) THEN r ELSE resource[o].by
      BY <1>5, <2>3, ChangeProviderStep
    <3>2. req[r].pc = "append"
      BY <1>5 DEF ChangeProvider, Asked
    <3>3. CASE Active(o)
      <4>1. GivesName(r, o)
        BY <2>1, <2>3, <3>1, <3>2, <3>3 DEF GivesName, NameRival, IsProvider
      <4> QED
        BY <2>1, <4>1
    <3>4. CASE ~Active(o)
      BY <2>1, <3>4 DEF Active
    <3> QED
      BY <3>3, <3>4
  <2> QED
    BY <2>2, <2>3
<1> QED
  BY <1>1, <1>2, <1>3, <1>4, <1>5, WhoChanges

\* The same of uses.
GivesUse(r, a) ==
  /\ req[r].pc = "append" /\ NamesTarget(r)
  /\ action'[a].by = r /\ action'[a].target = req[r].ask.id
  /\ \A b \in ActionIds \ {a} : action'[b] = action[b]
  /\ \A ask \in Asks : \A b \in ActionIds \ {a} :
       req[r].ask = ask /\ Attached(b) /\ action[b].target = action'[a].target
         /\ action[b].device = action'[a].device => UseRival(ask, b)

LEMMA UseStep ==
  ASSUME Base, AllLoaded, NEW r \in Requests, Load(r) \/ Turn(r)
  PROVE  \/ \A a \in ActionIds : Attached(a)' =>
              /\ Attached(a) /\ action'[a].device = action[a].device
              /\ action'[a].target = action[a].target /\ action'[a].by = action[a].by
         \/ \E a \in ActionIds : GivesUse(r, a)
<1>1. CASE action' = action
  BY <1>1 DEF Attached
<1>2. CASE Attach(r)
  <2>1. /\ req[r].ask.kind = "attach" /\ r \in ActionIds
        /\ action'[r] = [status |-> "enabled", device |-> req[r].ask.device,
                          target |-> req[r].ask.id, version |-> 1, by |-> r]
        /\ \A a \in ActionIds \ {r} : action'[a] = action[a]
    BY <1>2, AttachStep
  <2>2. /\ action'[r].by = r /\ action'[r].device = req[r].ask.device
        /\ action'[r].target = req[r].ask.id
    BY <2>1
  <2>3. req[r].pc = "append"
    BY <1>2 DEF Attach, Asked
  <2>4. GivesUse(r, r)
    BY <2>1, <2>2, <2>3 DEF GivesUse, UseRival, NamesTarget
  <2> QED
    BY <2>1, <2>4
<1>3. CASE AppendAction(r)
  <2> PICK o : o = req[r].ask.action
    OBVIOUS
  <2>1. /\ o \in ActionIds
        /\ \A a \in ActionIds \ {o} : action'[a] = action[a]
    BY <1>3, AppendActionStep
  <2>2. req[r].pc = "append" /\ req[r].ask.kind \in {"action", "reconfigure"}
    BY <1>3 DEF AppendAction, Asked
  <2>3. action[o] = req[r].seen
    BY <1>3, FreshIsLoaded
  <2>4. CASE req[r].ask.kind = "action"
    <3>1. action'[o] = [status |-> req[r].ask.to, device |-> action[o].device,
                                target |-> action[o].target, version |-> action[o].version + 1,
                                by |-> action[o].by]
      BY <1>3, <2>4, AppendActionStep
    <3>2. /\ action'[o].device = action[o].device /\ action'[o].target = action[o].target
          /\ action'[o].by = action[o].by
      BY <3>1
    <3>3. Attached(o)
      BY <2>2, <2>3, <2>4 DEF AllLoaded, Loaded, Attached
    <3> QED
      BY <2>1, <3>2, <3>3 DEF Attached
  <2>5. CASE req[r].ask.kind = "reconfigure"
    <3>1. action'[o] = [status |-> action[o].status, device |-> action[o].device,
                                target |-> req[r].ask.id, version |-> action[o].version + 1,
                                by |-> IF req[r].ask.id = action[o].target
                                         THEN action[o].by ELSE r]
      BY <1>3, <2>5, AppendActionStep
    <3>2. /\ action'[o].device = action[o].device /\ action'[o].target = req[r].ask.id
          /\ action'[o].by = IF req[r].ask.id = action[o].target THEN action[o].by ELSE r
          /\ action'[o].status = action[o].status
      BY <3>1
    <3>3. CASE req[r].ask.id = action[o].target
      BY <2>1, <3>2, <3>3 DEF Attached
    <3>4. CASE req[r].ask.id # action[o].target
      <4>1. NamesTarget(r)
        BY <2>3, <2>5, <3>4 DEF NamesTarget
      <4>2. GivesUse(r, o)
        BY <2>1, <2>2, <2>5, <3>2, <3>4, <4>1 DEF GivesUse, UseRival
      <4> QED
        BY <2>1, <4>2
    <3> QED
      BY <3>3, <3>4
  <2> QED
    BY <2>2, <2>4, <2>5
<1> QED
  BY <1>1, <1>2, <1>3, WhoChanges

\* What is removed stays so, and bears the name of the request that removed it.
LEMMA RemovalStep ==
  ASSUME Base, NEW r \in Requests, Load(r) \/ Turn(r), NEW x \in Resources,
         resource[x].kind # "none", ~Active(x)'
  PROVE  \/ ~Active(x) /\ resource'[x].by = resource[x].by
         \/ /\ req[r].pc = "append" /\ req[r].ask.kind = "remove" /\ req[r].ask.id = x
            /\ resource'[x].by = r /\ action' = action
<1>1. CASE resource' = resource
  BY <1>1 DEF Active
<1>2. CASE Create(r)
  BY <1>2, CreateStep DEF Active
<1>3. CASE FirstToken(r)
  <2>1. /\ r \in Resources
        /\ resource'[r] = [kind |-> resource[r].kind, status |-> resource[r].status,
                           name |-> resource[r].name, tokens |-> resource[r].tokens \cup {r},
                           by |-> resource[r].by]
        /\ \A y \in Resources \ {r} : resource'[y] = resource[y]
    BY <1>3, FirstTokenStep
  <2>2. resource'[r].status = resource[r].status /\ resource'[r].by = resource[r].by
    BY <2>1
  <2> QED
    BY <2>1, <2>2 DEF Active
<1>4. CASE Remove(r)
  <2> PICK o : o = req[r].ask.id
    OBVIOUS
  <2>1. /\ req[r].ask.kind = "remove" /\ o \in Resources /\ action' = action
        /\ resource'[o] = [kind |-> resource[o].kind, status |-> "removed",
                            name |-> resource[o].name, tokens |-> resource[o].tokens, by |-> r]
        /\ \A y \in Resources \ {o} : resource'[y] = resource[y]
    BY <1>4, RemoveStep
  <2>2. resource'[o].by = r /\ req[r].pc = "append"
    BY <2>1, <1>4 DEF Remove, Asked
  <2> QED
    BY <2>1, <2>2 DEF Active
<1>5. CASE ChangeProvider(r)
  <2> PICK o : o = req[r].ask.id
    OBVIOUS
  <2>1. /\ o \in Resources
        /\ resource'[o].status = resource[o].status
        /\ \A y \in Resources \ {o} : resource'[y] = resource[y]
    BY <1>5, ChangeProviderStep
  <2>2. ~Active(o) => resource'[o].by = resource[o].by
    BY <1>5, ChangeProviderStep
  <2> QED
    BY <2>1, <2>2 DEF Active
<1> QED
  BY <1>1, <1>2, <1>3, <1>4, <1>5, WhoChanges
\* A request that does not take the step has met who comes to be in its way.
LEMMA OthersMet ==
  ASSUME Base, AllLoaded, AllMet, NEW r \in Requests, Load(r) \/ Turn(r),
         NEW q \in Requests, q # r, NEW ask \in Asks, req[q].pc # "new", req[q].ask = ask
  PROVE  NamesMet(q, ask)' /\ UsesMet(q, ask)' /\ TargetMet(q, ask)'
<1>1. /\ req'[q].pc = req[q].pc /\ req'[q].ask = req[q].ask /\ req'[q].seen = req[q].seen
      /\ req'[q].todo = req[q].todo /\ req'[q].found = req[q].found
      /\ req[q].beside \subseteq req'[q].beside
  BY OtherRequests
<1>2. NamesMet(q, ask) /\ UsesMet(q, ask) /\ TargetMet(q, ask)
  BY DEF AllMet
<1>3. /\ ask.kind \in {"remove", "attach", "reconfigure"} =>
           ask.id \in Resources /\ resource'[ask.id].kind = resource[ask.id].kind
      /\ ask.kind = "reconfigure" => action'[ask.action].device = action[ask.action].device
      /\ ask.kind \in {"remove", "attach", "reconfigure"} => resource[ask.id].kind # "none"
  BY NextGrew, OfKind, AskKinds DEF Named, Grew
<1>4. NamesTarget(q)' <=> NamesTarget(q)
  BY <1>1 DEF NamesTarget
<1>5. ASSUME req[r].pc = "append", req[q].pc \in {"list", "read", "append"}
      PROVE  r \in req'[q].beside
  BY <1>1, <1>5 DEF Base, Beside, UnderWay
<1>6. ASSUME NEW x, NEW by, Met(q, x, by)
      PROVE  /\ req'[q].pc = "read" => x \in req'[q].todo \cup req'[q].found \/ by \in req'[q].beside
             /\ req'[q].pc = "append" => by \in req'[q].beside
  BY <1>1, <1>6 DEF Met
<1>7. ASSUME ask.kind \in {"create", "rename"}, NEW x \in Resources, NameRival(ask, x)'
      PROVE  Met(q, x, resource[x].by)'
  <2>1. CASE /\ Active(x) /\ resource'[x].kind = resource[x].kind
             /\ resource'[x].name = resource[x].name /\ resource'[x].by = resource[x].by
    <3>1. NameRival(ask, x)
      BY <1>7, <2>1 DEF NameRival, IsProvider
    <3> QED
      BY <1>2, <1>6, <1>7, <2>1, <3>1 DEF NamesMet, Met
  <2>2. CASE GivesName(r, x)
    BY <1>1, <1>5, <2>2 DEF GivesName, Met
  <2> QED
    BY <1>7, <2>1, <2>2, NameStep DEF NameRival, GivesName, Active
<1>8. ASSUME ask.kind = "remove" \/ (NamesTarget(q) /\ IsProvider(ask.id)),
             NEW a \in ActionIds, UseRival(ask, a)'
      PROVE  Met(q, a, action[a].by)'
  <2>1. CASE /\ Attached(a) /\ action'[a].device = action[a].device
             /\ action'[a].target = action[a].target /\ action'[a].by = action[a].by
    <3>1. UseRival(ask, a)
      BY <1>3, <1>8, <2>1 DEF UseRival
    <3> QED
      BY <1>2, <1>6, <1>8, <2>1, <3>1 DEF UsesMet, Met
  <2>2. CASE GivesUse(r, a)
    BY <1>1, <1>5, <2>2 DEF GivesUse, Met
  <2> QED
    BY <1>8, <2>1, <2>2, UseStep DEF UseRival, GivesUse, Attached
<1>9. NamesMet(q, ask)'
  BY <1>7 DEF NamesMet
<1>10. UsesMet(q, ask)'
  <2>1. NamesTarget(q) => ask.kind \in {"attach", "reconfigure"}
    BY DEF NamesTarget
  <2> QED
    BY <1>3, <1>4, <1>8, <2>1 DEF UsesMet, IsProvider
<1>11. TargetMet(q, ask)'
  <2>1. NamesTarget(q) => ask.kind \in {"attach", "reconfigure"}
    BY DEF NamesTarget
  <2>2. ASSUME NamesTarget(q), req[q].pc \in {"list", "read", "append"}, ~Active(ask.id)'
        PROVE  resource'[ask.id].by \in req'[q].beside
    <3>1. ask.id \in Resources /\ resource[ask.id].kind # "none"
      BY <1>3, <2>1, <2>2
    <3>2. CASE ~Active(ask.id) /\ resource'[ask.id].by = resource[ask.id].by
      BY <1>1, <1>2, <2>2, <3>2 DEF TargetMet
    <3>3. CASE req[r].pc = "append" /\ resource'[ask.id].by = r
      BY <1>5, <2>2, <3>3
    <3> QED
      BY <2>2, <3>1, <3>2, <3>3, RemovalStep
  <2>3. req[q].pc = "credential" => ask.kind = "reconfigure"
    BY OfKind, KindsOfPcs
  <2> QED
    BY <1>1, <1>2, <1>3, <1>4, <2>2, <2>3 DEF TargetMet, IsProvider
<1> QED
  BY <1>9, <1>10, <1>11

\* A request that loads has yet to check, or need not.
LEMMA LoadMet ==
  ASSUME Base, NEW r \in Requests, Load(r), NEW ask \in Asks, req'[r].ask = ask
  PROVE  NamesMet(r, ask)' /\ UsesMet(r, ask)' /\ TargetMet(r, ask)'
<1>1. PICK asked, seen, pc : Opens(r, asked, seen, pc) /\ Starts(asked, seen, pc)
  BY LoadOpens
<1>2. asked = ask /\ req'[r].pc = pc /\ req'[r].seen = seen
  BY <1>1 DEF Opens
<1>3. Starts(ask, seen, pc) /\ resource' = resource /\ action' = action
  BY <1>1, <1>2, LoadOpens
<1>4. \A x \in Resources : resource[x].kind \in {"none", "credential", "provider"}
  BY DEF Base, StreamTypes, ResourceRecord
<1>5. /\ ask.kind \in {"remove", "attach", "reconfigure"} => ask.id \in Resources
      /\ ask.kind \in {"register", "limit", "device", "create", "rename", "remove",
              "issue", "withdraw", "attach", "reconfigure", "action", "channel"}
  BY AskKinds
<1>6. NamesMet(r, ask)'
  BY <1>2, <1>3 DEF NamesMet, Met, Starts
<1>7. NamesTarget(r)' => /\ ask.kind \in {"attach", "reconfigure"}
                         /\ ask.kind = "reconfigure" => ask.id # seen.target
  BY <1>2 DEF NamesTarget
<1>8. UsesMet(r, ask)'
  <2>1. CASE ask.kind = "remove"
    BY <1>2, <1>3, <2>1 DEF UsesMet, Met, Starts
  <2>2. ASSUME NamesTarget(r)', IsProvider(ask.id)'
        PROVE  pc \notin {"read", "append"}
    <3>1. IsProvider(ask.id)
      BY <1>3, <2>2 DEF IsProvider
    <3> QED
      BY <1>3, <1>7, <2>2, <3>1 DEF Starts, IsProvider
  <2>3. CASE ask.kind # "remove"
    BY <1>2, <2>2, <2>3 DEF UsesMet, Met
  <2> QED
    BY <2>1, <2>3
<1>9. TargetMet(r, ask)'
  <2>1. ASSUME NamesTarget(r)', pc \in {"list", "read", "append"}
        PROVE  Active(ask.id)
    BY <1>3, <1>4, <1>5, <1>7, <2>1 DEF Starts
  <2>2. ASSUME pc = "credential"
        PROVE  ~IsProvider(ask.id)
    BY <1>3, <1>5, <2>2 DEF Starts, IsProvider
  <2>3. Active(ask.id)' <=> Active(ask.id)
    BY <1>3 DEF Active
  <2> QED
    BY <1>2, <1>3, <2>1, <2>2, <2>3 DEF TargetMet, IsProvider
<1> QED
  BY <1>6, <1>8, <1>9

\* A request that checks misses no rival: it lists them, counts each, and goes on
\* to append only if it has counted none.
LEMMA TurnMet ==
  ASSUME Base, AllLoaded, AllMet, NEW r \in Requests, Turn(r), NEW ask \in Asks, req[r].ask = ask
  PROVE  NamesMet(r, ask)' /\ UsesMet(r, ask)' /\ TargetMet(r, ask)'
<1>0. /\ req[r].pc # "new" /\ req'[r].ask = ask /\ req'[r].seen = req[r].seen
      /\ req'[r].beside = req[r].beside
  BY TurnMoves DEF Moved, Proceeds, UnderWay
<1>1. NamesMet(r, ask) /\ UsesMet(r, ask) /\ TargetMet(r, ask)
  BY <1>0 DEF AllMet
<1>2. Named(r) /\ req[r].pc \in PcsOf(ask.kind)
      /\ ask.kind \in {"register", "limit", "device", "create", "rename", "remove",
              "issue", "withdraw", "attach", "reconfigure", "action", "channel"}
  BY <1>0, OfKind
<1>3. NamesTarget(r)' <=> NamesTarget(r)
  BY <1>0 DEF NamesTarget
<1>4. ASSUME resource' = resource, action' = action
      PROVE  /\ \A x : (Active(x)' <=> Active(x)) /\ (NameRival(ask, x)' <=> NameRival(ask, x))
             /\ \A a : UseRival(ask, a)' <=> UseRival(ask, a)
             /\ IsProvider(ask.id)' <=> IsProvider(ask.id)
  BY <1>4 DEF Active, NameRival, UseRival, IsProvider, Attached
<1>5. CASE req'[r].pc \notin {"list", "read", "append"}
  <2>1. req'[r].pc # "credential"
    BY ArrivesAt
  <2> QED
    BY <1>5, <2>1 DEF NamesMet, UsesMet, TargetMet, Met
<1>6. CASE req'[r].pc = "list"
  <2>1. CheckTarget(r)
    BY <1>6, ArrivesAt
  <2>2. Same /\ Active(ask.id)
    BY <1>6, <2>1, CheckTargetStep DEF Base
  <2> QED
    BY <1>4, <1>6, <2>2 DEF NamesMet, UsesMet, TargetMet, Met, Same
<1>7. CASE req'[r].pc = "read" /\ List(r)
  <2>0. /\ req'[r].todo = Listed(req[r].ask)
        /\ req'[r].pc = IF req[r].pc = "list" THEN "read" ELSE "collect"
    BY <1>7, ListStep DEF Base
  <2>a. resource' = resource /\ action' = action
    BY <1>7 DEF List, streams
  <2>1. req'[r].todo = Listed(ask) /\ req[r].pc = "list" /\ resource' = resource /\ action' = action
    BY <1>7, <2>0, <2>a
  <2>2. \A x \in Resources : ask.kind \in {"create", "rename"} /\ NameRival(ask, x) => x \in Listed(ask)
    BY DEF NameRival, Listed
  <2>3. ASSUME NEW a \in ActionIds, ask.kind \in {"remove", "attach", "reconfigure"}, UseRival(ask, a)
        PROVE  a \in Listed(ask)
    BY <2>3 DEF UseRival, Listed, Attached
  <2>4. NamesMet(r, ask)'
    BY <1>4, <1>7, <2>1, <2>2 DEF NamesMet, Met
  <2>5. UsesMet(r, ask)'
    <3>1. NamesTarget(r) => ask.kind \in {"attach", "reconfigure"}
      BY DEF NamesTarget
    <3> QED
      BY <1>3, <1>4, <1>7, <2>1, <2>3, <3>1 DEF UsesMet, Met
  <2>6. TargetMet(r, ask)'
    BY <1>0, <1>1, <1>3, <1>4, <1>7, <2>1 DEF TargetMet
  <2> QED
    BY <2>4, <2>5, <2>6
<1>8. CASE req'[r].pc = "read" /\ ReadNext(r) /\ req[r].pc = "read"
  <2>1. resource' = resource /\ action' = action
    BY <1>8 DEF ReadNext, streams
  <2>2. PICK x \in req[r].todo :
              /\ req'[r].todo = req[r].todo \ {x}
              /\ req'[r].found =
                   IF ~Counts(r, x) THEN req[r].found
                   ELSE req[r].found \cup {IF req[r].pc = "read" THEN x ELSE action[x].target}
    BY <1>8, ReadStep DEF Base
  <2>3. ASSUME NEW y, y = x => Counts(r, y), y \in req[r].todo \cup req[r].found
        PROVE  y \in req'[r].todo \cup req'[r].found
    BY <1>8, <2>2, <2>3
  <2>4. ASSUME NEW y, ask.kind \in {"create", "rename"}, NameRival(ask, y)
        PROVE  Counts(r, y)
    BY <2>4 DEF NameRival, Counts
  <2>5. ASSUME NEW a, ask.kind \in {"remove", "attach", "reconfigure"}, UseRival(ask, a)
        PROVE  Counts(r, a)
    <3>1. ask.kind = "reconfigure" => req[r].seen.device = action[ask.action].device
      BY <1>0 DEF AllLoaded, Loaded
    <3>2. NotDetached(a)
      BY <2>5 DEF UseRival, Attached, NotDetached
    <3> QED
      BY <2>5, <3>1, <3>2 DEF UseRival, Counts
  <2>6. NamesMet(r, ask)'
    <3>1. ASSUME NEW y \in Resources, ask.kind \in {"create", "rename"}, NameRival(ask, y)
          PROVE  y \in req'[r].todo \cup req'[r].found \/ resource[y].by \in req'[r].beside
      BY <1>0, <1>1, <1>8, <2>3, <2>4, <3>1 DEF NamesMet, Met
    <3> QED
      BY <1>4, <1>8, <2>1, <3>1 DEF NamesMet, Met
  <2>7. UsesMet(r, ask)'
    <3>1. ASSUME NEW a \in ActionIds, ask.kind = "remove" \/ (NamesTarget(r) /\ IsProvider(ask.id)),
                 UseRival(ask, a)
          PROVE  a \in req'[r].todo \cup req'[r].found \/ action[a].by \in req'[r].beside
      <4>1. ask.kind \in {"remove", "attach", "reconfigure"}
        BY <3>1 DEF NamesTarget
      <4> QED
        BY <1>0, <1>1, <1>8, <2>3, <2>5, <3>1, <4>1 DEF UsesMet, Met
    <3> QED
      BY <1>3, <1>4, <1>8, <2>1, <3>1 DEF UsesMet, Met
  <2>8. TargetMet(r, ask)'
    BY <1>0, <1>1, <1>3, <1>4, <1>8, <2>1 DEF TargetMet
  <2> QED
    BY <2>6, <2>7, <2>8
<1>9. CASE req'[r].pc = "append" /\ Decide(r)
  <2>1. /\ Same /\ req[r].pc = "read" /\ req[r].todo = {}
        /\ ~(Cardinality(req[r].found) >=
                      (IF req[r].ask.kind = "register" THEN req[r].seen.limit ELSE 1))
    BY <1>9, DecideStep DEF Base
  <2>2. resource' = resource /\ action' = action
    BY <2>1 DEF Same
  <2>3. ask.kind # "register" => req[r].found = {}
    <3>1. IsFiniteSet(req[r].found)
      BY DEF Base, RequestTypes
    <3>2. Cardinality(req[r].found) \in Nat
      BY <3>1, FS_CardinalityType
    <3> QED
      BY <2>1, <3>1, <3>2, FS_EmptySet
  <2>4. NamesMet(r, ask)'
    BY <1>0, <1>1, <1>4, <1>9, <2>1, <2>2, <2>3 DEF NamesMet, Met
  <2>5. UsesMet(r, ask)'
    <3>1. NamesTarget(r) => ask.kind \in {"attach", "reconfigure"}
      BY DEF NamesTarget
    <3> QED
      BY <1>0, <1>1, <1>3, <1>4, <1>9, <2>1, <2>2, <2>3, <3>1 DEF UsesMet, Met
  <2>6. TargetMet(r, ask)'
    BY <1>0, <1>1, <1>3, <1>4, <1>9, <2>1, <2>2 DEF TargetMet
  <2> QED
    BY <2>4, <2>5, <2>6
<1>10. CASE req'[r].pc = "append" /\ CheckTarget(r)
  <2>1. Same /\ Active(ask.id) /\ req[r].pc = "credential"
    BY <1>10, CheckTargetStep DEF Base, CheckTarget
  <2>2. ask.kind = "reconfigure" /\ ~IsProvider(ask.id)
    BY <1>1, <1>2, <2>1, KindsOfPcs DEF TargetMet
  <2>3. resource' = resource /\ action' = action
    BY <2>1 DEF Same
  <2> QED
    BY <1>4, <1>10, <2>1, <2>2, <2>3 DEF NamesMet, UsesMet, TargetMet
<1> QED
  BY <1>5, <1>6, <1>7, <1>8, <1>9, <1>10, ArrivesAt

LEMMA NextMet == Base /\ AllLoaded /\ AllMet /\ [Next]_vars => AllMet'
<1>1. ASSUME AllMet, UNCHANGED vars
      PROVE  AllMet'
  BY <1>1 DEF vars, AllMet, NamesMet, UsesMet, TargetMet, NamesTarget, Met, NameRival, UseRival,
              Active, IsProvider, Attached
<1>2. ASSUME Base, AllLoaded, AllMet, NEW r \in Requests, Load(r) \/ Turn(r)
      PROVE  AllMet'
  <2>1. ASSUME NEW q \in Requests, NEW ask \in Asks, req'[q].pc # "new", req'[q].ask = ask
        PROVE  NamesMet(q, ask)' /\ UsesMet(q, ask)' /\ TargetMet(q, ask)'
    <3>1. CASE q # r
      <4>1. req[q].pc # "new" /\ req[q].ask = ask
        BY <1>2, <2>1, <3>1, OtherRequests
      <4> QED
        BY <1>2, <3>1, <4>1, OthersMet
    <3>2. CASE q = r /\ Load(r)
      BY <1>2, <2>1, <3>2, LoadMet
    <3>3. CASE q = r /\ Turn(r)
      <4>1. req[r].ask = ask
        BY <1>2, <2>1, <3>3, TurnMoves DEF Moved, Proceeds
      <4> QED
        BY <1>2, <3>3, <4>1, TurnMet
    <3> QED
      BY <1>2, <3>1, <3>2, <3>3
  <2> QED
    BY <2>1 DEF AllMet
<1> QED
  BY <1>1, <1>2, NextTurns

LEMMA MetHolds == Spec => [](Base /\ AllLoaded /\ AllMet)
<1>1. Init => AllMet
  BY DEF Init, AllMet
<1> QED
  BY <1>1, NextMet, LoadedHolds, PTL DEF Spec

\* An overlap is mutual, and is never forgotten.
LEMMA OverlapStays ==
  ASSUME Base, NEW r \in Requests, Load(r) \/ Turn(r), NEW p, NEW q, Overlap(p, q)
  PROVE  Overlap(p, q)' /\ Overlap(q, p)'
<1>1. p \in Requests /\ q \in Requests /\ q \in req[p].beside /\ p \in req[q].beside
  BY DEF Overlap, Base, Beside
<1>2. ASSUME NEW s \in Requests
      PROVE  req[s].beside \subseteq req'[s].beside
  <2>1. CASE s # r
    BY <2>1, OtherRequests
  <2>2. CASE s = r /\ Turn(r)
    BY <2>2, TurnMoves DEF Moved, Proceeds
  <2>3. CASE s = r /\ Load(r)
    BY <2>3, LoadOpens DEF Base, RequestTypes
  <2> QED
    BY <2>1, <2>2, <2>3
<1> QED
  BY <1>1, <1>2 DEF Overlap

\* The three parts of ChecksOverlap.
NamesOverlap ==
  \A x, y \in Resources :
       /\ x # y /\ Active(x) /\ Active(y)
       /\ resource[x].kind = resource[y].kind /\ resource[x].name = resource[y].name
       => Overlap(resource[x].by, resource[y].by)
UsesOverlap ==
  \A a, b \in ActionIds :
       /\ a # b /\ Attached(a) /\ Attached(b)
       /\ IsProvider(action[a].target)
       /\ action[a].target = action[b].target /\ action[a].device = action[b].device
       => Overlap(action[a].by, action[b].by)
TargetsOverlap ==
  \A a \in ActionIds :
       Attached(a) /\ ~Active(action[a].target) =>
         Overlap(action[a].by, resource[action[a].target].by)

LEMMA NextNames ==
  ASSUME Base, AllLoaded, AllMet, NamesOverlap, NEW r \in Requests, Load(r) \/ Turn(r)
  PROVE  NamesOverlap'
<1> SUFFICES ASSUME NEW x \in Resources, NEW y \in Resources,
                    x # y, Active(x)', Active(y)', resource'[x].kind = resource'[y].kind,
                    resource'[x].name = resource'[y].name
             PROVE  Overlap(resource[x].by, resource[y].by)'
  BY DEF NamesOverlap
<1>1. ASSUME NEW z \in Resources, GivesName(r, z), NEW w \in Resources, w # z, Active(w)',
             resource'[w].kind = resource'[z].kind, resource'[w].name = resource'[z].name
      PROVE  Overlap(r, resource'[w].by) /\ resource'[z].by = r
  <2>1. resource'[w] = resource[w] /\ Active(w) /\ req[r].pc = "append"
        /\ req[r].ask.kind \in {"create", "rename"} /\ resource'[z].by = r
    BY <1>1 DEF GivesName, Active
  <2>2. PICK ask \in Asks : ask = req[r].ask
    BY <2>1, OfKind
  <2>3. NameRival(ask, w)
    BY <1>1, <2>1, <2>2 DEF GivesName
  <2>4. Met(r, w, resource[w].by)
    BY <2>1, <2>2, <2>3 DEF AllMet, NamesMet
  <2> QED
    BY <2>1, <2>4 DEF Met, Overlap
<1>2. CASE /\ Active(x) /\ resource'[x].kind = resource[x].kind
           /\ resource'[x].name = resource[x].name /\ resource'[x].by = resource[x].by
           /\ Active(y) /\ resource'[y].kind = resource[y].kind
           /\ resource'[y].name = resource[y].name /\ resource'[y].by = resource[y].by
  <2>1. Overlap(resource[x].by, resource[y].by)
    BY <1>2 DEF NamesOverlap
  <2> PICK p, q : p = resource[x].by /\ q = resource[y].by
    OBVIOUS
  <2>2. Overlap(p, q)'
    BY <2>1, OverlapStays
  <2> QED
    BY <1>2, <2>2 DEF Overlap
<1>3. CASE \E z \in Resources : GivesName(r, z)
  <2> PICK z \in Resources : GivesName(r, z)
    BY <1>3
  <2> PICK p, q : p = resource'[x].by /\ q = resource'[y].by
    OBVIOUS
  <2>1. CASE z = x
    <3>1. Overlap(p, q)
      BY <1>1, <2>1
    <3>2. Overlap(p, q)'
      BY <3>1, OverlapStays
    <3> QED
      BY <3>2 DEF Overlap
  <2>2. CASE z = y
    <3>1. Overlap(q, p)
      BY <1>1, <2>2
    <3>2. Overlap(p, q)'
      BY <3>1, OverlapStays
    <3> QED
      BY <3>2 DEF Overlap
  <2>3. CASE z # x /\ z # y
    BY <1>2, <2>3 DEF GivesName, Active
  <2> QED
    BY <2>1, <2>2, <2>3
<1> QED
  BY <1>2, <1>3, NameStep

LEMMA NextUses ==
  ASSUME Base, AllLoaded, AllMet, UsesOverlap, NEW r \in Requests, Load(r) \/ Turn(r)
  PROVE  UsesOverlap'
<1> SUFFICES ASSUME NEW a \in ActionIds, NEW b \in ActionIds,
                    a # b, Attached(a)', Attached(b)', IsProvider(action[a].target)',
                    action'[a].target = action'[b].target, action'[a].device = action'[b].device
             PROVE  Overlap(action[a].by, action[b].by)'
  BY DEF UsesOverlap
<1> PICK t : t = action'[a].target
  OBVIOUS
<1>0. ASSUME t \in Resources, resource[t].kind # "none"
      PROVE  IsProvider(t)
  BY <1>0, NextGrew DEF Grew, IsProvider
<1>1. ASSUME NEW z \in ActionIds, GivesUse(r, z), NEW w \in ActionIds, w # z, Attached(w)',
             action'[w].target = action'[z].target, action'[w].device = action'[z].device,
             action'[z].target = t
      PROVE  Overlap(r, action'[w].by) /\ action'[z].by = r
  <2>1. action'[w] = action[w] /\ Attached(w) /\ req[r].pc = "append"
        /\ NamesTarget(r) /\ action'[z].by = r /\ t = req[r].ask.id
    BY <1>1 DEF GivesUse, Attached
  <2>2. PICK ask \in Asks : ask = req[r].ask
    BY <2>1, OfKind
  <2>3. UseRival(ask, w)
    BY <1>1, <2>1, <2>2 DEF GivesUse
  <2>4. IsProvider(ask.id)
    <3>1. Named(r) /\ ask.kind \in {"attach", "reconfigure"}
      BY <2>1, <2>2, OfKind DEF NamesTarget
    <3>2. t \in Resources /\ resource[t].kind # "none"
      BY <2>1, <2>2, <3>1, AskKinds DEF Named
    <3> QED
      BY <1>0, <2>1, <2>2, <3>2
  <2>5. Met(r, w, action[w].by)
    BY <2>1, <2>2, <2>3, <2>4 DEF AllMet, UsesMet
  <2> QED
    BY <2>1, <2>5 DEF Met, Overlap
<1>2. CASE /\ Attached(a) /\ action'[a].device = action[a].device
           /\ action'[a].target = action[a].target /\ action'[a].by = action[a].by
           /\ Attached(b) /\ action'[b].device = action[b].device
           /\ action'[b].target = action[b].target /\ action'[b].by = action[b].by
  <2>1. IsProvider(action[a].target)
    BY <1>0, <1>2 DEF Base, Existing, Attached
  <2>2. Overlap(action[a].by, action[b].by)
    BY <1>2, <2>1 DEF UsesOverlap
  <2> PICK p, q : p = action[a].by /\ q = action[b].by
    OBVIOUS
  <2>3. Overlap(p, q)'
    BY <2>2, OverlapStays
  <2> QED
    BY <1>2, <2>3 DEF Overlap
<1>3. CASE \E z \in ActionIds : GivesUse(r, z)
  <2> PICK z \in ActionIds : GivesUse(r, z)
    BY <1>3
  <2> PICK p, q : p = action'[a].by /\ q = action'[b].by
    OBVIOUS
  <2>1. CASE z = a
    <3>1. Overlap(p, q)
      BY <1>1, <2>1
    <3>2. Overlap(p, q)'
      BY <3>1, OverlapStays
    <3> QED
      BY <3>2 DEF Overlap
  <2>2. CASE z = b
    <3>1. Overlap(q, p)
      BY <1>1, <2>2
    <3>2. Overlap(p, q)'
      BY <3>1, OverlapStays
    <3> QED
      BY <3>2 DEF Overlap
  <2>3. CASE z # a /\ z # b
    BY <1>2, <2>3 DEF GivesUse, Attached
  <2> QED
    BY <2>1, <2>2, <2>3
<1> QED
  BY <1>2, <1>3, UseStep

LEMMA NextTargets ==
  ASSUME Base, AllLoaded, AllMet, TargetsOverlap, NEW r \in Requests, Load(r) \/ Turn(r)
  PROVE  TargetsOverlap'
<1> SUFFICES ASSUME NEW a \in ActionIds, Attached(a)', ~Active(action[a].target)'
             PROVE  Overlap(action[a].by, resource[action[a].target].by)'
  BY DEF TargetsOverlap
<1> PICK t, p, q : t = action'[a].target /\ p = action'[a].by /\ q = resource'[t].by
  OBVIOUS
<1>0. ~Active(t)'
  BY DEF Active
<1>1. ASSUME Overlap(p, q) \/ Overlap(q, p)
      PROVE  Overlap(action[a].by, resource[action[a].target].by)'
  <2>1. Overlap(p, q)'
    BY <1>1, OverlapStays
  <2> QED
    BY <2>1 DEF Overlap
<1>2. CASE /\ Attached(a) /\ action'[a].device = action[a].device
           /\ action'[a].target = action[a].target /\ action'[a].by = action[a].by
  <2>1. t \in Resources /\ resource[t].kind # "none"
    BY <1>2 DEF Base, Existing, Attached
  <2>2. CASE ~Active(t) /\ resource'[t].by = resource[t].by
    <3>1. Overlap(p, q)
      BY <1>2, <2>2 DEF TargetsOverlap
    <3> QED
      BY <1>1, <3>1
  <2>3. CASE /\ req[r].pc = "append" /\ req[r].ask.kind = "remove" /\ req[r].ask.id = t
             /\ resource'[t].by = r
    <3>1. PICK ask \in Asks : ask = req[r].ask
      BY <2>3, OfKind
    <3>2. UseRival(ask, a)
      BY <1>2, <2>3, <3>1 DEF UseRival
    <3>0. UsesMet(r, ask) /\ ask.kind = "remove"
      BY <2>3, <3>1 DEF AllMet
    <3>3. Met(r, a, action[a].by)
      BY <3>0, <3>2 DEF UsesMet
    <3>4. Overlap(q, p)
      BY <1>2, <2>3, <3>3 DEF Met, Overlap
    <3> QED
      BY <1>1, <3>4
  <2> QED
    BY <1>0, <2>1, <2>2, <2>3, RemovalStep
<1>3. ASSUME NEW z \in ActionIds, GivesUse(r, z)
      PROVE  Overlap(action[a].by, resource[action[a].target].by)'
  <2>1. /\ req[r].pc = "append" /\ NamesTarget(r) /\ req[r].ask.kind \in {"attach", "reconfigure"}
    BY <1>3 DEF GivesUse, NamesTarget
  <2>2. CASE a = z
    <3>1. p = r /\ t = req[r].ask.id
      BY <1>3, <2>2 DEF GivesUse
    <3>2. PICK ask \in Asks : ask = req[r].ask
      BY <2>1, OfKind
    <3>3. t \in Resources /\ resource[t].kind # "none"
      BY <2>1, <3>1, <3>2, OfKind, AskKinds DEF Named
    <3>4. ~Active(t) /\ resource'[t].by = resource[t].by
      BY <1>0, <2>1, <3>3, RemovalStep
    <3>5. TargetMet(r, ask)
      BY <2>1, <3>2 DEF AllMet
    <3>6. Overlap(p, q)
      BY <2>1, <3>1, <3>2, <3>4, <3>5 DEF TargetMet, Overlap
    <3> QED
      BY <1>1, <3>6
  <2>3. CASE a # z
    <3>1. action'[a] = action[a] /\ Attached(a)
      BY <1>3, <2>3 DEF GivesUse, Attached
    <3> QED
      BY <1>2, <3>1
  <2> QED
    BY <2>2, <2>3
<1> QED
  BY <1>2, <1>3, UseStep

LEMMA InitOverlap == Init => NamesOverlap /\ UsesOverlap /\ TargetsOverlap
<1> SUFFICES ASSUME Init PROVE NamesOverlap /\ UsesOverlap /\ TargetsOverlap
  OBVIOUS
<1>1. PICK name \in [Credentials \cup Providers -> Names] :
        /\ \A x, y \in Credentials \cup Providers :
             name[x] = name[y] /\ (x \in Providers <=> y \in Providers) => x = y
        /\ resource = [x \in Resources |->
            IF x \in Requests
              THEN [kind |-> "none", status |-> "none", name |-> None, tokens |-> {}, by |-> None]
              ELSE [kind |-> IF x \in Providers THEN "provider" ELSE "credential",
                    status |-> "active", name |-> name[x],
                    tokens |-> IF x \in Providers THEN {x} ELSE {}, by |-> None]]
  BY DEF Init
<1>2. ASSUME NEW x \in Resources
      PROVE  /\ x \in Requests => resource[x].status = "none"
             /\ x \notin Requests => /\ resource[x].status = "active" /\ resource[x].name = name[x]
                                     /\ resource[x].kind = "provider" <=> x \in Providers
                                     /\ x \in Credentials \cup Providers
  BY <1>1 DEF Resources
<1>3. NamesOverlap
  BY <1>1, <1>2 DEF NamesOverlap, Active
<1>4. ASSUME NEW a \in ActionIds
      PROVE  /\ a \in Actions => /\ action[a].device = DeviceOf[a] /\ action[a].target = TargetOf[a]
                                 /\ TargetOf[a] \in Credentials \cup Providers
             /\ a \notin Actions => action[a].status = "none"
  BY OwnerRequestsAssumption DEF Init, ActionIds
<1>5. \A x \in Credentials \cup Providers : x \in Resources /\ x \notin Requests
  BY OwnerRequestsAssumption DEF Resources
<1>6. UsesOverlap
  BY <1>2, <1>4, <1>5, OwnerRequestsAssumption DEF UsesOverlap, Attached, IsProvider
<1>7. TargetsOverlap
  BY <1>2, <1>4, <1>5 DEF TargetsOverlap, Attached, Active
<1> QED
  BY <1>3, <1>6, <1>7

\* Two credentials or providers of one name, two deliveries of one device to one
\* provider, and an action that names what was removed: each takes two requests
\* that were under way at the same time, for no append repeats the checks.
THEOREM ChecksAreMade == Spec => []ChecksOverlap
<1>1. ASSUME Base, AllLoaded, AllMet, NamesOverlap, UsesOverlap, TargetsOverlap, [Next]_vars
      PROVE  NamesOverlap' /\ UsesOverlap' /\ TargetsOverlap'
  <2>1. CASE UNCHANGED vars
    BY <1>1, <2>1 DEF vars, NamesOverlap, UsesOverlap, TargetsOverlap, Overlap, Active, Attached,
                      IsProvider
  <2>2. CASE \E r \in Requests : Load(r) \/ Turn(r)
    BY <1>1, <2>2, NextNames, NextUses, NextTargets
  <2> QED
    BY <1>1, <2>1, <2>2, NextTurns
<1>2. Spec => [](NamesOverlap /\ UsesOverlap /\ TargetsOverlap)
  BY <1>1, InitOverlap, MetHolds, PTL DEF Spec
<1>3. NamesOverlap /\ UsesOverlap /\ TargetsOverlap => ChecksOverlap
  BY DEF NamesOverlap, UsesOverlap, TargetsOverlap, ChecksOverlap
<1> QED
  BY <1>2, <1>3, PTL
-----------------------------------------------------------------------------
(* Scheduling. For each provider that is due a request is under way that will *)
(* schedule it: one that changed an action that names the provider, or named  *)
(* it when it was loaded; or one about a device that has yet to come to an    *)
(* action that names it. *)

Serves(a, d, p) == Attached(a) /\ action[a].device = d /\ action[a].target = p

OwesTarget(r, p) ==
  /\ req[r].pc \in {"reload", "project", "current"}
  /\ \/ req[r].ask.kind \in {"action", "reconfigure"} /\ req[r].seen.target = p
     \/ req[r].ask.kind \in {"attach", "reconfigure"} /\ action[ObjectOf(r)].target = p

OwesDevice(r, p) ==
  \/ /\ req[r].pc \in {"reload", "project", "find"} /\ req[r].ask.kind = "device"
     /\ \E a \in ActionIds : Serves(a, req[r].ask.id, p)
  \/ /\ req[r].pc = "collect"
     /\ p \in req[r].found \/ (\E a \in req[r].todo : Serves(a, req[r].ask.id, p))

Owes(r, p) == OwesTarget(r, p) \/ OwesDevice(r, p)

AllOwed == \A p \in due : IsProvider(p) /\ \E r \in Requests : Owes(r, p)

\* The steps of a request that has appended.
LEMMA AfterAppend ==
  ASSUME NEW r \in Requests, Load(r) \/ Turn(r),
         req[r].pc \in {"reload", "project", "find", "collect", "current"}
  PROVE  \/ req[r].pc = "reload" /\ Reload(r)
         \/ req[r].pc = "project" /\ Project(r)
         \/ req[r].pc = "find" /\ List(r)
         \/ req[r].pc = "collect" /\ (ReadNext(r) \/ ScheduleDevice(r))
         \/ req[r].pc = "current" /\ ScheduleDelivery(r)
  BY DEF Load, Turn, CheckTarget, List, ReadNext, Decide, Conflict, AppendAccount, AppendChannel,
         Register, AppendDevice, Create, FirstToken, Remove, ChangeProvider, Attach, AppendAction,
         Asked, Reload, Project, ScheduleDelivery, ScheduleDevice

\* What a step makes due, its request owes.
LEMMA NewlyDue ==
  ASSUME Base, AllLoaded, NEW r \in Requests, Load(r) \/ Turn(r), NEW p \in due', p \notin due
  PROVE  IsProvider(p) /\ Owes(r, p)'
<1>1. CASE due' \subseteq due
  BY <1>1
<1>2. ASSUME NEW pc, Appended(r, pc)
      PROVE  /\ p \in Resources /\ IsProvider(p)
             /\ Content(p, device, action) # Content(p, device', action')
             /\ req'[r].pc = pc /\ req'[r].ask = req[r].ask /\ req'[r].seen = req[r].seen
  BY <1>2 DEF Appended, Proceeds
<1>3. CASE AppendAccount(r) \/ AppendChannel(r) \/ Remove(r) \/ ChangeProvider(r)
  <2>1. Appended(r, "done")
    BY <1>3, AppendAccountStep, AppendChannelStep, RemoveStep, ChangeProviderStep
  <2>2. device' = device /\ action' = action
    BY <1>3 DEF AppendAccount, AppendChannel, Remove, ChangeProvider
  <2> QED
    BY <1>2, <2>1, <2>2
<1>4. CASE Create(r)
  <2>1. PICK pc : Appended(r, pc)
    BY <1>4, CreateStep
  <2>2. device' = device /\ action' = action
    BY <1>4 DEF Create
  <2> QED
    BY <1>2, <2>1, <2>2
<1>5. CASE Register(r)
  <2>1. /\ Appended(r, "reload") /\ device[r].status = "none" /\ action' = action
        /\ \A d \in DeviceIds \ {r} : device'[d] = device[d]
    BY <1>5, RegisterStep
  <2>2. ASSUME NEW a \in ActionIds, action[a].status = "enabled"
        PROVE  action[a].device # r
    BY <2>1, <2>2 DEF Base, Existing
  <2>3. Content(p, device, action) = Content(p, device', action')
    BY <2>1, <2>2 DEF Content
  <2> QED
    BY <1>2, <2>1, <2>3
<1>6. CASE AppendDevice(r)
  <2> PICK o : o = req[r].ask.id
    OBVIOUS
  <2>1. /\ Appended(r, "reload") /\ req[r].ask.kind = "device" /\ action' = action
        /\ \A d \in DeviceIds \ {o} : device'[d] = device[d]
    BY <1>6, AppendDeviceStep
  <2>2. /\ IsProvider(p) /\ Content(p, device, action) # Content(p, device', action)
        /\ req'[r].pc = "reload" /\ req'[r].ask = req[r].ask
    BY <1>2, <2>1
  <2>3. \E a \in ActionIds : action[a].status = "enabled" /\ action[a].device = o /\ action[a].target = p
    BY <2>1, <2>2 DEF Content
  <2>4. \E a \in ActionIds : Serves(a, o, p)'
    BY <2>1, <2>3 DEF Serves, Attached
  <2>5. OwesDevice(r, p)'
    BY <2>1, <2>2, <2>4 DEF OwesDevice, Serves, Attached
  <2> QED
    BY <2>2, <2>5 DEF Owes
<1>7. CASE Attach(r)
  <2>1. /\ Appended(r, "reload") /\ req[r].ask.kind = "attach" /\ device' = device
        /\ r \in ActionIds /\ action[r].status = "none"
        /\ action'[r] = [status |-> "enabled", device |-> req[r].ask.device,
                          target |-> req[r].ask.id, version |-> 1, by |-> r]
        /\ \A a \in ActionIds \ {r} : action'[a] = action[a]
    BY <1>7, AttachStep
  <2>2. /\ IsProvider(p) /\ Content(p, device, action) # Content(p, device, action')
        /\ req'[r].pc = "reload" /\ req'[r].ask = req[r].ask
    BY <1>2, <2>1
  <2>3. p = action'[r].target
    <3>1. action'[r].target = req[r].ask.id
      BY <2>1
    <3> QED
      BY <2>1, <2>2, <3>1 DEF Content
  <2>4. OwesTarget(r, p)'
    BY <2>1, <2>2, <2>3 DEF OwesTarget, ObjectOf
  <2> QED
    BY <2>2, <2>4 DEF Owes
<1>8. CASE AppendAction(r)
  <2> PICK o : o = req[r].ask.action
    OBVIOUS
  <2>1. /\ Appended(r, "reload") /\ device' = device /\ o \in ActionIds
        /\ \A a \in ActionIds \ {o} : action'[a] = action[a]
    BY <1>8, AppendActionStep
  <2>2. /\ IsProvider(p) /\ Content(p, device, action) # Content(p, device, action')
        /\ req'[r].pc = "reload" /\ req'[r].ask = req[r].ask /\ req'[r].seen = req[r].seen
    BY <1>2, <2>1
  <2>3. p = action[o].target \/ p = action'[o].target
    BY <2>1, <2>2 DEF Content
  <2>4. action[o] = req[r].seen /\ req[r].ask.kind \in {"action", "reconfigure"}
    BY <1>8, FreshIsLoaded DEF AppendAction, Asked
  <2>5. req[r].ask.kind = "action" => action'[o].target = action[o].target
    <3>1. ASSUME req[r].ask.kind = "action"
          PROVE  action'[o] = [status |-> req[r].ask.to, device |-> action[o].device,
                                target |-> action[o].target, version |-> action[o].version + 1,
                                by |-> action[o].by]
      BY <1>8, <3>1, AppendActionStep
    <3> QED
      BY <3>1
  <2>6. OwesTarget(r, p)'
    BY <2>2, <2>3, <2>4, <2>5 DEF OwesTarget, ObjectOf
  <2> QED
    BY <2>2, <2>6 DEF Owes
<1>9. \/ due' \subseteq due \/ AppendAccount(r) \/ AppendChannel(r) \/ Remove(r) \/ ChangeProvider(r)
      \/ Create(r) \/ Register(r) \/ AppendDevice(r) \/ Attach(r) \/ AppendAction(r)
  <2>1. Load(r) => due' \subseteq due
    BY LoadOpens
  <2> QED
    BY <2>1 DEF Turn, CheckTarget, List, ReadNext, Decide, Conflict, FirstToken, Reload, Project,
                ScheduleDelivery, ScheduleDevice
<1> QED
  BY <1>1, <1>3, <1>4, <1>5, <1>6, <1>7, <1>8, <1>9

\* What a request owes, it goes on to owe until it schedules it.
LEMMA OwnStays ==
  ASSUME Base, Listing, NEW r \in Requests, Load(r) \/ Turn(r),
         NEW p \in due', IsProvider(p), Owes(r, p)
  PROVE  Owes(r, p)'
<1>0. req[r].pc \in {"reload", "project", "find", "collect", "current"}
  BY DEF Owes, OwesTarget, OwesDevice
<1>1. /\ Turn(r) /\ req'[r].ask = req[r].ask /\ req'[r].seen = req[r].seen
  BY <1>0, TurnMoves DEF Load, Moved, Proceeds
<1>2. action' = action /\ ObjectOf(r)' = ObjectOf(r)
  BY <1>0, <1>1, AfterAppend DEF Reload, Project, List, ReadNext, ScheduleDevice, ScheduleDelivery,
                                 streams, ObjectOf
<1> PICK ask \in Asks : ask = req[r].ask
  BY <1>0, OfKind
<1>3. \A a, d : Serves(a, d, p)' <=> Serves(a, d, p)
  BY <1>2 DEF Serves, Attached
<1>4. req[r].ask.kind \in {"register", "limit", "device", "create", "rename", "remove",
              "issue", "withdraw", "attach", "reconfigure", "action", "channel"}
      /\ req[r].pc \in PcsOf(req[r].ask.kind)
  BY <1>0, OfKind
<1>5. CASE req[r].pc = "reload" /\ Reload(r)
  <2>1. req'[r].pc = "project"
    BY <1>5, ReloadStep DEF Base
  <2> QED
    BY <1>1, <1>2, <1>3, <1>5, <2>1 DEF Owes, OwesTarget, OwesDevice
<1>6. CASE req[r].pc = "project" /\ Project(r)
  <2>1. req'[r].pc = CASE req[r].ask.kind = "register" -> "done"
                       [] req[r].ask.kind = "device" -> "find"
                       [] OTHER -> "current"
    BY <1>6, ProjectStep DEF Base
  <2>2. CASE OwesTarget(r, p)
    <3>1. req'[r].pc = "current"
      BY <2>1, <2>2 DEF OwesTarget
    <3> QED
      BY <1>1, <1>2, <2>2, <3>1 DEF Owes, OwesTarget
  <2>3. CASE OwesDevice(r, p)
    <3>1. req'[r].pc = "find"
      BY <1>6, <2>1, <2>3 DEF OwesDevice
    <3> QED
      BY <1>1, <1>3, <1>6, <2>3, <3>1 DEF Owes, OwesDevice
  <2> QED
    BY <2>2, <2>3 DEF Owes
<1>7. CASE req[r].pc = "find" /\ List(r)
  <2>1. req'[r].pc = "collect" /\ req'[r].todo = Listed(ask)
    <3>1. /\ req'[r].todo = Listed(req[r].ask)
          /\ req'[r].pc = IF req[r].pc = "list" THEN "read" ELSE "collect"
      BY <1>7, ListStep DEF Base
    <3> QED
      BY <1>7, <3>1
  <2>2. PICK a \in ActionIds : Serves(a, ask.id, p)
    BY <1>7 DEF Owes, OwesTarget, OwesDevice
  <2>3. ask.kind = "device"
    BY <1>4, <1>7, KindsOfPcs
  <2>4. a \in Listed(ask)
    BY <2>2, <2>3 DEF Serves, Attached, Listed
  <2>5. Serves(a, ask.id, p)'
    BY <1>3, <2>2
  <2> QED
    BY <1>1, <2>1, <2>4, <2>5 DEF Owes, OwesDevice, Serves, Attached
<1>8. CASE req[r].pc = "collect" /\ ReadNext(r)
  <2>1. req'[r].pc = "collect"
    BY <1>8, ReadStep DEF Base
  <2>2. PICK x \in req[r].todo :
              /\ req'[r].todo = req[r].todo \ {x}
              /\ req'[r].found =
                   IF ~Counts(r, x) THEN req[r].found
                   ELSE req[r].found \cup {IF req[r].pc = "read" THEN x ELSE action[x].target}
    BY <1>8, ReadStep DEF Base
  <2>3. ask.kind = "device"
    BY <1>4, <1>8, KindsOfPcs
  <2>4. Serves(x, ask.id, p) => Counts(r, x) /\ p = action[x].target
    BY <2>3 DEF Serves, Attached, Counts, NotDetached
  <2>5. p \in req[r].found \/ (\E a \in req[r].todo : Serves(a, ask.id, p))
    BY <1>8 DEF Owes, OwesTarget, OwesDevice
  <2>6. p \in req'[r].found \/ (\E a \in req'[r].todo : Serves(a, ask.id, p))
    BY <1>8, <2>2, <2>4, <2>5
  <2>7. p \in req'[r].found \/ (\E a \in req'[r].todo : Serves(a, ask.id, p)')
    BY <1>3, <2>6
  <2> QED
    BY <1>1, <2>1, <2>7 DEF Owes, OwesDevice, Serves, Attached
<1>9. CASE req[r].pc = "collect" /\ ScheduleDevice(r)
  <2>1. p \notin req[r].found /\ req[r].todo = {}
    BY <1>9 DEF ScheduleDevice
  <2> QED
    BY <1>9, <2>1 DEF Owes, OwesTarget, OwesDevice
<1>10. CASE req[r].pc = "current" /\ ScheduleDelivery(r)
  BY <1>10 DEF ScheduleDelivery, Owes, OwesTarget, OwesDevice
<1> QED
  BY <1>0, <1>5, <1>6, <1>7, <1>8, <1>9, <1>10, AfterAppend

\* What another request owes, it goes on to owe, or the step takes it over: to
\* change an action is to owe the provider that the action named.
LEMMA OthersOwe ==
  ASSUME Base, AllLoaded, Listing, NEW r \in Requests, Load(r) \/ Turn(r), NEW q \in Requests, q # r,
         NEW p, Owes(q, p)
  PROVE  Owes(q, p)' \/ Owes(r, p)'
<1>1. /\ req'[q].pc = req[q].pc /\ req'[q].ask = req[q].ask /\ req'[q].seen = req[q].seen
      /\ req'[q].todo = req[q].todo /\ req'[q].found = req[q].found
  BY OtherRequests
<1> PICK ask \in Asks : ask = req[q].ask
  BY OfKind DEF Owes, OwesTarget, OwesDevice
<1> PICK o : o = ObjectOf(q)
  OBVIOUS
<1>2. o = ObjectOf(q)'
  BY <1>1 DEF ObjectOf
<1>3. ASSUME req[q].pc \in {"reload", "project", "current"}, ask.kind \in {"attach", "reconfigure"}
      PROVE  o \in ActionIds /\ (ask.kind = "reconfigure" => action[o].status # "none")
             /\ (ask.kind = "attach" => o = q)
  <2>1. Named(q)
    BY <1>3, OfKind
  <2> QED
    BY <1>3, <2>1, AskKinds, IdSets DEF Named, ObjectOf
<1>4. CASE action' = action
  <2>1. \A a, d : Serves(a, d, p)' <=> Serves(a, d, p)
    BY <1>4 DEF Serves, Attached
  <2> QED
    BY <1>1, <1>2, <1>4, <2>1 DEF Owes, OwesTarget, OwesDevice
<1>a. ASSUME NEW b \in ActionIds, \A a \in ActionIds \ {b} : action'[a] = action[a]
      PROVE  \/ Owes(q, p)'
             \/ /\ b = o /\ req[q].pc \in {"reload", "project", "current"}
                /\ ask.kind \in {"attach", "reconfigure"} /\ action[b].target = p
             \/ Serves(b, ask.id, p)
  <2>1. ASSUME NEW a \in ActionIds, a # b, NEW d, Serves(a, d, p)
        PROVE  Serves(a, d, p)'
    BY <1>a, <2>1 DEF Serves, Attached
  <2>2. CASE OwesTarget(q, p)
    <3>1. CASE ask.kind \in {"action", "reconfigure"} /\ req[q].seen.target = p
      BY <1>1, <2>2, <3>1 DEF Owes, OwesTarget
    <3>2. CASE ask.kind \in {"attach", "reconfigure"} /\ action[o].target = p
      <4>1. CASE b = o
        BY <2>2, <3>2, <4>1 DEF OwesTarget
      <4>2. CASE b # o
        <5>1. action'[o].target = p
          BY <1>3, <1>a, <2>2, <3>2, <4>2 DEF OwesTarget
        <5> QED
          BY <1>1, <1>2, <2>2, <3>2, <5>1 DEF Owes, OwesTarget
      <4> QED
        BY <4>1, <4>2
    <3> QED
      BY <2>2, <3>1, <3>2 DEF OwesTarget
  <2>3. CASE OwesDevice(q, p)
    <3>0. ASSUME req[q].pc = "collect"
          PROVE  req[q].todo \subseteq ActionIds
      <4>1. ask.kind = "device"
        BY <3>0, OfKind, KindsOfPcs
      <4>2. req[q].todo \subseteq Listed(ask)
        BY <3>0 DEF Listing
      <4> QED
        BY <4>1, <4>2 DEF Listed
    <3>1. CASE \E a \in ActionIds : Serves(a, ask.id, p) /\ a # b
               /\ (req[q].pc = "collect" => a \in req[q].todo)
      BY <1>1, <2>1, <2>3, <3>1 DEF Owes, OwesDevice, Serves, Attached
    <3>2. CASE req[q].pc = "collect" /\ p \in req[q].found
      BY <1>1, <3>2 DEF Owes, OwesDevice
    <3> QED
      BY <2>3, <3>0, <3>1, <3>2 DEF OwesDevice
  <2> QED
    BY <2>2, <2>3 DEF Owes
<1>5. CASE Attach(r)
  <2>1. /\ r \in ActionIds /\ action[r].status = "none"
        /\ \A a \in ActionIds \ {r} : action'[a] = action[a]
    BY <1>5, AttachStep
  <2>2. ~Serves(r, ask.id, p)
    BY <2>1 DEF Serves, Attached
  <2> QED
    BY <1>3, <1>a, <2>1, <2>2
<1>6. CASE AppendAction(r)
  <2> PICK b : b = req[r].ask.action
    OBVIOUS
  <2>1. /\ b \in ActionIds /\ Appended(r, "reload")
        /\ \A a \in ActionIds \ {b} : action'[a] = action[a]
    BY <1>6, AppendActionStep
  <2>2. action[b] = req[r].seen /\ req[r].ask.kind \in {"action", "reconfigure"}
    BY <1>6, FreshIsLoaded DEF AppendAction, Asked
  <2>3. /\ req'[r].pc = "reload" /\ req'[r].ask = req[r].ask /\ req'[r].seen = req[r].seen
    BY <2>1 DEF Appended, Proceeds
  <2>4. action[b].target = p => Owes(r, p)'
    BY <2>2, <2>3 DEF Owes, OwesTarget
  <2> QED
    BY <1>a, <2>1, <2>4 DEF Serves
<1> QED
  BY <1>4, <1>5, <1>6, WhoChanges

\* However the changes of devices and actions and the reads that look for the
\* providers interleave: once no request is under way, every provider whose content
\* has changed was scheduled after that.
THEOREM ChangesScheduled == Spec => []ChangesAreScheduled
<1>1. ASSUME Base, AllLoaded, Listing, AllOwed, [Next]_vars
      PROVE  AllOwed'
  <2>1. CASE UNCHANGED vars
    BY <1>1, <2>1 DEF vars, AllOwed, Owes, OwesTarget, OwesDevice, Serves, Attached, IsProvider,
                      ObjectOf
  <2>2. ASSUME NEW r \in Requests, Load(r) \/ Turn(r), NEW p \in due'
        PROVE  IsProvider(p)' /\ \E q \in Requests : Owes(q, p)'
    <3>1. CASE p \in due
      <4>1. PICK q \in Requests : Owes(q, p)
        BY <1>1, <3>1 DEF AllOwed
      <4>2. \E s \in Requests : Owes(s, p)'
        <5>1. CASE q = r
          BY <1>1, <2>2, <3>1, <4>1, <5>1, OwnStays DEF AllOwed
        <5>2. CASE q # r
          BY <1>1, <2>2, <4>1, <5>2, OthersOwe
        <5> QED
          BY <5>1, <5>2
      <4>3. p \in Resources /\ IsProvider(p)
        BY <1>1, <3>1 DEF AllOwed, Base, StreamTypes
      <4> QED
        BY <1>1, <2>2, <4>2, <4>3, NextGrew DEF Grew, IsProvider
    <3>2. CASE p \notin due
      <4>1. IsProvider(p) /\ Owes(r, p)'
        BY <1>1, <2>2, <3>2, NewlyDue
      <4>2. p \in Resources
        BY <1>1, <2>2, LoadKeepsBase, TurnKeepsBase DEF Base, StreamTypes
      <4> QED
        BY <1>1, <2>2, <4>1, <4>2, NextGrew DEF Grew, IsProvider
    <3> QED
      BY <3>1, <3>2
  <2> QED
    BY <1>1, <2>1, <2>2, NextTurns DEF AllOwed
<1>2. Init => AllOwed
  BY DEF Init, AllOwed
<1>3. Spec => []AllOwed
  BY <1>1, <1>2, LoadedHolds, ListingHolds, PTL DEF Spec
<1>4. AllOwed => ChangesAreScheduled
  BY DEF AllOwed, Owes, OwesTarget, OwesDevice, ChangesAreScheduled, Quiet, UnderWay
<1> QED
  BY <1>3, <1>4, PTL
-----------------------------------------------------------------------------
(* The projections. As long as no two requests about an object overlap, the   *)
(* one that writes has reloaded what the stream says, and what is shown       *)
(* differs from the stream only while it is under way.                        *)

StatusOf(what, o) == IF what = "device" THEN device[o].status ELSE action[o].status

TwoWrite(what, o) ==
  \E r, s \in Requests : Writes(r, what, o) /\ Writes(s, what, o) /\ Overlap(r, s)

Shows(what, o) ==
  \/ TwoWrite(what, o)
  \/ /\ \A r \in Requests : Writes(r, what, o) /\ req[r].pc = "project" =>
          req[r].found = {StatusOf(what, o)}
     /\ \/ shown[what][o] = StatusOf(what, o)
        \/ \E r \in Requests : Writes(r, what, o) /\ req[r].pc \in {"reload", "project"}

ShownShape ==
  shown = [device |-> [d \in DeviceIds |-> shown.device[d]],
           action |-> [a \in ActionIds |-> shown.action[a]]]

AllShown ==
  /\ ShownShape
  /\ \A d \in DeviceIds : Shows("device", d)
  /\ \A a \in ActionIds : Shows("action", a)

LEMMA WritesStay ==
  ASSUME Base, NEW r \in Requests, Load(r) \/ Turn(r), NEW what, NEW o, NEW q \in Requests
  PROVE  /\ Writes(q, what, o) => Writes(q, what, o)'
         /\ Writes(q, what, o)' /\ ~Writes(q, what, o) =>
              q = r /\ Load(r) /\ req'[q].pc \notin {"reload", "project"}
<1>1. CASE q # r
  BY <1>1, OtherRequests DEF Writes, About, ObjectOf
<1>2. CASE q = r /\ Turn(r)
  <2>1. req'[r].ask = req[r].ask /\ req[r].pc # "new" /\ req'[r].pc # "new"
    BY <1>2, TurnMoves, ArrivesAt DEF Moved, Proceeds, UnderWay
  <2> QED
    BY <1>2, <2>1 DEF Writes, About, ObjectOf
<1>3. CASE q = r /\ Load(r)
  <2>1. PICK ask, seen, pc : Opens(r, ask, seen, pc) /\ Starts(ask, seen, pc)
    BY <1>3, LoadOpens
  <2>2. \A x \in Resources : resource[x].kind \in {"none", "credential", "provider"}
    BY DEF Base, StreamTypes, ResourceRecord
  <2>3. ask \in Asks
    BY <2>1 DEF Starts
  <2>4. pc \notin {"reload", "project"}
    BY <2>1, <2>2, <2>3, AskKinds DEF Starts
  <2>5. req'[r].pc = pc
    BY <2>1 DEF Opens
  <2> QED
    BY <1>3, <2>4, <2>5 DEF Writes, Load
<1> QED
  BY <1>1, <1>2, <1>3

\* The status of an object changes by a request about it, which goes on to reload.
LEMMA StatusStep ==
  ASSUME Base, NEW r \in Requests, Load(r) \/ Turn(r)
  PROVE  /\ \A d \in DeviceIds : device'[d].status = device[d].status
                                 \/ (Writes(r, "device", d) /\ req'[r].pc = "reload")
         /\ \A a \in ActionIds : action'[a].status = action[a].status
                                 \/ (Writes(r, "action", a) /\ req'[r].pc = "reload")
<1>1. ASSUME NEW d \in DeviceIds, device'[d].status # device[d].status
      PROVE  Writes(r, "device", d) /\ req'[r].pc = "reload"
  <2>1. CASE Register(r)
    <3>1. Appended(r, "reload") /\ req[r].ask.kind = "register" /\ d = r
      BY <1>1, <2>1, RegisterStep
    <3> QED
      BY <3>1 DEF Appended, Writes, About, ObjectOf
  <2>2. CASE AppendDevice(r)
    <3> PICK o : o = req[r].ask.id
      OBVIOUS
    <3>1. /\ Appended(r, "reload") /\ req[r].ask.kind = "device"
          /\ \A x \in DeviceIds \ {o} : device'[x] = device[x]
      BY <2>2, AppendDeviceStep
    <3>2. d = o
      BY <1>1, <3>1
    <3> QED
      BY <3>1, <3>2 DEF Appended, Writes, About, ObjectOf
  <2> QED
    BY <1>1, <2>1, <2>2, WhoChanges
<1>2. ASSUME NEW a \in ActionIds, action'[a].status # action[a].status
      PROVE  Writes(r, "action", a) /\ req'[r].pc = "reload"
  <2>1. CASE Attach(r)
    <3>1. /\ Appended(r, "reload") /\ req[r].ask.kind = "attach"
          /\ \A x \in ActionIds \ {r} : action'[x] = action[x]
      BY <2>1, AttachStep
    <3>2. a = r
      BY <1>2, <3>1
    <3> QED
      BY <3>1, <3>2 DEF Appended, Writes, About, ObjectOf
  <2>2. CASE AppendAction(r)
    <3> PICK o : o = req[r].ask.action
      OBVIOUS
    <3>1. /\ Appended(r, "reload") /\ \A x \in ActionIds \ {o} : action'[x] = action[x]
      BY <2>2, AppendActionStep
    <3>2. a = o /\ req[r].ask.kind \in {"action", "reconfigure"}
      BY <1>2, <2>2, <3>1 DEF AppendAction, Asked
    <3> QED
      BY <3>1, <3>2 DEF Appended, Writes, About, ObjectOf
  <2> QED
    BY <1>2, <2>1, <2>2, WhoChanges
<1> QED
  BY <1>1, <1>2

\* A projection is written for one object, by a request about it.
LEMMA ProjectShows ==
  ASSUME Base, ShownShape, NEW r \in Requests, Project(r)
  PROVE  /\ ShownShape'
         /\ \E status \in req[r].found :
              /\ \A d \in DeviceIds :
                   shown'.device[d] = IF Writes(r, "device", d) THEN status ELSE shown.device[d]
              /\ \A a \in ActionIds :
                   shown'.action[a] = IF Writes(r, "action", a) THEN status ELSE shown.action[a]
<1>0. req[r].pc = "project" /\ req[r].ask.kind \in {"register", "device", "attach", "action", "reconfigure"}
  <2>1. req[r].pc = "project"
    BY DEF Project
  <2> QED
    BY <2>1, OfKind, KindsOfPcs
<1> PICK what, o : what = About(r) /\ o = ObjectOf(r)
  OBVIOUS
<1>1. PICK status \in req[r].found : shown' = [shown EXCEPT ![what][o] = status]
  BY DEF Project
<1>2. \A w, x : Writes(r, w, x) <=> w = what /\ x = o
  BY <1>0 DEF Writes
<1>3. what \in {"device", "action"}
  BY DEF About
<1>4. CASE what = "device"
  <2>1. shown' = [shown EXCEPT !.device = [shown.device EXCEPT ![o] = status]]
    BY <1>1, <1>4
  <2>2. PICK devs : devs = [shown.device EXCEPT ![o] = status]
    OBVIOUS
  <2>3. shown.device = [d \in DeviceIds |-> shown.device[d]]
    BY DEF ShownShape
  <2>4. /\ devs = [d \in DeviceIds |-> devs[d]]
        /\ \A d \in DeviceIds : devs[d] = IF d = o THEN status ELSE shown.device[d]
    BY <2>2, <2>3
  <2>5. shown'.device = devs /\ shown'.action = shown.action
        /\ shown' = [device |-> devs, action |-> shown.action]
    BY <2>1, <2>2 DEF ShownShape
  <2>6. shown.action = [a \in ActionIds |-> shown.action[a]]
    BY DEF ShownShape
  <2>7. ShownShape'
    BY <2>4, <2>5, <2>6 DEF ShownShape
  <2> QED
    BY <1>2, <1>4, <2>4, <2>5, <2>7
<1>5. CASE what = "action"
  <2>1. shown' = [shown EXCEPT !.action = [shown.action EXCEPT ![o] = status]]
    BY <1>1, <1>5
  <2>2. PICK acts : acts = [shown.action EXCEPT ![o] = status]
    OBVIOUS
  <2>3. shown.action = [a \in ActionIds |-> shown.action[a]]
    BY DEF ShownShape
  <2>4. /\ acts = [a \in ActionIds |-> acts[a]]
        /\ \A a \in ActionIds : acts[a] = IF a = o THEN status ELSE shown.action[a]
    BY <2>2, <2>3
  <2>5. shown'.action = acts /\ shown'.device = shown.device
        /\ shown' = [device |-> shown.device, action |-> acts]
    BY <2>1, <2>2 DEF ShownShape
  <2>6. shown.device = [d \in DeviceIds |-> shown.device[d]]
    BY DEF ShownShape
  <2>7. ShownShape'
    BY <2>4, <2>5, <2>6 DEF ShownShape
  <2> QED
    BY <1>2, <1>5, <2>4, <2>5, <2>7
<1> QED
  BY <1>3, <1>4, <1>5

LEMMA ShownStep ==
  ASSUME Base, ShownShape, NEW r \in Requests, Load(r) \/ Turn(r)
  PROVE  ShownShape' /\ (shown' = shown \/ Project(r))
<1>1. shown' = shown \/ Project(r)
  <2>1. Load(r) => shown' = shown
    BY LoadOpens
  <2> QED
    BY <2>1 DEF Turn, CheckTarget, List, ReadNext, Decide, Conflict, FirstToken, Reload, Project,
                AppendAccount, AppendChannel, Register, AppendDevice, Create, Remove,
                ChangeProvider, Attach, AppendAction, Appends, ScheduleDelivery, ScheduleDevice
<1>2. CASE shown' = shown
  BY <1>2 DEF ShownShape
<1> QED
  BY <1>1, <1>2, ProjectShows

\* A request gets where it writes the projection by reloading, and where it gives a
\* provider its first token by creating it.
LEMMA AfterReloadOrCreate ==
  ASSUME Base, NEW r \in Requests, Turn(r)
  PROVE  /\ req'[r].pc = "project" => Reload(r)
         /\ req'[r].pc = "token" => Create(r)
<1>a. RequestTypes
  BY DEF Base
<1>1. CASE CheckTarget(r)
  <2>1. /\ req'[r].pc = IF ~Active(req[r].ask.id) THEN "done"
                        ELSE IF req[r].pc = "provider" THEN "list" ELSE "append"
    BY <1>1, <1>a, CheckTargetStep DEF CheckTarget
  <2> QED
    BY <2>1
<1>0. CASE List(r)
  <2>1. req'[r].pc = IF req[r].pc = "list" THEN "read" ELSE "collect"
    BY <1>0, <1>a, ListStep
  <2> QED
    BY <2>1
<1>2. CASE ReadNext(r)
  BY <1>2, <1>a, ReadStep DEF ReadNext
<1>3. CASE Decide(r) \/ Conflict(r) \/ ScheduleDelivery(r) \/ ScheduleDevice(r) \/ FirstToken(r)
  BY <1>3, <1>a, DecideStep, ConflictStep, ScheduleStep, FirstTokenStep
<1>4. CASE AppendAccount(r) \/ AppendChannel(r) \/ Remove(r) \/ ChangeProvider(r)
  <2>1. Appended(r, "done")
    BY <1>4, AppendAccountStep, AppendChannelStep, RemoveStep, ChangeProviderStep
  <2> QED
    BY <2>1 DEF Appended
<1>5. CASE Register(r) \/ AppendDevice(r) \/ Attach(r) \/ AppendAction(r)
  <2>1. Appended(r, "reload")
    BY <1>5, RegisterStep, AppendDeviceStep, AttachStep, AppendActionStep
  <2> QED
    BY <2>1 DEF Appended
<1>6. CASE Create(r)
  <2>1. PICK pc : pc = IF req[r].ask.what = "provider" THEN "token" ELSE "done"
    OBVIOUS
  <2>2. Appended(r, pc)
    BY <1>6, <2>1, CreateStep
  <2> QED
    BY <1>6, <2>1, <2>2 DEF Appended
<1>7. CASE Project(r)
  <2>1. req'[r].pc = CASE req[r].ask.kind = "register" -> "done"
                       [] req[r].ask.kind = "device" -> "find"
                       [] OTHER -> "current"
    BY <1>7, <1>a, ProjectStep
  <2> QED
    BY <2>1
<1>8. CASE Reload(r)
  BY <1>8, <1>a, ReloadStep
<1> QED
  BY <1>0, <1>1, <1>2, <1>3, <1>4, <1>5, <1>6, <1>7, <1>8 DEF Turn

\* One object, of either sort.
LEMMA ShowsStep ==
  ASSUME Base, ShownShape, NEW r \in Requests, Load(r) \/ Turn(r),
         NEW what, NEW o, \/ what = "device" /\ o \in DeviceIds
                          \/ what = "action" /\ o \in ActionIds,
         Shows(what, o)
  PROVE  Shows(what, o)'
<1> PICK now, next : now = StatusOf(what, o) /\ next = StatusOf(what, o)'
  OBVIOUS
<1>1. next = now \/ (Writes(r, what, o) /\ req'[r].pc = "reload")
  BY StatusStep DEF StatusOf
<1>2. ASSUME ~Project(r) \/ ~Writes(r, what, o)
      PROVE  shown'[what][o] = shown[what][o]
  <2>1. CASE shown' = shown
    BY <2>1
  <2>2. CASE Project(r) /\ what = "device"
    BY <1>2, <2>2, ProjectShows
  <2>3. CASE Project(r) /\ what = "action"
    BY <1>2, <2>3, ProjectShows
  <2> QED
    BY <2>1, <2>2, <2>3, ShownStep
<1>3. CASE TwoWrite(what, o)
  <2>1. PICK q \in Requests, s \in Requests : Writes(q, what, o) /\ Writes(s, what, o) /\ Overlap(q, s)
    BY <1>3 DEF TwoWrite
  <2>2. Writes(q, what, o)' /\ Writes(s, what, o)' /\ Overlap(q, s)'
    BY <2>1, WritesStay, OverlapStays
  <2>3. TwoWrite(what, o)'
    BY <2>2 DEF TwoWrite
  <2> QED
    BY <2>3 DEF Shows
<1>4. ASSUME ~TwoWrite(what, o), NEW q \in UnderWay, NEW s \in UnderWay,
             Writes(q, what, o), Writes(s, what, o)
      PROVE  q = s
  BY <1>4 DEF TwoWrite, Base, Beside, Overlap, UnderWay
<1>5. CASE ~TwoWrite(what, o) /\ (Load(r) \/ ~Writes(r, what, o))
  <2>1. next = now /\ shown'[what][o] = shown[what][o]
    <3>1. Load(r) => ~Writes(r, what, o)
      BY DEF Load, Writes
    <3> QED
      BY <1>1, <1>2, <1>5, <3>1
  <2>2. /\ \A q \in Requests : Writes(q, what, o) /\ req[q].pc = "project" => req[q].found = {now}
        /\ \/ shown[what][o] = now
           \/ \E q \in Requests : Writes(q, what, o) /\ req[q].pc \in {"reload", "project"}
    BY <1>5 DEF Shows
  <2>3. ASSUME NEW q \in Requests, Writes(q, what, o)', req'[q].pc \in {"reload", "project"}
        PROVE  /\ Writes(q, what, o) /\ req'[q].pc = req[q].pc /\ req'[q].found = req[q].found
    <3>1. Writes(q, what, o)
      BY <2>3, WritesStay
    <3>2. q # r
      BY <1>5, <3>1 DEF Load, Writes
    <3> QED
      BY <3>1, <3>2, OtherRequests
  <2>4. ASSUME NEW q \in Requests, Writes(q, what, o), req[q].pc \in {"reload", "project"}
        PROVE  Writes(q, what, o)' /\ req'[q].pc \in {"reload", "project"}
    <3>1. q # r
      BY <1>5, <2>4 DEF Load
    <3> QED
      BY <2>4, <3>1, OtherRequests, WritesStay
  <2> QED
    BY <2>1, <2>2, <2>3, <2>4 DEF Shows
<1>6. CASE ~TwoWrite(what, o) /\ Turn(r) /\ Writes(r, what, o)
  <2>0. r \in UnderWay /\ Writes(r, what, o)'
    BY <1>6, TurnMoves, WritesStay
  <2>1. ASSUME NEW q \in Requests, Writes(q, what, o)', req'[q].pc = "project"
        PROVE  req'[q].found = {next}
    <3>1. Writes(q, what, o)
      BY <2>1, WritesStay
    <3>2. q \in UnderWay
      BY <2>0, <2>1, OtherRequests DEF UnderWay
    <3>3. q = r
      BY <1>4, <1>6, <2>0, <3>1, <3>2
    <3>4. Reload(r)
      BY <1>6, <2>1, <3>3, AfterReloadOrCreate
    <3>5. req'[r].found = {IF About(r) = "device" THEN device[ObjectOf(r)].status
                           ELSE action[ObjectOf(r)].status}
      BY <3>4, ReloadStep DEF Base
    <3>6. About(r) = what /\ ObjectOf(r) = o
      BY <1>6 DEF Writes
    <3>7. req'[r].found = {now}
      BY <3>5, <3>6 DEF StatusOf
    <3> QED
      BY <1>1, <2>1, <3>3, <3>7
  <2>2. CASE req'[r].pc \in {"reload", "project"}
    BY <2>0, <2>1, <2>2 DEF Shows
  <2>3. CASE req'[r].pc \notin {"reload", "project"}
    <3>1. next = now
      BY <1>1, <2>3
    <3>2. CASE Project(r)
      <4>1. req[r].found = {now}
        BY <1>6, <3>2 DEF Shows, Project
      <4>2. PICK status \in req[r].found :
              /\ \A d \in DeviceIds :
                   shown'.device[d] = IF Writes(r, "device", d) THEN status ELSE shown.device[d]
              /\ \A a \in ActionIds :
                   shown'.action[a] = IF Writes(r, "action", a) THEN status ELSE shown.action[a]
        BY <3>2, ProjectShows
      <4>3. shown'[what][o] = now
        BY <1>6, <4>1, <4>2
      <4> QED
        BY <2>1, <3>1, <4>3 DEF Shows
    <3>3. CASE ~Project(r)
      <4>1. shown'[what][o] = shown[what][o]
        BY <1>2, <3>3
      <4>2. ASSUME NEW q \in Requests, Writes(q, what, o), req[q].pc \in {"reload", "project"}
            PROVE  FALSE
        <5>1. q \in UnderWay
          BY <4>2 DEF UnderWay
        <5>2. q = r
          BY <1>4, <1>6, <2>0, <4>2, <5>1
        <5>3. Reload(r)
          BY <3>3, <4>2, <5>2, AfterAppend
        <5>4. req'[r].pc = "project"
          BY <5>3, ReloadStep DEF Base
        <5> QED
          BY <2>3, <5>4
      <4>3. shown[what][o] = now
        BY <1>6, <4>2 DEF Shows
      <4> QED
        BY <2>1, <3>1, <4>1, <4>3 DEF Shows
    <3> QED
      BY <3>2, <3>3
  <2> QED
    BY <2>2, <2>3
<1> QED
  BY <1>3, <1>5, <1>6

\* Once no request is under way the lists show what the streams say, but of an
\* object that two overlapping requests were about.
THEOREM ShownCurrent == Spec => []ShownIsCurrent
<1>1. ASSUME Base, AllShown, [Next]_vars
      PROVE  AllShown'
  <2>1. CASE UNCHANGED vars
    BY <1>1, <2>1 DEF vars, AllShown, ShownShape, Shows, TwoWrite, Writes, Overlap, StatusOf, About,
                      ObjectOf
  <2>2. ASSUME NEW r \in Requests, Load(r) \/ Turn(r)
        PROVE  AllShown'
    <3>1. ShownShape'
      BY <1>1, <2>2, ShownStep DEF AllShown
    <3>2. \A d \in DeviceIds : Shows("device", d)'
      BY <1>1, <2>2, ShowsStep DEF AllShown
    <3>3. \A a \in ActionIds : Shows("action", a)'
      BY <1>1, <2>2, ShowsStep DEF AllShown
    <3> QED
      BY <3>1, <3>2, <3>3 DEF AllShown
  <2> QED
    BY <1>1, <2>1, <2>2, NextTurns
<1>2. ASSUME Init
      PROVE  AllShown
  <2>1. shown = [device |-> [d \in DeviceIds |-> device[d].status],
                 action |-> [a \in ActionIds |-> action[a].status]]
    BY <1>2 DEF Init
  <2>2. /\ shown.device = [d \in DeviceIds |-> device[d].status]
        /\ shown.action = [a \in ActionIds |-> action[a].status]
    BY <2>1
  <2>3. ShownShape
    BY <2>1, <2>2 DEF ShownShape
  <2>4. \A r \in Requests : req[r].pc = "new"
    BY <1>2 DEF Init
  <2> QED
    BY <2>2, <2>3, <2>4 DEF AllShown, Shows, Writes, StatusOf
<1>3. Spec => []AllShown
  BY <1>1, <1>2, BaseHolds, PTL DEF Spec
<1>4. AllShown => ShownIsCurrent
  <2> SUFFICES ASSUME AllShown, Quiet PROVE ShownIsCurrent
    BY DEF ShownIsCurrent
  <2>1. \A r \in Requests : req[r].pc \in {"new", "done"}
    BY DEF Quiet, UnderWay
  <2> QED
    BY <2>1 DEF AllShown, Shows, TwoWrite, StatusOf, ShownIsCurrent
<1> QED
  BY <1>3, <1>4, PTL
-----------------------------------------------------------------------------
(* The limits. A registration has counted every live device that was not      *)
(* registered while it was under way; and a token is issued to a provider     *)
(* whose tokens are those the request has loaded, or were issued meanwhile.   *)

Counted(r) ==
  req[r].ask.kind = "register" =>
    /\ req[r].seen.limit \in Nat
    /\ req[r].pc = "read" =>
         \A d \in DeviceIds : Live(d) => d \in req[r].todo \cup req[r].found \cup req[r].beside
    /\ req[r].pc = "append" =>
         /\ ~(Cardinality(req[r].found) >= req[r].seen.limit)
         /\ \A d \in DeviceIds : Live(d) => d \in req[r].found \cup req[r].beside

AllCounted == \A r \in Requests : req[r].pc # "new" => Counted(r)

\* A device comes to live by its registration.
LEMMA LiveStep ==
  ASSUME Base, AllLoaded, NEW r \in Requests, Load(r) \/ Turn(r), NEW d \in DeviceIds, Live(d)'
  PROVE  Live(d) \/ (Register(r) /\ d = r)
<1>1. CASE device' = device
  BY <1>1 DEF Live
<1>2. CASE Register(r)
  <2>1. \A x \in DeviceIds \ {r} : device'[x] = device[x]
    BY <1>2, RegisterStep
  <2> QED
    BY <1>2, <2>1 DEF Live
<1>3. CASE AppendDevice(r)
  <2> PICK o : o = req[r].ask.id
    OBVIOUS
  <2>1. /\ \A x \in DeviceIds \ {o} : device'[x] = device[x]
        /\ req[r].ask.kind = "device" /\ req[r].pc = "append"
    BY <1>3, AppendDeviceStep DEF Appended
  <2>2. device[o].status \in {"enabled", "disabled"}
    BY <1>3, <2>1, FreshIsLoaded DEF AllLoaded, Loaded
  <2> QED
    BY <2>1, <2>2 DEF Live
<1> QED
  BY <1>1, <1>2, <1>3, WhoChanges

LEMMA OthersCounted ==
  ASSUME Base, AllLoaded, AllCounted, NEW r \in Requests, Load(r) \/ Turn(r),
         NEW q \in Requests, q # r, req[q].pc # "new"
  PROVE  Counted(q)'
<1>1. /\ req'[q].pc = req[q].pc /\ req'[q].ask = req[q].ask /\ req'[q].seen = req[q].seen
      /\ req'[q].todo = req[q].todo /\ req'[q].found = req[q].found
      /\ req[q].beside \subseteq req'[q].beside
  BY OtherRequests
<1>2. Counted(q)
  BY DEF AllCounted
<1>3. ASSUME NEW d \in DeviceIds, Live(d)', req[q].pc \in {"read", "append"}
      PROVE  Live(d) \/ d \in req'[q].beside
  <2>1. CASE Register(r) /\ d = r
    <3>1. r \in UnderWay /\ q \in UnderWay
      BY <1>3, <2>1 DEF Register, Asked, UnderWay
    <3> QED
      BY <1>1, <2>1, <3>1 DEF Base, Beside
  <2> QED
    BY <1>3, <2>1, LiveStep
<1> QED
  BY <1>1, <1>2, <1>3 DEF Counted

LEMMA OwnCounted ==
  ASSUME Base, AllCounted, NEW r \in Requests, Load(r) \/ Turn(r)
  PROVE  Counted(r)'
<1>1. CASE Load(r)
  <2>1. PICK ask, seen, pc : Opens(r, ask, seen, pc) /\ Starts(ask, seen, pc)
    BY <1>1, LoadOpens
  <2>2. req'[r].ask = ask /\ req'[r].seen = seen /\ req'[r].pc = pc
    BY <2>1 DEF Opens
  <2>3. account.limit \in Nat
    BY OwnerRequestsAssumption DEF Base, StreamTypes, AccountRecord
  <2>4. ask.kind = "register" => seen = account /\ pc = "list"
    BY <2>1 DEF Starts
  <2> QED
    BY <2>2, <2>3, <2>4 DEF Counted
<1>2. CASE Turn(r)
  <2>1. /\ req[r].pc # "new" /\ req'[r].ask = req[r].ask /\ req'[r].seen = req[r].seen
        /\ req'[r].beside = req[r].beside
    BY <1>2, TurnMoves DEF Moved, Proceeds, UnderWay
  <2>2. Counted(r)
    BY <2>1 DEF AllCounted
  <2>3. CASE req[r].ask.kind # "register" \/ req'[r].pc \notin {"read", "append"}
    BY <2>1, <2>2, <2>3 DEF Counted
  <2>4. CASE req[r].ask.kind = "register" /\ req'[r].pc = "read" /\ List(r)
    <3>1. req'[r].todo = Listed(req[r].ask)
      BY <2>4, ListStep DEF Base
    <3>a. Listed(req[r].ask) = {d \in DeviceIds : device[d].status # "none"}
      BY <2>4 DEF Listed
    <3>b. device' = device
      BY <2>4 DEF List, streams
    <3>2. \A d \in DeviceIds : Live(d)' => d \in req'[r].todo
      BY <3>1, <3>a, <3>b DEF Live
    <3> QED
      BY <2>1, <2>2, <2>4, <3>2 DEF Counted
  <2>5. CASE req[r].ask.kind = "register" /\ req'[r].pc = "read" /\ ReadNext(r) /\ req[r].pc = "read"
    <3>1. PICK x \in req[r].todo :
              /\ req'[r].todo = req[r].todo \ {x}
              /\ req'[r].found =
                   IF ~Counts(r, x) THEN req[r].found
                   ELSE req[r].found \cup {IF req[r].pc = "read" THEN x ELSE action[x].target}
      BY <2>5, ReadStep DEF Base
    <3>2. Live(x) => Counts(r, x)
      BY <2>5 DEF Counts
    <3>3. ASSUME NEW d \in DeviceIds, Live(d)
          PROVE  d \in req'[r].todo \cup req'[r].found \cup req'[r].beside
      <4>1. d \in req[r].todo \cup req[r].found \cup req[r].beside
        BY <2>2, <2>5, <3>3 DEF Counted
      <4> QED
        BY <2>1, <2>5, <3>1, <3>2, <3>3, <4>1
    <3>4. \A d \in DeviceIds : Live(d)' => Live(d)
      BY <2>5 DEF ReadNext, streams, Live
    <3> QED
      BY <2>1, <2>2, <2>5, <3>3, <3>4 DEF Counted
  <2>6. CASE req[r].ask.kind = "register" /\ req'[r].pc = "append" /\ Decide(r)
    <3>1. /\ Same /\ req[r].pc = "read" /\ req[r].todo = {} /\ req'[r].found = req[r].found
          /\ ~(Cardinality(req[r].found) >=
                        (IF req[r].ask.kind = "register" THEN req[r].seen.limit ELSE 1))
      BY <2>6, DecideStep DEF Base
    <3>2. ~(Cardinality(req[r].found) >= req[r].seen.limit)
      BY <2>6, <3>1
    <3>3. \A d \in DeviceIds : Live(d)' => d \in req'[r].found \cup req'[r].beside
      BY <2>1, <2>2, <2>6, <3>1 DEF Counted, Same, Live
    <3> QED
      BY <2>1, <2>2, <2>6, <3>1, <3>2, <3>3 DEF Counted
  <2>7. CASE req[r].ask.kind = "register" /\ req'[r].pc = "append" /\ CheckTarget(r)
    <3>1. req[r].pc \in {"provider", "credential"}
      BY <2>7 DEF CheckTarget
    <3> QED
      BY <2>1, <2>7, <3>1, OfKind, KindsOfPcs
  <2> QED
    BY <1>2, <2>3, <2>4, <2>5, <2>6, <2>7, ArrivesAt
<1> QED
  BY <1>1, <1>2

LEMMA NextCounted == Base /\ AllLoaded /\ AllCounted /\ [Next]_vars => AllCounted'
<1>1. ASSUME AllCounted, UNCHANGED vars
      PROVE  AllCounted'
  BY <1>1 DEF vars, AllCounted, Counted, Live
<1>2. ASSUME Base, AllLoaded, AllCounted, NEW r \in Requests, Load(r) \/ Turn(r)
      PROVE  AllCounted'
  <2>1. ASSUME NEW q \in Requests, q # r, req'[q].pc # "new"
        PROVE  Counted(q)'
    BY <1>2, <2>1, OtherRequests, OthersCounted
  <2> QED
    BY <1>2, <2>1, OwnCounted DEF AllCounted
<1> QED
  BY <1>1, <1>2, NextTurns

\* The first part of LimitsOverlap.
DevicesWithin ==
  \A r \in Requests :
    LET live == {d \in DeviceIds : Live(d)} IN
    /\ device[r].status = "none" /\ device'[r].status = "enabled"
    /\ Cardinality(live) >= req[r].seen.limit
    => \E s \in live : Overlap(r, s)

LEMMA StepWithin ==
  ASSUME Base, AllLoaded, AllCounted, NEW r \in Requests, Load(r) \/ Turn(r)
  PROVE  DevicesWithin
<1> SUFFICES ASSUME NEW q \in Requests, NEW live, live = {d \in DeviceIds : Live(d)},
                    device[q].status = "none", device'[q].status = "enabled",
                    Cardinality(live) >= req[q].seen.limit, \A s \in live : ~Overlap(q, s)
             PROVE  FALSE
  BY DEF DevicesWithin
<1>1. q = r /\ Register(r)
  <2>1. q \in DeviceIds /\ Live(q)' /\ ~Live(q)
    BY IdSets DEF Live
  <2> QED
    BY <2>1, LiveStep
<1>2. req[r].pc = "append" /\ req[r].ask.kind = "register"
  BY <1>1 DEF Register, Asked
<1>3. Counted(r)
  BY <1>2 DEF AllCounted
<1>4. live \subseteq req[r].found
  BY <1>1, <1>2, <1>3 DEF Counted, Overlap
<1>5. IsFiniteSet(req[r].found)
  BY DEF Base, RequestTypes
<1>6. /\ IsFiniteSet(live) /\ Cardinality(live) <= Cardinality(req[r].found)
      /\ Cardinality(live) \in Nat /\ Cardinality(req[r].found) \in Nat
  BY <1>4, <1>5, FS_Subset, FS_CardinalityType
<1> QED
  BY <1>1, <1>2, <1>3, <1>6 DEF Counted

\* Tokens no two of which overlap are no more than the limit.
Apart(tokens) == \A s, t \in tokens : s # t => ~Overlap(s, t)

TokensWithin ==
  \A p \in Resources : /\ IsFiniteSet(resource[p].tokens)
                       /\ \A T \in SUBSET resource[p].tokens : Apart(T) => Cardinality(T) <= MaxTokens

Issues(r) ==
  /\ req[r].ask.kind = "issue" /\ req[r].pc = "append" =>
       /\ IsFiniteSet(req[r].seen.tokens) /\ Cardinality(req[r].seen.tokens) < MaxTokens
       /\ resource[req[r].ask.id].tokens \subseteq req[r].seen.tokens \cup req[r].beside
  /\ req[r].pc = "token" => resource[r].tokens \subseteq req[r].beside

AllIssues == \A r \in Requests : req[r].pc # "new" => Issues(r)

LEMMA TokenStep ==
  ASSUME Base, NEW r \in Requests, Load(r) \/ Turn(r), NEW x \in Resources
  PROVE  \/ resource'[x].tokens \subseteq resource[x].tokens
         \/ /\ resource'[x].tokens = resource[x].tokens \cup {r} /\ r \in UnderWay
            /\ \/ req[r].pc = "token" /\ x = r
               \/ req[r].pc = "append" /\ req[r].ask.kind = "issue" /\ x = req[r].ask.id
<1>1. CASE resource' = resource
  BY <1>1
<1>2. CASE Create(r)
  <2>1. /\ resource'[r] = [kind |-> req[r].ask.what, status |-> "active",
                            name |-> req[r].ask.name, tokens |-> {}, by |-> r]
        /\ \A y \in Resources \ {r} : resource'[y] = resource[y]
    BY <1>2, CreateStep
  <2>2. resource'[r].tokens = {}
    BY <2>1
  <2> QED
    BY <2>1, <2>2
<1>3. CASE FirstToken(r)
  <2>1. /\ req[r].pc = "token"
        /\ resource'[r] = [kind |-> resource[r].kind, status |-> resource[r].status,
                           name |-> resource[r].name, tokens |-> resource[r].tokens \cup {r},
                           by |-> resource[r].by]
        /\ \A y \in Resources \ {r} : resource'[y] = resource[y]
    BY <1>3, FirstTokenStep
  <2>2. resource'[r].tokens = resource[r].tokens \cup {r}
    BY <2>1
  <2> QED
    BY <2>1, <2>2 DEF UnderWay
<1>4. CASE Remove(r)
  <2> PICK o : o = req[r].ask.id
    OBVIOUS
  <2>1. /\ resource'[o] = [kind |-> resource[o].kind, status |-> "removed",
                            name |-> resource[o].name, tokens |-> resource[o].tokens, by |-> r]
        /\ \A y \in Resources \ {o} : resource'[y] = resource[y]
    BY <1>4, RemoveStep
  <2>2. resource'[o].tokens = resource[o].tokens
    BY <2>1
  <2> QED
    BY <2>1, <2>2
<1>5. CASE ChangeProvider(r)
  <2> PICK o : o = req[r].ask.id
    OBVIOUS
  <2>1. /\ \/ resource'[o].tokens \subseteq resource[o].tokens
           \/ /\ req[r].ask.kind = "issue"
              /\ resource'[o].tokens = resource[o].tokens \cup {r}
        /\ \A y \in Resources \ {o} : resource'[y] = resource[y]
    BY <1>5, ChangeProviderStep
  <2>2. req[r].pc = "append"
    BY <1>5 DEF ChangeProvider, Asked
  <2> QED
    BY <2>1, <2>2 DEF UnderWay
<1> QED
  BY <1>1, <1>2, <1>3, <1>4, <1>5, WhoChanges

LEMMA StepTokens ==
  ASSUME Base, TokensWithin, AllIssues, NEW r \in Requests, Load(r) \/ Turn(r)
  PROVE  TokensWithin'
<1> SUFFICES ASSUME NEW p \in Resources
             PROVE  /\ IsFiniteSet(resource'[p].tokens)
                    /\ \A T \in SUBSET resource'[p].tokens : Apart(T)' => Cardinality(T) <= MaxTokens
  BY DEF TokensWithin
<1>1. ASSUME NEW T, Apart(T)'
      PROVE  Apart(T)
  <2>1. ASSUME NEW s \in T, NEW t \in T, s # t, Overlap(s, t)
        PROVE  FALSE
    BY <1>1, <2>1, OverlapStays DEF Apart
  <2> QED
    BY <2>1 DEF Apart
<1>2. /\ IsFiniteSet(resource[p].tokens)
      /\ \A T \in SUBSET resource[p].tokens : Apart(T) => Cardinality(T) <= MaxTokens
  BY DEF TokensWithin
<1>3. CASE resource'[p].tokens \subseteq resource[p].tokens
  <2>1. IsFiniteSet(resource'[p].tokens)
    BY <1>2, <1>3, FS_Subset
  <2> QED
    BY <1>1, <1>2, <1>3, <2>1
<1>4. ASSUME resource'[p].tokens = resource[p].tokens \cup {r}, r \in UnderWay,
             NEW seen, IsFiniteSet(seen), Cardinality(seen) < MaxTokens,
             resource[p].tokens \subseteq seen \cup req[r].beside
      PROVE  /\ IsFiniteSet(resource'[p].tokens)
             /\ \A T \in SUBSET resource'[p].tokens : Apart(T)' => Cardinality(T) <= MaxTokens
  <2>1. IsFiniteSet(resource'[p].tokens)
    BY <1>2, <1>4, FS_AddElement
  <2>2. ASSUME NEW T \in SUBSET resource'[p].tokens, Apart(T)
        PROVE  Cardinality(T) <= MaxTokens
    <3>1. CASE r \notin T
      BY <1>2, <1>4, <2>2, <3>1
    <3>2. CASE r \in T
      <4>1. T \ {r} \subseteq seen
        BY <1>4, <2>2, <3>2 DEF Apart, Overlap
      <4>2. /\ IsFiniteSet(T \ {r}) /\ Cardinality(T \ {r}) <= Cardinality(seen)
            /\ Cardinality(T \ {r}) \in Nat /\ Cardinality(seen) \in Nat
        BY <1>4, <4>1, FS_Subset, FS_CardinalityType
      <4>3. T = (T \ {r}) \cup {r} /\ r \notin T \ {r}
        BY <3>2
      <4>4. Cardinality(T) = Cardinality(T \ {r}) + 1
        BY <4>2, <4>3, FS_AddElement
      <4>5. MaxTokens \in Nat
        BY OwnerRequestsAssumption
      <4> QED
        BY <1>4, <4>2, <4>4, <4>5
    <3> QED
      BY <3>1, <3>2
  <2> QED
    BY <1>1, <2>1, <2>2
<1>5. CASE /\ resource'[p].tokens = resource[p].tokens \cup {r} /\ r \in UnderWay
           /\ req[r].pc = "token" /\ p = r
  <2>1. resource[p].tokens \subseteq {} \cup req[r].beside
    BY <1>5 DEF AllIssues, Issues
  <2>2. IsFiniteSet({}) /\ Cardinality({}) < MaxTokens
    BY FS_EmptySet, OwnerRequestsAssumption
  <2> QED
    BY <1>4, <1>5, <2>1, <2>2
<1>6. CASE /\ resource'[p].tokens = resource[p].tokens \cup {r} /\ r \in UnderWay
           /\ req[r].pc = "append" /\ req[r].ask.kind = "issue" /\ p = req[r].ask.id
  <2>1. /\ IsFiniteSet(req[r].seen.tokens) /\ Cardinality(req[r].seen.tokens) < MaxTokens
        /\ resource[p].tokens \subseteq req[r].seen.tokens \cup req[r].beside
    BY <1>6 DEF AllIssues, Issues
  <2> QED
    BY <1>4, <1>6, <2>1
<1> QED
  BY <1>3, <1>5, <1>6, TokenStep

LEMMA StepIssues ==
  ASSUME Base, TokensWithin, AllIssues, NEW r \in Requests, Load(r) \/ Turn(r)
  PROVE  AllIssues'
<1>1. ASSUME NEW q \in Requests, q # r, req'[q].pc # "new"
      PROVE  Issues(q)'
  <2>1. /\ req'[q].pc = req[q].pc /\ req'[q].ask = req[q].ask /\ req'[q].seen = req[q].seen
        /\ req[q].beside \subseteq req'[q].beside
    BY <1>1, OtherRequests
  <2>2. Issues(q) /\ q \in Resources
    BY <1>1, <2>1, IdSets DEF AllIssues
  <2>3. ASSUME NEW x \in Resources, req[q].pc \in {"append", "token"}
        PROVE  resource'[x].tokens \subseteq resource[x].tokens \cup req'[q].beside
    <3>1. r \in UnderWay => r \in req[q].beside
      BY <1>1, <2>3 DEF Base, Beside, UnderWay
    <3> QED
      BY <2>1, <3>1, TokenStep
  <2>4. req[q].ask.kind = "issue" => req[q].ask.id \in Resources
    BY <1>1, <2>1, OfKind, AskKinds
  <2> QED
    BY <2>1, <2>2, <2>3, <2>4 DEF Issues
<1>2. CASE Load(r)
  <2>1. PICK ask, seen, pc : Opens(r, ask, seen, pc) /\ Starts(ask, seen, pc)
    BY <1>2, LoadOpens
  <2>2. req'[r].ask = ask /\ req'[r].seen = seen /\ req'[r].pc = pc /\ resource' = resource
    BY <1>2, <2>1, LoadOpens DEF Opens
  <2>3. ask \in Asks /\ pc # "token"
    <3>1. \A x \in Resources : resource[x].kind \in {"none", "credential", "provider"}
      BY DEF Base, StreamTypes, ResourceRecord
    <3>2. ask \in Asks
      BY <2>1 DEF Starts
    <3> QED
      BY <2>1, <3>1, <3>2, AskKinds DEF Starts
  <2>4. ask.kind = "issue" => /\ ask.id \in Resources /\ seen = resource[ask.id]
                              /\ Cardinality(resource[ask.id].tokens) < MaxTokens
    BY <2>1, <2>3, AskKinds DEF Starts
  <2>5. Issues(r)'
    BY <2>2, <2>3, <2>4 DEF Issues, TokensWithin
  <2> QED
    BY <1>1, <2>5 DEF AllIssues
<1>3. CASE Turn(r)
  <2>1. /\ req[r].pc # "new" /\ req'[r].ask = req[r].ask
        /\ req'[r].pc \in Pcs
    BY <1>3, TurnMoves, TurnKeepsBase DEF Moved, Proceeds, UnderWay, Base, RequestTypes
  <2>2. ~(req[r].ask.kind = "issue" /\ req'[r].pc = "append")
    <3>1. req'[r].pc = "append" => req[r].pc \in {"read", "provider", "credential"}
      BY <1>3, ArrivesAt DEF Decide, CheckTarget
    <3>2. req[r].pc \in PcsOf(req[r].ask.kind)
      BY <2>1, OfKind
    <3> QED
      BY <3>1, <3>2 DEF PcsOf
  <2>3. ASSUME req'[r].pc = "token"
        PROVE  resource'[r].tokens = {}
    <3>1. Create(r)
      BY <1>3, <2>3, AfterReloadOrCreate
    <3>2. resource'[r] = [kind |-> req[r].ask.what, status |-> "active",
                            name |-> req[r].ask.name, tokens |-> {}, by |-> r]
      BY <3>1, CreateStep
    <3> QED
      BY <3>2
  <2>4. Issues(r)'
    BY <2>1, <2>2, <2>3 DEF Issues
  <2> QED
    BY <1>1, <2>4 DEF AllIssues
<1> QED
  BY <1>2, <1>3

\* A registration exceeds the limit it has read, and a token MAX_ACTIVE_TOKENS,
\* only beside another one: who counts does so before an await, and no append
\* repeats it.
THEOREM LimitsHold == Spec => LimitsOverlap
<1>1. ASSUME Base, AllLoaded, AllCounted, [Next]_vars
      PROVE  [DevicesWithin]_vars
  BY <1>1, StepWithin, NextTurns
<1>2. Init => AllCounted
  BY DEF Init, AllCounted
<1>3. Spec => [][DevicesWithin]_vars
  BY <1>1, <1>2, NextCounted, LoadedHolds, PTL DEF Spec
<1>4. ASSUME Base, TokensWithin, AllIssues, [Next]_vars
      PROVE  TokensWithin' /\ AllIssues'
  <2>1. CASE UNCHANGED vars
    BY <1>4, <2>1 DEF vars, TokensWithin, AllIssues, Apart, Overlap, Issues
  <2>2. CASE \E r \in Requests : Load(r) \/ Turn(r)
    BY <1>4, <2>2, StepTokens, StepIssues
  <2> QED
    BY <1>4, <2>1, <2>2, NextTurns
<1>5. Init => TokensWithin /\ AllIssues
  <2> SUFFICES ASSUME Init PROVE TokensWithin /\ AllIssues
    OBVIOUS
  <2>1. AllIssues
    BY DEF Init, AllIssues
  <2>2. ASSUME NEW p \in Resources
        PROVE  resource[p].tokens = {} \/ resource[p].tokens = {p}
    BY <2>2 DEF Init
  <2>3. ASSUME NEW p \in Resources, NEW T \in SUBSET resource[p].tokens
        PROVE  Cardinality(T) <= MaxTokens
    <3>1. T = {} \/ T = {p}
      BY <2>2, <2>3
    <3>2. Cardinality({}) = 0 /\ Cardinality({p}) = 1
      BY FS_EmptySet, FS_Singleton
    <3> QED
      BY <3>1, <3>2, OwnerRequestsAssumption
  <2>4. ASSUME NEW p \in Resources
        PROVE  IsFiniteSet(resource[p].tokens)
    BY <2>2, <2>4, FS_EmptySet, FS_Singleton
  <2> QED
    BY <2>1, <2>3, <2>4 DEF TokensWithin
<1>6. Spec => []TokensWithin
  BY <1>4, <1>5, BaseHolds, PTL DEF Spec
<1>7. TokensWithin =>
        \A p \in Resources : Cardinality(resource[p].tokens) > MaxTokens =>
          \E s, t \in resource[p].tokens : s # t /\ Overlap(s, t)
  <2> SUFFICES ASSUME TokensWithin, NEW p \in Resources, Apart(resource[p].tokens)
               PROVE  ~(Cardinality(resource[p].tokens) > MaxTokens)
    BY DEF Apart
  <2>1. Cardinality(resource[p].tokens) <= MaxTokens /\ IsFiniteSet(resource[p].tokens)
    BY DEF TokensWithin
  <2>2. Cardinality(resource[p].tokens) \in Nat /\ MaxTokens \in Nat
    BY <2>1, FS_CardinalityType, OwnerRequestsAssumption
  <2> QED
    BY <2>1, <2>2
<1>8. Spec => [](\A p \in Resources : Cardinality(resource[p].tokens) > MaxTokens =>
                   \E s, t \in resource[p].tokens : s # t /\ Overlap(s, t))
  BY <1>6, <1>7, PTL
<1> QED
  BY <1>3, <1>8 DEF DevicesWithin, LimitsOverlap

-----------------------------------------------------------------------------
(* GuidedFlow: the type invariant, and what ties its parts together. *)

Fates == {"open", "done", "welcomed", "left busy", "unread", "left"}
WizardKinds == {"attach", "edit", "device", "provider", "onboarding"}
CallKinds == WizardKinds \cup {"credential", "row"}
SomeData == {<< >>} \cup UNION {Data(kind) : kind \in Kinds}
Deeds == [kind : CallKinds, n : Nat, data : SomeData]
FlowCalls == [kind : CallKinds, n : Nat, data : SomeData,
              visit : Nat, at : {"sent", "done", "refused", "listing"}, made : Nat]
Gates == [completed : {"never", "earlier", "here"}, dismissed : BOOLEAN]

FlowShapes ==
  /\ page \in Pages /\ visit \in Nat
  /\ wizard \in Wizards \cup {NoWizard}
  /\ calls \subseteq FlowCalls
  /\ made \in Seq(Deeds)
  /\ unheard \subseteq DOMAIN made /\ displayed \subseteq DOMAIN made
  /\ list \in 0..Len(made)
  /\ read \in {NoRead, ReadAsked} \cup [at : {"back"}, upto : 0..Len(made)]
  /\ screen \in 0..Len(made)
  /\ gate \in Gates
  /\ fate \in Seq(Fates) /\ confirmed \in Seq(Nat) /\ Len(confirmed) = Len(fate)

\* The mounted wizard: the steps before the one shown were valid and still are.
WizardFits ==
  wizard # NoWizard =>
    /\ wizard.n \in DOMAIN fate
    /\ wizard.kind \in Offered /\ wizard.data \in Data(wizard.kind)
    /\ wizard.step \in 1..Len(StepsOf(wizard.kind))
    /\ \A i \in 1..(wizard.step - 1) : IsValid(wizard.kind, i, wizard.data)
    /\ wizard.secret \in 0..Len(made)
    /\ wizard.secret = 0 => fate[wizard.n] = "open"
    /\ wizard.secret # 0 => fate[wizard.n] = "done" /\ ~wizard.busy /\ ~GateShown

\* A call names what it asked for, and once it is served what the server did.
\* A wizard's call of this visit is one of the page's own, which is shown.
CallFits(c) ==
  /\ c.kind = "row" => c.n = 0
  /\ c.kind # "row" => c.n \in DOMAIN fate
  /\ c.kind \in WizardKinds => c.data \in Data(c.kind) /\ Complete(c.kind, c.data)
  /\ c.kind \in WizardKinds \ {"onboarding"} /\ c.visit = visit => ~GateShown /\ c.kind \in KindsOf(page)
  /\ c.visit <= visit
  /\ c.at \in {"done", "listing"} =>
       c.made \in DOMAIN made /\ made[c.made].kind = c.kind /\ made[c.made].n = c.n
  /\ c.at \in {"sent", "refused"} => c.made = 0
  /\ c.at = "listing" => c.kind = "credential"
CallsFit == \A c \in calls : CallFits(c)

DeedFits(d) ==
  /\ d.kind = "row" => d.n = 0
  /\ d.kind \in WizardKinds => d.n \in DOMAIN fate /\ Complete(d.kind, d.data)
DeedsFit == \A i \in DOMAIN made : DeedFits(made[i])

\* The calls a wizard confirmed and waits for.
Own(n) == {c \in calls : c.n = n /\ c.kind \in WizardKinds}
Waits(n) == (Mounted(n) /\ wizard.secret = 0 /\ wizard.busy) \/ fate[n] = "left busy"
Settled(n) ==
  /\ Own(n) = {}
  /\ fate[n] \in {"done", "welcomed", "unread", "left busy"}
  /\ Mounted(n) => wizard.secret # 0
Told(n) == MadeBy(n) \ unheard

\* One call at a time, and none after one that was answered.
CallOwned(n) ==
  /\ \A c, d \in Own(n) : c = d
  /\ Own(n) # {} => Waits(n)
DeedOwned(n) ==
  /\ \A i, j \in Told(n) : i = j
  /\ \A i \in Told(n) : (\E c \in Own(n) : c.made = i) \/ Settled(n)
  /\ fate[n] = "done" => MadeBy(n) # {}
Sent(n) == \E c \in Own(n) : c.at = "sent"
Paid(n) == Cardinality(MadeBy(n)) + (IF Sent(n) THEN 1 ELSE 0) <= confirmed[n]
Owned == \A n \in DOMAIN fate : CallOwned(n) /\ DeedOwned(n) /\ Paid(n)

\* The first-run flow was confirmed, and while its call is under way it is in
\* front until it is dismissed.
GateFits ==
  /\ gate.completed = "here" => \E n \in DOMAIN fate : fate[n] = "welcomed" /\ confirmed[n] > 0
  /\ \A c \in calls : c.kind = "onboarding" => (Mounted(c.n) <=> GateShown)

\* What the list may lack when it was read as far as upto.
SecretSeen(i) ==
  made[i].kind \in {"device", "provider"} =>
    i \in displayed \/ (made[i].kind = "device" /\ fate[made[i].n] = "left busy")
MayMiss(i) ==
  \/ made[i].kind \in {"credential", "onboarding"}
  \/ made[i].kind = "device" /\ (fate[made[i].n] \in {"unread", "left busy"} \/ Mounted(made[i].n))
  \/ made[i].kind = "provider" /\ screen # 0
InList(i) ==
  /\ ~GateShown /\ read = NoRead /\ i > list => MayMiss(i)
  /\ ~GateShown /\ read.at = "back" /\ i > read.upto => MayMiss(i)
Waited(i) == \E c \in calls : c.made = i
ResultsShown == \A i \in DOMAIN made \ unheard : Waited(i) \/ (SecretSeen(i) /\ InList(i))

FlowInv == FlowShapes /\ WizardFits /\ CallsFit /\ DeedsFit /\ Owned /\ GateFits /\ ResultsShown

-----------------------------------------------------------------------------
(* Kinds, fields and data. *)

\* The kinds of wizards, and those of the pages.
LEMMA FlowKindsAre ==
  /\ Kinds = WizardKinds
  /\ \A p \in Pages : KindsOf(p) \subseteq WizardKinds \ {"onboarding"}
  /\ \A p \in Pages : {"attach", "edit"} \cap KindsOf(p) # {} => p = "actions"
  /\ \A p \in Pages : "provider" \in KindsOf(p) => p = "agents"
<1>1. /\ KindsOf("actions") = {"attach", "edit"} /\ KindsOf("devices") = {"device"}
      /\ KindsOf("home") = {"device"} /\ KindsOf("agents") = {"provider"}
  BY DEF KindsOf
<1>2. \A p \in Pages : KindsOf(p) \in {{"attach", "edit"}, {"device"}, {"provider"}}
  BY <1>1 DEF Pages
<1>3. Kinds = WizardKinds
  <2>1. KindsOf("actions") \cup KindsOf("devices") \cup KindsOf("agents") \subseteq Kinds
    BY DEF Kinds, Pages
  <2>2. WizardKinds \subseteq Kinds
    BY <1>1, <2>1 DEF Kinds, WizardKinds
  <2>3. Kinds \subseteq WizardKinds
    BY <1>2 DEF Kinds, WizardKinds
  <2> QED
    BY <2>2, <2>3
<1> QED
  BY <1>1, <1>2, <1>3 DEF Pages, WizardKinds

\* What the page offers, and no page the first-run flow.
LEMMA OfferedAre ==
  ASSUME page \in Pages
  PROVE  /\ Offered \subseteq WizardKinds
         /\ ~GateShown => Offered = KindsOf(page) /\ "onboarding" \notin Offered
         /\ GateShown => Offered = {"onboarding"}
BY FlowKindsAre DEF Offered, WizardKinds

\* The fields of a kind are those of its steps.
LEMMA FieldsAre ==
  /\ FieldsOf("attach") = {"credential", "target", "families"}
  /\ FieldsOf("edit") = {"credential", "target", "families"}
  /\ FieldsOf("device") = {"name"}
  /\ FieldsOf("provider") = {"name", "mode"}
  /\ FieldsOf("onboarding") = {"addresses", "firstDevice"}
<1>1. /\ StepsOf("attach") = ActionSteps /\ StepsOf("edit") = ActionSteps
      /\ StepsOf("device") = DeviceSteps /\ StepsOf("provider") = ProviderSteps
      /\ StepsOf("onboarding") = OnboardingSteps
  BY DEF StepsOf
<1>2. UNION {ActionSteps[i] : i \in 1..Len(ActionSteps)} = {"credential", "target", "families"}
  <2>1. Len(ActionSteps) = 4 /\ 1..4 = {1, 2, 3, 4}
    BY DEF ActionSteps
  <2>2. /\ ActionSteps[1] = {} /\ ActionSteps[2] = {"credential", "target"}
        /\ ActionSteps[3] = {"families"} /\ ActionSteps[4] = {}
    BY DEF ActionSteps
  <2> QED
    BY <2>1, <2>2
<1>3. UNION {DeviceSteps[i] : i \in 1..Len(DeviceSteps)} = {"name"}
  <2>1. Len(DeviceSteps) = 2 /\ 1..2 = {1, 2} /\ DeviceSteps[1] = {"name"} /\ DeviceSteps[2] = {}
    BY DEF DeviceSteps
  <2> QED
    BY <2>1
<1>4. UNION {ProviderSteps[i] : i \in 1..Len(ProviderSteps)} = {"name", "mode"}
  <2>1. /\ Len(ProviderSteps) = 3 /\ 1..3 = {1, 2, 3}
        /\ ProviderSteps[1] = {"name"} /\ ProviderSteps[2] = {"mode"} /\ ProviderSteps[3] = {}
    BY DEF ProviderSteps
  <2> QED
    BY <2>1
<1>5. UNION {OnboardingSteps[i] : i \in 1..Len(OnboardingSteps)} = {"addresses", "firstDevice"}
  <2>1. /\ Len(OnboardingSteps) = 3 /\ 1..3 = {1, 2, 3}
        /\ OnboardingSteps[1] = {} /\ OnboardingSteps[2] = {"addresses"}
        /\ OnboardingSteps[3] = {"firstDevice"}
    BY DEF OnboardingSteps
  <2> QED
    BY <2>1
<1>6. FieldsOf("attach") = {"credential", "target", "families"}
  BY <1>1, <1>2 DEF FieldsOf
<1>7. FieldsOf("edit") = {"credential", "target", "families"}
  BY <1>1, <1>2 DEF FieldsOf
<1>8. FieldsOf("device") = {"name"}
  BY <1>1, <1>3 DEF FieldsOf
<1>9. FieldsOf("provider") = {"name", "mode"}
  BY <1>1, <1>4 DEF FieldsOf
<1>10. FieldsOf("onboarding") = {"addresses", "firstDevice"}
  BY <1>1, <1>5 DEF FieldsOf
<1> QED
  BY <1>6, <1>7, <1>8, <1>9, <1>10

\* A step's fields are fields of the kind.
LEMMA StepFields ==
  ASSUME NEW kind, NEW step \in 1..Len(StepsOf(kind))
  PROVE  StepsOf(kind)[step] \subseteq FieldsOf(kind)
BY DEF FieldsOf

LEMMA StepCounts ==
  ASSUME NEW kind \in WizardKinds
  PROVE  Len(StepsOf(kind)) \in Nat /\ Len(StepsOf(kind)) >= 1
<1>1. /\ Len(ActionSteps) = 4 /\ Len(DeviceSteps) = 2 /\ Len(ProviderSteps) = 3 /\ Len(OnboardingSteps) = 3
  BY DEF ActionSteps, DeviceSteps, ProviderSteps, OnboardingSteps
<1>2. StepsOf(kind) \in {ActionSteps, DeviceSteps, ProviderSteps, OnboardingSteps}
  BY DEF StepsOf, WizardKinds
<1> QED
  BY <1>1, <1>2

\* Steps that were valid one by one make data that is complete.
LEMMA ValidStepsComplete ==
  ASSUME NEW kind, NEW data,
         \A i \in 1..Len(StepsOf(kind)) : IsValid(kind, i, data)
  PROVE  Complete(kind, data)
BY DEF Complete, IsValid, FieldsOf

LEMMA SomeFieldChosen ==
  ASSUME NEW field
  PROVE  /\ Choices(field) \subseteq Values \cup {Empty, "chosen", "agent_initiated"}
         /\ \E v \in Choices(field) : v # Empty
BY GuidedFlowAssumption DEF Choices

LEMMA InitialData ==
  ASSUME NEW kind
  PROVE  Initially(kind) \in Data(kind)
<1>1. \A field \in FieldsOf(kind) : 
         (IF kind = "edit" \/ field \in Preset THEN CHOOSE v \in Choices(field) : v # Empty ELSE Empty)
           \in Values \cup {Empty, "chosen", "agent_initiated"}
  BY SomeFieldChosen
<1> QED
  BY <1>1 DEF Initially, Data

\* Changing one field to a choice of its keeps the data's type.
LEMMA DataChanged ==
  ASSUME NEW kind, NEW data \in Data(kind), NEW field,
         NEW v \in Values \cup {Empty, "chosen", "agent_initiated"}
  PROVE  [data EXCEPT ![field] = v] \in Data(kind)
BY DEF Data

\* No step asks for what another one collects.
LEMMA StepsApart ==
  ASSUME NEW kind \in WizardKinds,
         NEW i \in 1..Len(StepsOf(kind)), NEW j \in 1..Len(StepsOf(kind)), i # j
  PROVE  StepsOf(kind)[i] \cap StepsOf(kind)[j] = {}
<1>1. CASE kind \in {"attach", "edit"}
  <2>1. StepsOf(kind) = ActionSteps
    BY <1>1 DEF StepsOf
  <2>2. /\ Len(ActionSteps) = 4 /\ ActionSteps[1] = {} /\ ActionSteps[2] = {"credential", "target"}
        /\ ActionSteps[3] = {"families"} /\ ActionSteps[4] = {}
    BY DEF ActionSteps
  <2>3. i \in {1, 2, 3, 4} /\ j \in {1, 2, 3, 4}
    BY <2>1, <2>2
  <2> QED
    BY <2>1, <2>2, <2>3
<1>2. CASE kind = "device"
  <2>1. StepsOf(kind) = DeviceSteps
    BY <1>2 DEF StepsOf
  <2>2. Len(DeviceSteps) = 2 /\ DeviceSteps[1] = {"name"} /\ DeviceSteps[2] = {}
    BY DEF DeviceSteps
  <2>3. i \in {1, 2} /\ j \in {1, 2}
    BY <2>1, <2>2
  <2> QED
    BY <2>1, <2>2, <2>3
<1>3. CASE kind = "provider"
  <2>1. StepsOf(kind) = ProviderSteps
    BY <1>3 DEF StepsOf
  <2>2. /\ Len(ProviderSteps) = 3
        /\ ProviderSteps[1] = {"name"} /\ ProviderSteps[2] = {"mode"} /\ ProviderSteps[3] = {}
    BY DEF ProviderSteps
  <2>3. i \in {1, 2, 3} /\ j \in {1, 2, 3}
    BY <2>1, <2>2
  <2> QED
    BY <2>1, <2>2, <2>3
<1>4. CASE kind = "onboarding"
  <2>1. StepsOf(kind) = OnboardingSteps
    BY <1>4 DEF StepsOf
  <2>2. /\ Len(OnboardingSteps) = 3
        /\ OnboardingSteps[1] = {} /\ OnboardingSteps[2] = {"addresses"}
        /\ OnboardingSteps[3] = {"firstDevice"}
    BY DEF OnboardingSteps
  <2>3. i \in {1, 2, 3} /\ j \in {1, 2, 3}
    BY <2>1, <2>2
  <2> QED
    BY <2>1, <2>2, <2>3
<1> QED
  BY <1>1, <1>2, <1>3, <1>4 DEF WizardKinds

LEMMA WizardIsOne ==
  ASSUME NEW w \in Wizards
  PROVE  w # NoWizard
BY GuidedFlowAssumption

\* Fewer than two elements that are not the same.
LEMMA AtMostOne ==
  ASSUME NEW S, \A x, y \in S : x = y
  PROVE  IsFiniteSet(S) /\ Cardinality(S) <= 1 /\ Cardinality(S) \in Nat
<1>1. CASE S = {}
  BY <1>1, FS_EmptySet
<1>2. CASE S # {}
  <2>1. PICK x : S = {x}
    <3>1. PICK x : x \in S
      BY <1>2
    <3>2. S = {x}
      BY <3>1
    <3> QED
      BY <3>2
  <2>2. IsFiniteSet({x}) /\ Cardinality({x}) = 1
    BY FS_Singleton
  <2> QED
    BY <2>1, <2>2
<1> QED
  BY <1>1, <1>2

-----------------------------------------------------------------------------
(* What steps that do not touch a part leave of it. *)

\* The page is the same and still shown, another one is opened, or the first-run
\* flow is in front of both.
PlaceStays ==
  \/ page' = page /\ visit' = visit /\ (GateShown' => GateShown)
  \/ visit' = visit + 1
  \/ visit' = visit /\ GateShown

LEMMA SamePlace ==
  ASSUME page' = page, visit' = visit, gate' = gate
  PROVE  PlaceStays /\ (GateShown' <=> GateShown) /\ Offered' = Offered
BY DEF PlaceStays, GateShown, Offered

\* A deed stays what it is while the wizards opened stay.
LEMMA DeedsStay ==
  ASSUME DeedsFit, made' = made, DOMAIN fate \subseteq DOMAIN fate'
  PROVE  DeedsFit'
BY DEF DeedsFit, DeedFits, Complete

\* So does a call, while what the server did only grows.
LEMMA CallStays ==
  ASSUME NEW c \in FlowCalls, CallFits(c), visit \in Nat, PlaceStays, DOMAIN fate \subseteq DOMAIN fate',
         DOMAIN made \subseteq DOMAIN made', \A i \in DOMAIN made : made'[i] = made[i]
  PROVE  CallFits(c)'
<1>1. c.visit \in Nat /\ c.visit <= visit
  BY DEF FlowCalls, CallFits
<1>2. c.visit <= visit'
  BY <1>1 DEF PlaceStays
<1>3. c.kind \in WizardKinds \ {"onboarding"} /\ c.visit = visit' =>
        ~(GateShown') /\ c.kind \in KindsOf(page')
  BY <1>1 DEF PlaceStays, CallFits
<1>4. /\ c.kind = "row" => c.n = 0
      /\ c.kind # "row" => c.n \in DOMAIN fate'
      /\ c.kind \in WizardKinds => c.data \in Data(c.kind) /\ Complete(c.kind, c.data)
      /\ c.at \in {"done", "listing"} =>
           c.made \in DOMAIN made' /\ made'[c.made].kind = c.kind /\ made'[c.made].n = c.n
      /\ c.at \in {"sent", "refused"} => c.made = 0
      /\ c.at = "listing" => c.kind = "credential"
  BY DEF CallFits
<1> QED
  BY <1>2, <1>3, <1>4 DEF CallFits, Complete

LEMMA CallsStay ==
  ASSUME FlowShapes, CallsFit, PlaceStays, calls' \subseteq calls, made' = made,
         DOMAIN fate \subseteq DOMAIN fate'
  PROVE  CallsFit'
<1>1. ASSUME NEW c \in calls
      PROVE  CallFits(c)'
  <2>1. c \in FlowCalls /\ visit \in Nat
    BY DEF FlowShapes
  <2> QED
    BY <2>1, CallStays DEF CallsFit
<1> QED
  BY <1>1 DEF CallsFit

\* The wizard stays as far as its calls are concerned.
SameWizard ==
  /\ wizard' = NoWizard <=> wizard = NoWizard
  /\ wizard # NoWizard =>
       /\ wizard'.n = wizard.n /\ wizard'.secret = wizard.secret /\ wizard'.busy = wizard.busy

LEMMA MountedStays ==
  ASSUME SameWizard
  PROVE  \A n : Mounted(n)' <=> Mounted(n)
BY DEF SameWizard, Mounted

\* A step that leaves the wizards' own calls alone leaves all they own alone.
LEMMA OwnedStays ==
  ASSUME Owned, SameWizard,
         UNCHANGED <<made, unheard, fate, confirmed>>,
         \A n \in DOMAIN fate : Own(n)' = Own(n)
  PROVE  Owned'
<1>1. ASSUME NEW n \in DOMAIN fate
      PROVE  CallOwned(n)' /\ DeedOwned(n)' /\ Paid(n)'
  <2>1. CallOwned(n) /\ DeedOwned(n) /\ Paid(n)
    BY DEF Owned
  <2>2. Own(n)' = Own(n) /\ (Mounted(n)' <=> Mounted(n))
    BY MountedStays
  <2>3. Waits(n)' <=> Waits(n)
    BY <2>2 DEF Waits, SameWizard, Mounted
  <2>4. CallOwned(n)'
    BY <2>1, <2>2, <2>3 DEF CallOwned
  <2>5. Settled(n)' <=> Settled(n)
    BY <2>2 DEF Settled, SameWizard, Mounted
  <2>6. MadeBy(n)' = MadeBy(n) /\ Told(n)' = Told(n)
    BY DEF MadeBy, Told
  <2>7. DeedOwned(n)'
    BY <2>1, <2>2, <2>5, <2>6 DEF DeedOwned
  <2>8. Paid(n)'
    BY <2>1, <2>2, <2>6 DEF Paid, Sent
  <2> QED
    BY <2>4, <2>7, <2>8
<1> QED
  BY <1>1 DEF Owned

LEMMA ConfirmedStays ==
  ASSUME FlowInv, confirmed' = confirmed
  PROVE  \A n \in DOMAIN fate : confirmed'[n] \in Nat /\ confirmed[n] \in Nat /\ confirmed'[n] >= confirmed[n]
BY DEF FlowInv, FlowShapes

\* Nor is the first-run flow's own call touched, or waited for by another.
LEMMA GateStays ==
  ASSUME FlowInv, gate' = gate, \A n : Mounted(n)' <=> Mounted(n),
         \A c \in calls' : c.kind = "onboarding" => \E d \in calls : d.kind = c.kind /\ d.n = c.n,
         \A n \in DOMAIN fate : n \in DOMAIN fate' /\ confirmed'[n] \in Nat /\ confirmed'[n] >= confirmed[n],
         \A n \in DOMAIN fate : fate[n] = "welcomed" => fate'[n] = "welcomed"
  PROVE  GateFits'
<1>1. GateShown' <=> GateShown
  BY DEF GateShown
<1>2. gate.completed = "here" => \E n \in DOMAIN fate' : fate'[n] = "welcomed" /\ confirmed'[n] > 0
  <2>1. HAVE gate.completed = "here"
  <2>2. PICK n \in DOMAIN fate : fate[n] = "welcomed" /\ confirmed[n] > 0
    BY <2>1 DEF FlowInv, GateFits
  <2>3. confirmed[n] \in Nat /\ confirmed'[n] \in Nat /\ confirmed'[n] >= confirmed[n]
    BY DEF FlowInv, FlowShapes
  <2> QED
    BY <2>2, <2>3
<1>3. \A c \in calls' : c.kind = "onboarding" => (Mounted(c.n)' <=> GateShown')
  <2>1. TAKE c \in calls'
  <2>2. HAVE c.kind = "onboarding"
  <2>3. PICK d \in calls : d.kind = c.kind /\ d.n = c.n
    BY <2>2
  <2> QED
    BY <1>1, <2>2, <2>3 DEF FlowInv, GateFits
<1> QED
  BY <1>2, <1>3 DEF GateFits

\* What was shown of the results stays shown, while no call is answered.
LEMMA ShownStays ==
  ASSUME ResultsShown, UNCHANGED <<made, unheard, fate, displayed, list, read, screen, gate>>,
         \A i \in DOMAIN made \ unheard : Waited(i) => Waited(i)',
         \A n : Mounted(n) => Mounted(n)'
  PROVE  ResultsShown'
<1>1. ASSUME NEW i \in DOMAIN made \ unheard
      PROVE  Waited(i)' \/ (SecretSeen(i)' /\ InList(i)')
  <2>1. CASE Waited(i)
    BY <2>1
  <2>2. CASE SecretSeen(i) /\ InList(i)
    <3>1. MayMiss(i) => MayMiss(i)'
      BY DEF MayMiss
    <3> QED
      BY <2>2, <3>1 DEF SecretSeen, InList, NoRead, GateShown
  <2> QED
    BY <2>1, <2>2 DEF ResultsShown
<1> QED
  BY <1>1 DEF ResultsShown

-----------------------------------------------------------------------------
(* The initial states, and the steps of an owner who fills a wizard in. *)

LEMMA FlowStart ==
  ASSUME FlowInit
  PROVE  FlowInv
<1>1. FlowShapes
  <2>1. << >> \in Seq(Deeds) /\ << >> \in Seq(Fates) /\ << >> \in Seq(Nat) /\ Len(<< >>) = 0
    OBVIOUS
  <2>2. gate \in Gates
    BY DEF FlowInit, Gates
  <2>3. read \in {NoRead, ReadAsked}
    BY DEF FlowInit
  <2> QED
    BY <2>1, <2>2, <2>3 DEF FlowInit, FlowShapes
<1>2. DOMAIN made = {} /\ DOMAIN fate = {}
  BY DEF FlowInit
<1>3. WizardFits /\ CallsFit /\ DeedsFit /\ Owned /\ ResultsShown
  BY <1>2 DEF FlowInit, WizardFits, CallsFit, DeedsFit, Owned, ResultsShown
<1>4. GateFits
  BY <1>2 DEF FlowInit, GateFits
<1> QED
  BY <1>1, <1>3, <1>4 DEF FlowInv

\* What is left to show of a step that changes the mounted wizard alone.
LEMMA Refilled ==
  ASSUME FlowInv, wizard # NoWizard, wizard' \in Wizards,
         wizard'.n = wizard.n, wizard'.secret = wizard.secret, wizard'.busy = wizard.busy,
         UNCHANGED <<page, visit, calls, made, unheard, displayed, list, read, screen, gate, fate, confirmed>>,
         WizardFits'
  PROVE  FlowInv'
<1>1. SameWizard
  BY WizardIsOne DEF SameWizard
<1>2. FlowShapes'
  BY DEF FlowInv, FlowShapes
<1>3. CallsFit' /\ DeedsFit'
  BY SamePlace, CallsStay, DeedsStay DEF FlowInv
<1>4. \A n \in DOMAIN fate : Own(n)' = Own(n)
  BY DEF Own
<1>5. Owned' /\ GateFits'
  <2>1. Owned'
    BY <1>1, <1>4, OwnedStays DEF FlowInv
  <2>2. GateFits'
    BY <1>1, MountedStays, ConfirmedStays, GateStays
  <2> QED
    BY <2>1, <2>2
<1>6. ResultsShown'
  <2>1. \A i : Waited(i) => Waited(i)'
    BY DEF Waited
  <2> QED
    BY <1>1, <2>1, MountedStays, ShownStays DEF FlowInv
<1> QED
  BY <1>2, <1>3, <1>5, <1>6 DEF FlowInv

\* The mounted wizard and its parts.
LEMMA WizardParts ==
  ASSUME FlowInv, wizard # NoWizard
  PROVE  /\ wizard \in Wizards /\ wizard.kind \in WizardKinds /\ page \in Pages
         /\ wizard.data \in Data(wizard.kind) /\ wizard.n \in DOMAIN fate /\ wizard.n \in Nat
         /\ wizard.step \in 1..Len(StepsOf(wizard.kind)) /\ Len(StepsOf(wizard.kind)) \in Nat
<1>1. wizard \in Wizards /\ page \in Pages
  BY DEF FlowInv, FlowShapes
<1>2. wizard.kind \in WizardKinds
  BY <1>1, FlowKindsAre DEF Wizards
<1> QED
  BY <1>1, <1>2, StepCounts DEF FlowInv, WizardFits, Wizards

LEMMA UpdateDataKeeps ==
  ASSUME FlowInv, UpdateData
  PROVE  FlowInv'
<1>0. PICK field \in StepsOf(wizard.kind)[wizard.step] :
        \E v \in Choices(field) \ {wizard.data[field]} : wizard' = [wizard EXCEPT !.data[field] = v]
  BY DEF UpdateData
<1>1. PICK v \in Choices(field) \ {wizard.data[field]} : wizard' = [wizard EXCEPT !.data[field] = v]
  BY <1>0
<1>2. /\ wizard # NoWizard
      /\ UNCHANGED <<page, visit, calls, made, unheard, displayed, list, read, screen, gate, fate, confirmed>>
  BY DEF UpdateData, Filling, place, server, shows
<1> DEFINE data == [wizard.data EXCEPT ![field] = v]
<1>3. /\ wizard \in Wizards /\ wizard.kind \in WizardKinds /\ wizard.data \in Data(wizard.kind)
      /\ wizard.step \in 1..Len(StepsOf(wizard.kind))
  BY <1>2, WizardParts
<1>4. data \in Data(wizard.kind)
  <2>1. v \in Values \cup {Empty, "chosen", "agent_initiated"}
    BY SomeFieldChosen
  <2> QED
    BY <1>3, <2>1, DataChanged
<1>5. /\ wizard' \in Wizards /\ wizard'.n = wizard.n /\ wizard'.kind = wizard.kind
      /\ wizard'.step = wizard.step /\ wizard'.data = data
      /\ wizard'.secret = wizard.secret /\ wizard'.busy = wizard.busy
  <2>1. data \in UNION {Data(kind) : kind \in Kinds}
    BY <1>3, <1>4, FlowKindsAre
  <2>2. wizard' = [wizard EXCEPT !.data = data]
    BY <1>1, <1>3 DEF Wizards
  <2> HIDE DEF data
  <2> QED
    BY <1>3, <2>1, <2>2 DEF Wizards
<1>6. \A i \in 1..(wizard.step - 1) : IsValid(wizard.kind, i, data)
  <2>1. ASSUME NEW i \in 1..(wizard.step - 1), IsValid(wizard.kind, i, wizard.data)
        PROVE  IsValid(wizard.kind, i, data)
    <3>1. i \in 1..Len(StepsOf(wizard.kind)) /\ i # wizard.step
      BY <1>2, WizardParts
    <3>2. field \notin StepsOf(wizard.kind)[i]
      BY <1>1, <1>3, <3>1, StepsApart
    <3>3. \A g : g # field => data[g] = wizard.data[g] \/ g \notin DOMAIN wizard.data
      BY <1>3 DEF Data
    <3>4. StepsOf(wizard.kind)[i] \subseteq DOMAIN wizard.data
      BY <1>3, <3>1, StepFields DEF Data
    <3> QED
      BY <2>1, <3>2, <3>3, <3>4 DEF IsValid
  <2> QED
    BY <1>2, <2>1 DEF FlowInv, WizardFits
<1>7. WizardFits'
  <2> HIDE DEF data
  <2> QED
    BY <1>2, <1>4, <1>5, <1>6, SamePlace DEF FlowInv, WizardFits, IsValid
<1> QED
  BY <1>2, <1>5, <1>7, Refilled

\* The step shown is another one.
LEMMA StepKeeps ==
  ASSUME FlowInv, wizard # NoWizard, NEW step \in 1..Len(StepsOf(wizard.kind)),
         wizard' = [wizard EXCEPT !.step = step],
         \A i \in 1..(step - 1) : IsValid(wizard.kind, i, wizard.data),
         UNCHANGED <<page, visit, calls, made, unheard, displayed, list, read, screen, gate, fate, confirmed>>
  PROVE  FlowInv'
<1>1. /\ wizard \in Wizards /\ wizard.kind \in WizardKinds /\ Len(StepsOf(wizard.kind)) \in Nat
  BY WizardParts
<1>2. /\ wizard' \in Wizards /\ wizard'.n = wizard.n /\ wizard'.kind = wizard.kind
      /\ wizard'.step = step /\ wizard'.data = wizard.data
      /\ wizard'.secret = wizard.secret /\ wizard'.busy = wizard.busy
  BY <1>1 DEF Wizards
<1>3. WizardFits'
  BY <1>2, SamePlace DEF FlowInv, WizardFits, IsValid
<1> QED
  BY <1>2, <1>3, Refilled

LEMMA GoNextKeeps ==
  ASSUME FlowInv, GoNext
  PROVE  FlowInv'
<1> DEFINE step == wizard.step + 1
<1>1. /\ wizard # NoWizard /\ wizard' = [wizard EXCEPT !.step = step]
      /\ wizard.step # Len(StepsOf(wizard.kind)) /\ IsValid(wizard.kind, wizard.step, wizard.data)
      /\ UNCHANGED <<page, visit, calls, made, unheard, displayed, list, read, screen, gate, fate, confirmed>>
  BY DEF GoNext, Filling, IsLastStep, CanGoNext, place, server, shows
<1>2. wizard.step \in 1..Len(StepsOf(wizard.kind)) /\ Len(StepsOf(wizard.kind)) \in Nat
  BY <1>1, WizardParts
<1>3. step \in 1..Len(StepsOf(wizard.kind))
  BY <1>1, <1>2
<1>4. \A i \in 1..(step - 1) : IsValid(wizard.kind, i, wizard.data)
  <2>1. \A i \in 1..(wizard.step - 1) : IsValid(wizard.kind, i, wizard.data)
    BY <1>1 DEF FlowInv, WizardFits
  <2>2. \A i \in 1..(step - 1) : i \in 1..(wizard.step - 1) \/ i = wizard.step
    BY <1>2
  <2> QED
    BY <1>1, <2>1, <2>2
<1> HIDE DEF step
<1> QED
  BY <1>1, <1>3, <1>4, StepKeeps

LEMMA GoBackKeeps ==
  ASSUME FlowInv, GoBack
  PROVE  FlowInv'
<1>1. /\ wizard # NoWizard /\ wizard' = [wizard EXCEPT !.step = wizard.step - 1] /\ wizard.step > 1
      /\ UNCHANGED <<page, visit, calls, made, unheard, displayed, list, read, screen, gate, fate, confirmed>>
  BY DEF GoBack, Filling, place, server, shows
<1>2. wizard.step \in 1..Len(StepsOf(wizard.kind)) /\ Len(StepsOf(wizard.kind)) \in Nat
  BY <1>1, WizardParts
<1>3. wizard.step - 1 \in 1..Len(StepsOf(wizard.kind))
  BY <1>1, <1>2
<1>4. \A i \in 1..(wizard.step - 1 - 1) : IsValid(wizard.kind, i, wizard.data)
  <2>1. \A i \in 1..(wizard.step - 1) : IsValid(wizard.kind, i, wizard.data)
    BY <1>1 DEF FlowInv, WizardFits
  <2>2. \A i \in 1..(wizard.step - 1 - 1) : i \in 1..(wizard.step - 1)
    BY <1>2
  <2> QED
    BY <2>1, <2>2
<1> QED
  BY <1>1, <1>3, <1>4, StepKeeps

\* What a wizard's deeds are.
LEMMA OwnDeed ==
  ASSUME FlowInv, NEW n \in Nat \ {0}, NEW i \in MadeBy(n)
  PROVE  i \in DOMAIN made /\ made[i].n = n /\ made[i].kind \in WizardKinds /\ n \in DOMAIN fate
<1>1. i \in DOMAIN made /\ made[i].n = n /\ made[i].kind # "credential"
  BY DEF MadeBy
<1>2. made[i] \in Deeds
  BY <1>1 DEF FlowInv, FlowShapes
<1>3. DeedFits(made[i])
  BY <1>1 DEF FlowInv, DeedsFit
<1>4. made[i].kind \in WizardKinds
  BY <1>1, <1>2, <1>3 DEF Deeds, CallKinds, DeedFits
<1> QED
  BY <1>1, <1>3, <1>4 DEF DeedFits

LEMMA DeedsFinite ==
  ASSUME FlowInv, NEW n
  PROVE  IsFiniteSet(MadeBy(n)) /\ Cardinality(MadeBy(n)) \in Nat
<1>1. Len(made) \in Nat /\ DOMAIN made = 1..Len(made)
  BY DEF FlowInv, FlowShapes
<1>2. IsFiniteSet(DOMAIN made)
  BY <1>1, FS_Interval
<1>3. MadeBy(n) \in SUBSET DOMAIN made
  BY DEF MadeBy
<1> QED
  BY <1>2, <1>3, FS_Subset, FS_CardinalityType

\* The wizards opened so far, and what each of them owns.
LEMMA OpenedParts ==
  ASSUME FlowInv, NEW n \in DOMAIN fate
  PROVE  /\ n \in Nat \ {0} /\ n \in DOMAIN confirmed /\ confirmed[n] \in Nat /\ fate[n] \in Fates
         /\ CallOwned(n) /\ DeedOwned(n) /\ Paid(n)
<1>1. /\ fate \in Seq(Fates) /\ confirmed \in Seq(Nat) /\ Len(confirmed) = Len(fate)
  BY DEF FlowInv, FlowShapes
<1> QED
  BY <1>1 DEF FlowInv, Owned

LEMMA OpenWizardKeeps ==
  ASSUME FlowInv, OpenWizard
  PROVE  FlowInv'
<1>1. PICK kind \in Offered : wizard' = Opened(kind)
  BY DEF OpenWizard
<1>0. PICK N : N = Len(fate) + 1
  OBVIOUS
<1>2. /\ wizard = NoWizard
      /\ fate' = Append(fate, "open") /\ confirmed' = Append(confirmed, 0)
      /\ UNCHANGED <<page, visit, calls, made, unheard, displayed, list, read, screen, gate>>
  BY DEF OpenWizard, place, server, shows
<1>3. /\ fate \in Seq(Fates) /\ confirmed \in Seq(Nat) /\ Len(confirmed) = Len(fate) /\ page \in Pages
      /\ Len(made) \in Nat
  BY DEF FlowInv, FlowShapes
<1>4. /\ Len(fate) \in Nat /\ DOMAIN fate = 1..Len(fate) /\ DOMAIN fate' = 1..N
      /\ \A n \in DOMAIN fate : fate'[n] = fate[n] /\ confirmed'[n] = confirmed[n] /\ n # N
      /\ fate'[N] = "open" /\ confirmed'[N] = 0
      /\ fate' \in Seq(Fates) /\ confirmed' \in Seq(Nat) /\ Len(confirmed') = Len(fate')
  <2>1. Len(fate) \in Nat /\ DOMAIN fate = 1..Len(fate) /\ DOMAIN confirmed = 1..Len(fate)
    BY <1>3
  <2>2. DOMAIN fate' = 1..N /\ DOMAIN confirmed' = 1..N /\ N \in Nat /\ N > Len(fate)
    BY <1>0, <1>2, <1>3, <2>1
  <2>3. \A n \in DOMAIN fate : fate'[n] = fate[n] /\ confirmed'[n] = confirmed[n]
    BY <1>2, <1>3, <2>1
  <2>4. fate'[N] = "open" /\ confirmed'[N] = 0
    BY <1>0, <1>2, <1>3
  <2>5. fate' \in Seq(Fates) /\ confirmed' \in Seq(Nat) /\ Len(confirmed') = Len(fate')
    <3>1. "open" \in Fates /\ 0 \in Nat
      BY DEF Fates
    <3> QED
      BY <1>2, <1>3, <3>1
  <2> QED
    BY <2>1, <2>2, <2>3, <2>4, <2>5
<1>5. kind \in WizardKinds
  BY <1>3, OfferedAre
<1>6. Initially(kind) \in Data(kind) /\ Initially(kind) \in UNION {Data(k) : k \in Kinds}
  BY <1>5, InitialData, FlowKindsAre
<1>7. /\ wizard' \in Wizards /\ wizard'.n = N /\ wizard'.kind = kind /\ wizard'.step = 1
      /\ wizard'.data = Initially(kind) /\ wizard'.busy = FALSE /\ wizard'.secret = 0
  BY <1>0, <1>1, <1>4, <1>5, <1>6, FlowKindsAre DEF Opened, Wizards
<1>8. wizard' # NoWizard
  BY <1>7, WizardIsOne
<1>9. FlowShapes'
  BY <1>2, <1>4, <1>7 DEF FlowInv, FlowShapes
<1>10. WizardFits'
  <2>1. Len(StepsOf(kind)) \in Nat /\ Len(StepsOf(kind)) >= 1
    BY <1>5, StepCounts
  <2>2. 1 \in 1..Len(StepsOf(kind)) /\ 1..(1 - 1) = {} /\ 0 \in 0..Len(made)
    BY <1>3, <2>1
  <2>3. N \in DOMAIN fate'
    BY <1>0, <1>4
  <2> QED
    BY <1>1, <1>2, <1>4, <1>6, <1>7, <2>2, <2>3, SamePlace DEF WizardFits
<1>11. DOMAIN fate \subseteq DOMAIN fate'
  BY <1>0, <1>4
<1>12. CallsFit' /\ DeedsFit'
  BY <1>2, <1>11, SamePlace, CallsStay, DeedsStay DEF FlowInv
<1>13. \A n : Own(n)' = Own(n) /\ MadeBy(n)' = MadeBy(n) /\ Told(n)' = Told(n)
  BY <1>2 DEF Own, MadeBy, Told
<1>14. \A n \in DOMAIN fate : ~Mounted(n) /\ ~Mounted(n)'
  BY <1>2, <1>4, <1>7 DEF Mounted
<1>15. ASSUME NEW n \in DOMAIN fate
       PROVE  CallOwned(n)' /\ DeedOwned(n)' /\ Paid(n)'
  <2>1. CallOwned(n) /\ DeedOwned(n) /\ Paid(n)
    BY OpenedParts
  <2>2. /\ Own(n)' = Own(n) /\ MadeBy(n)' = MadeBy(n) /\ Told(n)' = Told(n)
        /\ ~Mounted(n) /\ ~Mounted(n)' /\ fate'[n] = fate[n] /\ confirmed'[n] = confirmed[n]
    BY <1>4, <1>13, <1>14
  <2>3. (Waits(n)' <=> Waits(n)) /\ (Settled(n)' <=> Settled(n))
    BY <2>2 DEF Waits, Settled
  <2> QED
    BY <1>2, <2>1, <2>2, <2>3 DEF CallOwned, DeedOwned, Paid, Sent
<1>16. Own(N) = {} /\ MadeBy(N) = {}
  <2>1. N \in Nat \ {0} /\ N \notin DOMAIN fate
    BY <1>0, <1>4
  <2>2. Own(N) = {}
    BY <2>1 DEF Own, WizardKinds, FlowInv, CallsFit, CallFits
  <2>3. MadeBy(N) = {}
    BY <2>1, OwnDeed
  <2> QED
    BY <2>2, <2>3
<1>17. CallOwned(N)' /\ DeedOwned(N)' /\ Paid(N)'
  <2>1. Own(N)' = {} /\ MadeBy(N)' = {} /\ Told(N)' = {}
    BY <1>13, <1>16 DEF Told
  <2> QED
    BY <1>4, <2>1, FS_EmptySet DEF CallOwned, DeedOwned, Paid, Sent
<1>18. Owned'
  <2>1. \A n \in DOMAIN fate' : n \in DOMAIN fate \/ n = N
    BY <1>0, <1>4
  <2> QED
    BY <1>15, <1>17, <2>1 DEF Owned
<1>19. GateFits'
  <2>1. \A c \in calls : c.kind = "onboarding" => ~Mounted(c.n) /\ ~Mounted(c.n)'
    BY <1>14 DEF FlowInv, CallsFit, CallFits
  <2>2. gate.completed = "here" => \E n \in DOMAIN fate' : fate'[n] = "welcomed" /\ confirmed'[n] > 0
    BY <1>4, <1>11 DEF FlowInv, GateFits
  <2> QED
    BY <1>2, <2>1, <2>2, SamePlace DEF FlowInv, GateFits
<1>20. ResultsShown'
  <2>1. ASSUME NEW i \in DOMAIN made \ unheard
        PROVE  Waited(i)' \/ (SecretSeen(i)' /\ InList(i)')
    <3>1. Waited(i) => Waited(i)'
      BY <1>2 DEF Waited
    <3>2. made[i].kind \in WizardKinds => fate'[made[i].n] = fate[made[i].n]
      BY <1>4 DEF FlowInv, DeedsFit, DeedFits
    <3>3. ~Mounted(made[i].n)
      BY <1>2 DEF Mounted
    <3>4. MayMiss(i) => MayMiss(i)'
      BY <1>2, <3>2, <3>3 DEF MayMiss, WizardKinds
    <3> QED
      BY <1>2, <3>1, <3>2, <3>4, SamePlace DEF FlowInv, ResultsShown, SecretSeen, InList, NoRead, WizardKinds
  <2> QED
    BY <1>2, <2>1 DEF ResultsShown
<1> QED
  BY <1>9, <1>10, <1>12, <1>18, <1>19, <1>20 DEF FlowInv

-----------------------------------------------------------------------------
(* Calls are made, and served. *)

\* A call that is no wizard's own is added.
LEMMA CallAdded ==
  ASSUME FlowInv, NEW c \in FlowCalls, c.kind \notin WizardKinds, CallFits(c),
         calls' = calls \cup {c},
         UNCHANGED <<page, visit, wizard, made, unheard, displayed, list, read, screen, gate, fate, confirmed>>
  PROVE  FlowInv'
<1>1. FlowShapes' /\ WizardFits' /\ DeedsFit'
  <2>1. DeedsFit'
    BY DeedsStay DEF FlowInv
  <2> QED
    BY <2>1, SamePlace DEF FlowInv, FlowShapes, WizardFits, IsValid
<1>2. CallsFit'
  <2>1. CallFits(c)'
    BY SamePlace, CallStays DEF FlowInv, FlowShapes
  <2>2. \A d \in calls : CallFits(d)'
    BY SamePlace, CallStays DEF FlowInv, CallsFit, FlowShapes
  <2> QED
    BY <2>1, <2>2 DEF CallsFit
<1>3. SameWizard
  BY DEF SameWizard
<1>4. \A n \in DOMAIN fate : Own(n)' = Own(n)
  BY DEF Own
<1>5. Owned' /\ GateFits'
  <2>1. Owned'
    BY <1>3, <1>4, OwnedStays DEF FlowInv
  <2>2. \A d \in calls' : d.kind = "onboarding" => d \in calls
    BY DEF WizardKinds
  <2>3. GateFits'
    BY <1>3, <2>2, MountedStays, ConfirmedStays, GateStays
  <2> QED
    BY <2>1, <2>3
<1>6. ResultsShown'
  <2>1. \A i : Waited(i) => Waited(i)'
    BY DEF Waited
  <2> QED
    BY <1>3, <2>1, MountedStays, ShownStays DEF FlowInv
<1> QED
  BY <1>1, <1>2, <1>5, <1>6 DEF FlowInv

LEMMA AddCredentialKeeps ==
  ASSUME FlowInv, AddCredential
  PROVE  FlowInv'
<1>1. PICK c : c = Call("credential", wizard.n, wizard.data)
  OBVIOUS
<1>2. /\ wizard # NoWizard /\ "credential" \in StepsOf(wizard.kind)[wizard.step]
      /\ calls' = calls \cup {c}
      /\ UNCHANGED <<page, visit, wizard, made, unheard, displayed, list, read, screen, gate, fate, confirmed>>
  BY <1>1 DEF AddCredential, Filling, place, server, shows
<1>3. /\ wizard.kind \in WizardKinds /\ wizard.n \in DOMAIN fate /\ wizard.n \in Nat
      /\ wizard.data \in Data(wizard.kind) /\ wizard.step \in 1..Len(StepsOf(wizard.kind))
      /\ visit \in Nat
  BY <1>2, WizardParts DEF FlowInv, FlowShapes
<1>5. /\ c.kind = "credential" /\ c.n = wizard.n /\ c.data = wizard.data /\ c.at = "sent" /\ c.made = 0
      /\ c.visit = visit
  BY <1>1 DEF Call
<1>6. c \in FlowCalls
  <2>1. wizard.data \in SomeData
    BY <1>3, FlowKindsAre DEF SomeData
  <2> QED
    BY <1>1, <1>3, <2>1 DEF Call, FlowCalls, CallKinds
<1>7. c.kind \notin WizardKinds
  BY <1>5 DEF WizardKinds
<1>8. CallFits(c)
  BY <1>3, <1>5, <1>7 DEF CallFits
<1> QED
  BY <1>2, <1>6, <1>7, <1>8, CallAdded

LEMMA ChangeRowKeeps ==
  ASSUME FlowInv, ChangeRow
  PROVE  FlowInv'
<1>1. PICK c : c = Call("row", 0, << >>)
  OBVIOUS
<1>2. /\ calls' = calls \cup {c}
      /\ UNCHANGED <<page, visit, wizard, made, unheard, displayed, list, read, screen, gate, fate, confirmed>>
  BY <1>1 DEF ChangeRow, place, server, shows
<1>3. /\ c.kind = "row" /\ c.n = 0 /\ c.at = "sent" /\ c.made = 0 /\ c.visit = visit /\ visit \in Nat
  BY <1>1 DEF Call, FlowInv, FlowShapes
<1>4. c \in FlowCalls
  <2>1. << >> \in SomeData
    BY DEF SomeData
  <2> QED
    BY <1>1, <1>3, <2>1 DEF Call, FlowCalls, CallKinds
<1>5. c.kind \notin WizardKinds /\ CallFits(c)
  BY <1>3 DEF CallFits, WizardKinds
<1> QED
  BY <1>2, <1>4, <1>5, CallAdded

LEMMA SubmitKeeps ==
  ASSUME FlowInv, Submit
  PROVE  FlowInv'
<1>0. PICK N, c : N = wizard.n /\ c = Call(wizard.kind, wizard.n, wizard.data)
  OBVIOUS
<1>1. /\ wizard # NoWizard /\ wizard.secret = 0 /\ ~wizard.busy
      /\ wizard.step = Len(StepsOf(wizard.kind)) /\ IsValid(wizard.kind, wizard.step, wizard.data)
      /\ wizard' = [wizard EXCEPT !.busy = TRUE]
      /\ confirmed' = [confirmed EXCEPT ![N] = confirmed[N] + 1]
      /\ calls' = calls \cup {c}
      /\ UNCHANGED <<page, visit, made, unheard, displayed, list, read, screen, gate, fate>>
  BY <1>0 DEF Submit, Filling, IsLastStep, CanGoNext, Confirm, place, server, shows
<1>2. /\ wizard \in Wizards /\ wizard.kind \in WizardKinds /\ page \in Pages
      /\ wizard.data \in Data(wizard.kind) /\ N \in DOMAIN fate /\ N \in Nat
      /\ wizard.step \in 1..Len(StepsOf(wizard.kind)) /\ wizard.kind \in Offered
      /\ fate[N] = "open" /\ wizard.secret \in 0..Len(made) /\ visit \in Nat
  BY <1>0, <1>1, WizardParts DEF FlowInv, WizardFits, FlowShapes
<1>3. /\ wizard' \in Wizards /\ wizard'.n = N /\ wizard'.kind = wizard.kind
      /\ wizard'.step = wizard.step /\ wizard'.data = wizard.data
      /\ wizard'.secret = 0 /\ wizard'.busy = TRUE
  BY <1>0, <1>1, <1>2 DEF Wizards
<1>4. wizard' # NoWizard
  BY <1>3, WizardIsOne
<1>5. /\ c.kind = wizard.kind /\ c.n = N /\ c.data = wizard.data /\ c.at = "sent" /\ c.made = 0
      /\ c.visit = visit
  BY <1>0 DEF Call
<1>6. c \in FlowCalls
  <2>1. wizard.data \in SomeData
    BY <1>2, FlowKindsAre DEF SomeData
  <2> QED
    BY <1>0, <1>2, <2>1 DEF Call, FlowCalls, CallKinds
<1>7. Complete(wizard.kind, wizard.data)
  <2>1. \A i \in 1..(wizard.step - 1) : IsValid(wizard.kind, i, wizard.data)
    BY <1>1 DEF FlowInv, WizardFits
  <2>2. \A i \in 1..Len(StepsOf(wizard.kind)) : i \in 1..(wizard.step - 1) \/ i = wizard.step
    BY <1>1, <1>2
  <2> QED
    BY <1>1, <2>1, <2>2, ValidStepsComplete
<1>8. CallFits(c)
  <2>1. wizard.kind # "onboarding" => ~GateShown /\ wizard.kind \in KindsOf(page)
    BY <1>2, OfferedAre
  <2> QED
    BY <1>2, <1>5, <1>7, <2>1 DEF CallFits, WizardKinds
<1>9. /\ confirmed' \in Seq(Nat) /\ Len(confirmed') = Len(confirmed)
      /\ confirmed'[N] = confirmed[N] + 1 /\ confirmed[N] \in Nat
      /\ \A n \in DOMAIN fate : n # N => confirmed'[n] = confirmed[n]
  <2>1. confirmed \in Seq(Nat) /\ N \in DOMAIN confirmed /\ confirmed[N] \in Nat
    BY <1>2, OpenedParts DEF FlowInv, FlowShapes
  <2> QED
    BY <1>1, <2>1
<1>10. FlowShapes'
  BY <1>1, <1>3, <1>6, <1>9 DEF FlowInv, FlowShapes
<1>11. WizardFits'
  BY <1>0, <1>1, <1>2, <1>3, SamePlace DEF FlowInv, WizardFits, IsValid
<1>12. CallsFit' /\ DeedsFit'
  <2>1. CallFits(c)'
    BY <1>1, <1>2, <1>6, <1>8, SamePlace, CallStays
  <2>2. \A d \in calls : CallFits(d)'
    BY <1>1, <1>2, SamePlace, CallStays DEF FlowInv, CallsFit, FlowShapes
  <2>3. DeedsFit'
    BY <1>1, DeedsStay DEF FlowInv
  <2> QED
    BY <1>1, <2>1, <2>2, <2>3 DEF CallsFit
<1>13. CallOwned(N) /\ DeedOwned(N) /\ Paid(N)
  BY <1>2, OpenedParts
<1>14. Mounted(N) /\ Mounted(N)' /\ \A n \in DOMAIN fate : n # N => ~Mounted(n) /\ ~Mounted(n)'
  BY <1>0, <1>1, <1>3, <1>4 DEF Mounted
<1>15. Own(N) = {} /\ Told(N) = {}
  <2>1. ~Waits(N) /\ ~Settled(N)
    BY <1>1, <1>2 DEF Waits, Settled
  <2> QED
    BY <1>13, <2>1 DEF CallOwned, DeedOwned
<1>16. \A n : MadeBy(n)' = MadeBy(n) /\ Told(n)' = Told(n)
  BY <1>1 DEF MadeBy, Told
<1>17. CallOwned(N)' /\ DeedOwned(N)' /\ Paid(N)'
  <2>1. Own(N)' = {c}
    BY <1>1, <1>2, <1>5, <1>15 DEF Own
  <2>2. Waits(N)'
    BY <1>3, <1>14 DEF Waits
  <2>3. Sent(N)' /\ ~Sent(N)
    BY <1>5, <1>15, <2>1 DEF Sent
  <2>4. Paid(N)'
    BY <1>9, <1>13, <1>16, <2>3, DeedsFinite DEF Paid
  <2> QED
    BY <1>1, <1>2, <1>15, <1>16, <2>1, <2>2, <2>4 DEF CallOwned, DeedOwned
<1>18. ASSUME NEW n \in DOMAIN fate, n # N
       PROVE  Own(n)' = Own(n) /\ CallOwned(n)' /\ DeedOwned(n)' /\ Paid(n)'
  <2>1. CallOwned(n) /\ DeedOwned(n) /\ Paid(n)
    BY OpenedParts
  <2>2. Own(n)' = Own(n)
    BY <1>1, <1>5, <1>18 DEF Own
  <2>3. ~Mounted(n) /\ ~Mounted(n)' /\ confirmed'[n] = confirmed[n]
    BY <1>9, <1>14, <1>18
  <2>4. (Waits(n)' <=> Waits(n)) /\ (Settled(n)' <=> Settled(n))
    BY <1>1, <2>2, <2>3 DEF Waits, Settled
  <2> QED
    BY <1>1, <1>16, <2>1, <2>2, <2>3, <2>4 DEF CallOwned, DeedOwned, Paid, Sent
<1>19. Owned'
  BY <1>1, <1>17, <1>18 DEF Owned
<1>20. GateFits'
  <2>1. gate.completed = "here" => \E n \in DOMAIN fate : fate[n] = "welcomed" /\ confirmed'[n] > 0
    BY <1>2, <1>9 DEF FlowInv, GateFits
  <2>2. \A d \in calls : d.kind = "onboarding" => (Mounted(d.n)' <=> GateShown)
    <3>1. \A d \in calls : d.kind = "onboarding" => d.n \in DOMAIN fate
      BY DEF FlowInv, CallsFit, CallFits
    <3>2. \A n \in DOMAIN fate : Mounted(n)' <=> Mounted(n)
      BY <1>14
    <3> QED
      BY <3>1, <3>2 DEF FlowInv, GateFits
  <2>3. c.kind = "onboarding" => Mounted(c.n)' /\ GateShown
    <3>1. Mounted(c.n)'
      BY <1>0, <1>3, <1>4, <1>5 DEF Mounted
    <3> QED
      BY <1>2, <1>5, <3>1, OfferedAre
  <2> QED
    BY <1>1, <2>1, <2>2, <2>3, SamePlace DEF GateFits
<1>21. ResultsShown'
  <2>1. \A i : Waited(i) => Waited(i)'
    BY <1>1 DEF Waited
  <2>2. \A n : Mounted(n) => Mounted(n)'
    BY <1>0, <1>3, <1>4 DEF Mounted
  <2> QED
    BY <1>1, <2>1, <2>2, ShownStays DEF FlowInv
<1> QED
  BY <1>10, <1>11, <1>12, <1>19, <1>20, <1>21 DEF FlowInv

LEMMA ServeKeeps ==
  ASSUME FlowInv, NEW c \in calls, Serve(c)
  PROVE  FlowInv'
<1>1. /\ c.at = "sent" /\ c \in FlowCalls /\ CallFits(c) /\ c.made = 0
      /\ UNCHANGED <<page, visit, wizard, unheard, displayed, list, read, screen, gate, fate, confirmed>>
  BY DEF Serve, FlowInv, FlowShapes, CallsFit, CallFits, place, shows
<1>2. made \in Seq(Deeds) /\ Len(made) \in Nat /\ DOMAIN made = 1..Len(made)
  BY DEF FlowInv, FlowShapes
<1>3. \A n : Mounted(n)' <=> Mounted(n)
  BY <1>1 DEF Mounted
\* The two outcomes have the call changed, and perhaps one deed more.
<1>4. PICK d :
        /\ calls' = (calls \ {c}) \cup {d}
        /\ d \in FlowCalls /\ d.kind = c.kind /\ d.n = c.n /\ d.data = c.data /\ d.visit = c.visit
        /\ \/ d.at = "refused" /\ d.made = 0 /\ made' = made
           \/ /\ d.at = "done" /\ d.made = Len(made) + 1
              /\ made' = Append(made, [kind |-> c.kind, n |-> c.n, data |-> c.data])
  <2>1. CASE Accepts(c)
    <3>0. PICK k : k = Len(made) + 1
      OBVIOUS
    <3>1. PICK d : d = [c EXCEPT !.at = "done", !.made = k]
      OBVIOUS
    <3>2. d \in FlowCalls /\ d.kind = c.kind /\ d.n = c.n /\ d.data = c.data /\ d.visit = c.visit
          /\ d.at = "done" /\ d.made = k
      <4>1. k \in Nat
        BY <1>2, <3>0
      <4> QED
        BY <1>1, <3>1, <4>1 DEF FlowCalls
    <3> QED
      BY <2>1, <3>0, <3>1, <3>2 DEF Serve
  <2>2. CASE ~Accepts(c)
    <3>1. PICK d : d = [c EXCEPT !.at = "refused"]
      OBVIOUS
    <3>2. d \in FlowCalls /\ d.kind = c.kind /\ d.n = c.n /\ d.data = c.data /\ d.visit = c.visit
          /\ d.at = "refused" /\ d.made = 0
      BY <1>1, <3>1 DEF FlowCalls
    <3> QED
      BY <2>2, <3>1, <3>2 DEF Serve
  <2> QED
    BY <2>1, <2>2
<1>5. PICK L : L = Len(made) + 1
  OBVIOUS
<1>6. /\ made' \in Seq(Deeds) /\ DOMAIN made \subseteq DOMAIN made' /\ Len(made') >= Len(made) /\ Len(made') \in Nat
      /\ \A i \in DOMAIN made : made'[i] = made[i]
      /\ d.at = "done" =>
           /\ DOMAIN made' = DOMAIN made \cup {L} /\ L \notin DOMAIN made /\ L # 0
           /\ made'[L].kind = c.kind /\ made'[L].n = c.n /\ made'[L].data = c.data
      /\ d.at # "done" => made' = made
  <2>1. CASE d.at = "refused" /\ made' = made
    BY <1>2, <2>1
  <2>2. CASE d.at = "done" /\ made' = Append(made, [kind |-> c.kind, n |-> c.n, data |-> c.data])
    <3>1. [kind |-> c.kind, n |-> c.n, data |-> c.data] \in Deeds
      BY <1>1 DEF FlowCalls, Deeds
    <3>2. made' \in Seq(Deeds) /\ Len(made') = L /\ L \in Nat
      BY <1>2, <1>5, <2>2, <3>1
    <3>3. DOMAIN made' = DOMAIN made \cup {L} /\ L \notin DOMAIN made /\ L # 0
      BY <1>2, <1>5, <3>2
    <3>4. (\A i \in DOMAIN made : made'[i] = made[i]) /\ made'[L] = [kind |-> c.kind, n |-> c.n, data |-> c.data]
      BY <1>2, <1>5, <2>2
    <3> QED
      BY <1>2, <1>5, <2>2, <3>2, <3>3, <3>4
  <2> QED
    BY <1>4, <2>1, <2>2
<1>7. FlowShapes'
  <2>1. calls' \subseteq FlowCalls
    BY <1>4 DEF FlowInv, FlowShapes
  <2>2. unheard \subseteq DOMAIN made' /\ displayed \subseteq DOMAIN made'
    BY <1>6 DEF FlowInv, FlowShapes
  <2>3. /\ list \in 0..Len(made') /\ screen \in 0..Len(made')
        /\ read \in {NoRead, ReadAsked} \cup [at : {"back"}, upto : 0..Len(made')]
    <3>1. 0..Len(made) \subseteq 0..Len(made')
      BY <1>2, <1>6
    <3>2. [at : {"back"}, upto : 0..Len(made)] \subseteq [at : {"back"}, upto : 0..Len(made')]
      BY <3>1
    <3> QED
      BY <3>1, <3>2 DEF FlowInv, FlowShapes
  <2>4. page \in Pages /\ visit \in Nat /\ wizard \in Wizards \cup {NoWizard} /\ gate \in Gates
        /\ fate \in Seq(Fates) /\ confirmed \in Seq(Nat) /\ Len(confirmed) = Len(fate)
    BY DEF FlowInv, FlowShapes
  <2> QED
    BY <1>1, <1>6, <2>1, <2>2, <2>3, <2>4 DEF FlowShapes, NoRead, ReadAsked
<1>8. WizardFits'
  <2>1. 0..Len(made) \subseteq 0..Len(made')
    BY <1>2, <1>6
  <2> QED
    BY <1>1, <2>1, SamePlace DEF FlowInv, WizardFits, IsValid
<1>9. CallsFit'
  <2>1. \A e \in calls : CallFits(e)'
    BY <1>1, <1>6, SamePlace, CallStays DEF FlowInv, CallsFit, FlowShapes
  <2>2. CallFits(d)'
    <3>1. c.kind \in WizardKinds \ {"onboarding"} /\ c.visit = visit' => ~(GateShown') /\ c.kind \in KindsOf(page')
      BY <1>1, SamePlace DEF CallFits
    <3>2. c.visit <= visit'
      BY <1>1 DEF CallFits
    <3>3. /\ c.kind = "row" => c.n = 0
          /\ c.kind # "row" => c.n \in DOMAIN fate'
          /\ c.kind \in WizardKinds => c.data \in Data(c.kind) /\ Complete(c.kind, c.data)
      BY <1>1 DEF CallFits
    <3> QED
      BY <1>4, <1>5, <1>6, <3>1, <3>2, <3>3 DEF CallFits, Complete
  <2> QED
    BY <1>4, <2>1, <2>2 DEF CallsFit
<1>10. DeedsFit'
  <2>1. \A i \in DOMAIN made : DeedFits(made[i])'
    BY <1>1, <1>6 DEF FlowInv, DeedsFit, DeedFits, Complete
  <2>2. d.at = "done" => DeedFits(made[L])'
    <3>1. HAVE d.at = "done"
    <3>2. made'[L].kind = c.kind /\ made'[L].n = c.n /\ made'[L].data = c.data
      BY <1>6, <3>1
    <3>3. c.kind \in WizardKinds => c.n \in DOMAIN fate /\ Complete(c.kind, c.data)
      BY <1>1 DEF CallFits, WizardKinds
    <3>4. c.kind = "row" => c.n = 0
      BY <1>1 DEF CallFits
    <3> QED
      BY <1>1, <3>2, <3>3, <3>4 DEF DeedFits, Complete
  <2>3. \A i \in DOMAIN made' : DeedFits(made[i])'
    BY <1>6, <2>1, <2>2
  <2> QED
    BY <2>3 DEF DeedsFit
<1>11. ASSUME NEW n \in DOMAIN fate
       PROVE  /\ Own(n) = {} <=> Own(n)' = {}
              /\ CallOwned(n)' /\ DeedOwned(n)' /\ Paid(n)'
  <2>1. CallOwned(n) /\ DeedOwned(n) /\ Paid(n) /\ n \in Nat \ {0}
    BY OpenedParts
  <2>2. Waits(n)' <=> Waits(n)
    BY <1>1, <1>3 DEF Waits
  <2>3. CASE c \in Own(n)
    <3>1. Own(n) = {c} /\ Own(n)' = {d} /\ c.n = n /\ c.kind \in WizardKinds
      BY <1>4, <2>1, <2>3 DEF CallOwned, Own
    <3>2. Told(n) = {}
      <4>1. ASSUME NEW i \in Told(n)
            PROVE  FALSE
        <5>1. \E e \in Own(n) : e.made = i
          BY <2>1, <3>1 DEF DeedOwned, Settled
        <5>2. i = 0
          BY <1>1, <3>1, <5>1
        <5> QED
          BY <1>2, <4>1, <5>2 DEF Told, MadeBy
      <4> QED
        BY <4>1
    <3>3. CASE d.at = "done"
      <4>1. MadeBy(n)' = MadeBy(n) \cup {L}
        BY <1>6, <3>1, <3>3 DEF MadeBy, WizardKinds
      <4>2. L \notin MadeBy(n) /\ L \notin unheard
        BY <1>6, <3>3 DEF MadeBy, FlowInv, FlowShapes
      <4>3. Told(n)' = {L}
        BY <1>1, <3>2, <4>1, <4>2 DEF Told
      <4>4. DeedOwned(n)'
        BY <1>4, <1>5, <3>1, <3>3, <4>1, <4>3 DEF DeedOwned
      <4>5. Cardinality(MadeBy(n)') = Cardinality(MadeBy(n)) + 1
        BY <4>1, <4>2, DeedsFinite, FS_AddElement
      <4>6. Sent(n) /\ ~Sent(n)'
        BY <1>1, <3>1, <3>3 DEF Sent
      <4>7. Paid(n)'
        BY <1>1, <2>1, <4>5, <4>6, DeedsFinite DEF Paid
      <4> QED
        BY <2>1, <2>2, <3>1, <4>4, <4>7 DEF CallOwned
    <3>4. CASE d.at # "done"
      <4>1. MadeBy(n)' = MadeBy(n) /\ Told(n)' = {}
        BY <1>1, <1>6, <3>2, <3>4 DEF MadeBy, Told
      <4>2. Paid(n)'
        <5>1. Sent(n) /\ ~Sent(n)'
          BY <1>1, <1>4, <3>1, <3>4 DEF Sent
        <5> QED
          BY <1>1, <2>1, <4>1, <5>1, DeedsFinite, OpenedParts DEF Paid
      <4> QED
        BY <1>1, <2>1, <2>2, <3>1, <4>1, <4>2 DEF CallOwned, DeedOwned
    <3> QED
      BY <3>3, <3>4
  <2>4. CASE c \notin Own(n)
    <3>1. Own(n)' = Own(n)
      BY <1>4, <2>4 DEF Own
    <3>2. MadeBy(n)' = MadeBy(n)
      <4>1. d.at = "done" => made'[L].n # n \/ made'[L].kind = "credential"
        BY <1>1, <1>6, <2>1, <2>4 DEF Own, CallFits, FlowCalls, CallKinds
      <4> QED
        BY <1>6, <4>1 DEF MadeBy
    <3>3. Told(n)' = Told(n)
      BY <1>1, <3>2 DEF Told
    <3>4. Settled(n)' <=> Settled(n)
      BY <1>1, <1>3, <3>1 DEF Settled
    <3> QED
      BY <1>1, <2>1, <2>2, <3>1, <3>2, <3>3, <3>4 DEF CallOwned, DeedOwned, Paid, Sent
  <2> QED
    BY <2>3, <2>4
<1>12. Owned'
  BY <1>1, <1>11 DEF Owned
<1>13. GateFits'
  <2>1. \A e \in calls' : \E f \in calls : f.kind = e.kind /\ f.n = e.n
    BY <1>4
  <2> QED
    BY <1>1, <1>3, <2>1, ConfirmedStays, GateStays
<1>14. ResultsShown'
  <2>1. ASSUME NEW i \in DOMAIN made \ unheard
        PROVE  Waited(i)' \/ (SecretSeen(i)' /\ InList(i)')
    <3>1. i # 0 /\ made'[i] = made[i]
      BY <1>2, <1>6
    <3>2. Waited(i) => Waited(i)'
      BY <1>1, <1>4, <3>1 DEF Waited
    <3>3. MayMiss(i) => MayMiss(i)'
      BY <1>1, <1>3, <3>1 DEF MayMiss
    <3> QED
      BY <1>1, <3>1, <3>2, <3>3, SamePlace DEF FlowInv, ResultsShown, SecretSeen, InList, NoRead
  <2>2. d.at = "done" => Waited(L)'
    BY <1>4, <1>5 DEF Waited
  <2>3. \A i \in DOMAIN made' \ unheard' : i \in DOMAIN made \ unheard \/ (d.at = "done" /\ i = L)
    BY <1>1, <1>6
  <2> QED
    BY <2>1, <2>2, <2>3 DEF ResultsShown
<1> QED
  BY <1>7, <1>8, <1>9, <1>10, <1>12, <1>13, <1>14 DEF FlowInv

-----------------------------------------------------------------------------
(* What one wizard owns, over a step. *)

\* A wizard the step does not concern.
LEMMA UntouchedOwned ==
  ASSUME NEW n, CallOwned(n), DeedOwned(n), Paid(n),
         Own(n)' = Own(n), MadeBy(n)' = MadeBy(n), Told(n)' = Told(n),
         confirmed'[n] = confirmed[n], fate'[n] = fate[n],
         Mounted(n)' <=> Mounted(n),
         Mounted(n) => wizard'.secret = wizard.secret /\ wizard'.busy = wizard.busy
  PROVE  CallOwned(n)' /\ DeedOwned(n)' /\ Paid(n)'
<1>1. Waits(n)' <=> Waits(n)
  BY DEF Waits
<1>2. Settled(n)' <=> Settled(n)
  BY DEF Settled
<1> QED
  BY <1>1, <1>2 DEF CallOwned, DeedOwned, Paid, Sent

\* A wizard that is unmounted.
LEMMA LeftOwned ==
  ASSUME FlowInv, NEW n \in DOMAIN fate, Mounted(n), ~Mounted(n)',
         Own(n)' = Own(n), MadeBy(n)' = MadeBy(n), Told(n)' = Told(n),
         confirmed'[n] = confirmed[n], fate'[n] = FateOf(wizard)
  PROVE  CallOwned(n)' /\ DeedOwned(n)' /\ Paid(n)'
<1>1. CallOwned(n) /\ DeedOwned(n) /\ Paid(n)
  BY OpenedParts
<1>2. wizard # NoWizard /\ wizard.n = n
  BY DEF Mounted
<1>3. /\ wizard.secret = 0 => fate[n] = "open"
      /\ wizard.secret # 0 => fate[n] = "done" /\ ~wizard.busy
  BY <1>2 DEF FlowInv, WizardFits
<1>4. Own(n) # {} => wizard.busy
  BY <1>1, <1>3 DEF CallOwned, Waits
<1>5. CallOwned(n)'
  BY <1>1, <1>4 DEF CallOwned, Waits, FateOf
<1>6. Settled(n) => Settled(n)'
  BY <1>2, <1>3 DEF Settled, FateOf
<1>7. fate'[n] # "done"
  BY DEF FateOf
<1> QED
  BY <1>1, <1>5, <1>6, <1>7 DEF DeedOwned, Paid, Sent

\* What was paid for stays so when nothing is done and nothing sent.
LEMMA PaidStays ==
  ASSUME FlowInv, NEW n \in DOMAIN fate, ~Sent(n)',
         MadeBy(n)' = MadeBy(n), confirmed' = confirmed
  PROVE  Paid(n)'
<1>1. Paid(n) /\ confirmed[n] \in Nat
  BY OpenedParts
<1>2. Cardinality(MadeBy(n)) \in Nat
  BY DeedsFinite
<1> QED
  BY <1>1, <1>2 DEF Paid

LEMMA PaidIsPositive ==
  ASSUME FlowInv, NEW n \in DOMAIN fate, MadeBy(n) # {}
  PROVE  confirmed[n] > 0
<1>1. Paid(n) /\ confirmed[n] \in Nat
  BY OpenedParts
<1>2. IsFiniteSet(MadeBy(n)) /\ Cardinality(MadeBy(n)) \in Nat
  BY DeedsFinite
<1>3. Cardinality(MadeBy(n)) # 0
  BY <1>2, FS_EmptySet
<1> QED
  BY <1>1, <1>2, <1>3 DEF Paid

\* A wizard whose own call is answered.
LEMMA AnsweredOwned ==
  ASSUME FlowInv, NEW c \in calls, c.at = "done", c.kind \in WizardKinds, calls' = calls \ {c},
         made' = made, unheard' = unheard, confirmed' = confirmed,
         fate'[c.n] \in {"done", "welcomed", "left busy"}, Mounted(c.n)' => wizard'.secret # 0
  PROVE  /\ CallOwned(c.n)' /\ DeedOwned(c.n)' /\ Paid(c.n)'
         /\ confirmed[c.n] > 0
<1>0. PICK n : n = c.n
  OBVIOUS
<1>1. CallFits(c) /\ n \in DOMAIN fate
  BY <1>0 DEF FlowInv, CallsFit, CallFits, WizardKinds
<1>2. CallOwned(n) /\ DeedOwned(n) /\ Paid(n) /\ confirmed[n] \in Nat
  BY <1>1, OpenedParts
<1>3. Own(n) = {c} /\ Own(n)' = {}
  <2>1. c \in Own(n)
    BY <1>0 DEF Own
  <2>2. Own(n) = {c}
    BY <1>2, <2>1 DEF CallOwned
  <2>3. Own(n)' = Own(n) \ {c}
    BY DEF Own
  <2> QED
    BY <2>2, <2>3
<1>4. c.made \in MadeBy(n) /\ MadeBy(n)' = MadeBy(n) /\ Told(n)' = Told(n)
  BY <1>0, <1>1 DEF CallFits, MadeBy, Told, WizardKinds
<1>5. Settled(n)'
  BY <1>0, <1>3 DEF Settled
<1>6. CallOwned(n)' /\ DeedOwned(n)'
  BY <1>2, <1>3, <1>4, <1>5 DEF CallOwned, DeedOwned
<1>7. ~Sent(n) /\ ~Sent(n)'
  BY <1>3 DEF Sent
<1>8. Paid(n)'
  BY <1>1, <1>4, <1>7, PaidStays
<1>9. confirmed[n] > 0
  BY <1>1, <1>4, PaidIsPositive
<1> QED
  BY <1>0, <1>6, <1>8, <1>9

\* While a wizard's call is under way, that is all it asked for and got.
LEMMA OnlyDeed ==
  ASSUME FlowInv, NEW c \in calls, c.kind \in WizardKinds,
         NEW i \in DOMAIN made \ unheard, made[i].n = c.n, made[i].kind \in WizardKinds
  PROVE  i = c.made
<1>0. PICK n : n = c.n
  OBVIOUS
<1>1. n \in DOMAIN fate /\ c \in Own(n)
  BY <1>0 DEF FlowInv, CallsFit, CallFits, WizardKinds, Own
<1>2. i \in Told(n)
  BY <1>0 DEF Told, MadeBy, WizardKinds
<1>3. CallOwned(n) /\ DeedOwned(n)
  BY <1>1, OpenedParts
<1> QED
  BY <1>1, <1>2, <1>3 DEF CallOwned, DeedOwned, Settled

\* A wizard that waits is open, or was left waiting.
LEMMA WaitingFate ==
  ASSUME FlowInv, NEW c \in calls, c.kind \in WizardKinds
  PROVE  /\ c.n \in DOMAIN fate
         /\ Mounted(c.n) => fate[c.n] = "open" /\ wizard.secret = 0
         /\ ~Mounted(c.n) => fate[c.n] = "left busy"
<1>0. PICK n : n = c.n
  OBVIOUS
<1>1. n \in DOMAIN fate /\ c \in Own(n)
  BY <1>0 DEF FlowInv, CallsFit, CallFits, WizardKinds, Own
<1>2. Waits(n)
  BY <1>1, OpenedParts DEF CallOwned
<1>3. Mounted(n) => fate[n] \in {"open", "done"} /\ (wizard.secret = 0 => fate[n] = "open")
  BY DEF Mounted, FlowInv, WizardFits
<1> QED
  BY <1>0, <1>1, <1>2, <1>3 DEF Waits

\* The first-run flow that was welcomed is not mounted any more.
LEMMA WelcomedIsGone ==
  ASSUME FlowInv, NEW n, fate[n] = "welcomed"
  PROVE  ~Mounted(n)
BY DEF Mounted, FlowInv, WizardFits

-----------------------------------------------------------------------------
(* A wizard is left, or told that it is done. *)

LEMMA FatesAre ==
  ASSUME NEW w
  PROVE  FateOf(w) \in Fates /\ FateOf(w) \in {"left busy", "unread", "left"}
BY DEF FateOf, Fates

LEMMA LeftFates ==
  ASSUME FlowInv, NEW left, left = FatesLeft
  PROVE  /\ left \in Seq(Fates) /\ DOMAIN left = DOMAIN fate /\ Len(left) = Len(fate)
         /\ \A n \in DOMAIN fate : left[n] = IF Mounted(n) THEN FateOf(wizard) ELSE fate[n]
<1>1. fate \in Seq(Fates)
  BY DEF FlowInv, FlowShapes
<1>2. CASE wizard = NoWizard
  BY <1>1, <1>2 DEF FatesLeft, Mounted
<1>3. CASE wizard # NoWizard
  <2>1. FateOf(wizard) \in Fates
    BY FatesAre
  <2>2. wizard.n \in DOMAIN fate
    BY <1>3, WizardParts
  <2>3. left = [fate EXCEPT ![wizard.n] = FateOf(wizard)]
    BY <1>3 DEF FatesLeft
  <2> QED
    BY <1>1, <1>3, <2>1, <2>2, <2>3 DEF Mounted
<1> QED
  BY <1>2, <1>3

\* The results, when the list is read again after the step.
LEMMA ReadAgainShows ==
  ASSUME ResultsShown, read' = ReadAsked, made' = made, unheard' = unheard,
         \A i \in DOMAIN made \ unheard : Waited(i) => Waited(i)' \/ SecretSeen(i)',
         \A i \in DOMAIN made \ unheard : SecretSeen(i) => SecretSeen(i)'
  PROVE  ResultsShown'
<1>1. \A i : InList(i)'
  BY DEF InList, ReadAsked, NoRead
<1> QED
  BY <1>1 DEF ResultsShown

\* An answered device is due to its list as long as its wizard was not told
\* that it is done; and what its wizard's end left of it was on the screen.
LEMMA StillDue ==
  ASSUME FlowInv, NEW i \in DOMAIN made \ unheard, NEW n, n = made[i].n, ~Waited(i),
         made' = made, displayed \subseteq displayed',
         made[i].kind = "device" =>
           ~Mounted(n)' /\ fate'[n] = IF Mounted(n) THEN FateOf(wizard) ELSE fate[n]
  PROVE  /\ SecretSeen(i)'
         /\ screen' = screen \/ made[i].kind # "provider" => (MayMiss(i) => MayMiss(i)')
<1>1. SecretSeen(i)
  BY DEF FlowInv, ResultsShown
<1>2. CASE made[i].kind # "device"
  BY <1>1, <1>2 DEF SecretSeen, MayMiss
<1>3. CASE made[i].kind = "device" /\ ~Mounted(n)
  BY <1>1, <1>3 DEF SecretSeen, MayMiss
<1>4. CASE made[i].kind = "device" /\ Mounted(n)
  <2>1. i \in Told(n) /\ n \in DOMAIN fate
    BY <1>4 DEF Told, MadeBy, FlowInv, DeedsFit, DeedFits, WizardKinds
  <2>2. ~ \E c \in Own(n) : c.made = i
    BY DEF Waited, Own
  <2>3. Settled(n)
    BY <2>1, <2>2, OpenedParts DEF DeedOwned
  <2>4. wizard.secret # 0 /\ fate[n] = "done" /\ ~wizard.busy
    BY <1>4, <2>3 DEF Settled, Mounted, FlowInv, WizardFits
  <2>5. fate'[n] = "unread"
    BY <1>4, <2>4 DEF FateOf
  <2> QED
    BY <1>1, <1>4, <2>4, <2>5 DEF SecretSeen, MayMiss
<1> QED
  BY <1>2, <1>3, <1>4

\* What the list may lack, it may lack after a step that leaves or reads it.
LEMMA ListStays ==
  ASSUME NEW i, InList(i), MayMiss(i) => MayMiss(i)',
         read' = ReadAsked \/ (read' = read /\ list' = list /\ (GateShown => GateShown'))
  PROVE  InList(i)'
BY DEF InList, ReadAsked, NoRead

LEMMA CancelKeeps ==
  ASSUME FlowInv, Cancel
  PROVE  FlowInv'
<1>0. PICK N : N = wizard.n
  OBVIOUS
<1>1. /\ wizard # NoWizard /\ wizard' = NoWizard /\ fate' = FatesLeft
      /\ gate' = [gate EXCEPT !.dismissed = gate.dismissed \/ GateShown]
      /\ read' = IF GateShown THEN ReadAsked ELSE read
      /\ UNCHANGED <<page, visit, calls, made, unheard, displayed, list, screen, confirmed>>
  BY DEF Cancel, place, server
<1>2. gate \in Gates
  BY DEF FlowInv, FlowShapes
<1>3. /\ fate' \in Seq(Fates) /\ DOMAIN fate' = DOMAIN fate /\ Len(fate') = Len(fate)
      /\ \A n \in DOMAIN fate : fate'[n] = IF Mounted(n) THEN FateOf(wizard) ELSE fate[n]
  BY <1>1, LeftFates
<1>4. gate' \in Gates /\ gate'.completed = gate.completed /\ ~(GateShown')
  <2>1. gate'.completed = gate.completed /\ gate'.dismissed = (gate.dismissed \/ GateShown)
    BY <1>1, <1>2 DEF Gates
  <2>2. gate' \in Gates
    BY <1>1, <1>2 DEF Gates, GateShown
  <2> QED
    BY <2>1, <2>2 DEF GateShown
<1>5. FlowShapes'
  BY <1>1, <1>3, <1>4 DEF FlowInv, FlowShapes
<1>6. WizardFits' /\ CallsFit' /\ DeedsFit'
  <2>1. PlaceStays
    BY <1>1, <1>4 DEF PlaceStays
  <2> QED
    BY <1>1, <1>3, <2>1, CallsStay, DeedsStay DEF FlowInv, WizardFits
<1>7. \A n : Own(n)' = Own(n) /\ MadeBy(n)' = MadeBy(n) /\ Told(n)' = Told(n) /\ ~Mounted(n)'
  BY <1>1 DEF Own, MadeBy, Told, Mounted
<1>9. ASSUME NEW n \in DOMAIN fate
      PROVE  CallOwned(n)' /\ DeedOwned(n)' /\ Paid(n)'
  <2>1. CASE Mounted(n)
    BY <1>1, <1>3, <1>7, <2>1, LeftOwned
  <2>2. CASE ~Mounted(n)
    BY <1>1, <1>3, <1>7, <2>2, OpenedParts, UntouchedOwned
  <2> QED
    BY <2>1, <2>2
<1>10. Owned'
  BY <1>3, <1>9 DEF Owned
<1>11. GateFits'
  <2>1. \A n \in DOMAIN fate : fate[n] = "welcomed" => fate'[n] = "welcomed"
    BY <1>3, WelcomedIsGone
  <2> QED
    BY <1>1, <1>3, <1>4, <1>7, <2>1 DEF FlowInv, GateFits
<1>12. ResultsShown'
  <2>1. ASSUME NEW i \in DOMAIN made \ unheard
        PROVE  Waited(i)' \/ (SecretSeen(i)' /\ InList(i)')
    <3>0. PICK n : n = made[i].n
      OBVIOUS
    <3>1. CASE Waited(i)
      BY <1>1, <3>1 DEF Waited
    <3>2. CASE ~Waited(i)
      <4>1. made[i].kind = "device" => n \in DOMAIN fate
        BY <3>0 DEF FlowInv, DeedsFit, DeedFits, WizardKinds
      <4>2. SecretSeen(i)' /\ (MayMiss(i) => MayMiss(i)')
        BY <1>1, <1>3, <1>7, <3>0, <3>2, <4>1, StillDue
      <4>3. InList(i)
        BY <3>2 DEF FlowInv, ResultsShown
      <4> QED
        BY <1>1, <4>2, <4>3, ListStays
    <3> QED
      BY <3>1, <3>2
  <2> QED
    BY <1>1, <2>1 DEF ResultsShown
<1> QED
  BY <1>5, <1>6, <1>10, <1>11, <1>12 DEF FlowInv

LEMMA SavedCredentialKeeps ==
  ASSUME FlowInv, SavedCredential
  PROVE  FlowInv'
<1>0. PICK N : N = wizard.n
  OBVIOUS
<1>1. /\ wizard # NoWizard /\ wizard.secret # 0 /\ wizard' = NoWizard /\ read' = ReadAsked
      /\ UNCHANGED <<page, visit, calls, made, unheard, displayed, list, screen, gate, fate, confirmed>>
  BY DEF SavedCredential, place, server
<1>2. N \in DOMAIN fate /\ fate[N] = "done" /\ ~GateShown
  BY <1>0, <1>1 DEF FlowInv, WizardFits
<1>3. FlowShapes'
  BY <1>1 DEF FlowInv, FlowShapes
<1>4. WizardFits' /\ CallsFit' /\ DeedsFit'
  BY <1>1, SamePlace, CallsStay, DeedsStay DEF FlowInv, WizardFits
<1>5. \A n : Own(n)' = Own(n) /\ MadeBy(n)' = MadeBy(n) /\ Told(n)' = Told(n) /\ ~Mounted(n)'
  BY <1>1 DEF Own, MadeBy, Told, Mounted
<1>6. ASSUME NEW n \in DOMAIN fate
      PROVE  CallOwned(n)' /\ DeedOwned(n)' /\ Paid(n)'
  <2>1. CallOwned(n) /\ DeedOwned(n) /\ Paid(n)
    BY OpenedParts
  <2>2. Waits(n) => Waits(n)'
    BY <1>1 DEF Waits, Mounted
  <2>3. Settled(n) => Settled(n)'
    BY <1>1, <1>5 DEF Settled
  <2> QED
    BY <1>1, <1>5, <2>1, <2>2, <2>3 DEF CallOwned, DeedOwned, Paid, Sent
<1>7. Owned'
  BY <1>1, <1>6 DEF Owned
<1>8. GateFits'
  BY <1>1, <1>2, <1>5, SamePlace DEF FlowInv, GateFits
<1>9. ResultsShown'
  <2>1. \A i : (Waited(i) => Waited(i)') /\ (SecretSeen(i) => SecretSeen(i)')
    BY <1>1 DEF Waited, SecretSeen
  <2> QED
    BY <1>1, <2>1, ReadAgainShows DEF FlowInv
<1> QED
  BY <1>3, <1>4, <1>7, <1>8, <1>9 DEF FlowInv

-----------------------------------------------------------------------------
(* A call of a wizard is answered. *)

\* What closing the page's dialog does to the fates.
LEMMA ClosedFates ==
  ASSUME FlowInv, NEW n \in DOMAIN fate, CloseDialog(n)
  PROVE  /\ wizard' = NoWizard /\ \A m : ~Mounted(m)'
         /\ fate' \in Seq(Fates) /\ DOMAIN fate' = DOMAIN fate /\ Len(fate') = Len(fate)
         /\ fate'[n] = "done"
         /\ \A m \in DOMAIN fate :
              m # n => IF Mounted(m) THEN fate'[m] = FateOf(wizard) ELSE fate'[m] = fate[m]
<1>1. wizard' = NoWizard
  BY DEF CloseDialog
<1>2. fate \in Seq(Fates) /\ Len(fate) \in Nat /\ DOMAIN fate = 1..Len(fate)
  BY DEF FlowInv, FlowShapes
<1>3. fate' = [m \in DOMAIN fate |->
                 CASE m = n -> "done" [] Mounted(m) /\ m # n -> FateOf(wizard) [] OTHER -> fate[m]]
  BY DEF CloseDialog
<1>4. /\ fate'[n] = "done"
      /\ \A m \in DOMAIN fate :
           m # n => IF Mounted(m) THEN fate'[m] = FateOf(wizard) ELSE fate'[m] = fate[m]
  BY <1>3
<1>5. \A m \in DOMAIN fate : fate'[m] \in Fates
  <2>1. FateOf(wizard) \in Fates
    BY FatesAre
  <2>2. "done" \in Fates
    BY DEF Fates
  <2>3. \A m \in DOMAIN fate : fate[m] \in Fates
    BY <1>2
  <2> QED
    BY <1>4, <2>1, <2>2, <2>3
<1>6. fate' = [m \in 1..Len(fate) |-> fate'[m]]
  BY <1>2, <1>3
<1>7. fate' \in Seq(Fates) /\ DOMAIN fate' = DOMAIN fate /\ Len(fate') = Len(fate)
  <2>1. fate' \in [1..Len(fate) -> Fates]
    BY <1>2, <1>5, <1>6
  <2>2. fate' \in Seq(Fates)
    BY <1>2, <2>1
  <2> QED
    BY <1>2, <1>6, <2>2
<1> QED
  BY <1>1, <1>4, <1>7 DEF Mounted

\* A call, and where it was made from.
LEMMA CallPages ==
  ASSUME FlowInv, NEW c \in calls
  PROVE  /\ c \in FlowCalls /\ CallFits(c) /\ page \in Pages
         /\ c.kind \in WizardKinds \ {"onboarding"} /\ c.visit = visit => ~GateShown
         /\ c.kind \in {"attach", "edit", "provider"} /\ c.visit = visit => page \in {"actions", "agents"}
<1>1. c \in FlowCalls /\ CallFits(c) /\ page \in Pages
  BY DEF FlowInv, FlowShapes, CallsFit
<1>2. {"attach", "edit", "provider"} \subseteq WizardKinds \ {"onboarding"}
  BY DEF WizardKinds
<1> QED
  BY <1>1, <1>2, FlowKindsAre DEF CallFits

\* The answer to a call that closes the dialog, but for the results shown.
LEMMA ClosingOwned ==
  ASSUME FlowInv, NEW c \in calls, c.at = "done", c.kind \in {"attach", "edit", "provider"},
         c.visit = visit, CloseDialog(c.n), calls' = calls \ {c},
         page' = page, visit' = visit, gate' = gate,
         made' = made, unheard' = unheard, confirmed' = confirmed
  PROVE  /\ WizardFits' /\ CallsFit' /\ DeedsFit' /\ Owned' /\ GateFits'
         /\ c.n \in DOMAIN fate /\ c.kind \in WizardKinds
<1>0. c.kind \in WizardKinds
  BY DEF WizardKinds
<1>1. c.n \in DOMAIN fate /\ fate[c.n] # "welcomed"
  BY <1>0, WaitingFate
<1>2. /\ wizard' = NoWizard /\ (\A m : ~Mounted(m)') /\ DOMAIN fate' = DOMAIN fate
      /\ fate'[c.n] = "done"
      /\ \A m \in DOMAIN fate :
           m # c.n => IF Mounted(m) THEN fate'[m] = FateOf(wizard) ELSE fate'[m] = fate[m]
  BY <1>1, ClosedFates
<1>3. WizardFits' /\ CallsFit' /\ DeedsFit'
  BY <1>2, SamePlace, CallsStay, DeedsStay DEF FlowInv, WizardFits
<1>4. CallOwned(c.n)' /\ DeedOwned(c.n)' /\ Paid(c.n)'
  BY <1>0, <1>2, AnsweredOwned
<1>5. ASSUME NEW m \in DOMAIN fate, m # c.n
      PROVE  CallOwned(m)' /\ DeedOwned(m)' /\ Paid(m)'
  <2>1. Own(m)' = Own(m) /\ MadeBy(m)' = MadeBy(m) /\ Told(m)' = Told(m) /\ confirmed'[m] = confirmed[m]
    BY <1>5 DEF Own, MadeBy, Told
  <2>2. CASE Mounted(m)
    BY <1>2, <1>5, <2>1, <2>2, LeftOwned
  <2>3. CASE ~Mounted(m)
    BY <1>2, <1>5, <2>1, <2>3, OpenedParts, UntouchedOwned
  <2> QED
    BY <2>2, <2>3
<1>6. Owned'
  <2>1. \A m \in DOMAIN fate : CallOwned(m)' /\ DeedOwned(m)' /\ Paid(m)'
    <3>1. TAKE m \in DOMAIN fate
    <3>2. CASE m = c.n
      <4>1. PICK k : k = c.n
        OBVIOUS
      <4>2. CallOwned(k)' /\ DeedOwned(k)' /\ Paid(k)'
        BY <1>4, <4>1
      <4> QED
        BY <3>2, <4>1, <4>2
    <3> QED
      BY <1>5, <3>2
  <2> QED
    BY <1>2, <2>1 DEF Owned
<1>7. GateFits'
  <2>1. ~GateShown /\ ~(GateShown')
    <3>1. ~GateShown
      BY <1>0, CallPages
    <3> QED
      BY <3>1, SamePlace
  <2>2. \A n \in DOMAIN fate : fate[n] = "welcomed" => fate'[n] = "welcomed"
    BY <1>1, <1>2, WelcomedIsGone
  <2> QED
    BY <1>2, <2>1, <2>2 DEF FlowInv, GateFits
<1> QED
  BY <1>0, <1>1, <1>3, <1>6, <1>7

\* What is shown of another wizard's device when a dialog is closed.
LEMMA ClosedStillDue ==
  ASSUME FlowInv, NEW c \in calls, c.kind \in {"attach", "edit", "provider"}, c.at = "done", CloseDialog(c.n),
         made' = made, displayed \subseteq displayed',
         NEW i \in DOMAIN made \ unheard, ~Waited(i)
  PROVE  /\ SecretSeen(i)'
         /\ screen' = screen \/ made[i].kind # "provider" => (MayMiss(i) => MayMiss(i)')
<1>0. PICK n : n = made[i].n
  OBVIOUS
<1>1. c.kind \in WizardKinds /\ c.n \in DOMAIN fate
  BY WaitingFate DEF WizardKinds
<1>2. (\A m : ~Mounted(m)') /\ \A m \in DOMAIN fate :
        m # c.n => IF Mounted(m) THEN fate'[m] = FateOf(wizard) ELSE fate'[m] = fate[m]
  BY <1>1, ClosedFates
<1>3. made[i].kind = "device" => n \in DOMAIN fate
  BY <1>0 DEF FlowInv, DeedsFit, DeedFits, WizardKinds
<1>4. made[i].kind = "device" => n # c.n
  <2>1. HAVE made[i].kind = "device"
  <2>2. made[i].kind \in WizardKinds
    BY <2>1 DEF WizardKinds
  <2>3. c.made # i
    BY DEF Waited
  <2> QED
    BY <1>0, <1>1, <2>2, <2>3, OnlyDeed
<1>5. made[i].kind = "device" =>
        ~Mounted(n)' /\ fate'[n] = IF Mounted(n) THEN FateOf(wizard) ELSE fate[n]
  BY <1>2, <1>3, <1>4
<1> QED
  BY <1>0, <1>5, StillDue

LEMMA ActionAnswerKeeps ==
  ASSUME FlowInv, NEW c \in calls, c.at = "done", ActionDone(c), calls' = calls \ {c}, c.visit = visit,
         page' = page, visit' = visit, made' = made, unheard' = unheard, confirmed' = confirmed
  PROVE  FlowInv'
<1>1. /\ c.kind \in {"attach", "edit", "provider"} /\ c.kind # "provider" /\ CloseDialog(c.n) /\ read' = ReadAsked
      /\ UNCHANGED <<displayed, list, screen, gate>>
  BY DEF ActionDone
<1>2. WizardFits' /\ CallsFit' /\ DeedsFit' /\ Owned' /\ GateFits' /\ c.n \in DOMAIN fate
  BY <1>1, ClosingOwned
<1>3. FlowShapes'
  BY <1>1, <1>2, ClosedFates DEF FlowInv, FlowShapes
<1>4. ResultsShown'
  <2>1. ASSUME NEW i \in DOMAIN made \ unheard
        PROVE  Waited(i)' \/ (SecretSeen(i)' /\ InList(i)')
    <3>1. InList(i)'
      BY <1>1 DEF InList, ReadAsked, NoRead
    <3>2. CASE ~Waited(i)
      BY <1>1, <3>1, <3>2, ClosedStillDue
    <3>3. CASE i = c.made
      <4>1. made[i].kind = c.kind
        BY <3>3, CallPages DEF CallFits
      <4> QED
        BY <1>1, <3>1, <4>1 DEF SecretSeen
    <3>4. CASE Waited(i) /\ i # c.made
      BY <3>4 DEF Waited
    <3> QED
      BY <3>2, <3>3, <3>4
  <2> QED
    BY <2>1 DEF ResultsShown
<1> QED
  BY <1>2, <1>3, <1>4 DEF FlowInv

LEMMA ProviderAnswerKeeps ==
  ASSUME FlowInv, NEW c \in calls, c.at = "done", ProviderDone(c), calls' = calls \ {c}, c.visit = visit,
         page' = page, visit' = visit, made' = made, unheard' = unheard, confirmed' = confirmed
  PROVE  FlowInv'
<1>1. /\ c.kind = "provider" /\ CloseDialog(c.n) /\ screen' = c.made /\ displayed' = displayed \cup {c.made}
      /\ UNCHANGED <<list, read, gate>>
  BY DEF ProviderDone, place
<1>2. WizardFits' /\ CallsFit' /\ DeedsFit' /\ Owned' /\ GateFits' /\ c.n \in DOMAIN fate
  BY <1>1, ClosingOwned
<1>3. c.made \in DOMAIN made /\ c.made \in 0..Len(made) /\ c.made # 0 /\ made[c.made].kind = "provider"
  BY <1>1, CallPages DEF CallFits, FlowInv, FlowShapes
<1>4. FlowShapes'
  BY <1>1, <1>2, <1>3, ClosedFates DEF FlowInv, FlowShapes
<1>5. ResultsShown'
  <2>1. ASSUME NEW i \in DOMAIN made \ unheard
        PROVE  Waited(i)' \/ (SecretSeen(i)' /\ InList(i)')
    <3>1. CASE i = c.made
      <4>1. SecretSeen(i)' /\ MayMiss(i)'
        BY <1>1, <1>3, <3>1 DEF SecretSeen, MayMiss
      <4> QED
        BY <4>1 DEF InList
    <3>2. CASE Waited(i) /\ i # c.made
      BY <3>2 DEF Waited
    <3>3. CASE ~Waited(i)
      <4>1. SecretSeen(i)'
        BY <1>1, <3>3, ClosedStillDue
      <4>2. MayMiss(i) => MayMiss(i)'
        <5>1. CASE made[i].kind = "provider"
          BY <1>1, <1>3, <5>1 DEF MayMiss
        <5>2. CASE made[i].kind # "provider"
          BY <1>1, <3>3, <5>2, ClosedStillDue
        <5> QED
          BY <5>1, <5>2
      <4>3. InList(i)
        BY <3>3 DEF FlowInv, ResultsShown
      <4> QED
        BY <1>1, <4>1, <4>2, <4>3, SamePlace, ListStays
    <3> QED
      BY <3>1, <3>2, <3>3
  <2> QED
    BY <2>1 DEF ResultsShown
<1> QED
  BY <1>2, <1>4, <1>5 DEF FlowInv

\* Where the first-run flow leads, and what it leaves: the page that is there,
\* or another one on which nothing is open.
LEMMA WelcomeParts ==
  ASSUME FlowInv, NEW N \in DOMAIN fate, NEW data, Welcome(N, data), Mounted(N) => GateShown
  PROVE  /\ gate' \in Gates /\ ~(GateShown')
         /\ page' \in Pages /\ visit' \in Nat /\ PlaceStays
         /\ fate' \in Seq(Fates) /\ DOMAIN fate' = DOMAIN fate /\ Len(fate') = Len(fate)
         /\ fate'[N] = "welcomed" /\ ~Mounted(N)'
         /\ \A n \in DOMAIN fate : n # N =>
              \/ Mounted(n) /\ ~Mounted(n)' /\ fate'[n] = FateOf(wizard)
              \/ fate'[n] = fate[n] /\ wizard' = wizard
              \/ fate'[n] = fate[n] /\ ~Mounted(n) /\ ~Mounted(n)'
         /\ \/ wizard' = NoWizard /\ list' = 0 /\ screen' = 0 /\ read' = ReadAsked
            \/ /\ UNCHANGED <<page, visit, wizard, list, screen, read>>
               /\ ~GateShown /\ ~Mounted(N) /\ Offered' = Offered
               /\ \A n \in DOMAIN fate : n # N => fate'[n] = fate[n]
<1>1. gate' = [completed |-> "here", dismissed |-> TRUE]
  BY DEF Welcome
<1>2. gate' \in Gates /\ ~(GateShown')
  BY <1>1 DEF Gates, GateShown
<1>3. page \in Pages /\ visit \in Nat /\ fate \in Seq(Fates) /\ "welcomed" \in Fates
  BY DEF FlowInv, FlowShapes, Fates
<1>4. PICK to : /\ to \in {"devices", "home"}
                /\ \/ /\ page = to /\ ~GateShown
                      /\ fate' = [fate EXCEPT ![N] = "welcomed"]
                      /\ UNCHANGED <<page, visit, wizard, list, read, screen>>
                   \/ /\ fate' = [FatesLeft EXCEPT ![N] = "welcomed"]
                      /\ OpenPage(to)
  BY DEF Welcome, place
<1>5. CASE /\ ~GateShown
           /\ fate' = [fate EXCEPT ![N] = "welcomed"]
           /\ UNCHANGED <<page, visit, wizard, list, read, screen>>
  <2>1. /\ fate' \in Seq(Fates) /\ DOMAIN fate' = DOMAIN fate /\ Len(fate') = Len(fate)
        /\ fate'[N] = "welcomed" /\ \A n \in DOMAIN fate : n # N => fate'[n] = fate[n]
    BY <1>3, <1>5
  <2>2. ~Mounted(N) /\ ~Mounted(N)'
    BY <1>5 DEF Mounted
  <2>3. PlaceStays /\ Offered' = Offered
    BY <1>2, <1>5 DEF PlaceStays, Offered
  <2> QED
    BY <1>2, <1>3, <1>5, <2>1, <2>2, <2>3
<1>6. CASE fate' = [FatesLeft EXCEPT ![N] = "welcomed"] /\ OpenPage(to)
  <2>0. PICK left : left = FatesLeft
    OBVIOUS
  <2>1. /\ left \in Seq(Fates) /\ DOMAIN left = DOMAIN fate /\ Len(left) = Len(fate)
        /\ \A n \in DOMAIN fate : left[n] = IF Mounted(n) THEN FateOf(wizard) ELSE fate[n]
    BY <2>0, LeftFates
  <2>2. /\ fate' \in Seq(Fates) /\ DOMAIN fate' = DOMAIN fate /\ Len(fate') = Len(fate)
        /\ fate'[N] = "welcomed" /\ \A n \in DOMAIN fate : n # N => fate'[n] = left[n]
    BY <1>3, <1>6, <2>0, <2>1
  <2>3. /\ page' \in Pages /\ visit' \in Nat /\ visit' = visit + 1
        /\ wizard' = NoWizard /\ list' = 0 /\ screen' = 0 /\ read' = ReadAsked
    BY <1>3, <1>4, <1>6 DEF OpenPage, Pages
  <2>4. PlaceStays /\ \A n : ~Mounted(n)'
    BY <2>3 DEF PlaceStays, Mounted
  <2> QED
    BY <1>2, <2>1, <2>2, <2>3, <2>4
<1> QED
  BY <1>4, <1>5, <1>6

\* The first-run flow N is told that it is done, by its call or without one.
LEMMA WelcomeKeeps ==
  ASSUME FlowInv, NEW N \in DOMAIN fate, NEW data, Welcome(N, data), Mounted(N) => GateShown,
         fate[N] # "welcomed", calls' \subseteq calls, UNCHANGED <<made, unheard, displayed>>,
         confirmed' \in Seq(Nat), Len(confirmed') = Len(confirmed), confirmed'[N] > 0,
         \A n \in DOMAIN fate : n # N => Own(n)' = Own(n) /\ confirmed'[n] = confirmed[n],
         CallOwned(N)' /\ DeedOwned(N)' /\ Paid(N)',
         \A i \in DOMAIN made \ unheard :
           /\ Waited(i) => Waited(i)' \/ made[i].kind = "onboarding"
           /\ ~Waited(i) /\ made[i].kind = "device" => made[i].n # N
  PROVE  FlowInv'
<1>1. /\ gate' \in Gates /\ ~(GateShown')
      /\ page' \in Pages /\ visit' \in Nat /\ PlaceStays
      /\ fate' \in Seq(Fates) /\ DOMAIN fate' = DOMAIN fate /\ Len(fate') = Len(fate)
      /\ fate'[N] = "welcomed" /\ ~Mounted(N)'
  BY WelcomeParts
<1>2. \A n \in DOMAIN fate : n # N =>
        \/ Mounted(n) /\ ~Mounted(n)' /\ fate'[n] = FateOf(wizard)
        \/ fate'[n] = fate[n] /\ wizard' = wizard
        \/ fate'[n] = fate[n] /\ ~Mounted(n) /\ ~Mounted(n)'
  BY WelcomeParts
<1>3. \/ wizard' = NoWizard /\ list' = 0 /\ screen' = 0 /\ read' = ReadAsked
      \/ /\ UNCHANGED <<page, visit, wizard, list, screen, read>>
         /\ ~GateShown /\ ~Mounted(N) /\ Offered' = Offered
         /\ \A n \in DOMAIN fate : n # N => fate'[n] = fate[n]
  BY WelcomeParts
<1>4. FlowShapes'
  <2>1. wizard' \in Wizards \cup {NoWizard} /\ list' \in 0..Len(made) /\ screen' \in 0..Len(made)
    <3>1. 0 \in 0..Len(made)
      BY DEF FlowInv, FlowShapes
    <3> QED
      BY <1>3, <3>1 DEF FlowInv, FlowShapes
  <2>2. read' \in {NoRead, ReadAsked} \cup [at : {"back"}, upto : 0..Len(made)]
    BY <1>3 DEF FlowInv, FlowShapes
  <2> QED
    BY <1>1, <2>1, <2>2 DEF FlowInv, FlowShapes
<1>5. WizardFits'
  <2>1. SUFFICES ASSUME wizard' # NoWizard PROVE WizardFits'
    BY DEF WizardFits
  <2>2. wizard' = wizard /\ wizard.n # N /\ Offered' = Offered
    BY <1>3, <2>1 DEF Mounted
  <2>3. fate'[wizard.n] = fate[wizard.n] /\ wizard.n \in DOMAIN fate
    BY <1>3, <2>1, <2>2 DEF FlowInv, WizardFits
  <2> QED
    BY <1>1, <2>1, <2>2, <2>3 DEF FlowInv, WizardFits, IsValid
<1>6. CallsFit' /\ DeedsFit'
  BY <1>1, CallsStay, DeedsStay DEF FlowInv
<1>7. ASSUME NEW n \in DOMAIN fate, n # N
      PROVE  CallOwned(n)' /\ DeedOwned(n)' /\ Paid(n)'
  <2>1. Own(n)' = Own(n) /\ MadeBy(n)' = MadeBy(n) /\ Told(n)' = Told(n) /\ confirmed'[n] = confirmed[n]
    BY <1>7 DEF MadeBy, Told
  <2>2. CASE Mounted(n) /\ ~Mounted(n)' /\ fate'[n] = FateOf(wizard)
    BY <2>1, <2>2, LeftOwned
  <2>3. CASE fate'[n] = fate[n] /\ wizard' = wizard
    <3>1. Mounted(n)' <=> Mounted(n)
      BY <2>3 DEF Mounted
    <3> QED
      BY <2>1, <2>3, <3>1, OpenedParts, UntouchedOwned
  <2>4. CASE fate'[n] = fate[n] /\ ~Mounted(n) /\ ~Mounted(n)'
    BY <2>1, <2>4, OpenedParts, UntouchedOwned
  <2> QED
    BY <1>2, <1>7, <2>2, <2>3, <2>4
<1>8. Owned'
  <2>1. \A n \in DOMAIN fate : CallOwned(n)' /\ DeedOwned(n)' /\ Paid(n)'
    <3>1. TAKE n \in DOMAIN fate
    <3>2. CASE n = N
      BY <3>2
    <3> QED
      BY <1>7, <3>2
  <2> QED
    BY <1>1, <2>1 DEF Owned
<1>9. GateFits'
  <2>1. \A c \in calls' : c.kind = "onboarding" => ~Mounted(c.n)'
    BY <1>3 DEF FlowInv, GateFits, Mounted
  <2> QED
    BY <1>1, <2>1 DEF GateFits
<1>10. ResultsShown'
  <2>1. ASSUME NEW i \in DOMAIN made \ unheard
        PROVE  Waited(i)' \/ (SecretSeen(i)' /\ InList(i)')
    <3>0. PICK n : n = made[i].n
      OBVIOUS
    <3>1. CASE Waited(i) /\ made[i].kind = "onboarding"
      <4>1. SecretSeen(i)' /\ MayMiss(i)'
        BY <3>1 DEF SecretSeen, MayMiss
      <4> QED
        BY <4>1 DEF InList
    <3>2. CASE Waited(i) /\ made[i].kind # "onboarding"
      BY <3>2
    <3>3. CASE ~Waited(i)
      <4>1. SecretSeen(i) /\ InList(i)
        BY <3>3 DEF FlowInv, ResultsShown
      <4>2. made[i].kind = "device" => n \in DOMAIN fate /\ n # N
        BY <3>0, <3>3 DEF FlowInv, DeedsFit, DeedFits, WizardKinds
      <4>3. CASE wizard' = NoWizard /\ read' = ReadAsked
        <5>1. ~Mounted(n)'
          BY <4>3 DEF Mounted
        <5>2. made[i].kind = "device" =>
                fate'[n] = IF Mounted(n) THEN FateOf(wizard) ELSE fate[n]
          <6>1. HAVE made[i].kind = "device"
          <6>2. Mounted(n) => wizard' # wizard
            BY <4>3 DEF Mounted
          <6> QED
            BY <1>2, <4>2, <6>1, <6>2
        <5>3. SecretSeen(i)'
          BY <3>0, <3>3, <5>1, <5>2, StillDue
        <5>4. InList(i)'
          BY <4>3 DEF InList, ReadAsked, NoRead
        <5> QED
          BY <5>3, <5>4
      <4>4. CASE /\ UNCHANGED <<wizard, list, screen, read>> /\ ~GateShown
                 /\ \A m \in DOMAIN fate : m # N => fate'[m] = fate[m]
        <5>1. made[i].kind = "device" => fate'[n] = fate[n]
          BY <4>2, <4>4
        <5>2. (Mounted(n)' <=> Mounted(n))
          BY <4>4 DEF Mounted
        <5>3. SecretSeen(i)' /\ (MayMiss(i) => MayMiss(i)')
          BY <3>0, <4>1, <4>4, <5>1, <5>2 DEF SecretSeen, MayMiss
        <5> QED
          BY <4>1, <4>4, <5>3, ListStays
      <4> QED
        BY <1>3, <4>3, <4>4
    <3> QED
      BY <3>1, <3>2, <3>3
  <2> QED
    BY <2>1 DEF ResultsShown
<1> QED
  BY <1>4, <1>5, <1>6, <1>8, <1>9, <1>10 DEF FlowInv

LEMMA OnboardingAnswerKeeps ==
  ASSUME FlowInv, NEW c \in calls, c.at = "done", OnboardingDone(c), calls' = calls \ {c},
         made' = made, unheard' = unheard, confirmed' = confirmed
  PROVE  FlowInv'
<1>0. PICK N : N = c.n
  OBVIOUS
<1>1. c.kind = "onboarding" /\ Welcome(N, c.data) /\ displayed' = displayed
  BY <1>0 DEF OnboardingDone
<1>2. c.kind \in WizardKinds /\ N \in DOMAIN fate /\ fate[N] # "welcomed" /\ CallFits(c)
  BY <1>0, <1>1, CallPages, WaitingFate DEF WizardKinds
<1>3. Mounted(N) => GateShown
  BY <1>0, <1>1 DEF FlowInv, GateFits
<1>4. fate'[N] = "welcomed" /\ ~Mounted(N)'
  BY <1>1, <1>2, <1>3, WelcomeParts
<1>5. CallOwned(N)' /\ DeedOwned(N)' /\ Paid(N)' /\ confirmed[N] > 0
  <2>1. fate'[c.n] \in {"done", "welcomed", "left busy"}
    BY <1>0, <1>4
  <2>2. Mounted(c.n)' => wizard'.secret # 0
    BY <1>0, <1>4 DEF Mounted
  <2>3. CallOwned(c.n)' /\ DeedOwned(c.n)' /\ Paid(c.n)' /\ confirmed[c.n] > 0
    BY <1>2, <2>1, <2>2, AnsweredOwned
  <2> QED
    BY <1>0, <2>3
<1>6. \A n \in DOMAIN fate : n # N => Own(n)' = Own(n) /\ confirmed'[n] = confirmed[n]
  BY <1>0 DEF Own
<1>7. \A i \in DOMAIN made \ unheard :
        /\ Waited(i) => Waited(i)' \/ made[i].kind = "onboarding"
        /\ ~Waited(i) /\ made[i].kind = "device" => made[i].n # N
  <2>1. TAKE i \in DOMAIN made \ unheard
  <2>2. i = c.made => made[i].kind = "onboarding"
    BY <1>1, <1>2 DEF CallFits
  <2>3. Waited(i) => Waited(i)' \/ i = c.made
    BY DEF Waited
  <2>4. ~Waited(i) => i # c.made
    BY DEF Waited
  <2>5. made[i].kind = "device" /\ made[i].n = N => i = c.made
    BY <1>0, <1>2, OnlyDeed DEF WizardKinds
  <2> QED
    BY <2>2, <2>3, <2>4, <2>5
<1>8. confirmed' \in Seq(Nat) /\ Len(confirmed') = Len(confirmed) /\ confirmed'[N] > 0
  BY <1>5 DEF FlowInv, FlowShapes
<1> QED
  BY <1>1, <1>2, <1>3, <1>5, <1>6, <1>7, <1>8, WelcomeKeeps

LEMMA CompleteOnboardingKeeps ==
  ASSUME FlowInv, CompleteOnboarding
  PROVE  FlowInv'
<1>0. PICK N : N = wizard.n
  OBVIOUS
<1>1. /\ wizard # NoWizard /\ wizard.secret = 0 /\ ~wizard.busy /\ wizard.kind = "onboarding"
      /\ confirmed' = [confirmed EXCEPT ![N] = confirmed[N] + 1]
      /\ Welcome(N, wizard.data)
      /\ UNCHANGED <<calls, made, unheard, displayed>>
  BY <1>0 DEF CompleteOnboarding, Filling, MakesNoCall, Confirm, server
<1>2. N \in DOMAIN fate /\ fate[N] = "open" /\ Mounted(N) /\ GateShown
  <2>1. page \in Pages /\ wizard.kind \in Offered
    BY <1>1 DEF FlowInv, FlowShapes, WizardFits
  <2> QED
    BY <1>0, <1>1, <2>1, OfferedAre DEF FlowInv, WizardFits, Mounted
<1>3. fate'[N] = "welcomed" /\ ~Mounted(N)'
  BY <1>1, <1>2, WelcomeParts
<1>4. /\ confirmed' \in Seq(Nat) /\ Len(confirmed') = Len(confirmed) /\ confirmed[N] \in Nat
      /\ confirmed'[N] = confirmed[N] + 1 /\ confirmed'[N] > 0
      /\ \A n \in DOMAIN fate : n # N => confirmed'[n] = confirmed[n]
  <2>1. confirmed \in Seq(Nat) /\ N \in DOMAIN confirmed /\ confirmed[N] \in Nat
    BY <1>2, OpenedParts DEF FlowInv, FlowShapes
  <2> QED
    BY <1>1, <2>1
<1>7. \A n : Own(n)' = Own(n) /\ MadeBy(n)' = MadeBy(n) /\ Told(n)' = Told(n)
  BY <1>1 DEF Own, MadeBy, Told
<1>8. Own(N) = {} /\ Told(N) = {} /\ CallOwned(N)' /\ DeedOwned(N)' /\ Paid(N)'
  <2>1. CallOwned(N) /\ DeedOwned(N) /\ Paid(N)
    BY <1>2, OpenedParts
  <2>2. Own(N) = {} /\ Told(N) = {}
    <3>1. ~Waits(N) /\ ~Settled(N)
      BY <1>1, <1>2 DEF Waits, Settled
    <3> QED
      BY <2>1, <3>1 DEF CallOwned, DeedOwned
  <2>3. ~Sent(N) /\ ~Sent(N)'
    BY <1>7, <2>2 DEF Sent
  <2>4. Paid(N)'
    BY <1>4, <1>7, <2>1, <2>3, DeedsFinite DEF Paid
  <2> QED
    BY <1>1, <1>3, <1>7, <2>2, <2>4 DEF CallOwned, DeedOwned
<1>9. \A i \in DOMAIN made \ unheard :
        /\ Waited(i) => Waited(i)' \/ made[i].kind = "onboarding"
        /\ ~Waited(i) /\ made[i].kind = "device" => made[i].n # N
  BY <1>1, <1>8 DEF Waited, Told, MadeBy
<1>10. Mounted(N) => GateShown
  BY <1>2
<1>11. fate[N] # "welcomed" /\ calls' \subseteq calls
  BY <1>1, <1>2
<1>12. \A n \in DOMAIN fate : n # N => Own(n)' = Own(n) /\ confirmed'[n] = confirmed[n]
  BY <1>4, <1>7
<1> QED
  BY <1>1, <1>2, <1>4, <1>8, <1>9, <1>10, <1>11, <1>12, WelcomeKeeps

LEMMA DeviceAnswerKeeps ==
  ASSUME FlowInv, NEW c \in calls, c.at = "done", DeviceDone(c), calls' = calls \ {c}, c.visit = visit,
         page' = page, visit' = visit, made' = made, unheard' = unheard, confirmed' = confirmed
  PROVE  FlowInv'
<1>0. PICK N : N = c.n
  OBVIOUS
<1>1. /\ c.kind = "device" /\ list' = list /\ read' = read /\ screen' = screen /\ gate' = gate
      /\ IF Mounted(N)
         THEN /\ wizard' = [wizard EXCEPT !.busy = FALSE, !.secret = c.made]
              /\ fate' = [fate EXCEPT ![N] = "done"]
              /\ displayed' = displayed \cup {c.made}
         ELSE wizard' = wizard /\ fate' = fate /\ displayed' = displayed
  BY <1>0 DEF DeviceDone
<1>2. /\ c.kind \in WizardKinds /\ ~GateShown /\ N \in DOMAIN fate /\ fate \in Seq(Fates)
      /\ c.made \in DOMAIN made /\ made[c.made].kind = "device" /\ made[c.made].n = N
      /\ c.made \in 0..Len(made) /\ c.made # 0
  BY <1>0, <1>1, CallPages DEF CallFits, WizardKinds, FlowInv, FlowShapes
<1>3. c \in Own(N)
  BY <1>0, <1>2 DEF Own
<1>4. ~Mounted(N) => fate[N] = "left busy"
  BY <1>2, <1>3, OpenedParts DEF CallOwned, Waits
<1>5. Mounted(N) => /\ wizard \in Wizards /\ wizard.n = N /\ fate[N] = "open"
                    /\ wizard.secret = 0
  <2>1. HAVE Mounted(N)
  <2>2. wizard # NoWizard /\ wizard.n = N
    BY <2>1 DEF Mounted
  <2>4. Waits(N)
    BY <1>2, <1>3, OpenedParts DEF CallOwned
  <2>5. wizard.secret = 0
    BY <2>2, <2>4 DEF Waits, FlowInv, WizardFits
  <2> QED
    BY <2>2, <2>5, WizardParts DEF FlowInv, WizardFits
<1>6. Mounted(N) =>
        /\ wizard' \in Wizards /\ wizard' # NoWizard /\ wizard'.n = N /\ wizard'.kind = wizard.kind
        /\ wizard'.step = wizard.step /\ wizard'.data = wizard.data
        /\ wizard'.busy = FALSE /\ wizard'.secret = c.made
  <2>1. HAVE Mounted(N)
  <2>2. wizard \in Wizards /\ c.made \in Nat /\ wizard' = [wizard EXCEPT !.busy = FALSE, !.secret = c.made]
    BY <1>1, <1>2, <1>5, <2>1
  <2>3. wizard' \in Wizards
    BY <2>2 DEF Wizards
  <2>4. /\ wizard'.n = wizard.n /\ wizard'.kind = wizard.kind /\ wizard'.step = wizard.step
        /\ wizard'.data = wizard.data /\ wizard'.busy = FALSE /\ wizard'.secret = c.made
    BY <2>2 DEF Wizards
  <2> QED
    BY <1>5, <2>1, <2>3, <2>4, WizardIsOne
<1>7. /\ fate' \in Seq(Fates) /\ DOMAIN fate' = DOMAIN fate /\ Len(fate') = Len(fate)
      /\ \A n \in DOMAIN fate : n # N => fate'[n] = fate[n]
      /\ IF Mounted(N) THEN fate'[N] = "done" ELSE fate'[N] = "left busy"
  <2>1. "done" \in Fates
    BY DEF Fates
  <2>2. CASE Mounted(N)
    <3>1. fate' = [fate EXCEPT ![N] = "done"]
      BY <1>1, <2>2
    <3> QED
      BY <1>2, <2>1, <2>2, <3>1
  <2>3. CASE ~Mounted(N)
    BY <1>1, <1>2, <1>4, <2>3
  <2> QED
    BY <2>2, <2>3
<1>8. \A n : Mounted(n)' <=> Mounted(n)
  BY <1>1, <1>5, <1>6 DEF Mounted
<1>9. FlowShapes'
  <2>1. wizard' \in Wizards \cup {NoWizard} /\ displayed' \subseteq DOMAIN made
    BY <1>1, <1>2, <1>6 DEF FlowInv, FlowShapes
  <2> QED
    BY <1>1, <1>7, <2>1 DEF FlowInv, FlowShapes
<1>10. WizardFits'
  <2>1. CASE Mounted(N)
    <3>1. wizard # NoWizard
      BY <2>1 DEF Mounted
    <3>2. /\ wizard'.n \in DOMAIN fate' /\ wizard'.kind \in Offered' /\ ~(GateShown')
          /\ wizard'.data \in Data(wizard'.kind) /\ wizard'.step \in 1..Len(StepsOf(wizard'.kind))
          /\ \A i \in 1..(wizard'.step - 1) : IsValid(wizard'.kind, i, wizard'.data)
      BY <1>1, <1>2, <1>6, <1>7, <2>1, <3>1, SamePlace DEF FlowInv, WizardFits, IsValid
    <3>3. fate'[wizard'.n] = "done" /\ ~wizard'.busy
          /\ wizard'.secret \in 0..Len(made) /\ wizard'.secret # 0
      BY <1>2, <1>5, <1>6, <1>7, <2>1
    <3> QED
      BY <3>2, <3>3 DEF WizardFits, IsValid
  <2>2. CASE ~Mounted(N)
    BY <1>1, <2>2, SamePlace DEF FlowInv, WizardFits, IsValid
  <2> QED
    BY <2>1, <2>2
<1>11. CallsFit' /\ DeedsFit'
  BY <1>1, <1>7, SamePlace, CallsStay, DeedsStay DEF FlowInv
<1>12. CallOwned(N)' /\ DeedOwned(N)' /\ Paid(N)'
  <2>1. Mounted(N)' => wizard'.secret # 0
    BY <1>2, <1>6, <1>8
  <2>2. fate'[c.n] \in {"done", "left busy"}
    BY <1>0, <1>7
  <2>3. Mounted(c.n)' => wizard'.secret # 0
    BY <1>0, <2>1 DEF Mounted
  <2>4. CallOwned(c.n)' /\ DeedOwned(c.n)' /\ Paid(c.n)'
    BY <1>2, <2>2, <2>3, AnsweredOwned
  <2> QED
    BY <1>0, <2>4
<1>13. ASSUME NEW m \in DOMAIN fate, m # N
       PROVE  CallOwned(m)' /\ DeedOwned(m)' /\ Paid(m)'
  <2>1. Own(m)' = Own(m) /\ MadeBy(m)' = MadeBy(m) /\ Told(m)' = Told(m) /\ confirmed'[m] = confirmed[m]
    BY <1>0, <1>13 DEF Own, MadeBy, Told
  <2>2. Mounted(m) => wizard' = wizard
    BY <1>1, <1>13 DEF Mounted
  <2> QED
    BY <1>7, <1>8, <1>13, <2>1, <2>2, OpenedParts, UntouchedOwned
<1>14. Owned'
  BY <1>7, <1>12, <1>13 DEF Owned
<1>15. GateFits'
  <2>1. \A n \in DOMAIN fate : fate[n] = "welcomed" => fate'[n] = "welcomed"
    BY <1>4, <1>5, <1>7
  <2>2. \A d \in calls' : d \in calls
    OBVIOUS
  <2> QED
    BY <1>1, <1>7, <1>8, <2>1, <2>2, ConfirmedStays, GateStays
<1>16. ResultsShown'
  <2>1. ASSUME NEW i \in DOMAIN made \ unheard
        PROVE  Waited(i)' \/ (SecretSeen(i)' /\ InList(i)')
    <3>0. PICK n : n = made[i].n
      OBVIOUS
    <3>1. CASE i = c.made
      <4>1. MayMiss(i)' /\ SecretSeen(i)'
        BY <1>1, <1>2, <1>7, <1>8, <3>1 DEF MayMiss, SecretSeen
      <4> QED
        BY <4>1 DEF InList
    <3>2. CASE i # c.made
      <4>1. Waited(i) => Waited(i)'
        BY <3>2 DEF Waited
      <4>2. displayed \subseteq displayed'
        BY <1>1
      <4>3. made[i].kind = "device" => n \in DOMAIN fate
        BY <3>0 DEF FlowInv, DeedsFit, DeedFits, WizardKinds
      <4>4. made[i].kind = "device" =>
              fate'[n] = fate[n] \/ (n = N /\ Mounted(N) /\ fate[N] = "open")
        BY <1>4, <1>5, <1>7, <4>3
      <4>5. SecretSeen(i) => SecretSeen(i)'
        BY <1>1, <3>0, <4>2, <4>4 DEF SecretSeen
      <4>6. MayMiss(i) => MayMiss(i)'
        BY <1>1, <1>8, <3>0, <4>4 DEF MayMiss
      <4> QED
        BY <1>1, <4>1, <4>5, <4>6, SamePlace, ListStays DEF FlowInv, ResultsShown
    <3> QED
      BY <3>1, <3>2
  <2> QED
    BY <2>1 DEF ResultsShown
<1> QED
  BY <1>9, <1>10, <1>11, <1>14, <1>15, <1>16 DEF FlowInv

\* A call that is no wizard's own goes, and the results stay shown.
LEMMA CallGone ==
  ASSUME FlowInv, NEW c \in calls, c.kind \notin WizardKinds, calls' = calls \ {c},
         wizard' = wizard, page' = page, visit' = visit, made' = made, unheard' = unheard,
         displayed' = displayed, list' = list, screen' = screen, gate' = gate,
         fate' = fate, confirmed' = confirmed,
         read' \in {NoRead, ReadAsked} \cup [at : {"back"}, upto : 0..Len(made)],
         ResultsShown'
  PROVE  FlowInv'
<1>1. FlowShapes' /\ WizardFits' /\ CallsFit' /\ DeedsFit'
  BY SamePlace, CallsStay, DeedsStay DEF FlowInv, FlowShapes, WizardFits, IsValid
<1>2. SameWizard
  BY DEF SameWizard
<1>3. \A n \in DOMAIN fate : Own(n)' = Own(n)
  BY DEF Own
<1>4. Owned' /\ GateFits'
  <2>1. \A d \in calls' : d \in calls
    OBVIOUS
  <2> QED
    BY <1>2, <1>3, <2>1, OwnedStays, MountedStays, ConfirmedStays, GateStays DEF FlowInv
<1> QED
  BY <1>1, <1>4 DEF FlowInv

LEMMA RowAnswerKeeps ==
  ASSUME FlowInv, NEW c \in calls, c.at = "done", RowDone(c), calls' = calls \ {c},
         page' = page, visit' = visit, made' = made, unheard' = unheard, confirmed' = confirmed
  PROVE  FlowInv'
<1>1. /\ c.kind = "row" /\ read' = ReadAsked
      /\ wizard' = wizard /\ fate' = fate /\ displayed' = displayed /\ list' = list /\ screen' = screen /\ gate' = gate
  BY DEF RowDone
<1>2. c.made \in DOMAIN made /\ made[c.made].kind = "row"
  BY <1>1, CallPages DEF CallFits
<1>3. ResultsShown'
  <2>1. \A i : SecretSeen(i) => SecretSeen(i)'
    BY <1>1 DEF SecretSeen
  <2>2. SecretSeen(c.made)'
    BY <1>2 DEF SecretSeen
  <2>3. \A i : Waited(i) => Waited(i)' \/ i = c.made
    BY DEF Waited
  <2> QED
    BY <1>1, <2>1, <2>2, <2>3, ReadAgainShows DEF FlowInv
<1>4. c.kind \notin WizardKinds
  BY <1>1 DEF WizardKinds
<1> QED
  BY <1>1, <1>3, <1>4, CallGone

LEMMA AnswerKeeps ==
  ASSUME FlowInv, NEW c \in calls, Answer(c)
  PROVE  FlowInv'
<1>1. /\ c.at = "done" /\ calls' = calls \ {c} /\ made' = made /\ unheard' = unheard /\ confirmed' = confirmed
      /\ c.visit = visit \/ c.kind = "onboarding"
  BY DEF Answer, Heard, server
<1>2. CASE ActionDone(c)
  BY <1>1, <1>2, ActionAnswerKeeps DEF ActionDone, place
<1>3. CASE DeviceDone(c)
  BY <1>1, <1>3, DeviceAnswerKeeps DEF DeviceDone, place
<1>4. CASE ProviderDone(c)
  BY <1>1, <1>4, ProviderAnswerKeeps DEF ProviderDone, place
<1>5. CASE OnboardingDone(c)
  BY <1>1, <1>5, OnboardingAnswerKeeps
<1>6. CASE RowDone(c)
  BY <1>1, <1>6, RowAnswerKeeps DEF RowDone, place
<1> QED
  BY <1>2, <1>3, <1>4, <1>5, <1>6 DEF Answer

-----------------------------------------------------------------------------
(* A credential is added inside a wizard, a call fails, the list is read. *)

LEMMA AnswerCredentialKeeps ==
  ASSUME FlowInv, NEW c \in calls, AnswerCredential(c)
  PROVE  FlowInv'
<1>0. PICK d : d = [c EXCEPT !.at = "listing"]
  OBVIOUS
<1>1. /\ c.at = "done" /\ c.kind = "credential" /\ calls' = (calls \ {c}) \cup {d}
      /\ UNCHANGED <<page, visit, wizard, made, unheard, displayed, list, read, screen, gate, fate, confirmed>>
  BY <1>0 DEF AnswerCredential, place, server, shows
<1>2. c \in FlowCalls /\ CallFits(c)
  BY CallPages
<1>3. d \in FlowCalls /\ d.kind = c.kind /\ d.n = c.n /\ d.made = c.made /\ d.visit = c.visit /\ d.at = "listing"
  BY <1>0, <1>2 DEF FlowCalls
<1>4. FlowShapes' /\ WizardFits' /\ DeedsFit'
  <2>1. DeedsFit'
    BY <1>1, DeedsStay DEF FlowInv
  <2> QED
    BY <1>1, <1>3, <2>1, SamePlace DEF FlowInv, FlowShapes, WizardFits, IsValid
<1>5. CallsFit'
  <2>1. CallFits(d)
    BY <1>1, <1>2, <1>3 DEF CallFits, WizardKinds
  <2>2. CallFits(d)'
    BY <1>1, <1>3, <2>1, SamePlace, CallStays DEF FlowInv, FlowShapes
  <2>3. \A e \in calls : CallFits(e)'
    BY <1>1, SamePlace, CallStays DEF FlowInv, CallsFit, FlowShapes
  <2> QED
    BY <1>1, <2>2, <2>3 DEF CallsFit
<1>6. SameWizard
  BY <1>1 DEF SameWizard
<1>7. \A n \in DOMAIN fate : Own(n)' = Own(n)
  BY <1>1, <1>3 DEF Own, WizardKinds
<1>8. Owned' /\ GateFits'
  <2>1. \A e \in calls' : e.kind = "onboarding" => e \in calls
    BY <1>1, <1>3
  <2>2. GateFits'
    BY <1>1, <1>6, <2>1, MountedStays, ConfirmedStays, GateStays
  <2>3. Owned'
    BY <1>1, <1>6, <1>7, OwnedStays DEF FlowInv
  <2> QED
    BY <2>2, <2>3
<1>9. ResultsShown'
  <2>1. \A i : Waited(i) => Waited(i)'
    BY <1>1, <1>3 DEF Waited
  <2> QED
    BY <1>1, <1>6, <2>1, MountedStays, ShownStays DEF FlowInv
<1> QED
  BY <1>4, <1>5, <1>8, <1>9 DEF FlowInv

\* The step that waits for the credential is valid with it, and so is no other changed.
LEMMA PickedFits ==
  ASSUME FlowInv, wizard # NoWizard, NEW data, data = [wizard.data EXCEPT !["credential"] = "chosen"]
  PROVE  /\ data \in Data(wizard.kind)
         /\ \A i \in 1..(wizard.step - 1) : IsValid(wizard.kind, i, data)
<1>1. /\ wizard.data \in Data(wizard.kind) /\ wizard.step \in 1..Len(StepsOf(wizard.kind))
      /\ Len(StepsOf(wizard.kind)) \in Nat
  BY WizardParts
<1>2. data \in Data(wizard.kind)
  BY <1>1, DataChanged
<1>3. \A g \in DOMAIN wizard.data :
        data[g] = IF g = "credential" THEN "chosen" ELSE wizard.data[g]
  BY <1>1
<1>4. ASSUME NEW i \in 1..(wizard.step - 1), IsValid(wizard.kind, i, wizard.data)
      PROVE  IsValid(wizard.kind, i, data)
  <2>1. i \in 1..Len(StepsOf(wizard.kind))
    BY <1>1
  <2>2. StepsOf(wizard.kind)[i] \subseteq DOMAIN wizard.data
    BY <1>1, <2>1, StepFields DEF Data
  <2>3. "chosen" # Empty
    BY GuidedFlowAssumption
  <2> QED
    BY <1>3, <1>4, <2>2, <2>3 DEF IsValid
<1> QED
  BY <1>2, <1>4 DEF FlowInv, WizardFits

LEMMA PickCredentialKeeps ==
  ASSUME FlowInv, NEW c \in calls, PickCredential(c)
  PROVE  FlowInv'
<1>1. /\ c.at = "listing" /\ calls' = calls \ {c}
      /\ wizard' = IF Mounted(c.n) THEN [wizard EXCEPT !.data["credential"] = "chosen"] ELSE wizard
      /\ UNCHANGED <<page, visit, made, unheard, displayed, list, read, screen, gate, fate, confirmed>>
  BY DEF PickCredential, place, server, shows
<1>2. /\ c.kind = "credential" /\ c.kind \notin WizardKinds
      /\ c.made \in DOMAIN made /\ made[c.made].kind = "credential"
  BY <1>1, CallPages DEF CallFits, WizardKinds
<1>3. Mounted(c.n) =>
        /\ wizard # NoWizard /\ wizard' \in Wizards /\ wizard' # NoWizard
        /\ wizard'.n = wizard.n /\ wizard'.kind = wizard.kind /\ wizard'.step = wizard.step
        /\ wizard'.secret = wizard.secret /\ wizard'.busy = wizard.busy
        /\ wizard'.data \in Data(wizard.kind)
        /\ \A i \in 1..(wizard.step - 1) : IsValid(wizard.kind, i, wizard'.data)
  <2>1. HAVE Mounted(c.n)
  <2>2. wizard # NoWizard /\ wizard \in Wizards /\ wizard.kind \in WizardKinds
    BY <2>1, WizardParts DEF Mounted
  <2>3. PICK data : data = [wizard.data EXCEPT !["credential"] = "chosen"]
    OBVIOUS
  <2>4. data \in Data(wizard.kind) /\ \A i \in 1..(wizard.step - 1) : IsValid(wizard.kind, i, data)
    BY <2>2, <2>3, PickedFits
  <2>5. data \in UNION {Data(kind) : kind \in Kinds}
    BY <2>2, <2>4, FlowKindsAre
  <2>6. wizard' = [wizard EXCEPT !.data = data]
    BY <1>1, <2>1, <2>2, <2>3 DEF Wizards
  <2>7. /\ wizard' \in Wizards /\ wizard'.n = wizard.n /\ wizard'.kind = wizard.kind
        /\ wizard'.step = wizard.step /\ wizard'.secret = wizard.secret /\ wizard'.busy = wizard.busy
        /\ wizard'.data = data
    BY <2>2, <2>5, <2>6 DEF Wizards
  <2> QED
    BY <2>2, <2>4, <2>7, WizardIsOne
<1>4. ~Mounted(c.n) => wizard' = wizard
  BY <1>1
<1>5. SameWizard
  BY <1>3, <1>4 DEF SameWizard
<1>6. WizardFits'
  <2>1. CASE Mounted(c.n)
    BY <1>1, <1>3, <2>1, SamePlace DEF FlowInv, WizardFits, IsValid
  <2>2. CASE ~Mounted(c.n)
    BY <1>1, <1>4, <2>2, SamePlace DEF FlowInv, WizardFits, IsValid
  <2> QED
    BY <2>1, <2>2
<1>7. FlowShapes' /\ CallsFit' /\ DeedsFit'
  <2>1. CallsFit' /\ DeedsFit'
    BY <1>1, SamePlace, CallsStay, DeedsStay DEF FlowInv
  <2>2. wizard' \in Wizards \cup {NoWizard}
    BY <1>3, <1>4 DEF FlowInv, FlowShapes
  <2> QED
    BY <1>1, <2>1, <2>2 DEF FlowInv, FlowShapes
<1>8. \A n \in DOMAIN fate : Own(n)' = Own(n)
  BY <1>1, <1>2 DEF Own
<1>9. Owned' /\ GateFits'
  <2>1. Owned'
    BY <1>1, <1>5, <1>8, OwnedStays DEF FlowInv
  <2>2. \A d \in calls' : d \in calls
    BY <1>1
  <2> QED
    BY <1>1, <1>5, <2>1, <2>2, MountedStays, ConfirmedStays, GateStays
<1>10. ResultsShown'
  <2>1. ASSUME NEW i \in DOMAIN made \ unheard
        PROVE  Waited(i)' \/ (SecretSeen(i)' /\ InList(i)')
    <3>1. CASE i = c.made
      BY <1>1, <1>2, <3>1 DEF SecretSeen, InList, MayMiss
    <3>2. CASE i # c.made
      <4>1. Waited(i) => Waited(i)'
        BY <1>1, <3>2 DEF Waited
      <4>2. MayMiss(i) => MayMiss(i)'
        BY <1>1, <1>5, MountedStays DEF MayMiss
      <4> QED
        BY <1>1, <4>1, <4>2, SamePlace, ListStays DEF FlowInv, ResultsShown, SecretSeen
    <3> QED
      BY <3>1, <3>2
  <2> QED
    BY <1>1, <2>1 DEF ResultsShown
<1> QED
  BY <1>6, <1>7, <1>9, <1>10 DEF FlowInv

\* A call goes, and what came of it is told to nobody; its wizard, if it is
\* there, does not wait any more.
LEMMA CallLost ==
  ASSUME FlowInv, NEW c \in calls, calls' = calls \ {c}, unheard' = unheard \cup ({c.made} \ {0}),
         wizard' \in {wizard, IF Mounted(c.n) /\ c.kind # "credential" THEN [wizard EXCEPT !.busy = FALSE] ELSE wizard},
         UNCHANGED <<page, visit, made, displayed, list, read, screen, gate, fate, confirmed>>
  PROVE  FlowInv'
<1>1. /\ wizard' = wizard \/ (Mounted(c.n) /\ c.kind # "credential" /\ wizard' = [wizard EXCEPT !.busy = FALSE])
      /\ unheard' = unheard \cup ({c.made} \ {0}) /\ calls' = calls \ {c}
      /\ UNCHANGED <<page, visit, made, displayed, list, read, screen, gate, fate, confirmed>>
  OBVIOUS
<1>2. /\ c \in FlowCalls /\ CallFits(c) /\ c.at \in {"sent", "done", "refused", "listing"}
  BY CallPages DEF FlowCalls
<1>3. c.made = 0 \/ (c.made \in DOMAIN made /\ made[c.made].kind = c.kind /\ made[c.made].n = c.n)
  BY <1>2 DEF CallFits
<1>4. DOMAIN made = 1..Len(made) /\ Len(made) \in Nat
  BY DEF FlowInv, FlowShapes
<1>5. Mounted(c.n) => /\ wizard # NoWizard /\ wizard \in Wizards /\ wizard.n = c.n
                      /\ c.n \in DOMAIN fate /\ c.kind # "row"
  <2>1. HAVE Mounted(c.n)
  <2>2. wizard # NoWizard /\ wizard.n = c.n
    BY <2>1 DEF Mounted
  <2>3. wizard \in Wizards /\ c.n \in DOMAIN fate
    BY <2>2, WizardParts
  <2>4. c.n # 0
    BY <2>3, OpenedParts
  <2> QED
    BY <1>2, <2>2, <2>3, <2>4 DEF CallFits
<1>6. wizard # NoWizard =>
        /\ wizard' \in Wizards /\ wizard' # NoWizard
        /\ wizard'.n = wizard.n /\ wizard'.kind = wizard.kind /\ wizard'.step = wizard.step
        /\ wizard'.data = wizard.data /\ wizard'.secret = wizard.secret
        /\ wizard'.busy = wizard.busy \/ (Mounted(c.n) /\ c.kind # "credential" /\ wizard'.busy = FALSE)
  <2>1. HAVE wizard # NoWizard
  <2>2. wizard \in Wizards
    BY <2>1, WizardParts
  <2>3. CASE Mounted(c.n) /\ c.kind # "credential" /\ wizard' = [wizard EXCEPT !.busy = FALSE]
    <3>1. wizard' = [wizard EXCEPT !.busy = FALSE]
      BY <2>3
    <3>2. wizard' \in Wizards
      BY <2>2, <3>1 DEF Wizards
    <3>3. /\ wizard'.n = wizard.n /\ wizard'.kind = wizard.kind /\ wizard'.step = wizard.step
          /\ wizard'.data = wizard.data /\ wizard'.secret = wizard.secret /\ wizard'.busy = FALSE
      BY <2>2, <3>1 DEF Wizards
    <3> QED
      BY <2>3, <3>2, <3>3, WizardIsOne
  <2>4. CASE wizard' = wizard
    BY <2>1, <2>2, <2>4
  <2> QED
    BY <1>1, <2>3, <2>4
<1>7. wizard = NoWizard => wizard' = NoWizard
  BY <1>1 DEF Mounted
<1>8. \A n : Mounted(n)' <=> Mounted(n)
  BY <1>6, <1>7 DEF Mounted
<1>9. FlowShapes'
  <2>1. unheard' \subseteq DOMAIN made
    BY <1>1, <1>3 DEF FlowInv, FlowShapes
  <2>2. wizard' \in Wizards \cup {NoWizard}
    BY <1>6, <1>7
  <2> QED
    BY <1>1, <2>1, <2>2 DEF FlowInv, FlowShapes
<1>10. WizardFits'
  <2>1. SUFFICES ASSUME wizard' # NoWizard PROVE WizardFits'
    BY DEF WizardFits
  <2>2. wizard # NoWizard
    BY <1>7, <2>1
  <2> QED
    BY <1>1, <1>6, <2>2, SamePlace DEF FlowInv, WizardFits, IsValid
<1>11. CallsFit' /\ DeedsFit'
  BY <1>1, SamePlace, CallsStay, DeedsStay DEF FlowInv
<1>12. \A n : MadeBy(n)' = MadeBy(n)
  BY <1>1 DEF MadeBy
<1>13. ASSUME NEW n \in DOMAIN fate
       PROVE  /\ CallOwned(n)' /\ DeedOwned(n)' /\ Paid(n)'
              /\ Own(n)' # {} => Own(n) # {}
  <2>1. CallOwned(n) /\ DeedOwned(n) /\ Paid(n) /\ n # 0
    BY OpenedParts
  <2>2. CASE c \in Own(n)
    <3>1. Own(n) = {c} /\ Own(n)' = {}
      <4>1. Own(n) = {c}
        BY <2>1, <2>2 DEF CallOwned
      <4>2. Own(n)' = Own(n) \ {c}
        BY <1>1 DEF Own
      <4> QED
        BY <4>1, <4>2
    <3>2. Told(n)' = {}
      <4>1. ASSUME NEW i \in Told(n)
            PROVE  i = c.made
        BY <2>1, <3>1 DEF DeedOwned, Settled
      <4>2. ASSUME NEW i \in Told(n)'
            PROVE  FALSE
        <5>1. i \in MadeBy(n) /\ i \notin unheard /\ i \notin ({c.made} \ {0})
          BY <1>1, <1>12, <4>2 DEF Told
        <5>2. i = c.made /\ i # 0
          BY <1>4, <4>1, <5>1 DEF Told, MadeBy
        <5> QED
          BY <5>1, <5>2
      <4> QED
        BY <4>2
    <3>3. Paid(n)'
      <4>1. ~Sent(n)'
        BY <3>1 DEF Sent
      <4> QED
        BY <1>1, <1>12, <4>1, PaidStays
    <3> QED
      BY <1>1, <1>12, <2>1, <3>1, <3>2, <3>3 DEF CallOwned, DeedOwned
  <2>3. CASE c \notin Own(n)
    <3>1. Own(n)' = Own(n)
      BY <1>1, <2>3 DEF Own
    <3>2. ~(c.n = n /\ c.kind # "credential")
      BY <1>2, <2>1, <2>3 DEF Own, FlowCalls, CallKinds, CallFits
    <3>3. Told(n)' = Told(n)
      <4>1. c.made = 0 \/ c.made \notin MadeBy(n)
        BY <1>3, <3>2 DEF MadeBy
      <4> QED
        BY <1>1, <1>12, <4>1 DEF Told
    <3>4. Mounted(n) => wizard'.secret = wizard.secret /\ wizard'.busy = wizard.busy
      BY <1>5, <1>6, <3>2 DEF Mounted
    <3> QED
      BY <1>1, <1>8, <1>12, <2>1, <3>1, <3>3, <3>4, UntouchedOwned
  <2> QED
    BY <2>2, <2>3
<1>14. Owned'
  BY <1>1, <1>13 DEF Owned
<1>15. GateFits'
  <2>1. \A d \in calls' : d \in calls
    BY <1>1
  <2> QED
    BY <1>1, <1>8, <2>1, ConfirmedStays, GateStays
<1>16. ResultsShown'
  <2>1. ASSUME NEW i \in DOMAIN made \ unheard'
        PROVE  Waited(i)' \/ (SecretSeen(i)' /\ InList(i)')
    <3>1. i \notin unheard /\ i # c.made
      BY <1>1, <1>4
    <3>2. Waited(i) => Waited(i)'
      BY <1>1, <3>1 DEF Waited
    <3>3. MayMiss(i) => MayMiss(i)'
      BY <1>1, <1>8 DEF MayMiss
    <3> QED
      BY <1>1, <3>1, <3>2, <3>3, SamePlace, ListStays DEF FlowInv, ResultsShown, SecretSeen
  <2> QED
    BY <1>1, <2>1 DEF ResultsShown
<1> QED
  BY <1>9, <1>10, <1>11, <1>14, <1>15, <1>16 DEF FlowInv

LEMMA FailKeeps ==
  ASSUME FlowInv, NEW c \in calls, Fail(c)
  PROVE  FlowInv'
<1>1. /\ wizard' \in {wizard, IF Mounted(c.n) /\ c.kind # "credential" THEN [wizard EXCEPT !.busy = FALSE] ELSE wizard}
      /\ unheard' = unheard \cup ({c.made} \ {0}) /\ calls' = calls \ {c}
      /\ UNCHANGED <<page, visit, made, displayed, list, read, screen, gate, fate, confirmed>>
  BY DEF Fail, place, shows
<1> QED
  BY <1>1, CallLost

LEMMA AnswerNobodyKeeps ==
  ASSUME FlowInv, NEW c \in calls, AnswerNobody(c)
  PROVE  FlowInv'
<1>1. /\ wizard' = wizard /\ calls' = calls \ {c} /\ unheard' = unheard \cup {c.made} /\ c.at = "done"
      /\ UNCHANGED <<page, visit, made, displayed, list, read, screen, gate, fate, confirmed>>
  BY DEF AnswerNobody, place, shows
<1>2. c.made # 0
  <2>1. c.made \in DOMAIN made /\ DOMAIN made = 1..Len(made)
    BY <1>1, CallPages DEF CallFits, FlowInv, FlowShapes
  <2> QED
    BY <2>1
<1>3. unheard' = unheard \cup ({c.made} \ {0})
  BY <1>1, <1>2
<1> QED
  BY <1>1, <1>3, CallLost

\* A step on the list alone.
LEMMA ListReadKeeps ==
  ASSUME FlowInv, UNCHANGED <<page, visit, wizard, calls, made, unheard, displayed, gate, fate, confirmed>>,
         list' \in 0..Len(made), screen' \in 0..Len(made),
         read' \in {NoRead, ReadAsked} \cup [at : {"back"}, upto : 0..Len(made)],
         \A i \in DOMAIN made \ unheard : InList(i) => InList(i)'
  PROVE  FlowInv'
<1>1. FlowShapes' /\ WizardFits' /\ CallsFit' /\ DeedsFit'
  BY SamePlace, CallsStay, DeedsStay DEF FlowInv, FlowShapes, WizardFits, IsValid
<1>2. SameWizard
  BY DEF SameWizard
<1>3. \A n \in DOMAIN fate : Own(n)' = Own(n)
  BY DEF Own
<1>4. Owned' /\ GateFits'
  <2>1. Owned'
    BY <1>2, <1>3, OwnedStays DEF FlowInv
  <2> QED
    BY <1>2, <2>1, MountedStays, ConfirmedStays, GateStays
<1>5. ResultsShown'
  BY DEF FlowInv, ResultsShown, Waited, SecretSeen
<1> QED
  BY <1>1, <1>4, <1>5 DEF FlowInv

LEMMA AskedListsAll ==
  ASSUME read' = ReadAsked
  PROVE  \A i : InList(i)'
BY DEF InList, ReadAsked, NoRead

LEMMA ListParts ==
  ASSUME FlowInv
  PROVE  /\ list \in 0..Len(made) /\ screen \in 0..Len(made) /\ 0 \in 0..Len(made)
         /\ read \in {NoRead, ReadAsked} \cup [at : {"back"}, upto : 0..Len(made)]
         /\ Len(made) \in Nat /\ DOMAIN made = 1..Len(made)
BY DEF FlowInv, FlowShapes

LEMMA SavedTokenKeeps ==
  ASSUME FlowInv, SavedToken
  PROVE  FlowInv'
<1>1. /\ screen' = 0 /\ read' = ReadAsked /\ list' = list
      /\ UNCHANGED <<page, visit, wizard, calls, made, unheard, displayed, gate, fate, confirmed>>
  BY DEF SavedToken, place, server
<1> QED
  BY <1>1, AskedListsAll, ListParts, ListReadKeeps

LEMMA TickKeeps ==
  ASSUME FlowInv, Tick
  PROVE  FlowInv'
<1>1. /\ screen' = screen /\ read' = ReadAsked /\ list' = list
      /\ UNCHANGED <<page, visit, wizard, calls, made, unheard, displayed, gate, fate, confirmed>>
  BY DEF Tick, place, server
<1> QED
  BY <1>1, AskedListsAll, ListParts, ListReadKeeps

LEMMA ReadListKeeps ==
  ASSUME FlowInv, ReadList
  PROVE  FlowInv'
<1>1. /\ screen' = screen /\ read' = [at |-> "back", upto |-> Len(made)] /\ list' = list
      /\ UNCHANGED <<page, visit, wizard, calls, made, unheard, displayed, gate, fate, confirmed>>
  BY DEF ReadList, place, server
<1>2. \A i \in DOMAIN made : ~(i > read'.upto) /\ read' # NoRead
  BY <1>1, ListParts DEF NoRead
<1>3. \A i \in DOMAIN made \ unheard : InList(i)'
  BY <1>2 DEF InList
<1>4. read' \in [at : {"back"}, upto : 0..Len(made)]
  BY <1>1, ListParts
<1> QED
  BY <1>1, <1>3, <1>4, ListParts, ListReadKeeps

LEMMA ShowListKeeps ==
  ASSUME FlowInv, ShowList
  PROVE  FlowInv'
<1>1. /\ screen' = screen /\ read' = NoRead /\ list' = read.upto /\ read.at = "back"
      /\ UNCHANGED <<page, visit, wizard, calls, made, unheard, displayed, gate, fate, confirmed>>
  BY DEF ShowList, place, server
<1>2. list' \in 0..Len(made)
  BY <1>1, ListParts DEF NoRead, ReadAsked
<1>3. \A i : MayMiss(i) => MayMiss(i)'
  BY <1>1 DEF MayMiss, Mounted
<1>4. \A i : InList(i) => InList(i)'
  BY <1>1, <1>3, SamePlace DEF InList, NoRead
<1> QED
  BY <1>1, <1>2, <1>4, ListParts, ListReadKeeps

\* A secret stays seen when whatever is open is left.
LEMMA SecretsStay ==
  ASSUME FlowInv, NEW i \in DOMAIN made \ unheard, ~Waited(i), fate' = FatesLeft, wizard' = NoWizard,
         made' = made, displayed' = displayed
  PROVE  SecretSeen(i)'
<1>0. PICK n : n = made[i].n
  OBVIOUS
<1>1. made[i].kind = "device" => n \in DOMAIN fate
  BY <1>0 DEF FlowInv, DeedsFit, DeedFits, WizardKinds
<1>2. made[i].kind = "device" =>
        ~Mounted(n)' /\ fate'[n] = IF Mounted(n) THEN FateOf(wizard) ELSE fate[n]
  BY <1>1, LeftFates DEF Mounted
<1> QED
  BY <1>0, <1>2, StillDue

\* Another page is opened, with nothing open on it, or stands behind the
\* first-run flow.
LEMMA VisitKeeps ==
  ASSUME FlowInv, NEW p \in Pages, Visit(p)
  PROVE  FlowInv'
<1>1. UNCHANGED <<calls, made, unheard, displayed, gate, confirmed>>
  BY DEF Visit, server
<1>2. CASE GateShown
  <2>1. page' = p /\ UNCHANGED <<visit, wizard, list, read, screen, fate>>
    BY <1>2 DEF Visit
  <2>2. GateShown' /\ Offered' = Offered /\ PlaceStays
    BY <1>1, <1>2, <2>1 DEF GateShown, Offered, PlaceStays
  <2>3. FlowShapes' /\ WizardFits' /\ CallsFit' /\ DeedsFit'
    <3>1. FlowShapes'
      BY <1>1, <2>1 DEF FlowInv, FlowShapes
    <3>2. CallsFit' /\ DeedsFit'
      BY <1>1, <2>1, <2>2, CallsStay, DeedsStay DEF FlowInv
    <3>3. WizardFits'
      BY <1>1, <1>2, <2>1, <2>2 DEF FlowInv, WizardFits, IsValid
    <3> QED
      BY <3>1, <3>2, <3>3
  <2>4. SameWizard
    BY <2>1 DEF SameWizard
  <2>5. \A n \in DOMAIN fate : Own(n)' = Own(n)
    BY <1>1 DEF Own
  <2>6. Owned'
    BY <1>1, <2>1, <2>4, <2>5, OwnedStays DEF FlowInv
  <2>7. GateFits'
    BY <1>1, <2>1, <2>4, MountedStays, ConfirmedStays, GateStays
  <2>8. ResultsShown'
    <3>1. \A i : Waited(i) => Waited(i)'
      BY <1>1 DEF Waited
    <3> QED
      BY <1>1, <2>1, <2>4, <3>1, MountedStays, ShownStays DEF FlowInv
  <2> QED
    BY <2>3, <2>6, <2>7, <2>8 DEF FlowInv
<1>3. CASE ~GateShown
  <2>1. /\ page' = p /\ visit' = visit + 1 /\ wizard' = NoWizard
        /\ list' = 0 /\ screen' = 0 /\ read' = ReadAsked /\ fate' = FatesLeft
    BY <1>3 DEF Visit, OpenPage
  <2>2. ~(GateShown') /\ PlaceStays
    BY <1>1, <1>3, <2>1 DEF GateShown, PlaceStays
  <2>3. /\ fate' \in Seq(Fates) /\ DOMAIN fate' = DOMAIN fate /\ Len(fate') = Len(fate)
        /\ \A n \in DOMAIN fate : fate'[n] = IF Mounted(n) THEN FateOf(wizard) ELSE fate[n]
    BY <2>1, LeftFates
  <2>4. FlowShapes'
    <3>1. visit' \in Nat
      BY <2>1 DEF FlowInv, FlowShapes
    <3> QED
      BY <1>1, <2>1, <2>3, <3>1, ListParts DEF FlowInv, FlowShapes
  <2>5. WizardFits' /\ CallsFit' /\ DeedsFit'
    BY <1>1, <2>1, <2>2, <2>3, CallsStay, DeedsStay DEF FlowInv, WizardFits
  <2>6. \A n : Own(n)' = Own(n) /\ MadeBy(n)' = MadeBy(n) /\ Told(n)' = Told(n) /\ ~Mounted(n)'
    BY <1>1, <2>1 DEF Own, MadeBy, Told, Mounted
  <2>7. ASSUME NEW n \in DOMAIN fate
        PROVE  CallOwned(n)' /\ DeedOwned(n)' /\ Paid(n)'
    <3>1. CASE Mounted(n)
      BY <1>1, <2>3, <2>6, <3>1, LeftOwned
    <3>2. CASE ~Mounted(n)
      BY <1>1, <2>3, <2>6, <3>2, OpenedParts, UntouchedOwned
    <3> QED
      BY <3>1, <3>2
  <2>8. Owned'
    BY <2>3, <2>7 DEF Owned
  <2>9. GateFits'
    <3>1. \A n \in DOMAIN fate : fate[n] = "welcomed" => fate'[n] = "welcomed"
      BY <2>3, WelcomedIsGone
    <3> QED
      BY <1>1, <2>2, <2>3, <2>6, <3>1 DEF FlowInv, GateFits
  <2>10. ResultsShown'
    <3>1. ASSUME NEW i \in DOMAIN made \ unheard
          PROVE  Waited(i)' \/ (SecretSeen(i)' /\ InList(i)')
      <4>1. CASE Waited(i)
        BY <1>1, <4>1 DEF Waited
      <4>2. CASE ~Waited(i)
        BY <1>1, <2>1, <4>2, SecretsStay, AskedListsAll
      <4> QED
        BY <4>1, <4>2
    <3> QED
      BY <1>1, <3>1 DEF ResultsShown
  <2> QED
    BY <2>4, <2>5, <2>8, <2>9, <2>10 DEF FlowInv
<1> QED
  BY <1>2, <1>3

LEMMA RevisitKeeps ==
  ASSUME FlowInv, Revisit
  PROVE  FlowInv'
<1>1. /\ fate' = FatesLeft /\ wizard' = NoWizard /\ visit' = visit + 1
      /\ unheard' = unheard \cup {c.made : c \in {d \in calls : d.made # 0}}
      /\ calls' = {} /\ screen' = 0 /\ list' = 0
      /\ read' = IF gate.completed = "never" THEN NoRead ELSE ReadAsked
      /\ gate' = [gate EXCEPT !.dismissed = FALSE]
      /\ page' = page /\ made' = made /\ displayed' = displayed /\ confirmed' = confirmed
  BY DEF Revisit
<1>2. gate \in Gates /\ visit \in Nat
  BY DEF FlowInv, FlowShapes
<1>3. /\ fate' \in Seq(Fates) /\ DOMAIN fate' = DOMAIN fate /\ Len(fate') = Len(fate)
      /\ \A n \in DOMAIN fate : fate'[n] = IF Mounted(n) THEN FateOf(wizard) ELSE fate[n]
  BY <1>1, LeftFates
<1>4. gate' \in Gates /\ gate'.completed = gate.completed /\ ~gate'.dismissed
  BY <1>1, <1>2 DEF Gates
<1>5. \A c \in calls : c.made # 0 => c.made \in DOMAIN made
  <2>1. TAKE c \in calls
  <2>2. CallFits(c) /\ c.at \in {"sent", "done", "refused", "listing"}
    BY CallPages DEF FlowCalls
  <2> QED
    BY <2>2 DEF CallFits
<1>6. FlowShapes'
  <2>1. unheard' \subseteq DOMAIN made
    BY <1>1, <1>5 DEF FlowInv, FlowShapes
  <2>2. visit' \in Nat /\ read' \in {NoRead, ReadAsked}
    BY <1>1, <1>2
  <2> QED
    BY <1>1, <1>3, <1>4, <2>1, <2>2, ListParts DEF FlowInv, FlowShapes
<1>7. WizardFits' /\ CallsFit' /\ DeedsFit'
  BY <1>1, <1>3, DeedsStay DEF FlowInv, WizardFits, CallsFit
<1>8. \A n : Own(n)' = {} /\ MadeBy(n)' = MadeBy(n) /\ ~Mounted(n)'
  BY <1>1 DEF Own, MadeBy, Mounted
<1>9. \A i \in DOMAIN made : Waited(i) => i \in unheard'
  BY <1>1, ListParts DEF Waited
<1>10. ASSUME NEW n \in DOMAIN fate
       PROVE  CallOwned(n)' /\ DeedOwned(n)' /\ Paid(n)'
  <2>1. CallOwned(n) /\ DeedOwned(n) /\ Paid(n)
    BY OpenedParts
  <2>2. \A i \in Told(n)' : i \in Told(n) /\ ~Waited(i)
    BY <1>1, <1>8, <1>9 DEF Told, MadeBy
  <2>3. \A i \in Told(n)' : Settled(n)
    BY <2>1, <2>2 DEF DeedOwned, Own, Waited
  <2>4. Settled(n) => Settled(n)'
    <3>1. HAVE Settled(n)
    <3>2. Mounted(n) => fate'[n] = "unread"
      <4>1. HAVE Mounted(n)
      <4>2. wizard # NoWizard /\ wizard.secret # 0 /\ ~wizard.busy
        BY <3>1, <4>1 DEF Settled, Mounted, FlowInv, WizardFits
      <4> QED
        BY <1>3, <4>1, <4>2 DEF FateOf
    <3> QED
      BY <1>3, <1>8, <3>1, <3>2 DEF Settled
  <2>5. fate'[n] = "done" => fate[n] = "done"
    BY <1>3, FatesAre
  <2>6. Paid(n)'
    <3>1. ~Sent(n)'
      BY <1>8 DEF Sent
    <3> QED
      BY <1>1, <1>8, <3>1, PaidStays
  <2> QED
    BY <1>1, <1>8, <2>1, <2>2, <2>3, <2>4, <2>5, <2>6 DEF CallOwned, DeedOwned
<1>11. Owned'
  BY <1>3, <1>10 DEF Owned
<1>12. GateFits'
  <2>1. \A n \in DOMAIN fate : fate[n] = "welcomed" => fate'[n] = "welcomed"
    BY <1>3, WelcomedIsGone
  <2> QED
    BY <1>1, <1>3, <1>4, <2>1 DEF FlowInv, GateFits
<1>13. ResultsShown'
  <2>1. ASSUME NEW i \in DOMAIN made \ unheard'
        PROVE  SecretSeen(i)'
    <3>1. i \notin unheard /\ ~Waited(i)
      BY <1>1, <1>9
    <3> QED
      BY <1>1, <3>1, SecretsStay
  <2>2. \A i : InList(i)'
    BY <1>1, <1>4 DEF InList, GateShown, ReadAsked, NoRead
  <2> QED
    BY <1>1, <2>1, <2>2 DEF ResultsShown
<1> QED
  BY <1>6, <1>7, <1>11, <1>12, <1>13 DEF FlowInv

-----------------------------------------------------------------------------
(* The theorems. *)

LEMMA FlowNextKeeps ==
  ASSUME FlowInv, FlowNext
  PROVE  FlowInv'
<1>1. CASE OpenWizard
  BY <1>1, OpenWizardKeeps
<1>2. CASE UpdateData
  BY <1>2, UpdateDataKeeps
<1>3. CASE GoNext
  BY <1>3, GoNextKeeps
<1>4. CASE GoBack
  BY <1>4, GoBackKeeps
<1>5. CASE Cancel
  BY <1>5, CancelKeeps
<1>6. CASE Submit
  BY <1>6, SubmitKeeps
<1>7. CASE CompleteOnboarding
  BY <1>7, CompleteOnboardingKeeps
<1>8. CASE AddCredential
  BY <1>8, AddCredentialKeeps
<1>9. CASE ChangeRow
  BY <1>9, ChangeRowKeeps
<1>10. ASSUME NEW c \in calls,
              Serve(c) \/ Answer(c) \/ AnswerNobody(c) \/ AnswerCredential(c) \/ PickCredential(c) \/ Fail(c)
       PROVE  FlowInv'
  BY <1>10, ServeKeeps, AnswerKeeps, AnswerNobodyKeeps, AnswerCredentialKeeps, PickCredentialKeeps, FailKeeps
<1>11. CASE SavedCredential
  BY <1>11, SavedCredentialKeeps
<1>12. CASE SavedToken
  BY <1>12, SavedTokenKeeps
<1>13. CASE ReadList
  BY <1>13, ReadListKeeps
<1>14. CASE ShowList
  BY <1>14, ShowListKeeps
<1>15. CASE Tick
  BY <1>15, TickKeeps
<1>16. CASE Revisit
  BY <1>16, RevisitKeeps
<1>17. ASSUME NEW p \in Pages, Visit(p)
       PROVE  FlowInv'
  BY <1>17, VisitKeeps
<1> QED
  BY <1>1, <1>2, <1>3, <1>4, <1>5, <1>6, <1>7, <1>8, <1>9, <1>10, <1>11, <1>12, <1>13, <1>14,
     <1>15, <1>16, <1>17 DEF FlowNext

LEMMA FlowStutters ==
  ASSUME FlowInv, UNCHANGED flowVars
  PROVE  FlowInv'
<1>1. /\ UNCHANGED <<page, visit, wizard, calls, made, unheard, displayed, gate, fate, confirmed>>
      /\ list' = list /\ read' = read /\ screen' = screen
  BY DEF flowVars
<1>2. \A i : InList(i) => InList(i)'
  BY <1>1, SamePlace DEF InList, NoRead, MayMiss, Mounted
<1> QED
  BY <1>1, <1>2, ListParts, ListReadKeeps

LEMMA FlowInvHolds == FlowSpec => []FlowInv
<1>1. FlowInit => FlowInv
  BY FlowStart
<1>2. FlowInv /\ [FlowNext]_flowVars => FlowInv'
  BY FlowNextKeeps, FlowStutters
<1> QED
  BY <1>1, <1>2, PTL DEF FlowSpec

\* The state of the tab is well formed: page, wizard, positions and fates fit
\* together whatever was clicked and answered.
THEOREM FlowTypesHold == FlowSpec => []FlowTypeOK
<1>1. FlowInv => FlowTypeOK
  <2>1. SUFFICES ASSUME FlowInv PROVE FlowTypeOK
    OBVIOUS
  <2>2. read \in [at : {"none", "asked", "back"}, upto : 0..Len(made)]
    BY <2>1, ListParts DEF NoRead, ReadAsked
  <2>3. DOMAIN confirmed = DOMAIN fate
    BY <2>1 DEF FlowInv, FlowShapes
  <2> QED
    BY <2>1, <2>2, <2>3, ListParts DEF FlowTypeOK, FlowInv, FlowShapes, WizardFits
<1> QED
  BY <1>1, FlowInvHolds, PTL

\* A wizard asks the server for one thing more than the answers it lost at most,
\* for nothing while it is filled in or after it was left, and never for
\* something incomplete: Cancel, retries and late answers of useWizard.
THEOREM NothingIsLeftBehind == FlowSpec => []AbandonedLeavesNothing
<1>1. FlowInv => AbandonedLeavesNothing
  <2>1. SUFFICES ASSUME FlowInv PROVE AbandonedLeavesNothing
    OBVIOUS
  <2>2. ASSUME NEW n \in DOMAIN fate
        PROVE  /\ Cardinality(MadeBy(n) \ unheard)
                    <= (IF fate[n] \in {"done", "welcomed", "unread", "left busy"} \/ (Mounted(n) /\ wizard.busy)
                        THEN 1 ELSE 0)
               /\ Cardinality(MadeBy(n)) <= confirmed[n]
               /\ fate[n] = "done" => MadeBy(n) # {}
    <3>1. CallOwned(n) /\ DeedOwned(n) /\ Paid(n) /\ confirmed[n] \in Nat
      BY <2>1, OpenedParts
    <3>2. Told(n) # {} =>
            fate[n] \in {"done", "welcomed", "unread", "left busy"} \/ (Mounted(n) /\ wizard.busy)
      <4>1. SUFFICES ASSUME NEW i \in Told(n)
                     PROVE  \/ fate[n] \in {"done", "welcomed", "unread", "left busy"}
                            \/ Mounted(n) /\ wizard.busy
        OBVIOUS
      <4>2. Own(n) # {} \/ Settled(n)
        BY <3>1, <4>1 DEF DeedOwned
      <4> QED
        BY <3>1, <4>2 DEF CallOwned, Waits, Settled
    <3>3. Cardinality(Told(n)) <= 1 /\ Cardinality(Told(n)) \in Nat
      <4>1. \A i, j \in Told(n) : i = j
        BY <3>1 DEF DeedOwned
      <4> QED
        BY <4>1, AtMostOne
    <3>4. Told(n) = {} => Cardinality(Told(n)) = 0
      BY FS_EmptySet
    <3>5. Cardinality(MadeBy(n) \ unheard)
            <= (IF fate[n] \in {"done", "welcomed", "unread", "left busy"} \/ (Mounted(n) /\ wizard.busy)
                THEN 1 ELSE 0)
      <4>1. CASE Told(n) = {}
        <5>1. Cardinality(MadeBy(n) \ unheard) = 0
          BY <3>4, <4>1 DEF Told
        <5> QED
          BY <5>1
      <4>2. CASE Told(n) # {}
        <5>1. Cardinality(MadeBy(n) \ unheard) <= 1
          BY <3>3 DEF Told
        <5> QED
          BY <3>2, <4>2, <5>1
      <4> QED
        BY <4>1, <4>2
    <3>6. Cardinality(MadeBy(n)) <= confirmed[n]
      <4>1. Cardinality(MadeBy(n)) \in Nat
        BY <2>1, DeedsFinite
      <4> QED
        BY <3>1, <4>1 DEF Paid
    <3> QED
      BY <3>1, <3>5, <3>6 DEF DeedOwned
  <2>3. ASSUME NEW i \in DOMAIN made, made[i].kind \notin {"row", "credential"}
        PROVE  Complete(made[i].kind, made[i].data)
    <3>0. made[i] \in Deeds
      BY <2>1 DEF FlowInv, FlowShapes
    <3>1. DeedFits(made[i]) /\ made[i].kind \in WizardKinds
      BY <2>1, <2>3, <3>0 DEF CallKinds, Deeds, FlowInv, DeedsFit
    <3> QED
      BY <3>1 DEF DeedFits
  <2>4. gate.completed = "here" => \E n \in DOMAIN fate : fate[n] = "welcomed" /\ confirmed[n] > 0
    BY <2>1 DEF FlowInv, GateFits
  <2> QED
    BY <2>2, <2>3, <2>4 DEF AbandonedLeavesNothing
<1> QED
  BY <1>1, FlowInvHolds, PTL

\* What the pages' handlers were told is on the screen: one-time secrets were
\* shown, and a list that is not being read lacks only what its page still owes.
THEOREM ResultsAreShown == FlowSpec => []ResultIsShown
<1>1. FlowInv => ResultIsShown
  <2>1. SUFFICES ASSUME FlowInv, NEW i \in DOMAIN made \ unheard
                 PROVE  \/ \E c \in calls : c.made = i
                        \/ LET n == made[i].n IN
                           /\ made[i].kind \in {"device", "provider"} =>
                                i \in displayed \/ (made[i].kind = "device" /\ fate[n] = "left busy")
                           /\ made[i].kind \notin {"credential", "onboarding"} /\ ~GateShown /\ read = NoRead /\ i > list =>
                                \/ made[i].kind = "device" /\ (fate[n] \in {"unread", "left busy"} \/ Mounted(n))
                                \/ made[i].kind = "provider" /\ screen # 0
    BY DEF ResultIsShown
  <2>2. Waited(i) \/ (SecretSeen(i) /\ InList(i))
    BY <2>1 DEF FlowInv, ResultsShown
  <2> QED
    BY <2>2 DEF Waited, SecretSeen, InList, MayMiss
<1> QED
  BY <1>1, FlowInvHolds, PTL

\* What a step may do to a wizard that is mounted.
StaysAsTyped ==
  /\ wizard' # NoWizard /\ wizard'.n = wizard.n
  /\ calls' # calls =>
       /\ wizard'.step = wizard.step
       /\ \A field \in FieldsOf(wizard.kind) :
            wizard'.data[field] # wizard.data[field] =>
              field = "credential" /\ \E c \in calls \ calls' : c.at = "listing"
GoesForItsCall ==
  \E c \in calls \ calls' :
    /\ c.at = "done"
    /\ \/ c.n = wizard.n
       \/ fate[c.n] = "left busy" /\ page \in {"actions", "agents"} /\ c.visit = visit
       \/ fate[c.n] = "left busy" /\ c.kind = "onboarding" /\ page' # page
WorkStays ==
  wizard # NoWizard =>
    \/ StaysAsTyped
    \/ Cancel \/ SavedCredential \/ Revisit \/ CompleteOnboarding \/ \E p \in Pages : Visit(p)
    \/ GoesForItsCall

LEMMA SameWizardStays ==
  ASSUME wizard # NoWizard, wizard' = wizard
  PROVE  StaysAsTyped
BY DEF StaysAsTyped

\* A step of the mounted wizard's owner changes no call, or no field.
LEMMA FillingStays ==
  ASSUME FlowInv, wizard # NoWizard, UpdateData \/ GoNext \/ GoBack \/ Submit
  PROVE  StaysAsTyped
<1>1. wizard \in Wizards /\ wizard.kind \in WizardKinds /\ wizard.data \in Data(wizard.kind)
  BY WizardParts
<1>2. CASE UpdateData
  <2>1. PICK field \in StepsOf(wizard.kind)[wizard.step] :
          \E v \in Choices(field) \ {wizard.data[field]} : wizard' = [wizard EXCEPT !.data[field] = v]
    BY <1>2 DEF UpdateData
  <2>2. PICK v \in Choices(field) : wizard' = [wizard EXCEPT !.data[field] = v]
    BY <2>1
  <2>3. PICK data : data = [wizard.data EXCEPT ![field] = v]
    OBVIOUS
  <2>4. data \in UNION {Data(kind) : kind \in Kinds}
    <3>1. v \in Values \cup {Empty, "chosen", "agent_initiated"}
      BY SomeFieldChosen
    <3>2. data \in Data(wizard.kind)
      BY <1>1, <2>3, <3>1, DataChanged
    <3> QED
      BY <1>1, <3>2, FlowKindsAre
  <2>5. wizard' = [wizard EXCEPT !.data = data]
    BY <1>1, <2>2, <2>3 DEF Wizards
  <2>6. wizard' \in Wizards /\ wizard'.n = wizard.n
    BY <1>1, <2>4, <2>5 DEF Wizards
  <2>7. calls' = calls
    BY <1>2 DEF UpdateData
  <2> QED
    BY <2>6, <2>7, WizardIsOne DEF StaysAsTyped
<1>3. CASE GoNext \/ GoBack
  <2>1. PICK step : step \in Nat /\ wizard' = [wizard EXCEPT !.step = step]
    <3>1. wizard.step \in Nat /\ wizard.step + 1 \in Nat
      BY <1>1 DEF Wizards
    <3>2. CASE GoNext
      BY <3>1, <3>2 DEF GoNext
    <3>3. CASE GoBack
      <4>1. wizard.step > 1 /\ wizard' = [wizard EXCEPT !.step = wizard.step - 1]
        BY <3>3 DEF GoBack
      <4>2. wizard.step - 1 \in Nat
        BY <3>1, <4>1
      <4> QED
        BY <4>1, <4>2
    <3> QED
      BY <1>3, <3>2, <3>3
  <2>2. wizard' \in Wizards /\ wizard'.n = wizard.n
    BY <1>1, <2>1 DEF Wizards
  <2>3. calls' = calls
    BY <1>3 DEF GoNext, GoBack
  <2> QED
    BY <2>2, <2>3, WizardIsOne DEF StaysAsTyped
<1>4. CASE Submit
  <2>1. wizard' = [wizard EXCEPT !.busy = TRUE]
    BY <1>4 DEF Submit
  <2>2. /\ wizard' \in Wizards /\ wizard'.n = wizard.n /\ wizard'.step = wizard.step
        /\ wizard'.data = wizard.data
    BY <1>1, <2>1 DEF Wizards
  <2> QED
    BY <2>2, WizardIsOne DEF StaysAsTyped
<1> QED
  BY <1>2, <1>3, <1>4

\* An answer keeps the wizard, or is its own, that of one left on this visit, or
\* that of the dismissed first-run flow which leads to another page.
LEMMA AnswerStays ==
  ASSUME FlowInv, wizard # NoWizard, NEW c \in calls, Answer(c)
  PROVE  StaysAsTyped \/ GoesForItsCall
<1>1. c.at = "done" /\ calls' = calls \ {c} /\ c \in calls \ calls'
  BY DEF Answer
<1>2. CASE RowDone(c)
  BY <1>2, SameWizardStays DEF RowDone
<1>3. CASE DeviceDone(c)
  <2>1. CASE Mounted(c.n)
    <3>1. wizard' = [wizard EXCEPT !.busy = FALSE, !.secret = c.made]
      BY <1>3, <2>1 DEF DeviceDone
    <3>2. wizard \in Wizards /\ c.made \in Nat
      BY CallPages, WizardParts DEF FlowCalls
    <3>3. wizard' \in Wizards
      BY <3>1, <3>2 DEF Wizards
    <3>4. wizard'.n = wizard.n /\ wizard'.step = wizard.step /\ wizard'.data = wizard.data
      BY <3>1, <3>2 DEF Wizards
    <3> QED
      BY <3>3, <3>4, WizardIsOne DEF StaysAsTyped
  <2>2. CASE ~Mounted(c.n)
    BY <1>3, <2>2, SameWizardStays DEF DeviceDone
  <2> QED
    BY <2>1, <2>2
<1>4. CASE ActionDone(c) \/ ProviderDone(c)
  <2>1. c.kind \in {"attach", "edit", "provider"} /\ c.kind \in WizardKinds /\ c.visit = visit
    BY <1>4 DEF ActionDone, ProviderDone, WizardKinds, Answer, Heard
  <2>2. Mounted(c.n) \/ fate[c.n] = "left busy"
    BY <2>1, WaitingFate
  <2>3. page \in {"actions", "agents"}
    BY <2>1, CallPages
  <2> QED
    BY <1>1, <2>1, <2>2, <2>3 DEF GoesForItsCall, Mounted
<1>5. CASE OnboardingDone(c)
  <2>1. c.kind = "onboarding" /\ c.kind \in WizardKinds
    BY <1>5 DEF OnboardingDone, WizardKinds
  <2>2. CASE Mounted(c.n)
    BY <1>1, <2>2 DEF GoesForItsCall, Mounted
  <2>3. CASE ~Mounted(c.n)
    <3>1. fate[c.n] = "left busy" /\ ~GateShown
      BY <2>1, <2>3, WaitingFate DEF FlowInv, GateFits
    <3>2. wizard' = wizard \/ page' # page
      BY <1>5, <3>1 DEF OnboardingDone, Welcome, OpenPage
    <3> QED
      BY <1>1, <2>1, <3>1, <3>2, SameWizardStays DEF GoesForItsCall
  <2> QED
    BY <2>2, <2>3
<1> QED
  BY <1>2, <1>3, <1>4, <1>5 DEF Answer

\* The credential an added one picks is the only field a call changes.
LEMMA PickStays ==
  ASSUME FlowInv, wizard # NoWizard, NEW c \in calls, PickCredential(c)
  PROVE  StaysAsTyped
<1>1. /\ c.at = "listing" /\ calls' = calls \ {c}
      /\ wizard' = IF Mounted(c.n) THEN [wizard EXCEPT !.data["credential"] = "chosen"] ELSE wizard
  BY DEF PickCredential
<1>2. CASE Mounted(c.n)
  <2>1. wizard \in Wizards /\ wizard.kind \in WizardKinds /\ wizard.data \in Data(wizard.kind)
    BY WizardParts
  <2>2. PICK data : data = [wizard.data EXCEPT !["credential"] = "chosen"]
    OBVIOUS
  <2>3. data \in UNION {Data(kind) : kind \in Kinds}
    BY <2>1, <2>2, DataChanged, FlowKindsAre
  <2>4. wizard' = [wizard EXCEPT !.data = data]
    BY <1>1, <1>2, <2>1, <2>2 DEF Wizards
  <2>5. wizard' \in Wizards /\ wizard'.n = wizard.n /\ wizard'.step = wizard.step /\ wizard'.data = data
    BY <2>1, <2>3, <2>4 DEF Wizards
  <2>6. \A field \in FieldsOf(wizard.kind) : field # "credential" => data[field] = wizard.data[field]
    BY <2>1, <2>2 DEF Data
  <2> QED
    BY <1>1, <2>5, <2>6, WizardIsOne DEF StaysAsTyped
<1>3. CASE ~Mounted(c.n)
  BY <1>1, <1>3, SameWizardStays
<1> QED
  BY <1>2, <1>3

LEMMA FailStays ==
  ASSUME FlowInv, wizard # NoWizard, NEW c \in calls, Fail(c)
  PROVE  StaysAsTyped
<1>1. wizard' = IF Mounted(c.n) /\ c.kind # "credential" THEN [wizard EXCEPT !.busy = FALSE] ELSE wizard
  BY DEF Fail
<1>2. CASE Mounted(c.n) /\ c.kind # "credential"
  <2>1. wizard \in Wizards /\ wizard' = [wizard EXCEPT !.busy = FALSE]
    BY <1>1, <1>2, WizardParts
  <2>2. wizard' \in Wizards
    BY <2>1 DEF Wizards
  <2>3. wizard'.n = wizard.n /\ wizard'.step = wizard.step /\ wizard'.data = wizard.data
    BY <2>1 DEF Wizards
  <2> QED
    BY <2>2, <2>3, WizardIsOne DEF StaysAsTyped
<1>3. CASE ~(Mounted(c.n) /\ c.kind # "credential")
  BY <1>1, <1>3, SameWizardStays
<1> QED
  BY <1>2, <1>3

\* No answer, refusal or late credential takes what the owner typed into a
\* wizard that is open, but the late success of a wizard left on this visit and
\* of the dismissed first-run flow: the handlers of the pages, of the target
\* step, and the navigation of OnboardingWizard.
THEOREM TypedWorkIsKept == FlowSpec => WorkIsKept
<1>1. FlowInv /\ [FlowNext]_flowVars => WorkStays \/ UNCHANGED flowVars
  <2>1. SUFFICES ASSUME FlowInv, FlowNext, wizard # NoWizard
                 PROVE  WorkStays
    BY DEF WorkStays
  <2>2. CASE UpdateData \/ GoNext \/ GoBack \/ Submit
    BY <2>1, <2>2, FillingStays DEF WorkStays
  <2>3. CASE Cancel \/ SavedCredential \/ Revisit \/ CompleteOnboarding \/ \E p \in Pages : Visit(p)
    BY <2>3 DEF WorkStays
  <2>4. CASE AddCredential \/ ReadList \/ ShowList \/ Tick
    <3>1. wizard' = wizard
      BY <2>4 DEF AddCredential, ReadList, ShowList, Tick
    <3> QED
      BY <2>1, <3>1, SameWizardStays DEF WorkStays
  <2>5. CASE OpenWizard \/ ChangeRow \/ SavedToken
    BY <2>1, <2>5 DEF OpenWizard, ChangeRow, SavedToken
  <2>6. ASSUME NEW c \in calls,
               Serve(c) \/ Answer(c) \/ AnswerNobody(c) \/ AnswerCredential(c) \/ PickCredential(c) \/ Fail(c)
        PROVE  WorkStays
    <3>1. CASE Serve(c) \/ AnswerCredential(c) \/ AnswerNobody(c)
      <4>1. wizard' = wizard
        BY <3>1 DEF Serve, AnswerCredential, AnswerNobody
      <4> QED
        BY <2>1, <4>1, SameWizardStays DEF WorkStays
    <3>2. CASE Answer(c)
      BY <2>1, <3>2, AnswerStays DEF WorkStays
    <3>3. CASE PickCredential(c)
      BY <2>1, <3>3, PickStays DEF WorkStays
    <3>4. CASE Fail(c)
      BY <2>1, <3>4, FailStays DEF WorkStays
    <3> QED
      BY <2>6, <3>1, <3>2, <3>3, <3>4
  <2> QED
    BY <2>1, <2>2, <2>3, <2>4, <2>5, <2>6 DEF FlowNext
<1>2. FlowInv /\ [FlowNext]_flowVars => [WorkStays]_flowVars
  BY <1>1
<1> QED
  BY <1>2, FlowInvHolds, PTL DEF FlowSpec, WorkIsKept, WorkStays, StaysAsTyped, GoesForItsCall

=============================================================================
