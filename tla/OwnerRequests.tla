--------------------------- MODULE OwnerRequests ---------------------------
(* The requests by which an owner sets up an account: devices, provider *)
(* credentials, Traefik providers and their tokens, actions, and the channel *)
(* of the notifications; and the administrator's device limit. A handler *)
(* loads streams one after the other, decides, and appends one event. *)
(* Requests run side by side. The append to a device, an action, a credential, *)
(* the channel or the account fails when the stream has grown since it was *)
(* loaded; that to a provider never does, ProviderStore.append loads again. *)
(* A request refused by what it loads first changes nothing and is left out; *)
(* so are the addresses, secrets and provider calls of the other modules. *)
EXTENDS Naturals, FiniteSets

CONSTANTS
  Requests,     \* each handles one request; what it creates has its name
  MayAsk,       \* the kinds each request may be of (a bound)
  Devices, Credentials, Providers, Actions,   \* there from the start
  DeviceOf, TargetOf,  \* of the actions there from the start
  Names,        \* labels of credentials, names of providers
  Limits,       \* device limits an account may have
  MaxTokens,    \* MAX_ACTIVE_TOKENS
  None

Resources == Credentials \cup Providers \cup Requests  \* what an action names
DeviceIds == Devices \cup Requests
ActionIds == Actions \cup Requests

ASSUME OwnerRequestsAssumption ==
  /\ Limits \subseteq Nat
  /\ MaxTokens \in Nat \ {0}
  /\ None \notin Requests \cup Names \cup Resources
  /\ Credentials \cap Providers = {}
  /\ Requests \cap (Devices \cup Credentials \cup Providers \cup Actions) = {}
  /\ DeviceOf \in [Actions -> Devices]
  /\ TargetOf \in [Actions -> Credentials \cup Providers]
  \* Made one after the other, so no device was delivered to a provider twice.
  /\ \A a, b \in Actions :
       TargetOf[a] \in Providers /\ TargetOf[a] = TargetOf[b] /\ DeviceOf[a] = DeviceOf[b] => a = b

VARIABLES
  account,   \* the device limit and the length of the account's stream
  channel,   \* the notification channel
  device, resource, action,   \* the folds of the streams
  shown,     \* the Redis projections: the status the lists show of an object
  due,       \* providers whose content changed since they were last scheduled
  req        \* what each request asks for and how far it is

vars == <<account, channel, device, resource, action, shown, due, req>>
streams == <<account, channel, device, resource, action>>

\* What is asked for; "id" is the object, or what the action is to name.
Asks ==
  [kind : {"register"}] \cup [kind : {"limit"}, to : Limits]
    \cup [kind : {"device"}, id : DeviceIds, to : {"enabled", "disabled", "decommissioned"}]
    \cup [kind : {"create"}, what : {"credential", "provider"}, name : Names]
    \cup [kind : {"rename"}, id : Resources, name : Names]
    \cup [kind : {"remove", "issue"}, id : Resources]
    \cup [kind : {"withdraw"}, id : Resources, token : Resources]
    \cup [kind : {"attach"}, device : DeviceIds, id : Resources]
    \cup [kind : {"reconfigure"}, action : ActionIds, id : Resources]
    \cup [kind : {"action"}, action : ActionIds, to : {"enabled", "disabled", "detached"}]
    \cup [kind : {"channel"}, to : {"registered", "reconfigured", "revoked"}]

-----------------------------------------------------------------------------
(* What the streams say. *)

Live(d) == device[d].status \in {"enabled", "disabled"}
Attached(a) == action[a].status \in {"enabled", "disabled"}
Active(x) == resource[x].status = "active"
IsProvider(x) == resource[x].kind = "provider"

\* buildSnapshotContent: the enabled devices whose enabled actions name p.
Content(p, devs, acts) ==
  {d \in DeviceIds :
     /\ devs[d].status = "enabled"
     /\ \E a \in ActionIds :
          acts[a].status = "enabled" /\ acts[a].device = d /\ acts[a].target = p}

Init ==
  /\ account \in [limit : Limits, version : {1}]
  /\ channel = [status |-> "none", version |-> 0]
  /\ device = [d \in DeviceIds |->
       IF d \in Devices THEN [status |-> "enabled", version |-> 1]
                        ELSE [status |-> "none", version |-> 0]]
  /\ \E name \in [Credentials \cup Providers -> Names] :
       /\ \A x, y \in Credentials \cup Providers :
            name[x] = name[y] /\ (x \in Providers <=> y \in Providers) => x = y
       /\ resource = [x \in Resources |->
            IF x \in Requests
              THEN [kind |-> "none", status |-> "none", name |-> None, tokens |-> {}, by |-> None]
              ELSE [kind |-> IF x \in Providers THEN "provider" ELSE "credential",
                    status |-> "active", name |-> name[x],
                    tokens |-> IF x \in Providers THEN {x} ELSE {}, by |-> None]]
  /\ action = [a \in ActionIds |->
       IF a \in Actions
         THEN [status |-> "enabled", device |-> DeviceOf[a], target |-> TargetOf[a],
               version |-> 1, by |-> None]
         ELSE [status |-> "none", device |-> None, target |-> None,
               version |-> 0, by |-> None]]
  /\ shown = [device |-> [d \in DeviceIds |-> device[d].status],
              action |-> [a \in ActionIds |-> action[a].status]]
  /\ due = {}
  /\ req = [r \in Requests |->
       [pc |-> "new", ask |-> None, seen |-> None, todo |-> {}, found |-> {}, beside |-> {}]]

-----------------------------------------------------------------------------
(* Loading. "beside" of a request (history) holds the requests that were under *)
(* way when it began or began while it was. *)

UnderWay == {r \in Requests : req[r].pc \notin {"new", "done"}}

\* The first load of a handler, with what it keeps of it.
Begin(r, ask, seen, pc) ==
  /\ ask.kind \in MayAsk[r]
  /\ req' = [q \in Requests |->
       IF q = r
         THEN [req[r] EXCEPT !.ask = ask, !.seen = seen, !.pc = pc, !.beside = UnderWay]
       ELSE IF q \in UnderWay
         THEN [req[q] EXCEPT !.beside = @ \cup {r}]
       ELSE req[q]]
  /\ UNCHANGED <<streams, shown, due>>

LoadAccount(r) ==
  \/ Begin(r, [kind |-> "register"], account, "list")
  \/ \E n \in Limits : Begin(r, [kind |-> "limit", to |-> n], account, "append")

LoadChannel(r) ==
  \E to \in {"registered", "reconfigured", "revoked"} :
    /\ (channel.status = "active") <=> (to # "registered")
    /\ Begin(r, [kind |-> "channel", to |-> to], channel, "append")

LoadDevice(r) ==
  \/ \E d \in DeviceIds, to \in {"enabled", "disabled", "decommissioned"} :
       /\ Live(d)
       /\ Begin(r, [kind |-> "device", id |-> d, to |-> to], device[d], "append")
  \/ \E d \in DeviceIds, p \in Resources :
       /\ Live(d) /\ IsProvider(p)
       /\ Begin(r, [kind |-> "attach", device |-> d, id |-> p], device[d], "provider")

\* A DNS or firewall action is attached whatever state the device is in.
LoadCredential(r) ==
  \E c \in Resources :
    /\ Active(c) /\ ~IsProvider(c)
    /\ \/ Begin(r, [kind |-> "remove", id |-> c], resource[c], "list")
       \/ \E d \in DeviceIds : device[d].status # "none"
            /\ Begin(r, [kind |-> "attach", device |-> d, id |-> c], resource[c], "append")

LoadProvider(r) ==
  \E p \in Resources :
    /\ Active(p) /\ IsProvider(p)
    /\ \/ \E n \in Names \ {resource[p].name} :
            Begin(r, [kind |-> "rename", id |-> p, name |-> n], resource[p], "list")
       \/ Begin(r, [kind |-> "remove", id |-> p], resource[p], "list")
       \/ /\ Cardinality(resource[p].tokens) < MaxTokens
          /\ Begin(r, [kind |-> "issue", id |-> p], resource[p], "append")
       \/ \E t \in resource[p].tokens :
            Begin(r, [kind |-> "withdraw", id |-> p, token |-> t], resource[p], "append")

LoadAction(r) ==
  \E a \in ActionIds :
    \/ \E to \in {"enabled", "disabled", "detached"} :
         /\ Attached(a)
         /\ Begin(r, [kind |-> "action", action |-> a, to |-> to], action[a], "append")
    \/ \E x \in Resources :
         /\ action[a].status # "none"
         /\ resource[x].kind = resource[action[a].target].kind
         /\ Begin(r, [kind |-> "reconfigure", action |-> a, id |-> x], action[a],
                  resource[x].kind)
    \/ /\ action[a].status # "none"   \* other address families, no config: no check
       /\ Begin(r, [kind |-> "reconfigure", action |-> a, id |-> action[a].target],
                action[a], "append")

NameNew(r) ==
  \E what \in {"credential", "provider"}, n \in Names :
    Begin(r, [kind |-> "create", what |-> what, name |-> n], None, "list")

-----------------------------------------------------------------------------
Goto(r, pc) == req' = [req EXCEPT ![r].pc = pc]
Refuse(r) == Goto(r, "done")

\* The second load: what the action is to name must be active.
CheckTarget(r) ==
  /\ req[r].pc \in {"provider", "credential"}
  /\ IF ~Active(req[r].ask.id) THEN Refuse(r)
     ELSE Goto(r, IF req[r].pc = "provider" THEN "list" ELSE "append")
  /\ UNCHANGED <<streams, shown, due>>

\* Mutant: a disabled action does not count.
NotDetachedEnabled(a) == action[a].status = "enabled"
NotDetached(a) == action[a].status # "detached"

\* The streams a handler goes through, and those it counts. After its append a
\* request about a device looks for the providers the device delivers to.
Listed(ask) ==
  CASE ask.kind = "register" -> {d \in DeviceIds : device[d].status # "none"}
    [] ask.kind = "create" -> {x \in Resources : resource[x].kind = ask.what}
    [] ask.kind = "rename" -> {x \in Resources : IsProvider(x)}
    [] OTHER -> {a \in ActionIds : action[a].status # "none"}

Counts(r, x) ==
  LET ask == req[r].ask IN
  CASE ask.kind = "register" -> Live(x)
    [] ask.kind = "create" -> Active(x) /\ resource[x].name = ask.name
    [] ask.kind = "rename" -> Active(x) /\ resource[x].name = ask.name /\ x # ask.id
    [] ask.kind = "remove" -> NotDetached(x) /\ action[x].target = ask.id
    [] ask.kind = "attach" ->
         NotDetached(x) /\ action[x].device = ask.device /\ action[x].target = ask.id
    [] ask.kind = "reconfigure" ->
         /\ NotDetached(x) /\ x # ask.action
         /\ action[x].device = req[r].seen.device /\ action[x].target = ask.id
    [] ask.kind = "device" ->
         NotDetached(x) /\ action[x].device = ask.id /\ IsProvider(action[x].target)

List(r) ==
  /\ req[r].pc \in {"list", "find"}
  /\ req' = [req EXCEPT ![r].todo = Listed(req[r].ask), ![r].found = {},
                        ![r].pc = IF req[r].pc = "list" THEN "read" ELSE "collect"]
  /\ UNCHANGED <<streams, shown, due>>

ReadNext(r) ==
  /\ req[r].pc \in {"read", "collect"}
  /\ \E x \in req[r].todo :
       req' = [req EXCEPT ![r].todo = @ \ {x},
         ![r].found = IF ~Counts(r, x) THEN @
                      ELSE @ \cup {IF req[r].pc = "read" THEN x ELSE action[x].target}]
  /\ UNCHANGED <<streams, shown, due>>

\* Mutant: one more than the limit.
DecideTooLate(r) ==
  /\ req[r].pc = "read" /\ req[r].todo = {}
  /\ IF Cardinality(req[r].found) >
          (IF req[r].ask.kind = "register" THEN req[r].seen.limit ELSE 0)
       THEN Refuse(r)
       ELSE Goto(r, "append")
  /\ UNCHANGED <<streams, shown, due>>

\* Limit reached, name or device taken, in use: 409.
Decide(r) ==
  /\ req[r].pc = "read" /\ req[r].todo = {}
  /\ IF Cardinality(req[r].found) >=
          (IF req[r].ask.kind = "register" THEN req[r].seen.limit ELSE 1)
       THEN Refuse(r)
       ELSE Goto(r, "append")
  /\ UNCHANGED <<streams, shown, due>>

-----------------------------------------------------------------------------
(* Appending. *)

\* Mutant: the check is dropped.
FreshUnchecked(r, stream) == TRUE

\* Optimistic concurrency: nothing was appended since the load.
Fresh(r, stream) == stream.version = req[r].seen.version

\* Conflict: append throws, the request fails.
Conflict(r) ==
  /\ req[r].pc = "append"
  /\ LET ask == req[r].ask IN
       \/ ask.kind = "limit" /\ ~Fresh(r, account)
       \/ ask.kind = "channel" /\ ~Fresh(r, channel)
       \/ ask.kind = "device" /\ ~Fresh(r, device[ask.id])
       \/ ask.kind \in {"action", "reconfigure"} /\ ~Fresh(r, action[ask.action])
       \/ ask.kind = "remove" /\ ~IsProvider(ask.id) /\ ~Active(ask.id)
  /\ Refuse(r)
  /\ UNCHANGED <<streams, shown, due>>

Asked(r, kinds) == req[r].pc = "append" /\ req[r].ask.kind \in kinds

\* A step that appends, with the providers whose content it changes.
Appends(r, pc) ==
  /\ due' = due \cup {p \in Resources :
       IsProvider(p) /\ Content(p, device, action) # Content(p, device', action')}
  /\ Goto(r, pc)
  /\ UNCHANGED shown

AppendAccount(r) ==
  /\ Asked(r, {"limit"}) /\ Fresh(r, account)
  /\ account' = [limit |-> req[r].ask.to, version |-> account.version + 1]
  /\ UNCHANGED <<channel, device, resource, action>>
  /\ Appends(r, "done")

AppendChannel(r) ==
  /\ Asked(r, {"channel"}) /\ Fresh(r, channel)
  /\ channel' = [status |-> IF req[r].ask.to = "revoked" THEN "revoked" ELSE "active",
                 version |-> channel.version + 1]
  /\ UNCHANGED <<account, device, resource, action>>
  /\ Appends(r, "done")

Register(r) ==
  /\ Asked(r, {"register"})
  /\ device' = [device EXCEPT ![r] = [status |-> "enabled", version |-> 1]]
  /\ UNCHANGED <<account, channel, resource, action>>
  /\ Appends(r, "reload")

AppendDevice(r) ==
  /\ Asked(r, {"device"})
  /\ LET d == req[r].ask.id IN
       /\ Fresh(r, device[d])
       /\ device' = [device EXCEPT ![d].status = req[r].ask.to, ![d].version = @ + 1]
  /\ UNCHANGED <<account, channel, resource, action>>
  /\ Appends(r, "reload")

\* A credential; or a provider, whose first token is a second append.
Create(r) ==
  /\ Asked(r, {"create"})
  /\ resource' = [resource EXCEPT ![r] =
       [kind |-> req[r].ask.what, status |-> "active", name |-> req[r].ask.name,
        tokens |-> {}, by |-> r]]
  /\ UNCHANGED <<account, channel, device, action>>
  /\ Appends(r, IF req[r].ask.what = "provider" THEN "token" ELSE "done")

FirstToken(r) ==
  /\ req[r].pc = "token"
  /\ resource' = [resource EXCEPT ![r].tokens = @ \cup {r}]
  /\ Goto(r, "done")
  /\ UNCHANGED <<account, channel, device, action, shown, due>>

\* Revoke a credential or delete a provider. Then, as for a withdrawn token, the
\* agent sessions that used it are ended (ProviderSession).
Remove(r) ==
  /\ Asked(r, {"remove"})
  /\ LET x == req[r].ask.id IN
       /\ IsProvider(x) \/ Active(x)
       /\ resource' = [resource EXCEPT ![x].status = "removed", ![x].by = r]
  /\ UNCHANGED <<account, channel, device, action>>
  /\ Appends(r, "done")

ChangeProvider(r) ==
  /\ Asked(r, {"rename", "issue", "withdraw"})
  /\ LET ask == req[r].ask IN
       \/ /\ ask.kind = "rename"
          /\ resource' = [resource EXCEPT ![ask.id].name = ask.name,
               ![ask.id].by = IF Active(ask.id) THEN r ELSE @]
       \/ ask.kind = "issue" /\ resource' = [resource EXCEPT ![ask.id].tokens = @ \cup {r}]
       \/ ask.kind = "withdraw" /\ resource' = [resource EXCEPT ![ask.id].tokens = @ \ {ask.token}]
  /\ UNCHANGED <<account, channel, device, action>>
  /\ Appends(r, "done")

Attach(r) ==
  /\ Asked(r, {"attach"})
  /\ action' = [action EXCEPT ![r] =
       [status |-> "enabled", device |-> req[r].ask.device, target |-> req[r].ask.id,
        version |-> 1, by |-> r]]
  /\ UNCHANGED <<account, channel, device, resource>>
  /\ Appends(r, "reload")

AppendAction(r) ==
  /\ Asked(r, {"action", "reconfigure"})
  /\ LET ask == req[r].ask
         a == ask.action
     IN /\ Fresh(r, action[a])
        /\ \/ /\ ask.kind = "action"
              /\ action' = [action EXCEPT ![a].status = ask.to, ![a].version = @ + 1]
           \/ /\ ask.kind = "reconfigure"
              /\ action' = [action EXCEPT ![a].target = ask.id, ![a].version = @ + 1,
                                          ![a].by = IF ask.id = action[a].target THEN @ ELSE r]
  /\ UNCHANGED <<account, channel, device, resource>>
  /\ Appends(r, "reload")

-----------------------------------------------------------------------------
(* After the append: the projection is written from the reloaded stream, and *)
(* the providers that are concerned are scheduled. *)

About(r) == IF req[r].ask.kind \in {"register", "device"} THEN "device" ELSE "action"

ObjectOf(r) ==
  CASE req[r].ask.kind \in {"register", "attach"} -> r
    [] req[r].ask.kind = "device" -> req[r].ask.id
    [] OTHER -> req[r].ask.action

Reload(r) ==
  /\ req[r].pc = "reload"
  /\ LET o == ObjectOf(r) IN
       req' = [req EXCEPT ![r].pc = "project",
                 ![r].found = {IF About(r) = "device" THEN device[o].status ELSE action[o].status}]
  /\ UNCHANGED <<streams, shown, due>>

\* Mutant: the hdel is missing.
ProjectLiveOnly(r) ==
  /\ req[r].pc = "project"
  /\ \E status \in req[r].found :
       shown' = IF status \in {"detached", "decommissioned"} THEN shown
                ELSE [shown EXCEPT ![About(r)][ObjectOf(r)] = status]
  /\ Goto(r, CASE req[r].ask.kind = "register" -> "done"
               [] req[r].ask.kind = "device" -> "find"
               [] OTHER -> "current")
  /\ UNCHANGED <<streams, due>>

Project(r) ==
  /\ req[r].pc = "project"
  /\ \E status \in req[r].found : shown' = [shown EXCEPT ![About(r)][ObjectOf(r)] = status]
  /\ req' = [req EXCEPT ![r].found = {},
       ![r].pc = CASE req[r].ask.kind = "register" -> "done"
                   [] req[r].ask.kind = "device" -> "find"
                   [] OTHER -> "current"]
  /\ UNCHANGED <<streams, due>>

\* Mutant: only the provider the action names now.
ScheduleDeliveryNow(r) ==
  /\ req[r].pc = "current"
  /\ due' = due \ {action[ObjectOf(r)].target}
  /\ Goto(r, "done")
  /\ UNCHANGED <<streams, shown>>

\* scheduleDelivery: the provider the action named when it was loaded, and the
\* one it names now if it was attached or reconfigured.
ScheduleDelivery(r) ==
  /\ req[r].pc = "current"
  /\ LET now == IF req[r].ask.kind = "action" THEN {} ELSE {action[ObjectOf(r)].target}
         before == IF req[r].ask.kind = "attach" THEN {} ELSE {req[r].seen.target}
     IN due' = due \ (now \cup before)
  /\ Goto(r, "done")
  /\ UNCHANGED <<streams, shown>>

\* scheduleDeviceProviders
ScheduleDevice(r) ==
  /\ req[r].pc = "collect" /\ req[r].todo = {}
  /\ due' = due \ req[r].found
  /\ Goto(r, "done")
  /\ UNCHANGED <<streams, shown>>

Load(r) ==
  /\ req[r].pc = "new"
  /\ \/ LoadAccount(r) \/ LoadChannel(r) \/ LoadDevice(r) \/ LoadCredential(r)
     \/ LoadProvider(r) \/ LoadAction(r) \/ NameNew(r)

Next ==
  \E r \in Requests :
    \/ Load(r)
    \/ CheckTarget(r) \/ List(r) \/ ReadNext(r) \/ Decide(r) \/ Conflict(r)
    \/ AppendAccount(r) \/ AppendChannel(r) \/ Register(r) \/ AppendDevice(r)
    \/ Create(r) \/ FirstToken(r) \/ Remove(r) \/ ChangeProvider(r)
    \/ Attach(r) \/ AppendAction(r)
    \/ Reload(r) \/ Project(r) \/ ScheduleDelivery(r) \/ ScheduleDevice(r)

Spec == Init /\ [][Next]_vars

-----------------------------------------------------------------------------
(* Properties. *)

Statuses == {"none", "enabled", "disabled"}

TypeOK ==
  /\ account \in [limit : Limits, version : Nat]
  /\ channel \in [status : {"none", "active", "revoked"}, version : Nat]
  /\ device \in [DeviceIds -> [status : Statuses \cup {"decommissioned"}, version : Nat]]
  /\ resource \in [Resources -> [kind : {"none", "credential", "provider"},
                                  status : {"none", "active", "removed"},
                                  name : Names \cup {None}, tokens : SUBSET Resources,
                                  by : Requests \cup {None}]]
  /\ action \in [ActionIds -> [status : Statuses \cup {"detached"},
                                device : DeviceIds \cup {None},
                                target : Resources \cup {None},
                                version : Nat, by : Requests \cup {None}]]
  /\ due \subseteq Resources
  /\ \A r \in Requests :
       /\ req[r].pc # "new" => req[r].ask \in Asks
       /\ req[r].pc = "collect" => \A p \in req[r].found : p \in Resources /\ IsProvider(p)
       /\ req[r].beside \subseteq Requests

\* The last requests that named two objects were under way at the same time.
Overlap(r, s) == r \in Requests /\ s \in req[r].beside

\* FR-003 and FR-009 of 004, data-model.md of 008, FR-011: two credentials or
\* providers of one name, two deliveries of one device to one provider, and an
\* action that names a removed credential or provider come only of two requests
\* that overlapped: the checks are made before an await and no append repeats them.
ChecksOverlap ==
  /\ \A x, y \in Resources :
       /\ x # y /\ Active(x) /\ Active(y)
       /\ resource[x].kind = resource[y].kind /\ resource[x].name = resource[y].name
       => Overlap(resource[x].by, resource[y].by)
  /\ \A a, b \in ActionIds :
       /\ a # b /\ Attached(a) /\ Attached(b)
       /\ IsProvider(action[a].target)
       /\ action[a].target = action[b].target /\ action[a].device = action[b].device
       => Overlap(action[a].by, action[b].by)
  /\ \A a \in ActionIds :
       Attached(a) /\ ~Active(action[a].target) =>
         Overlap(action[a].by, resource[action[a].target].by)

\* FR-033 and MAX_ACTIVE_TOKENS: a registration exceeds the limit it has read
\* only beside another one, and so does a token.
LimitsOverlap ==
  /\ [][\A r \in Requests :
          LET live == {d \in DeviceIds : Live(d)} IN
          /\ device[r].status = "none" /\ device'[r].status = "enabled"
          /\ Cardinality(live) >= req[r].seen.limit
          => \E s \in live : Overlap(r, s)]_vars
  /\ [](\A p \in Resources :
          Cardinality(resource[p].tokens) > MaxTokens =>
            \E s, t \in resource[p].tokens : s # t /\ Overlap(s, t))

\* spec.md of 001: a decommissioned device and a detached action never come back,
\* whatever requests loaded them before, and a revoked channel only by a new
\* registration.
EndsAreFinal ==
  [][/\ \A d \in DeviceIds : device[d].status = "decommissioned" =>
          device'[d].status = "decommissioned"
     /\ \A a \in ActionIds : action[a].status = "detached" => action'[a].status = "detached"
     /\ channel.status = "revoked" /\ channel' # channel =>
          \E r \in Requests : /\ req[r].pc = "append" /\ req'[r].pc = "done"
                              /\ req[r].ask = [kind |-> "channel", to |-> "registered"]]_vars

Quiet == UnderWay = {}

\* FR-013: once no request is under way, every provider whose content changed
\* has been scheduled since, however the changes of devices and actions and the
\* reads that look for the providers interleaved.
ChangesAreScheduled == Quiet => due = {}

\* architecture.md: the lists show what the streams say once no request is under
\* way, unless two requests about the object overlapped: between the reload and
\* the write of the projection another one can do both.
Writes(r, what, o) ==
  /\ req[r].pc # "new"
  /\ req[r].ask.kind \in {"register", "device", "attach", "action", "reconfigure"}
  /\ About(r) = what /\ ObjectOf(r) = o

ShownIsCurrent ==
  Quiet =>
    /\ \A d \in DeviceIds : shown.device[d] # device[d].status =>
         \E r, s \in Requests : Writes(r, "device", d) /\ Writes(s, "device", d) /\ Overlap(r, s)
    /\ \A a \in ActionIds : shown.action[a] # action[a].status =>
         \E r, s \in Requests : Writes(r, "action", a) /\ Writes(s, "action", a) /\ Overlap(r, s)
=============================================================================
