----------------------------- MODULE GuidedFlow -----------------------------
(* The guided flows of the web application: wizards that collect an owner's   *)
(* choices, make one call on the last confirmation, and tell the page that    *)
(* opened them.  The state is one browser tab: the page the router shows, the *)
(* mounted wizard with what was typed into it, the calls under way, and the   *)
(* page's own list.  The first-run flow is shown in the place of the page.    *)
(* Closing a dialog or leaving a page unmounts its wizard at once, but a call *)
(* it has made goes on: its answer runs the handlers of a component that is   *)
(* no longer there.                                                           *)
(*                                                                            *)
(* Beyond the model: reads that fail, other tabs (OwnerRequests), and what    *)
(* the server does with a call beyond accepting or refusing it.               *)
EXTENDS Integers, Sequences, FiniteSets

CONSTANTS
  Values,       \* what an owner may type or pick
  Empty,        \* nothing typed
  NoWizard,     \* what is mounted when no wizard is
  MaxOpens,     \* wizards opened
  MaxEdits,     \* fields changed, credentials added inside a wizard, and rows changed
  MaxConfirms,  \* confirmations of all wizards
  MaxFaults,    \* answers or requests lost
  MaxVisits     \* times a page is opened by the owner

VARIABLES
  page,         \* the page the router shows, or would without the first-run flow
  visit,        \* the number of pages opened so far
  wizard,       \* the mounted wizard, or NoWizard
  calls,        \* calls the page's scripts wait for
  made,         \* what the server did, in order
  unheard,      \* positions of made whose answer reached no handler of this page
  displayed,    \* positions of made whose one-time secret was on the screen
  list,         \* how much of made the page's list shows
  read,         \* the list's read under way, and how much of made it has read
  screen,       \* the created provider whose token the page shows, or 0
  gate,         \* the first-run flow: stored as completed, dismissed since the reload
  fate,         \* how each wizard opened so far ended
  confirmed,    \* the number of accepted confirmations of each wizard
  used          \* faults, edits and confirmations so far

flowVars == <<page, visit, wizard, calls, made, unheard, displayed, list, read, screen, gate, fate, confirmed, used>>
place == <<page, visit>>
server == <<made, unheard>>
shows == <<displayed, list, read, screen, gate>>

------------------------------------------------------------------------------

\* "/" and "/ip-clients" are two routes to the list of devices.
Pages == {"home", "devices", "actions", "agents"}
KindsOf(p) == CASE p \in {"home", "devices"} -> {"device"}
                [] p = "actions" -> {"attach", "edit"}
                [] p = "agents"  -> {"provider"}

\* The first-run flow is shown until it was completed once, or dismissed since
\* the reload; the page it stands for is not mounted meanwhile.
GateShown == gate.completed = "never" /\ ~gate.dismissed
Offered == IF GateShown THEN {"onboarding"} ELSE KindsOf(page)

\* The fields each step collects, in the order of the steps.
ActionSteps == << {}, {"credential", "target"}, {"families"}, {} >>
DeviceSteps == << {"name"}, {} >>
ProviderSteps == << {"name"}, {"mode"}, {} >>
OnboardingSteps == << {}, {"addresses"}, {"firstDevice"} >>
StepsOf(kind) == CASE kind \in {"attach", "edit"} -> ActionSteps
                   [] kind = "device"     -> DeviceSteps
                   [] kind = "provider"   -> ProviderSteps
                   [] kind = "onboarding" -> OnboardingSteps

FieldsOf(kind) == UNION {StepsOf(kind)[i] : i \in 1..Len(StepsOf(kind))}
Choices(field) == CASE field = "name" -> Values \cup {Empty}
                    [] field = "mode" -> {"agent_initiated"}
                    [] OTHER -> {"chosen", Empty}

\* A wizard starts with these filled in; a reconfiguration with all of them.
Preset == {"families", "mode", "firstDevice"}
Initially(kind) ==
  [field \in FieldsOf(kind) |->
     IF kind = "edit" \/ field \in Preset THEN CHOOSE v \in Choices(field) : v # Empty ELSE Empty]

Kinds == (UNION {KindsOf(p) : p \in Pages}) \cup {"onboarding"}
Data(kind) == [FieldsOf(kind) -> Values \cup {Empty, "chosen", "agent_initiated"}]
Wizards == [n : Nat, kind : Kinds, step : Nat, data : UNION {Data(kind) : kind \in Kinds},
            busy : BOOLEAN, secret : Nat]

ASSUME GuidedFlowAssumption ==
  /\ Empty \notin Values \cup {"chosen", "agent_initiated"} /\ Values # {}
  /\ NoWizard \notin Wizards
  /\ {MaxOpens, MaxEdits, MaxConfirms, MaxFaults, MaxVisits} \subseteq Nat

\* isValid of a step: whether the wizard may go past it.
IsValid(kind, step, data) ==
  kind # "onboarding" => \A field \in StepsOf(kind)[step] : data[field] # Empty

Opened(kind) ==
  [n |-> Len(fate) + 1, kind |-> kind, step |-> 1, data |-> Initially(kind),
   busy |-> FALSE, secret |-> 0]

NoRead == [at |-> "none", upto |-> 0]
ReadAsked == [at |-> "asked", upto |-> 0]

Mounted(n) == wizard # NoWizard /\ wizard.n = n
Filling == wizard # NoWizard /\ wizard.secret = 0
IsLastStep == wizard.step = Len(StepsOf(wizard.kind))
CanGoNext == IsValid(wizard.kind, wizard.step, wizard.data)

Spend(what) == used' = [used EXCEPT ![what] = @ + 1]

------------------------------------------------------------------------------

FlowTypeOK ==
  /\ page \in Pages /\ visit \in Nat
  /\ wizard # NoWizard =>
       /\ wizard.n \in DOMAIN fate /\ wizard.kind \in Offered
       /\ wizard.step \in 1..Len(StepsOf(wizard.kind))
       /\ wizard.secret \in 0..Len(made)
  /\ unheard \cup displayed \subseteq DOMAIN made
  /\ list \in 0..Len(made)
  /\ read \in [at : {"none", "asked", "back"}, upto : 0..Len(made)]
  /\ screen \in 0..Len(made)
  /\ DOMAIN confirmed = DOMAIN fate

FlowInit ==
  /\ page \in Pages /\ visit = 1
  /\ wizard = NoWizard
  /\ calls = {}
  /\ made = << >>
  /\ unheard = {} /\ displayed = {}
  /\ list = 0
  /\ gate \in [completed : {"never", "earlier"}, dismissed : {FALSE}]
  /\ read = IF GateShown THEN NoRead ELSE ReadAsked
  /\ screen = 0
  /\ fate = << >>
  /\ confirmed = << >>
  /\ used = [faults |-> 0, edits |-> 0, confirms |-> 0]

\* The page mounts a fresh wizard; that of the first-run flow comes by itself.
OpenWizard ==
  /\ wizard = NoWizard /\ Len(fate) < MaxOpens
  /\ \E kind \in Offered : wizard' = Opened(kind)
  /\ fate' = Append(fate, "open")
  /\ confirmed' = Append(confirmed, 0)
  /\ UNCHANGED <<place, calls, server, shows, used>>

\* The owner types into, or picks from, a field of the step shown.
UpdateData ==
  /\ Filling /\ used.edits < MaxEdits
  /\ \E field \in StepsOf(wizard.kind)[wizard.step] : \E v \in Choices(field) \ {wizard.data[field]} :
       wizard' = [wizard EXCEPT !.data[field] = v]
  /\ Spend("edits")
  /\ UNCHANGED <<place, calls, server, shows, fate, confirmed>>

\* A step is left whatever it still misses.
GoNextAnyway ==
  /\ Filling /\ ~IsLastStep
  /\ wizard' = [wizard EXCEPT !.step = @ + 1]
  /\ UNCHANGED <<place, calls, server, shows, fate, confirmed, used>>

GoNext ==
  /\ Filling /\ ~IsLastStep /\ CanGoNext
  /\ wizard' = [wizard EXCEPT !.step = @ + 1]
  /\ UNCHANGED <<place, calls, server, shows, fate, confirmed, used>>

\* Going back is offered while a call is under way, too.
GoBack ==
  /\ Filling /\ wizard.step > 1
  /\ wizard' = [wizard EXCEPT !.step = @ - 1]
  /\ UNCHANGED <<place, calls, server, shows, fate, confirmed, used>>

\* Cancel, Escape or a click outside: the wizard is unmounted, whatever it is
\* waiting for.  The first-run flow is dismissed, and the page mounted instead.
FateOf(w) == IF w.busy THEN "left busy" ELSE IF w.secret # 0 THEN "unread" ELSE "left"
FatesLeft == IF wizard = NoWizard THEN fate ELSE [fate EXCEPT ![wizard.n] = FateOf(wizard)]

Cancel ==
  /\ wizard # NoWizard
  /\ fate' = FatesLeft
  /\ wizard' = NoWizard
  /\ gate' = [gate EXCEPT !.dismissed = @ \/ GateShown]
  /\ read' = IF GateShown THEN ReadAsked ELSE read
  /\ UNCHANGED <<place, calls, server, displayed, list, screen, confirmed, used>>

\* A late answer that closes whatever the page's dialog shows.
CloseDialog(n) ==
  /\ wizard' = NoWizard
  /\ fate' = [m \in DOMAIN fate |->
                CASE m = n -> "done"
                  [] Mounted(m) /\ m # n -> FateOf(wizard)
                  [] OTHER -> fate[m]]

------------------------------------------------------------------------------

\* One confirmation on the last step makes one call, with the data as it is now.
Call(kind, n, data) == [kind |-> kind, n |-> n, data |-> data, visit |-> visit, at |-> "sent", made |-> 0]

Confirm ==
  /\ used.confirms < MaxConfirms /\ Spend("confirms")
  /\ confirmed' = [confirmed EXCEPT ![wizard.n] = @ + 1]

MakesNoCall == wizard.kind = "onboarding" /\ wizard.data["addresses"] = Empty

\* A second click is not turned away.
SubmitAgain ==
  /\ Filling /\ IsLastStep /\ CanGoNext /\ ~MakesNoCall
  /\ wizard' = [wizard EXCEPT !.busy = TRUE]
  /\ Confirm
  /\ calls' = calls \cup {Call(wizard.kind, wizard.n, wizard.data)}
  /\ UNCHANGED <<place, server, shows, fate>>

Submit ==
  /\ Filling /\ IsLastStep /\ CanGoNext /\ ~wizard.busy /\ ~MakesNoCall
  /\ wizard' = [wizard EXCEPT !.busy = TRUE]
  /\ Confirm
  /\ calls' = calls \cup {Call(wizard.kind, wizard.n, wizard.data)}
  /\ UNCHANGED <<place, server, shows, fate>>

\* Another page is mounted: what was on the one before is gone, and the calls
\* it had made are answered to nobody.
OpenPage(p) ==
  /\ page' = p /\ visit' = visit + 1
  /\ wizard' = NoWizard
  /\ list' = 0 /\ screen' = 0 /\ read' = ReadAsked

\* Welcome, but the page is mounted again even if it is there.
WelcomeAfresh(n, data) ==
  /\ gate' = [completed |-> "here", dismissed |-> TRUE]
  /\ OpenPage(IF data["firstDevice"] # Empty THEN "devices" ELSE "home")
  /\ fate' = [FatesLeft EXCEPT ![n] = "welcomed"]

\* The first-run flow n is stored as completed, and the router sent to one of
\* the two routes.  It keeps the page that is there if that is its route.
Welcome(n, data) ==
  LET to == IF data["firstDevice"] # Empty THEN "devices" ELSE "home" IN
  /\ gate' = [completed |-> "here", dismissed |-> TRUE]
  /\ IF page = to /\ ~GateShown
     THEN /\ fate' = [fate EXCEPT ![n] = "welcomed"]
          /\ UNCHANGED <<place, wizard, list, read, screen>>
     ELSE /\ fate' = [FatesLeft EXCEPT ![n] = "welcomed"]
          /\ OpenPage(to)

\* Without addresses it makes no call.
CompleteOnboarding ==
  /\ Filling /\ IsLastStep /\ ~wizard.busy /\ MakesNoCall
  /\ Confirm
  /\ Welcome(wizard.n, wizard.data)
  /\ UNCHANGED <<calls, server, displayed>>

\* A credential is added from inside the target step, in a dialog of its own.
AddCredential ==
  /\ Filling /\ "credential" \in StepsOf(wizard.kind)[wizard.step]
  /\ used.edits < MaxEdits /\ Spend("edits")
  /\ \A c \in calls : c.kind # "credential"
  /\ calls' = calls \cup {Call("credential", wizard.n, wizard.data)}
  /\ UNCHANGED <<place, wizard, server, shows, fate, confirmed>>

\* A row of the list is changed: enabled, disabled, detached, renamed, revoked.
ChangeRow ==
  /\ page \in {"actions", "agents"} /\ wizard = NoWizard
  /\ list > 0 /\ used.edits < MaxEdits /\ Spend("edits")
  /\ calls' = calls \cup {Call("row", 0, << >>)}
  /\ UNCHANGED <<place, wizard, server, shows, fate, confirmed>>

\* The server: a provider's name is taken once, a notification channel exists
\* once; everything else is done as often as it is asked.
Accepts(c) ==
  \A i \in DOMAIN made :
    ~ \/ c.kind = "provider" /\ made[i].kind = "provider" /\ made[i].data["name"] = c.data["name"]
      \/ c.kind = "onboarding" /\ made[i].kind = "onboarding"

Serve(c) ==
  /\ c.at = "sent"
  /\ IF Accepts(c)
     THEN /\ made' = Append(made, [kind |-> c.kind, n |-> c.n, data |-> c.data])
          /\ calls' = (calls \ {c}) \cup {[c EXCEPT !.at = "done", !.made = Len(made) + 1]}
     ELSE /\ calls' = (calls \ {c}) \cup {[c EXCEPT !.at = "refused"]}
          /\ UNCHANGED made
  /\ UNCHANGED <<place, wizard, unheard, shows, fate, confirmed, used>>

------------------------------------------------------------------------------

\* As if the dialogs and lists of all pages were the same.
HeardAnywhere(c) == TRUE

\* A good answer runs the handler of the page that opened the wizard, whether
\* or not that wizard is still there.  If the page is gone nothing is seen of
\* it; the handler of the first-run flow is the frame's around every page.
Heard(c) == c.visit = visit \/ c.kind = "onboarding"

\* An action was attached or changed: the dialog closes and the list is read.
ActionDone(c) ==
  /\ c.kind \in {"attach", "edit"}
  /\ CloseDialog(c.n)
  /\ read' = ReadAsked
  /\ UNCHANGED <<place, displayed, list, screen, gate>>

\* A device was created: its credential is the wizard's own last screen.
DeviceDone(c) ==
  /\ c.kind = "device"
  /\ IF Mounted(c.n)
     THEN /\ wizard' = [wizard EXCEPT !.busy = FALSE, !.secret = c.made]
          /\ fate' = [fate EXCEPT ![c.n] = "done"]
          /\ displayed' = displayed \cup {c.made}
     ELSE UNCHANGED <<wizard, fate, displayed>>
  /\ UNCHANGED <<place, list, read, screen, gate>>

\* As DeviceDone does it: the token is shown by a wizard that is still there.
ProviderDoneInWizard(c) ==
  /\ c.kind = "provider"
  /\ CloseDialog(c.n)
  /\ IF Mounted(c.n)
     THEN screen' = c.made /\ displayed' = displayed \cup {c.made}
     ELSE UNCHANGED <<screen, displayed>>
  /\ UNCHANGED <<place, list, read, gate>>

\* A provider was created: its token is shown by the page.
ProviderDone(c) ==
  /\ c.kind = "provider"
  /\ CloseDialog(c.n)
  /\ screen' = c.made
  /\ displayed' = displayed \cup {c.made}
  /\ UNCHANGED <<place, list, read, gate>>

\* The channel was created.  A flow that was dismissed while it waited is
\* completed all the same, and the page shown by then is left.
OnboardingDone(c) ==
  /\ c.kind = "onboarding"
  /\ Welcome(c.n, c.data)
  /\ UNCHANGED displayed

RowDone(c) ==
  /\ c.kind = "row"
  /\ read' = ReadAsked
  /\ UNCHANGED <<place, wizard, fate, displayed, list, screen, gate>>

Answer(c) ==
  /\ c.at = "done" /\ c.kind # "credential" /\ Heard(c)
  /\ ActionDone(c) \/ DeviceDone(c) \/ ProviderDone(c) \/ OnboardingDone(c) \/ RowDone(c)
  /\ calls' = calls \ {c}
  /\ UNCHANGED <<server, confirmed, used>>

\* The handler runs, on a page that is gone.
AnswerNobody(c) ==
  /\ c.at = "done" /\ c.kind # "credential" /\ ~Heard(c)
  /\ unheard' = unheard \cup {c.made}
  /\ calls' = calls \ {c}
  /\ UNCHANGED <<place, wizard, made, shows, fate, confirmed, used>>

\* A new credential's wizard first reads the credentials again, then picks the
\* new one for the owner: whatever step is shown, whatever was picked meanwhile.
AnswerCredential(c) ==
  /\ c.at = "done" /\ c.kind = "credential"
  /\ calls' = (calls \ {c}) \cup {[c EXCEPT !.at = "listing"]}
  /\ UNCHANGED <<place, wizard, server, shows, fate, confirmed, used>>

\* The wizard starts anew with the credential that was added.
PickCredentialAndReset(c) ==
  /\ c.at = "listing"
  /\ calls' = calls \ {c}
  /\ wizard' = IF Mounted(c.n) THEN [wizard EXCEPT !.data = [Initially(wizard.kind) EXCEPT !["credential"] = "chosen"]]
               ELSE wizard
  /\ UNCHANGED <<place, server, shows, fate, confirmed, used>>

PickCredential(c) ==
  /\ c.at = "listing"
  /\ calls' = calls \ {c}
  /\ wizard' = IF Mounted(c.n) THEN [wizard EXCEPT !.data["credential"] = "chosen"] ELSE wizard
  /\ UNCHANGED <<place, server, shows, fate, confirmed, used>>

\* The dialog goes away with the attempt, as it does after a success.
FailAndClose(c) ==
  /\ \/ c.at = "refused" /\ UNCHANGED used
     \/ c.at # "refused" /\ used.faults < MaxFaults /\ Spend("faults")
  /\ IF Mounted(c.n) /\ c.kind # "credential" THEN CloseDialog(c.n) ELSE UNCHANGED <<wizard, fate>>
  /\ unheard' = unheard \cup ({c.made} \ {0})
  /\ calls' = calls \ {c}
  /\ UNCHANGED <<place, made, shows, confirmed>>

\* A refusal, or a request or an answer that is lost: the wizard stays on its
\* last step with everything typed, and shows the error.  The page does not
\* know whether the server did it.
Fail(c) ==
  /\ \/ c.at = "refused" /\ UNCHANGED used
     \/ c.at # "refused" /\ used.faults < MaxFaults /\ Spend("faults")
  /\ wizard' = IF Mounted(c.n) /\ c.kind # "credential" THEN [wizard EXCEPT !.busy = FALSE]
               ELSE wizard
  /\ unheard' = unheard \cup ({c.made} \ {0})
  /\ calls' = calls \ {c}
  /\ UNCHANGED <<place, made, shows, fate, confirmed>>

\* The owner has saved the credential, or the token: the list is read again.
SavedCredential ==
  /\ wizard # NoWizard /\ wizard.secret # 0
  /\ wizard' = NoWizard
  /\ read' = ReadAsked
  /\ UNCHANGED <<place, calls, server, displayed, list, screen, gate, fate, confirmed, used>>

\* Without reading the list again.
SavedTokenOnly ==
  /\ screen # 0 /\ wizard = NoWizard
  /\ screen' = 0
  /\ UNCHANGED <<place, wizard, calls, server, displayed, list, read, gate, fate, confirmed, used>>

SavedToken ==
  /\ screen # 0 /\ wizard = NoWizard
  /\ screen' = 0
  /\ read' = ReadAsked
  /\ UNCHANGED <<place, wizard, calls, server, displayed, list, gate, fate, confirmed, used>>

------------------------------------------------------------------------------

\* The list's read: a newer one replaces an older one that is not back yet.
ReadList ==
  /\ read = ReadAsked
  /\ read' = [at |-> "back", upto |-> Len(made)]
  /\ UNCHANGED <<place, wizard, calls, server, displayed, list, screen, gate, fate, confirmed, used>>

ShowList ==
  /\ read.at = "back"
  /\ list' = read.upto /\ read' = NoRead
  /\ UNCHANGED <<place, wizard, calls, server, displayed, screen, gate, fate, confirmed, used>>

\* The providers' page reads its list again every 15 seconds.
Tick ==
  /\ page = "agents" /\ ~GateShown
  /\ read' = ReadAsked
  /\ UNCHANGED <<place, wizard, calls, server, displayed, list, screen, gate, fate, confirmed, used>>

\* The owner goes to another page by a link or the browser's buttons.  The
\* first-run flow stays in front of it.
Visit(p) ==
  /\ p # page
  /\ IF GateShown THEN page' = p /\ UNCHANGED <<visit, wizard, list, read, screen, fate>>
     ELSE visit < MaxVisits /\ OpenPage(p) /\ fate' = FatesLeft
  /\ UNCHANGED <<calls, server, displayed, gate, confirmed, used>>

\* The tab is reloaded, or the owner comes back later: the page starts again,
\* and what was under way is answered to nobody.
Revisit ==
  /\ visit < MaxVisits /\ visit' = visit + 1
  /\ fate' = FatesLeft
  /\ wizard' = NoWizard
  /\ unheard' = unheard \cup {c.made : c \in {d \in calls : d.made # 0}}
  /\ calls' = {}
  /\ gate' = [gate EXCEPT !.dismissed = FALSE]
  /\ read' = IF gate.completed = "never" THEN NoRead ELSE ReadAsked
  /\ screen' = 0 /\ list' = 0
  /\ UNCHANGED <<page, made, displayed, confirmed, used>>

FlowNext ==
  \/ OpenWizard \/ UpdateData \/ GoNext \/ GoBack \/ Cancel
  \/ Submit \/ CompleteOnboarding \/ AddCredential \/ ChangeRow
  \/ \E c \in calls : Serve(c) \/ Answer(c) \/ AnswerNobody(c) \/ AnswerCredential(c)
                     \/ PickCredential(c) \/ Fail(c)
  \/ SavedCredential \/ SavedToken
  \/ ReadList \/ ShowList \/ Tick \/ Revisit
  \/ \E p \in Pages : Visit(p)

FlowSpec == FlowInit /\ [][FlowNext]_flowVars

------------------------------------------------------------------------------

MadeBy(n) == {i \in DOMAIN made : made[i].n = n /\ made[i].kind # "credential"}
Complete(kind, data) ==
  kind # "onboarding" => \A field \in FieldsOf(kind) : data[field] # Empty

\* A wizard asks the server for at most one thing more than the answers it
\* lost, for nothing at all while it is only being filled in, and for nothing
\* ever if it was left then; what it asks for is complete, though its steps
\* were checked one by one and edited again later.  The first-run flow is
\* stored as completed only when a wizard of it was confirmed.  (A wizard left
\* while its call was under way has been confirmed, and its call counts.)
AbandonedLeavesNothing ==
  /\ \A n \in DOMAIN fate :
       /\ Cardinality(MadeBy(n) \ unheard)
            <= (IF fate[n] \in {"done", "welcomed", "unread", "left busy"} \/ (Mounted(n) /\ wizard.busy) THEN 1 ELSE 0)
       /\ Cardinality(MadeBy(n)) <= confirmed[n]
       /\ fate[n] = "done" => MadeBy(n) # {}
  /\ \A i \in DOMAIN made :
       made[i].kind \notin {"row", "credential"} => Complete(made[i].kind, made[i].data)
  /\ gate.completed = "here" => \E n \in DOMAIN fate : fate[n] = "welcomed" /\ confirmed[n] > 0

\* What was answered is shown.  A secret that is issued once has been on the
\* screen, but for a device whose wizard was left while it waited; and when
\* nothing is under way the list shows everything that was answered, but for a
\* device whose dialog was closed instead of being told it is done, and a
\* provider whose token is still on the screen.
ResultIsShown ==
  \A i \in DOMAIN made \ unheard :
    \/ \E c \in calls : c.made = i
    \/ LET n == made[i].n IN
       /\ made[i].kind \in {"device", "provider"} =>
            i \in displayed \/ (made[i].kind = "device" /\ fate[n] = "left busy")
       /\ made[i].kind \notin {"credential", "onboarding"} /\ ~GateShown /\ read = NoRead /\ i > list =>
            \/ made[i].kind = "device" /\ (fate[n] \in {"unread", "left busy"} \/ Mounted(n))
            \/ made[i].kind = "provider" /\ screen # 0

\* What the owner typed is kept.  While a wizard stays, no call changes its
\* step or its data, but for the credential an added one picks; and it goes
\* away only when its owner leaves it or the page, when its own call
\* succeeds, or through the late success of a call its owner did not wait for:
\* of a wizard left on this very visit to the page, which closes whichever is
\* open, or of the dismissed first-run flow, if that leads to another page.
WorkIsKept ==
  [][wizard # NoWizard =>
       \/ /\ wizard' # NoWizard /\ wizard'.n = wizard.n
          /\ calls' # calls =>
               /\ wizard'.step = wizard.step
               /\ \A field \in FieldsOf(wizard.kind) :
                    wizard'.data[field] # wizard.data[field] =>
                      field = "credential" /\ \E c \in calls \ calls' : c.at = "listing"
       \/ Cancel \/ SavedCredential \/ Revisit \/ CompleteOnboarding \/ \E p \in Pages : Visit(p)
       \/ \E c \in calls \ calls' :
            /\ c.at = "done"
            /\ \/ c.n = wizard.n
               \/ fate[c.n] = "left busy" /\ page \in {"actions", "agents"} /\ c.visit = visit
               \/ fate[c.n] = "left busy" /\ c.kind = "onboarding" /\ page' # page
    ]_flowVars
=============================================================================
