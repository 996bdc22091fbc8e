------------------------------ MODULE OwnerAlerts ------------------------------
(***************************************************************************)
(* Telling the owner.  Saves, the hourly task and the market outlook call  *)
(* sendOwnerNotification after their own commit, as often as they happen   *)
(* to run, with a key that names the event.  A call raises the alert in    *)
(* the application, pushes it to the owner's telephones, and sends one     *)
(* WhatsApp message, each through rows of its own and with no transaction  *)
(* around them; calls run side by side, fail where the database does, and  *)
(* die with the API.                                                       *)
(*                                                                         *)
(* Messages carry no content here: the key stands for the event.  The two  *)
(* providers (APNs and WhatsApp) may accept, refuse, or accept and lose    *)
(* the answer.                                                             *)
(***************************************************************************)
EXTENDS Integers, FiniteSets

CONSTANTS
  Key,          \* the dedupe keys of the events
  Call,         \* calls of sendOwnerNotification that may run side by side
  Device,       \* the owner's telephones, by push token
  None,
  MaxFaults,    \* bound: refusals and lost answers of the providers, and
                \* calls of the database that throw
  MaxCrashes,   \* bound: deaths of the API
  MaxTouches,   \* bound: changes of the settings and of the telephones
  MaxCalls      \* bound: calls made

RingStep == {"none", "claim", "send", "rung", "refused", "gone", "retire", "threw"}
Result == {"PENDING", "SENT", "FAILED"}
CallRow == [key : Key, whatsapp : BOOLEAN,
            stage : {"raise", "devices", "push", "look", "claim", "send", "told", "failed"},
            ring : [Device -> RingStep]]

ASSUME AlertsAssumption ==
  /\ MaxFaults \in Nat /\ MaxCrashes \in Nat /\ MaxTouches \in Nat /\ MaxCalls \in Nat
  /\ None \notin Result /\ None \notin BOOLEAN /\ None \notin CallRow
  /\ IsFiniteSet(Call)

VARIABLES
  settings,     \* whether the owner wants this type of alert, and WhatsApp
  alert,        \* the alert of each key: acknowledged or not, once raised
  active,       \* each telephone's row: active or not, once registered
  push, text,   \* delivery rows: one for each key and telephone, one for each key
  call,         \* the calls under way
  rang, texted, \* ghosts: what the providers accepted
  doubts,       \* ghost: times a ring could not be known when the next was decided
  dropped,      \* ghost: keys whose claimed message was left without a result
  faults, crashes, touches, calls

alertVars == <<settings, alert, active, push, text, call, rang, texted, doubts,
          dropped, faults, crashes, touches, calls>>
bounds == <<faults, crashes, touches, calls>>
ghosts == <<rang, texted, doubts, dropped>>

AlertsInit ==
  /\ settings \in [wanted : {TRUE}, whatsapp : BOOLEAN]
  /\ alert = [k \in Key |-> None]
  /\ active \in [Device -> {TRUE, None}]
  /\ push = [k \in Key |-> [d \in Device |-> None]]
  /\ text = [k \in Key |-> None]
  /\ call = [c \in Call |-> None]
  /\ rang = [k \in Key |-> [d \in Device |-> 0]]
  /\ texted = [k \in Key |-> 0]
  /\ doubts = [k \in Key |-> [d \in Device |-> 0]]
  /\ dropped = {}
  /\ faults = 0 /\ crashes = 0 /\ touches = 0 /\ calls = 0

-----------------------------------------------------------------------------
(* The alert *)

At(c, stage) == call[c] # None /\ call[c].stage = stage
Go(c, stage) == call' = [call EXCEPT ![c].stage = stage]
End(c) == call' = [call EXCEPT ![c] = None]

\* A provider or the database fails.
Fault == faults < MaxFaults /\ faults' = faults + 1

\* The settings are read once; an alert the owner turned off ends here.
Notify(c, k) ==
  /\ call[c] = None /\ calls < MaxCalls
  /\ settings.wanted
  /\ call' = [call EXCEPT ![c] = [key |-> k, whatsapp |-> settings.whatsapp,
                                  stage |-> "raise", ring |-> [d \in Device |-> "none"]]]
  /\ calls' = calls + 1
  /\ UNCHANGED <<settings, alert, active, push, text, ghosts, faults, crashes, touches>>

Raised(k) == IF alert[k] = None THEN FALSE ELSE alert[k]

RaiseAlert(c) ==
  /\ At(c, "raise")
  /\ alert' = [alert EXCEPT ![call[c].key] = Raised(call[c].key)]
  /\ Go(c, "devices")
  /\ UNCHANGED <<settings, active, push, text, ghosts, bounds>>

Acknowledge(k) ==
  /\ alert[k] = FALSE
  /\ alert' = [alert EXCEPT ![k] = TRUE]
  /\ UNCHANGED <<settings, active, push, text, call, ghosts, bounds>>

\* Customer service changes the settings; calls under way keep what they read.
ChangeSettings(new) ==
  /\ touches < MaxTouches /\ new # settings
  /\ settings' = new
  /\ touches' = touches + 1
  /\ UNCHANGED <<alert, active, push, text, call, ghosts, faults, crashes, calls>>

-----------------------------------------------------------------------------
(* The telephones *)

RegisterDevice(d) ==
  /\ touches < MaxTouches /\ active[d] # TRUE
  /\ active' = [active EXCEPT ![d] = TRUE]
  /\ touches' = touches + 1
  /\ UNCHANGED <<settings, alert, push, text, call, ghosts, faults, crashes, calls>>

UnregisterDevice(d) ==
  /\ touches < MaxTouches /\ active[d] = TRUE
  /\ active' = [active EXCEPT ![d] = FALSE]
  /\ touches' = touches + 1
  /\ UNCHANGED <<settings, alert, push, text, call, ghosts, faults, crashes, calls>>

ReadDevices(c) ==
  /\ At(c, "devices")
  /\ call' = [call EXCEPT ![c].stage = "push",
                          ![c].ring = [d \in Device |-> IF active[d] = TRUE THEN "claim" ELSE "none"]]
  /\ UNCHANGED <<settings, alert, active, push, text, ghosts, bounds>>

RingAt(c, d, step) == At(c, "push") /\ call[c].ring[d] = step
RingTo(c, d, step) == call' = [call EXCEPT ![c].ring[d] = step]

\* Another call is between its own claim of this row and the record of a ring.
Ringing(k, d, c) ==
  \E x \in Call \ {c} : /\ call[x] # None /\ call[x].key = k
                        /\ call[x].ring[d] \in {"send", "rung"}

Doubt(k, d) == doubts' = [doubts EXCEPT ![k][d] = @ + 1]

\* Mutant: the row is claimed whatever it says.
SlipUnsent(k, d) == TRUE

Unsent(k, d) == push[k][d] # "SENT"

\* The row is made if it is missing, and left as it is if it is there.
ClaimPush(c, d) ==
  /\ RingAt(c, d, "claim")
  /\ LET k == call[c].key IN
     /\ push' = [push EXCEPT ![k][d] = IF @ = None THEN "PENDING" ELSE @]
     /\ \/ /\ Unsent(k, d)
           /\ RingTo(c, d, "send")
           /\ IF Ringing(k, d, c) THEN Doubt(k, d) ELSE UNCHANGED doubts
        \/ /\ ~Unsent(k, d)
           /\ RingTo(c, d, "none")
           /\ UNCHANGED doubts
  /\ UNCHANGED <<settings, alert, active, text, rang, texted, dropped, bounds>>

\* What a provider does with a message: it reaches the owner or not, and the
\* answer says so or fails.
Accepted(reached, answered) ==
  /\ answered => reached
  /\ IF answered THEN UNCHANGED faults ELSE Fault

SendPush(c, d, reached, answered) ==
  /\ RingAt(c, d, "send")
  /\ Accepted(reached, answered)
  /\ LET k == call[c].key IN
     /\ rang' = IF reached THEN [rang EXCEPT ![k][d] = @ + 1] ELSE rang
     /\ IF reached /\ ~answered THEN Doubt(k, d) ELSE UNCHANGED doubts
  /\ IF answered THEN RingTo(c, d, "rung")
     ELSE \/ RingTo(c, d, "refused")
          \/ ~reached /\ RingTo(c, d, "gone")
  /\ UNCHANGED <<settings, alert, active, push, text, texted, dropped, crashes, touches, calls>>

ToRecord(c, d) == call[c] # None /\ call[c].ring[d] \in {"rung", "refused", "gone"}

Recorded(step) == IF step = "rung" THEN "SENT" ELSE "FAILED"

RecordPush(c, d) ==
  /\ ToRecord(c, d)
  /\ LET k == call[c].key  step == call[c].ring[d] IN
     /\ push' = [push EXCEPT ![k][d] = Recorded(step)]
     /\ RingTo(c, d, IF step = "gone" THEN "retire" ELSE "none")
     /\ IF push[k][d] = "SENT" /\ step # "rung" THEN Doubt(k, d) ELSE UNCHANGED doubts
  /\ UNCHANGED <<settings, alert, active, text, rang, texted, dropped, bounds>>

\* The record throws, made or not.  One catch serves the ring and its record:
\* a ring that was accepted is then recorded as a failure.  A failure that
\* cannot be recorded fails the call.
RecordPushThrows(c, d, made) ==
  /\ ToRecord(c, d)
  /\ Fault
  /\ LET k == call[c].key  step == call[c].ring[d] IN
     /\ push' = IF made THEN [push EXCEPT ![k][d] = Recorded(step)] ELSE push
     /\ RingTo(c, d, IF step = "rung" THEN "refused" ELSE "threw")
     /\ IF IF made THEN push[k][d] = "SENT" /\ step # "rung" ELSE step = "rung"
        THEN Doubt(k, d) ELSE UNCHANGED doubts
  /\ UNCHANGED <<settings, alert, active, text, rang, texted, dropped, crashes, touches, calls>>

\* APNs no longer knows the token: the telephone is not rung again.
RetireDevice(c, d) ==
  /\ RingAt(c, d, "retire")
  /\ active' = [active EXCEPT ![d] = FALSE]
  /\ RingTo(c, d, "none")
  /\ UNCHANGED <<settings, alert, push, text, ghosts, bounds>>

\* The claim of a delivery row, or the telephone's own row, throws, made or not.
DeviceThrows(c, d) ==
  /\ RingAt(c, d, "claim") \/ RingAt(c, d, "retire")
  /\ Fault
  /\ RingTo(c, d, "threw")
  /\ \/ UNCHANGED <<push, active>>
     \/ /\ RingAt(c, d, "claim")
        /\ push' = [push EXCEPT ![call[c].key][d] = IF @ = None THEN "PENDING" ELSE @]
        /\ UNCHANGED active
     \/ /\ RingAt(c, d, "retire")
        /\ active' = [active EXCEPT ![d] = FALSE]
        /\ UNCHANGED push
  /\ UNCHANGED <<settings, alert, text, ghosts, crashes, touches, calls>>

-----------------------------------------------------------------------------
(* The WhatsApp message *)

\* Every telephone is done with; an owner without WhatsApp hears no more, nor
\* does one for whose telephones something threw.
EndPush(c) ==
  /\ At(c, "push") /\ \A d \in Device : call[c].ring[d] \in {"none", "threw"}
  /\ IF call[c].whatsapp /\ \A d \in Device : call[c].ring[d] = "none"
     THEN Go(c, "look") ELSE End(c)
  /\ UNCHANGED <<settings, alert, active, push, text, ghosts, bounds>>

LookText(c) ==
  /\ At(c, "look")
  /\ IF text[call[c].key] = None THEN Go(c, "claim") ELSE End(c)
  /\ UNCHANGED <<settings, alert, active, push, text, ghosts, bounds>>

\* Mutant: the row's key is not unique.
SlipUnclaimed(k) == TRUE

Unclaimed(k) == text[k] = None

\* The row is unique by its key: the second of two calls is refused (P2002).
ClaimText(c) ==
  /\ At(c, "claim")
  /\ \/ /\ Unclaimed(call[c].key)
        /\ text' = [text EXCEPT ![call[c].key] = "PENDING"]
        /\ Go(c, "send")
     \/ /\ ~Unclaimed(call[c].key)
        /\ End(c)
        /\ UNCHANGED text
  /\ UNCHANGED <<settings, alert, active, push, ghosts, bounds>>

SendText(c, reached, answered) ==
  /\ At(c, "send")
  /\ Accepted(reached, answered)
  /\ texted' = IF reached THEN [texted EXCEPT ![call[c].key] = @ + 1] ELSE texted
  /\ Go(c, IF answered THEN "told" ELSE "failed")
  /\ UNCHANGED <<settings, alert, active, push, text, rang, doubts, dropped, crashes, touches, calls>>

\* Mutant: a refused message is left without a result.
SlipTextResult(c) == IF At(c, "told") THEN "SENT" ELSE "PENDING"

TextResult(c) == IF At(c, "told") THEN "SENT" ELSE "FAILED"

RecordText(c) ==
  /\ At(c, "told") \/ At(c, "failed")
  /\ text' = [text EXCEPT ![call[c].key] = TextResult(c)]
  /\ End(c)
  /\ UNCHANGED <<settings, alert, active, push, ghosts, bounds>>

\* The record throws, made or not: an accepted message is then recorded as a
\* failure, and a failure that cannot be recorded ends the call.
RecordTextThrows(c, made) ==
  /\ At(c, "told") \/ At(c, "failed")
  /\ Fault
  /\ text' = IF made THEN [text EXCEPT ![call[c].key] = TextResult(c)] ELSE text
  /\ IF At(c, "told") THEN Go(c, "failed") ELSE End(c)
  /\ dropped' = IF At(c, "failed") /\ ~made THEN dropped \cup {call[c].key} ELSE dropped
  /\ UNCHANGED <<settings, alert, active, push, rang, texted, doubts, crashes, touches, calls>>

\* Before the message is claimed, whatever throws ends the call: an alert or a
\* claim may have been made all the same.
CallThrows(c) ==
  /\ call[c] # None /\ call[c].stage \in {"raise", "devices", "look", "claim"}
  /\ Fault
  /\ End(c)
  /\ LET k == call[c].key IN
     \/ UNCHANGED <<alert, text, dropped>>
     \/ At(c, "raise") /\ alert' = [alert EXCEPT ![k] = Raised(k)] /\ UNCHANGED <<text, dropped>>
     \/ /\ At(c, "claim") /\ Unclaimed(k)
        /\ text' = [text EXCEPT ![k] = "PENDING"] /\ dropped' = dropped \cup {k}
        /\ UNCHANGED alert
  /\ UNCHANGED <<settings, active, push, rang, texted, doubts, crashes, touches, calls>>

-----------------------------------------------------------------------------
(* The API dies with every call; the rows stay as they are. *)

Claimed == {c \in Call : At(c, "send") \/ At(c, "told") \/ At(c, "failed")}

Rung(k, d) == {c \in Call : call[c] # None /\ call[c].key = k /\ call[c].ring[d] = "rung"}

Crash ==
  /\ crashes < MaxCrashes /\ \E c \in Call : call[c] # None
  /\ call' = [c \in Call |-> None]
  /\ doubts' = [k \in Key |-> [d \in Device |-> doubts[k][d] + Cardinality(Rung(k, d))]]
  /\ dropped' = dropped \cup {call[c].key : c \in Claimed}
  /\ crashes' = crashes + 1
  /\ UNCHANGED <<settings, alert, active, push, text, rang, texted, faults, touches, calls>>

Step(c) ==
  \/ RaiseAlert(c) \/ ReadDevices(c) \/ EndPush(c)
  \/ \E d \in Device :
       \/ ClaimPush(c, d) \/ RecordPush(c, d) \/ RetireDevice(c, d)
       \/ DeviceThrows(c, d) \/ \E made \in BOOLEAN : RecordPushThrows(c, d, made)
       \/ \E reached, answered \in BOOLEAN : SendPush(c, d, reached, answered)
  \/ LookText(c) \/ ClaimText(c) \/ RecordText(c)
  \/ CallThrows(c) \/ \E made \in BOOLEAN : RecordTextThrows(c, made)
  \/ \E reached, answered \in BOOLEAN : SendText(c, reached, answered)

AlertsNext ==
  \/ \E c \in Call : Step(c) \/ \E k \in Key : Notify(c, k)
  \/ \E k \in Key : Acknowledge(k)
  \/ \E new \in [wanted : BOOLEAN, whatsapp : BOOLEAN] : ChangeSettings(new)
  \/ \E d \in Device : RegisterDevice(d) \/ UnregisterDevice(d)
  \/ Crash

AlertsSpec == AlertsInit /\ [][AlertsNext]_alertVars

\* A call that has begun runs on: its awaits return, or throw, in the end.
Fairness == \A c \in Call : WF_alertVars(Step(c))
FairSpec == AlertsSpec /\ Fairness

-----------------------------------------------------------------------------
(* Properties *)

\* The types of the variables, checked with TextedOnce.
AlertsTypeOK ==
  /\ settings \in [wanted : BOOLEAN, whatsapp : BOOLEAN]
  /\ alert \in [Key -> BOOLEAN \cup {None}]
  /\ active \in [Device -> BOOLEAN \cup {None}]
  /\ push \in [Key -> [Device -> Result \cup {None}]]
  /\ text \in [Key -> Result \cup {None}]
  /\ call \in [Call -> CallRow \cup {None}]
  /\ rang \in [Key -> [Device -> Nat]] /\ texted \in [Key -> Nat]
  /\ doubts \in [Key -> [Device -> Nat]] /\ dropped \subseteq Key
  /\ faults \in 0..MaxFaults /\ crashes \in 0..MaxCrashes
  /\ touches \in 0..MaxTouches /\ calls \in 0..MaxCalls

\* However often an event is notified, by calls side by side, after lost
\* answers and across deaths of the API, WhatsApp accepts at most one message
\* for it, and the alert in the application was raised before any telephone
\* rang or any message went out (notifications/service.ts:161-175).
TextedOnce ==
  /\ AlertsTypeOK
  /\ \A k \in Key : /\ texted[k] <= 1
                    /\ texted[k] + Cardinality({d \in Device : rang[k][d] > 0}) > 0
                         => alert[k] # None

\* A telephone rings a second time for one event only if nobody could know of
\* the ring before: another call was between its claim and its record, the
\* provider's answer was lost, a slower call recorded its own refusal over the
\* ring, the record of the ring threw, or the API died before it
\* (notifications/service.ts:132-144).
RingsAgainOnlyInDoubt ==
  \A k \in Key, d \in Device : rang[k][d] <= 1 + doubts[k][d]

\* A WhatsApp message that was claimed gets its result, unless the API dies in
\* between, the claim throws though it was made, or the record of a failure
\* throws: then no later call takes it up (notifications/service.ts:165-182).  The
\* record of a success may throw, the failure recorded in its place settles it.
TextSettles ==
  \A k \in Key : text[k] = "PENDING" ~> text[k] \in {"SENT", "FAILED"} \/ k \in dropped
================================================================================
