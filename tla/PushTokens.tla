----------------------------- MODULE PushTokens -----------------------------
(***************************************************************************)
(* The push registrations of one manager: userIndex/{manager}.fcmTokens    *)
(* with a slot per device, his per-category preferences, the devices that  *)
(* write them (features/notifications/hooks.ts) and the fan-outs that read *)
(* the slots, send, and prune those FCM rejected (lib/push.ts).  FCM is    *)
(* external: it knows one token of each device, and forgets it at will.    *)
(***************************************************************************)
EXTENDS Integers, FiniteSets

CONSTANTS
    Devices,
    Categories,     \* newRequest and syncReminder
    MaxTokens       \* bound: tokens FCM issues to one device

NewRequest == "newRequest"
NoToken == 0

ASSUME PushAssumption == IsFiniteSet(Devices) /\ NewRequest \in Categories /\ MaxTokens \in Nat

VARIABLES
    live,       \* FCM: the token each device has now, NoToken when it has none
    issued,     \* FCM: how many it issued to each device
    slots,      \* fcmTokens
    prefs,      \* the categories switched on (notificationPrefs.push)
    enabling,   \* the token a device was given and has not written yet
    fanouts,    \* per category, the slots a fan-out read; {} when none is under way
    dead        \* per category, the slots a fan-out is about to delete

pushVars == <<live, issued, slots, prefs, enabling, fanouts, dead>>

Token == 0..MaxTokens
Entry == [device : Devices, token : Token \ {NoToken}]

PushTypeOK ==
    /\ live \in [Devices -> Token] /\ issued \in [Devices -> Token]
    /\ slots \in [Devices -> Token] /\ enabling \in [Devices -> Token]
    /\ prefs \subseteq Categories
    /\ fanouts \in [Categories -> SUBSET Entry] /\ dead \in [Categories -> SUBSET Entry]

PushInit ==
    /\ live = [d \in Devices |-> NoToken] /\ issued = live /\ slots = live /\ enabling = live
    /\ prefs = {}
    /\ fanouts = [c \in Categories |-> {}] /\ dead = fanouts

\* Enabling asks FCM for the device's token, a new one when it has none, ...
GetToken(d) ==
    /\ enabling[d] = NoToken
    /\ live[d] # NoToken \/ issued[d] < MaxTokens
    /\ issued' = [issued EXCEPT ![d] = IF live[d] = NoToken THEN @ + 1 ELSE @]
    /\ live' = [live EXCEPT ![d] = IF @ = NoToken THEN issued'[d] ELSE @]
    /\ enabling' = [enabling EXCEPT ![d] = live'[d]]
    /\ UNCHANGED <<slots, prefs, fanouts, dead>>

\* ... and then merges it into the device's slot and switches newRequest on.
Enable(d) ==
    /\ enabling[d] # NoToken
    /\ slots' = [slots EXCEPT ![d] = enabling[d]]
    /\ prefs' = prefs \cup {NewRequest}
    /\ enabling' = [enabling EXCEPT ![d] = NoToken]
    /\ UNCHANGED <<live, issued, fanouts, dead>>

\* Disabling takes the token back at FCM, which may fail, empties the slot and
\* switches newRequest off.
Disable(d, takenBack) ==
    /\ slots[d] # NoToken
    /\ live' = IF takenBack THEN [live EXCEPT ![d] = NoToken] ELSE live
    /\ slots' = [slots EXCEPT ![d] = NoToken]
    /\ prefs' = prefs \ {NewRequest}
    /\ UNCHANGED <<issued, enabling, fanouts, dead>>

UpdatePref(c) ==
    /\ prefs' = IF c \in prefs THEN prefs \ {c} ELSE prefs \cup {c}
    /\ UNCHANGED <<live, issued, slots, enabling, fanouts, dead>>

\* FCM drops a registration (uninstalled, expired, site data cleared).
TokenExpires(d) ==
    /\ live[d] # NoToken
    /\ live' = [live EXCEPT ![d] = NoToken]
    /\ UNCHANGED <<issued, slots, prefs, enabling, fanouts, dead>>

-----------------------------------------------------------------------------
(* sendPushToSubscribers.                                                  *)

\* The slots of a manager who is subscribed to the category.
Collect(c) ==
    /\ fanouts[c] = {} /\ dead[c] = {}
    /\ c \in prefs
    /\ fanouts' = [fanouts EXCEPT ![c] = {[device |-> d, token |-> slots[d]] :
                                             d \in {dev \in Devices : slots[dev] # NoToken}}]
    /\ UNCHANGED <<live, issued, slots, prefs, enabling, dead>>

\* (mutation) a token is given up whatever FCM's error says.
UnrecoverableOrNot(rejected, transient) == rejected \cup transient

\* The tokens FCM will never accept again; a transient error leaves the slot.
Unrecoverable(rejected, transient) == rejected

\* FCM answers for each token: it takes it, knows it no longer, or has trouble.
\* That an unrecoverable code means a dead token is assumed; the set in push.ts
\* also has codes of a misconfigured sender.
Send(c, transient) ==
    /\ fanouts[c] # {}
    /\ transient \subseteq {e \in fanouts[c] : live[e.device] = e.token}
    /\ LET rejected == {e \in fanouts[c] : live[e.device] # e.token} IN
       dead' = [dead EXCEPT ![c] = Unrecoverable(rejected, transient)]
    /\ fanouts' = [fanouts EXCEPT ![c] = {}]
    /\ UNCHANGED <<live, issued, slots, prefs, enabling>>

\* The slots of the dead tokens are deleted by their device ids, whatever they
\* hold by now.
Prune(c) ==
    /\ dead[c] # {}
    /\ slots' = [d \in Devices |-> IF \E e \in dead[c] : e.device = d THEN NoToken ELSE slots[d]]
    /\ dead' = [dead EXCEPT ![c] = {}]
    /\ UNCHANGED <<live, issued, prefs, enabling, fanouts>>

PushNext ==
    \/ \E d \in Devices : \/ GetToken(d) \/ Enable(d) \/ TokenExpires(d)
                          \/ \E takenBack \in BOOLEAN : Disable(d, takenBack)
    \/ \E c \in Categories : \/ UpdatePref(c) \/ Collect(c) \/ Prune(c)
                             \/ \E transient \in SUBSET fanouts[c] : Send(c, transient)

PushSpec == PushInit /\ [][PushNext]_pushVars

-----------------------------------------------------------------------------
(* Properties.                                                             *)

\* The prune deletes by device, so it can take a registration that works: but
\* only a newer one than it sent to, which the device made while the fan-out
\* was under way, and none for a passing error (push.ts, "leaves the token in
\* place").
WorkingPrunedOnlyIfNewer ==
    [][\A c \in Categories : \A e \in dead[c] :
          Prune(c) /\ slots[e.device] # NoToken /\ slots[e.device] = live[e.device]
          => slots[e.device] > e.token]_pushVars

=============================================================================
