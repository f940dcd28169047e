----------------------------- MODULE MCKindooTab ----------------------------
(* What runs in and around one Kindoo tab: the panel's shell, the sign-in    *)
(* through the web app, the presence loop, and the push tokens of the        *)
(* manager's devices.  They share no state, so each behaviour is of one.     *)
EXTENDS PanelShell, WebSignIn, Presence, PushTokens, TLC

CONSTANTS ann, ben, maple, oak, e1, e2, t1, home

\* Ann manages both stakes of the first site, Ben one stake, of both sites.
MCServes == (e1 :> {maple, oak}) @@ (e2 :> {oak})
MCFirstRoles == (ann :> {maple, oak}) @@ (ben :> {oak})

VARIABLE subject
deviceVars == <<panelVars, webVars, presenceVars, pushVars, subject>>

\* What a behaviour is not about starts, and stays, in one state in which no
\* fairness asks for a step.
DevicesInit ==
    /\ subject \in {"panel", "web", "presence", "push"}
    /\ WebInit /\ PresenceInit /\ PushInit
    /\ IF subject = "panel" THEN PanelInit
       ELSE Mounted /\ inbox = <<>> /\ user = Nothing /\ named = {}
    /\ IF subject = "web" THEN wanted = ann ELSE wanted = NoOne /\ session = NoOne
    \* (Tabs and sites start as they may, up to their names.)
    /\ (\E t \in Tabs : at[t] # Closed) => at[t1] = home
    /\ subject # "presence" => ~optIn /\ at = [t \in Tabs |-> Closed]

DevicesNext ==
    /\ UNCHANGED subject
    /\ \/ subject = "panel" /\ PanelNext /\ UNCHANGED <<webVars, presenceVars, pushVars>>
       \/ subject = "web" /\ WebNext /\ UNCHANGED <<panelVars, presenceVars, pushVars>>
       \/ subject = "presence" /\ PresenceNext /\ UNCHANGED <<panelVars, webVars, pushVars>>
       \/ subject = "push" /\ PushNext /\ UNCHANGED <<panelVars, webVars, presenceVars>>

DevicesSpec ==
    /\ DevicesInit /\ [][DevicesNext]_deviceVars
    /\ PanelFairness /\ WebFairness /\ PresenceFairness
=============================================================================
