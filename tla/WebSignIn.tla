----------------------------- MODULE WebSignIn ------------------------------
(***************************************************************************)
(* Signing in to the extension with an emailed link.  The panel opens a    *)
(* window of the web app and waits for the token its "Connect" button      *)
(* mints.  Whoever has no session there asks for a link; the link opens in *)
(* an ordinary tab of the browser, which signs the whole browser in - with *)
(* the address stashed when the link was asked for, or one typed into a    *)
(* prompt.  Window, tab and panel go their own ways: each may be closed or *)
(* act at any step of the others, and other tabs share session and stash.  *)
(***************************************************************************)
EXTENDS Integers, Sequences

CONSTANTS
    Addresses,      \* addresses whose mail the manager reads
    MaxLinks,       \* bound: links sent
    MaxSlips,       \* bound: wrong addresses, other tabs' doings, early closes
    MaxDrops        \* bound: requests or answers lost

NoOne == "no one"

ASSUME WebSignInAssumption ==
    NoOne \notin Addresses /\ {MaxLinks, MaxSlips, MaxDrops} \subseteq Nat

VARIABLES
    wanted,     \* the address the manager means to use
    session,    \* the account the browser is signed in to the web app with
    stash,      \* kindoo:auth:emailForLink
    mail,       \* the links sent: to whom, and not redeemed yet
    linkTab,    \* the tab of /auth/email-link
    window,     \* the window of /auth/extension
    webPanel,   \* the panel: signed out, waiting for the window, or an account
    slips, drops

webVars == <<wanted, session, stash, mail, linkTab, window, webPanel, slips, drops>>

\* `copy` is the session as the window has it, `sentTo` the address its form
\* was sent for, `token` the account of the token being minted.
Shut == [open |-> FALSE, copy |-> NoOne, sentTo |-> NoOne, token |-> NoOne]

\* `auto`: the stash, not the prompt, gave the address.
NoTab == [at |-> "closed", link |-> 0, email |-> NoOne, auto |-> FALSE]

Page ==
    CASE ~window.open -> "shut"
      [] window.open /\ window.token # NoOne -> "connecting"
      [] window.open /\ window.token = NoOne /\ window.copy # NoOne -> "card"
      [] OTHER -> IF window.sentTo # NoOne THEN "sent" ELSE "form"

WebInit ==
    /\ wanted \in Addresses \cup {NoOne}
    /\ session \in Addresses \cup {NoOne}
    /\ stash = NoOne /\ mail = <<>>
    /\ linkTab = NoTab /\ window = Shut /\ webPanel = "out"
    /\ slips = 0 /\ drops = 0

\* What the manager does as meant (`careful`), or as one of a few slips.
Manager(careful) ==
    /\ slips' = IF careful THEN slips ELSE slips + 1
    /\ slips' <= MaxSlips

Dropped == drops < MaxDrops /\ drops' = drops + 1

GoodLinks(p) == {l \in DOMAIN mail : mail[l].to = p /\ mail[l].good}

\* A new link is what it takes.
NeedsLink == session # wanted /\ GoodLinks(wanted) = {}

-----------------------------------------------------------------------------
(* The panel and the window it opens.                                      *)

\* "Sign in with email".
Press ==
    /\ webPanel = "out" /\ wanted # NoOne
    /\ webPanel' = "pending"
    /\ window' = [Shut EXCEPT !.open = TRUE, !.copy = session]
    /\ UNCHANGED <<wanted, session, stash, mail, linkTab, slips, drops>>

\* The window is closed without a redirect (consent_dismissed), as those who
\* have just asked for a link do.
CloseWindow ==
    /\ window.open
    /\ Manager(Page = "sent")
    /\ window' = Shut /\ webPanel' = "out"
    /\ UNCHANGED <<wanted, session, stash, mail, linkTab, drops>>

SendMagicLink(p) ==
    /\ Page = "form" /\ Len(mail) < MaxLinks
    /\ Manager(p = wanted /\ NeedsLink)
    /\ mail' = Append(mail, [to |-> p, good |-> TRUE])
    /\ stash' = p
    /\ window' = [window EXCEPT !.sentTo = p]
    /\ UNCHANGED <<wanted, session, linkTab, webPanel, drops>>

UseDifferentEmail ==
    /\ Page = "sent"
    /\ Manager(window.sentTo # wanted \/ NeedsLink)
    /\ stash' = NoOne
    /\ window' = [window EXCEPT !.sentTo = NoOne]
    /\ UNCHANGED <<wanted, session, mail, linkTab, webPanel, drops>>

\* "Continue with Google" in the window, with an account the manager may not mean.
GoogleSignIn(p) ==
    /\ Page = "form"
    /\ Manager(FALSE)
    /\ session' = p /\ window' = [window EXCEPT !.copy = p]
    /\ UNCHANGED <<wanted, stash, mail, linkTab, webPanel, drops>>

\* Another tab of the web app signs in or out.
OtherTab(p) ==
    /\ p # session
    /\ Manager(FALSE)
    /\ session' = p
    /\ UNCHANGED <<wanted, stash, mail, linkTab, window, webPanel, drops>>

\* The window learns of a session that began or ended in a tab.
SessionReaches ==
    /\ window.open /\ window.copy # session
    /\ window' = [window EXCEPT !.copy = session]
    /\ UNCHANGED <<wanted, session, stash, mail, linkTab, webPanel, slips, drops>>

UseDifferentAccount ==
    /\ Page = "card"
    /\ Manager(window.copy = session /\ session # wanted)
    /\ session' = NoOne /\ window' = [window EXCEPT !.copy = NoOne]
    /\ UNCHANGED <<wanted, stash, mail, linkTab, webPanel, drops>>

\* The token is minted for the account the card names when it is clicked.
Connect ==
    /\ Page = "card"
    /\ Manager(window.copy = wanted)
    /\ window' = [window EXCEPT !.token = window.copy]
    /\ UNCHANGED <<wanted, session, stash, mail, linkTab, webPanel, drops>>

\* The redirect brings the token, or the code of a mint that failed.
Redirected ==
    /\ Page = "connecting"
    /\ window' = Shut
    /\ \/ webPanel' = window.token /\ UNCHANGED drops
       \/ Dropped /\ webPanel' = "out"
    /\ UNCHANGED <<wanted, session, stash, mail, linkTab, slips>>

-----------------------------------------------------------------------------
(* The tab a link opens.                                                   *)

OpenLink(l) ==
    /\ linkTab = NoTab /\ l \in DOMAIN mail
    /\ Manager(l \in GoodLinks(wanted))
    /\ linkTab' = [at |-> IF stash = NoOne THEN "prompt" ELSE "signing",
                   link |-> l, email |-> stash, auto |-> stash # NoOne]
    /\ UNCHANGED <<wanted, session, stash, mail, window, webPanel, drops>>

ConfirmEmail(p) ==
    /\ linkTab.at = "prompt"
    /\ Manager(p = mail[linkTab.link].to)
    /\ linkTab' = [linkTab EXCEPT !.at = "signing", !.email = p]
    /\ UNCHANGED <<wanted, session, stash, mail, window, webPanel, drops>>

Redeems == mail[linkTab.link].good /\ mail[linkTab.link].to = linkTab.email

\* Firebase redeems the link and the browser is signed in; the claims are
\* polled for before the page goes on.
Redeemed ==
    /\ linkTab.at = "signing" /\ Redeems
    /\ mail' = [mail EXCEPT ![linkTab.link].good = FALSE]
    /\ session' = linkTab.email
    /\ linkTab' = [linkTab EXCEPT !.at = "polling"]
    /\ UNCHANGED <<wanted, stash, window, webPanel, slips, drops>>

ClaimsPolled ==
    /\ linkTab.at = "polling"
    /\ stash' = NoOne /\ linkTab' = NoTab
    /\ UNCHANGED <<wanted, session, mail, window, webPanel, slips, drops>>

\* Recoverable errors leave the way open: another try with the stashed
\* address, or the prompt with what was typed.
AfterRecoverable == IF linkTab.auto THEN "retry" ELSE "prompt"

\* (mutation) a network failure counts as an unusable link.
NetworkFailsForGood ==
    /\ linkTab.at \in {"signing", "polling"}
    /\ Dropped
    /\ linkTab' = [linkTab EXCEPT !.at = "error"]
    /\ stash' = NoOne
    /\ UNCHANGED <<wanted, session, mail, window, webPanel, slips>>

\* auth/network-request-failed: a request that never arrived, or whose answer
\* was lost after the link was redeemed, or one of the poll after a sign-in.
NetworkFails ==
    /\ linkTab.at \in {"signing", "polling"}
    /\ Dropped
    /\ linkTab' = [linkTab EXCEPT !.at = AfterRecoverable]
    /\ \/ mail' = mail
       \/ linkTab.at = "signing" /\ Redeems /\ mail' = [mail EXCEPT ![linkTab.link].good = FALSE]
    /\ UNCHANGED <<wanted, session, stash, window, webPanel, slips>>

\* A redeemed link is unusable; a wrong address is a typo at the prompt, but
\* final for a stashed one.  Only a stashed address is cleared.
Refuses ==
    /\ linkTab.at = "signing" /\ ~Redeems
    /\ linkTab' = [linkTab EXCEPT !.at =
                      IF mail[linkTab.link].good /\ ~linkTab.auto THEN "prompt" ELSE "error"]
    /\ stash' = IF linkTab.auto THEN NoOne ELSE stash
    /\ UNCHANGED <<wanted, session, mail, window, webPanel, slips, drops>>

RetrySignIn ==
    /\ linkTab.at = "retry"
    /\ linkTab' = [linkTab EXCEPT !.at = "signing"]
    /\ UNCHANGED <<wanted, session, stash, mail, window, webPanel, slips, drops>>

\* "Send a new link", or the tab is closed.
LeaveTab ==
    /\ linkTab.at \in {"prompt", "retry", "error"}
    /\ Manager(linkTab.at = "error")
    /\ linkTab' = NoTab
    /\ UNCHANGED <<wanted, session, stash, mail, window, webPanel, drops>>

-----------------------------------------------------------------------------
WindowStep ==
    \/ \E p \in Addresses : SendMagicLink(p)
    \/ UseDifferentEmail \/ UseDifferentAccount \/ Connect \/ Redirected

TabStep ==
    \/ \E l \in DOMAIN mail : OpenLink(l)
    \/ \E p \in Addresses : ConfirmEmail(p)
    \/ Redeemed \/ ClaimsPolled \/ Refuses \/ RetrySignIn \/ LeaveTab

WebNext ==
    \/ Press \/ CloseWindow \/ SessionReaches \/ WindowStep \/ TabStep \/ NetworkFails
    \/ \E p \in Addresses : GoogleSignIn(p)
    \/ \E p \in Addresses \cup {NoOne} : OtherTab(p)

\* The manager who wants in goes on, as the pages tell him to; the browser and
\* Firebase answer.
Smooth == wanted # NoOne /\ UNCHANGED <<slips, drops>>
WebFairness ==
    /\ WF_webVars(Smooth /\ (Press \/ WindowStep))
    /\ WF_webVars(Smooth /\ TabStep)
    /\ WF_webVars(Smooth /\ SessionReaches)

-----------------------------------------------------------------------------
(* Properties.                                                             *)

WebTypeOK ==
    /\ {wanted, session, stash, window.copy, window.sentTo, window.token} \subseteq Addresses \cup {NoOne}
    /\ Len(mail) <= MaxLinks
    /\ linkTab.at \in {"closed", "prompt", "signing", "polling", "retry", "error"}
    /\ linkTab # NoTab => linkTab.link \in DOMAIN mail
    /\ webPanel \in {"out", "pending"} \cup Addresses
    /\ window.open <=> webPanel = "pending"
    /\ slips \in 0..MaxSlips /\ drops \in 0..MaxDrops

\* "We couldn't complete sign-in" is shown of a link that cannot be used any
\* more, or was opened under another link's stash: a network failure, a typo at
\* the prompt or a second try never takes a good link away.
ErrorCardTrue ==
    linkTab.at = "error" =>
        \/ ~mail[linkTab.link].good
        \/ linkTab.auto /\ mail[linkTab.link].to # linkTab.email

Connected == webPanel \in Addresses

\* Links lead in: no good link is given up, and a manager who goes on where the
\* pages tell him to is signed in to the panel in the end, whatever window, tab
\* and stash he left behind on the way (email-link.tsx, SignedOutPanel.tsx).
LinksLeadIn == [](WebTypeOK /\ ErrorCardTrue) /\ <>[](wanted # NoOne => Connected)
=============================================================================
