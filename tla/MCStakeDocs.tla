----------------------------- MODULE MCStakeDocs -----------------------------
(* What the documents of a stake come to: the references of its configuration *)
(* (StakeConfig), and the claims its role documents give one user (ClaimSync). *)
(* The two share no document, so each behaviour is one of the one or of the    *)
(* other.                                                                      *)
(*                                                                             *)
(* Two building names, one of them free at first, two environments and one     *)
(* foreign site, two operators and two Kindoo tabs; a stake that exists, one   *)
(* that may be created later, one ward, with and without a limited grant.      *)
EXTENDS StakeConfig, ClaimSync

CONSTANTS sA, sB, w1, e2

\* A site that the configuration page made and no Kindoo tab has opened yet.
MCFirstSites == {None, [eid |-> None, expects |-> e2]}

Limited(scope) == [scope |-> scope, limited |-> TRUE]
MCAccessDocs == {{}, {Limited(w1)}}

VARIABLE subject
stakeVars == <<vars, claimVars, subject>>

\* What a behaviour is not about starts in one state.  A stake's configuration
\* starts with the home's environment known and no site, or with the site there and
\* no environment known.
StakeDocsInit ==
    /\ subject \in {"configuration", "claims"}
    /\ Init /\ ClaimsInit
    /\ subject = "configuration" =>
          /\ ~stakeDocs[sA].designated
          /\ \A s \in Sites : sites[s] = None <=> home.eid # None
    /\ subject = "claims" => /\ home = CHOOSE h \in [eid : HomeEids, expects : Envs] : TRUE
                             /\ wards[w1].id = None
                             /\ \A s \in Sites : sites[s] = None
                             /\ buildings[CHOOSE n \in Names : TRUE] # None

StakeDocsNext ==
    /\ UNCHANGED subject
    /\ \/ subject = "configuration" /\ Next /\ UNCHANGED claimVars
       \/ subject = "claims" /\ ClaimsNext /\ UNCHANGED vars

StakeDocsSpec == StakeDocsInit /\ [][StakeDocsNext]_stakeVars
=============================================================================
