--------------------------- MODULE MCRemoteApply ---------------------------
(* Instances of RemoteApply for TLC. *)
EXTENDS RemoteApply, TLC

CONSTANTS t1, t2, s1, s2

\* Every request is of the first site; both tabs open on it, or one elsewhere.
FirstSite == [r \in Requests |-> s1]
SameSite  == [t \in Tabs |-> s1]
TwoSites  == [t \in Tabs |-> IF t = t1 THEN s1 ELSE s2]

\* Jobs are interchangeable; so are tabs, where every constant treats them alike.
TabJobSymmetry == {f @@ g : f \in Permutations(Tabs), g \in Permutations(Jobs)}
=============================================================================
