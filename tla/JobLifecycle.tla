---------------------------- MODULE JobLifecycle ----------------------------
(***************************************************************************)
(* What the remote-apply mailbox promises the phone: a job is attempted at *)
(* most once, by the one tab that took it from the queue; Kindoo is only   *)
(* touched for a job in somebody's hands; a cancelled job was never in     *)
(* anybody's hands; and an outcome that says the access is there comes     *)
(* from the tab that did the work.  Polls, gates, sites, time and faults   *)
(* are not visible here.                                                   *)
(***************************************************************************)

CONSTANTS Jobs, Requests, Tabs, None

VARIABLES
    status,     \* the status of each job document
    request,    \* the request each job is for
    holds,      \* the job in the hands of each tab
    worked      \* the jobs Kindoo was touched for

jobVars == <<status, request, holds, worked>>

Init ==
    /\ status = [j \in Jobs |-> "none"]
    /\ request = [j \in Jobs |-> None]
    /\ holds = [t \in Tabs |-> None]
    /\ worked = {}

Submit(j, r) ==
    /\ status[j] = "none"
    /\ status' = [status EXCEPT ![j] = "queued"]
    /\ request' = [request EXCEPT ![j] = r]
    /\ UNCHANGED <<holds, worked>>

\* By a phone or by a poll that finds it too old.
Cancel(j) ==
    /\ status[j] = "queued"
    /\ status' = [status EXCEPT ![j] = "cancelled"]
    /\ UNCHANGED <<request, holds, worked>>

\* A tab takes the job, or loses the answer that says so.
Take(j, hands) ==
    /\ status[j] = "queued"
    /\ status' = [status EXCEPT ![j] = "running"]
    /\ holds' = hands
    /\ UNCHANGED <<request, worked>>

Claim(t, j) == holds[t] = None /\ Take(j, [holds EXCEPT ![t] = j])

ClaimUnheard(j) == Take(j, holds)

Work(t) ==
    /\ holds[t] # None
    /\ worked' = worked \cup {holds[t]}
    /\ UNCHANGED <<status, request, holds>>

LetGo(t) == holds[t] # None /\ holds' = [holds EXCEPT ![t] = None]

\* The tab is done, whatever it can say of it.
Drop(t) == LetGo(t) /\ UNCHANGED <<status, request, worked>>

Report(t, outcome) ==
    /\ LetGo(t)
    /\ status[holds[t]] = "running"
    /\ outcome \in {"applied", "partial"} => holds[t] \in worked
    /\ status' = [status EXCEPT ![holds[t]] = outcome]
    /\ UNCHANGED <<request, worked>>

\* Somebody gives a running job up; who holds it may not know.
GiveUp(j) ==
    /\ status[j] = "running"
    /\ status' = [status EXCEPT ![j] = "failed"]
    /\ UNCHANGED <<request, holds, worked>>

Next ==
    \/ \E j \in Jobs : \/ \E r \in Requests : Submit(j, r)
                       \/ Cancel(j) \/ ClaimUnheard(j) \/ GiveUp(j)
                       \/ \E t \in Tabs : Claim(t, j)
    \/ \E t \in Tabs : \/ Work(t) \/ Drop(t)
                       \/ \E outcome \in {"applied", "partial", "failed"} : Report(t, outcome)

Spec == Init /\ [][Next]_jobVars
=============================================================================
