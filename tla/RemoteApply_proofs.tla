------------------------- MODULE RemoteApply_proofs -------------------------
(* Theorems about RemoteApply, for every set of tabs, phones, jobs, requests *)
(* and sites, and every number of faults.                                    *)
EXTENDS RemoteApply, FiniteSetTheorems, TLAPS

-----------------------------------------------------------------------------
(* Type correctness.                                                         *)

\* The mailbox is empty and nothing runs: the first state is well shaped.
LEMMA TypeInit == ASSUME RemoteApplyAssumption, Init PROVE TypeOK
  BY DEF Init, TypeOK, Status, NoRun, NewRun, Run, Runners, NoJob, Job, RemoteApplyAssumption

\* A status change of a known job touches nothing else of the mailbox.
LEMMA StatusChange ==
    ASSUME TypeOK, NEW j \in Jobs, NEW s \in LiveStatuses \cup TerminalStatuses, SetStatus(j, s),
           Status(j) # "none"
    PROVE  /\ jobs' \in [Jobs -> Job]
           /\ Status(j)' = s
           /\ \A k \in Jobs : jobs'[k].request = jobs[k].request
           /\ \A k \in Jobs \ {j} : jobs'[k] = jobs[k]
           /\ \A k \in Jobs : Status(k) # "none" <=> Status(k)' # "none"
           /\ \A k \in Jobs : Status(k)' # "none" => jobs'[k].request \in Requests
  BY DEF TypeOK, SetStatus, Status, Job, LiveStatuses, TerminalStatuses, Outcomes

\* What an action of the phone or of the outside world keeps.
LEMMA TypeMailbox ==
    ASSUME RemoteApplyAssumption, TypeOK, PhoneNext \/ World PROVE TypeOK'
<1> USE DEF TypeOK, Status, mailbox, kindoo, gate, tick, history, Fault
<1>1. CASE PhoneNext
  <2>1. ASSUME NEW p \in Phones, NEW r \in Requests, NEW j \in Jobs, Tap(p, r, j) PROVE TypeOK'
    BY <2>1 DEF Tap, Job, LiveStatuses
  <2>2. ASSUME NEW p \in Phones, Snapshot(p) PROVE TypeOK'
    BY <2>2 DEF Snapshot
  <2>3. ASSUME NEW p \in Phones, NEW j \in Jobs, PhoneTimeout(p, j) PROVE TypeOK'
    BY <2>3 DEF PhoneTimeout, Cancelled, SetStatus, Job, TerminalStatuses
  <2>. QED BY <1>1, <2>1, <2>2, <2>3 DEF PhoneNext
<1>2. CASE World
  <2>1. ASSUME NEW j \in Jobs, Late(j) PROVE TypeOK'
    BY <2>1 DEF Late, Job
  <2>2. ASSUME NEW j \in Jobs, Age(j) PROVE TypeOK'
    <3>1. jobs[j] \in Job /\ jobs[j].age \in 0..1 BY <2>2 DEF Age, Job
    <3>2. jobs[j].age + 1 \in 0..2 BY <3>1
    <3>. QED BY <2>2, <3>1, <3>2 DEF Age, Job
  <2>3. ASSUME NEW r \in Requests, Close(r) PROVE TypeOK'
    BY <2>3 DEF Close
  <2>4. ASSUME NEW t \in Tabs, NEW s \in Sites, Navigate(t, s) PROVE TypeOK'
    BY <2>4 DEF Navigate
  <2>5. ASSUME NEW t \in Tabs, HoldLapses(t) PROVE TypeOK'
    BY <2>5 DEF HoldLapses
  <2>6. ASSUME NEW t \in Tabs, CloseTab(t) PROVE TypeOK'
    BY <2>6 DEF CloseTab, RemoteApplyAssumption, NoRun, NewRun, Run, Runners
  <2>7. ASSUME NEW t \in Tabs, OpenTab(t) PROVE TypeOK'
    BY <2>7 DEF OpenTab
  <2>. QED BY <1>2, <2>1, <2>2, <2>3, <2>4, <2>5, <2>6, <2>7 DEF World
<1>. QED BY <1>1, <1>2

\* What a tick keeps, and a run's result.
LEMMA TypeTick ==
    ASSUME RemoteApplyAssumption, TypeOK, NEW t \in Tabs, TickNext(t) PROVE TypeOK'
<1> USE DEF TypeOK, Status, mailbox, kindoo, gate, tick, history, Fault, Held, EndTick, Publish
<1>1. CASE BeginPoll(t)
  BY <1>1 DEF BeginPoll, Live
<1>2. CASE ReadRunning(t)
  BY <1>2 DEF ReadRunning, RequestsOf, Running, Live
<1>3. CASE ReadRunningFails(t)
  BY <1>3 DEF ReadRunningFails, RequestsOf
<1>4. CASE EndPoll(t)
  BY <1>4 DEF EndPoll
<1>5. CASE TickBlind(t)
  BY <1>5 DEF TickBlind
<1>6. ASSUME NEW j \in Jobs, Sweep(t, j) PROVE TypeOK'
  BY <1>6 DEF Sweep, SetStatus, Job, TerminalStatuses, Outcomes
<1>7. ASSUME NEW j \in Jobs, Sift(t, j) PROVE TypeOK'
  <2>0. Status(j) # "none" BY <1>7 DEF Sift
  <2>1. CASE Cancelled(j)
    <3>1. SetStatus(j, "cancelled") /\ "cancelled" \in LiveStatuses \cup TerminalStatuses
      BY <2>1 DEF Cancelled, TerminalStatuses
    <3>2. /\ jobs' \in [Jobs -> Job]
          /\ \A k \in Jobs : Status(k) # "none" <=> Status(k)' # "none"
          /\ \A k \in Jobs : Status(k)' # "none" => jobs'[k].request \in Requests
      BY <2>0, <3>1, StatusChange
    <3>3. page' \in [Tabs -> SUBSET Jobs] /\ page'[t] \subseteq page[t] /\ \A u \in Tabs \ {t} : page'[u] = page[u]
      BY <1>7 DEF Sift
    <3>4. fresh' \in [Tabs -> SUBSET Jobs] /\ fresh'[t] \subseteq fresh[t] \cup {j} /\ \A u \in Tabs \ {t} : fresh'[u] = fresh[u]
      BY <1>7 DEF Sift
    <3>5. \A u \in Tabs : \A k \in page'[u] \cup fresh'[u] : Status(k)' # "none"
      BY <2>0, <3>2, <3>3, <3>4
    <3>6. faults' \in 0..MaxFaults BY <1>7 DEF Sift, RemoteApplyAssumption
    <3>. QED BY <1>7, <3>2, <3>3, <3>4, <3>5, <3>6 DEF Sift
  <2>2. CASE UNCHANGED jobs
    BY <1>7, <2>0, <2>2 DEF Sift
  <2>. QED BY <1>7, <2>1, <2>2 DEF Sift
<1>8. ASSUME NEW j \in Jobs, Claim(t, j) PROVE TypeOK'
  <2>0. j \in fresh[t] /\ Status(j) # "none" BY <1>8 DEF Claim, Claimable
  <2>1. CASE SetStatus(j, "running") /\ Start(t, j)
    <3>1. NewRun("pending", jobs[j].request) \in Run
      BY <2>0 DEF NewRun, Run
    <3>2. run' \in [Runners -> Run]
      BY <2>1, <3>1 DEF Start, Runners
    <3>. QED BY <1>8, <2>0, <2>1, <3>2, StatusChange DEF Claim, Start, LiveStatuses
  <2>2. CASE EndTick(t) /\ UNCHANGED <<jobs, job, run>>
    BY <1>8, <2>2 DEF Claim
  <2>. QED BY <1>8, <2>1, <2>2 DEF Claim
<1>9. ASSUME NEW j \in Jobs, ClaimFails(t, j) PROVE TypeOK'
  <2>0. j \in fresh[t] /\ Status(j) # "none" BY <1>9 DEF ClaimFails, Claimable
  <2>1. CASE SetStatus(j, "running")
    BY <1>9, <2>0, <2>1, StatusChange DEF ClaimFails, LiveStatuses
  <2>2. CASE UNCHANGED jobs
    BY <1>9, <2>2 DEF ClaimFails
  <2>. QED BY <1>9, <2>1, <2>2 DEF ClaimFails
<1>. QED BY <1>1, <1>2, <1>3, <1>4, <1>5, <1>6, <1>7, <1>8, <1>9 DEF TickNext

\* What the steps of a run keep, the loop's or the panel's.
LEMMA TypeRun ==
    ASSUME RemoteApplyAssumption, TypeOK, NEW t \in Tabs, RunNext(t) \/ PanelNext(t) PROVE TypeOK'
<1> USE DEF TypeOK, Status, mailbox, kindoo, gate, tick, history, Fault
<1>r. <<t, "loop">> \in Runners /\ <<t, "panel">> \in Runners
  BY DEF Runners
<1>a. ASSUME NEW a \in Runners,
             NEW step \in {"lookup", "invite", "rules", "mark", "dialog"}, NEW site \in Sites \cup {None},
             run[a].step # "idle", Advance(a, step, site, "none")
      PROVE  run' \in [Runners -> Run]
  BY <1>a DEF Advance, Run
<1>b. ASSUME NEW a \in Runners, NEW result \in Outcomes, run[a].step # "idle", Result(a, result)
      PROVE  run' \in [Runners -> Run] /\ cards' \in [Tabs -> SUBSET Requests]
  <2>1. CASE a[2] = "loop"
    <3>1. Advance(a, "finish", run[a].site, result) /\ UNCHANGED cards
      BY <1>b, <2>1 DEF Result
    <3>2. [step |-> "finish", request |-> run[a].request, site |-> run[a].site, result |-> result] \in Run
      BY <1>b DEF Run
    <3>. QED BY <3>1, <3>2 DEF Advance
  <2>2. CASE a[2] = "panel"
    <3>1. cards' \in [Tabs -> SUBSET Requests] BY <1>b, <2>2 DEF Result
    <3>2. NoRun \in Run BY DEF NoRun, NewRun, Run
    <3>3. Advance(a, "dialog", run[a].site, "none") \/ run' = [run EXCEPT ![a] = NoRun]
      BY <1>b, <2>2 DEF Result
    <3>4. run[a].site \in Sites \cup {None} BY DEF Run
    <3>5. run' \in [Runners -> Run] BY <1>a, <1>b, <3>2, <3>3, <3>4
    <3>. QED BY <3>1, <3>5
  <2>. QED BY <2>1, <2>2 DEF Runners
<1>c. ASSUME NEW a \in Runners, NEW step \in {"lookup", "invite", "rules", "mark"},
             run[a].step # "idle", Step(a, step)
      PROVE  run' \in [Runners -> Run] /\ cards' \in [Tabs -> SUBSET Requests] /\ faults' \in 0..MaxFaults
  BY <1>c, <1>a DEF Step, Run
<1>d. ASSUME NEW a \in Runners, NEW result \in Outcomes, run[a].step # "idle", Ends(a, result) \/ Fails(a, result)
      PROVE  run' \in [Runners -> Run] /\ cards' \in [Tabs -> SUBSET Requests] /\ faults' \in 0..MaxFaults
  BY <1>d, <1>b DEF Ends, Fails, RemoteApplyAssumption
<1>e. "failed" \in Outcomes /\ "partial" \in Outcomes /\ "applied" \in Outcomes
  BY DEF Outcomes
<1>1. CASE CheckPending(t)
  <2>1. run' \in [Runners -> Run] /\ cards' \in [Tabs -> SUBSET Requests] /\ faults' \in 0..MaxFaults
    BY <1>1, <1>r, <1>c, <1>d, <1>e DEF CheckPending
  <2>. QED BY <1>1, <2>1 DEF CheckPending
<1>2. ASSUME NEW a \in Runners, Lookup(a) PROVE TypeOK'
  <2>0. at[a[1]] \in Sites BY DEF Runners
  <2>1. run' \in [Runners -> Run] /\ cards' \in [Tabs -> SUBSET Requests] /\ faults' \in 0..MaxFaults
    BY <1>2, <2>0, <1>a, <1>d, <1>e DEF Lookup, LookedUp
  <2>. QED BY <1>2, <2>1 DEF Lookup
<1>3. ASSUME NEW a \in Runners, Invite(a) PROVE TypeOK'
  <2>1. run' \in [Runners -> Run] /\ cards' \in [Tabs -> SUBSET Requests] /\ faults' \in 0..MaxFaults
    BY <1>3, <1>c, <1>d, <1>e DEF Invite
  <2>2. invites' \in [Requests \X Sites -> Nat]
    <3>1. CASE UNCHANGED invites BY <3>1
    <3>2. CASE invites' = [invites EXCEPT ![<<run[a].request, run[a].site>>] = @ + 1]
      <4>1. run[a].request \in Requests BY <1>3 DEF Invite, Run
      <4>2. CASE run[a].site \in Sites
        <5>1. invites[<<run[a].request, run[a].site>>] + 1 \in Nat BY <4>1, <4>2
        <5>. QED BY <3>2, <5>1
      <4>3. CASE run[a].site \notin Sites
        <5>1. <<run[a].request, run[a].site>> \notin Requests \X Sites BY <4>3
        <5>. QED BY <3>2, <5>1
      <4>. QED BY <4>2, <4>3
    <3>. QED BY <1>3, <3>1, <3>2 DEF Invite
  <2>3. wrote' \subseteq Jobs \cup {None}
    BY <1>3 DEF Invite, Wrote, Runners
  <2>. QED BY <1>3, <2>1, <2>2, <2>3 DEF Invite
<1>4. ASSUME NEW a \in Runners, Rules(a) PROVE TypeOK'
  <2>1. run' \in [Runners -> Run] /\ cards' \in [Tabs -> SUBSET Requests] /\ faults' \in 0..MaxFaults
    BY <1>4, <1>c, <1>d, <1>e DEF Rules
  <2>2. granted' \subseteq Requests
    BY <1>4 DEF Rules, Run
  <2>3. wrote' \subseteq Jobs \cup {None}
    BY <1>4 DEF Rules, Wrote, Runners
  <2>. QED BY <1>4, <2>1, <2>2, <2>3 DEF Rules
<1>5. ASSUME NEW a \in Runners, Mark(a) PROVE TypeOK'
  <2>1. run' \in [Runners -> Run] /\ cards' \in [Tabs -> SUBSET Requests] /\ faults' \in 0..MaxFaults
    BY <1>5, <1>d, <1>e DEF Mark
  <2>. QED BY <1>5, <2>1 DEF Mark
<1>6. CASE Finish(t)
  <2>1. NoRun \in Run BY DEF NoRun, NewRun, Run
  <2>2. run[<<t, "loop">>].result \in Outcomes BY <1>6, <1>r DEF Finish, Run
  <2>3. run' \in [Runners -> Run] /\ job' \in [Tabs -> Jobs \cup {None}]
    BY <1>6, <1>r, <2>1 DEF Finish
  <2>4. /\ busy' \in [Tabs -> SUBSET Requests] /\ polled' \in [Tabs -> SUBSET Jobs]
        /\ last' = last /\ stale' = stale
    <3>1. \/ /\ busy' = [busy EXCEPT ![t] = @ \ {run[<<t, "loop">>].request}]
             /\ UNCHANGED <<last, stale, polled>>
          \/ Held(t)
      BY <1>6 DEF Finish
    <3>2. CASE Held(t)
      <4>1. CASE stale[t] BY <3>2, <4>1 DEF Held
      <4>2. CASE ~stale[t] BY <3>2, <4>2 DEF Held
      <4>. QED BY <4>1, <4>2
    <3>3. CASE /\ busy' = [busy EXCEPT ![t] = @ \ {run[<<t, "loop">>].request}]
               /\ UNCHANGED <<last, stale, polled>>
      BY <3>3
    <3>. QED BY <3>1, <3>2, <3>3
  <2>5. faults' \in 0..MaxFaults BY <1>6 DEF Finish, RemoteApplyAssumption
  <2>6. /\ jobs' \in [Jobs -> Job]
        /\ \A k \in Jobs : Status(k) # "none" => Status(k)' # "none"
        /\ \A k \in Jobs : Status(k)' # "none" => jobs'[k].request \in Requests
    <3>1. CASE UNCHANGED jobs BY <3>1
    <3>2. CASE Report(t)
      <4>1. CASE job[t] \in Jobs
        BY <2>2, <3>2, <4>1, StatusChange DEF Report, TerminalStatuses
      <4>2. CASE job[t] \notin Jobs
        <5>1. UNCHANGED jobs BY <3>2, <4>2 DEF Report, SetStatus
        <5>. QED BY <5>1
      <4>. QED BY <4>1, <4>2
    <3>. QED BY <1>6, <3>1, <3>2 DEF Finish
  <2>7. /\ pc' \in [Tabs -> {"idle", "sift", "claim", "run", "closed"}]
        /\ page' = [page EXCEPT ![t] = {}] /\ fresh' = [fresh EXCEPT ![t] = {}]
        /\ began' \in [Tabs -> SUBSET Jobs]
    <3>1. EndTick(t) BY <1>6 DEF Finish
    <3>. QED BY <3>1 DEF EndTick
  <2>8. UNCHANGED <<seen, reqs, invites, granted, at, active, cards, wrote, swept>>
    BY <1>6 DEF Finish
  <2>. QED BY <2>3, <2>4, <2>5, <2>6, <2>7, <2>8
<1>7. ASSUME NEW r \in Requests, Click(t, r) PROVE TypeOK'
  BY <1>7, <1>r DEF Click, NewRun, Run
<1>8. CASE Refresh(t)
  BY <1>8 DEF Refresh
<1>9. CASE RetryMark(t)
  <2>1. NoRun \in Run BY DEF NoRun, NewRun, Run
  <2>2. run[<<t, "panel">>].site \in Sites \cup {None} BY <1>r DEF Run
  <2>3. run' \in [Runners -> Run]
    <3>1. Advance(<<t, "panel">>, "mark", run[<<t, "panel">>].site, "none") \/ run' = [run EXCEPT ![<<t, "panel">>] = NoRun]
      BY <1>9 DEF RetryMark
    <3>2. run[<<t, "panel">>].step # "idle" BY <1>9 DEF RetryMark
    <3>. QED BY <1>r, <1>a, <2>1, <2>2, <3>1, <3>2
  <2>. QED BY <1>9, <2>3 DEF RetryMark
<1>. QED
  BY <1>1, <1>2, <1>3, <1>4, <1>5, <1>6, <1>7, <1>8, <1>9, <1>r DEF RunNext, PanelNext, Apply

\* The state always has the shape the code's documents and variables have,
\* whatever the number of tabs, phones, jobs and faults.
THEOREM TypeCorrect == Spec => []TypeOK
<1>1. Init => TypeOK
  BY TypeInit, RemoteApplyAssumption
<1>2. TypeOK /\ [Next]_vars => TypeOK'
  <2>1. ASSUME TypeOK, UNCHANGED vars PROVE TypeOK'
    BY <2>1 DEF TypeOK, Status, vars, mailbox, kindoo, gate, tick, history
  <2>2. ASSUME TypeOK, Next PROVE TypeOK'
    BY <2>2, TypeMailbox, TypeTick, TypeRun, RemoteApplyAssumption DEF Next
  <2>. QED BY <2>1, <2>2
<1>. QED BY <1>1, <1>2, PTL DEF Spec

-----------------------------------------------------------------------------
(* The claim is a lock.  RunHoldsItsJob makes OneRunner and                 *)
(* CancelledUntouched inductive: a job that is run, or that a run has       *)
(* written for, is past `queued`, and nothing takes it back.                *)

Settling == {"running"} \cup Outcomes
WroteForClaimed == \A j \in wrote : j \in Jobs /\ Status(j) \in Settling
Lock == RunHoldsItsJob /\ OneRunner /\ WroteForClaimed

\* Actions that leave every run alone and only move jobs forward keep Lock.
LEMMA LockKept ==
    ASSUME Lock,
           UNCHANGED <<job, wrote>>,
           \A t \in Tabs : pc'[t] = "run" <=> pc[t] = "run",
           \A t \in Tabs : run'[<<t, "loop">>] = run[<<t, "loop">>],
           \A j \in Jobs : Status(j) \in Settling =>
               Status(j)' \in Settling /\ jobs'[j].request = jobs[j].request
    PROVE  Lock'
  BY DEF Lock, RunHoldsItsJob, OneRunner, WroteForClaimed, Settling

\* What a status change means for Lock, whoever writes it.
LEMMA ForwardChange ==
    ASSUME TypeOK, NEW j \in Jobs, NEW s \in LiveStatuses \cup TerminalStatuses, SetStatus(j, s),
           \/ Status(j) = "queued" /\ s \in {"running", "cancelled"}
           \/ Status(j) = "running" /\ s \in Outcomes
    PROVE  \A k \in Jobs : Status(k) \in Settling =>
               Status(k)' \in Settling /\ jobs'[k].request = jobs[k].request
<1>1. Status(j) # "none" BY DEF LiveStatuses
<1>. QED BY <1>1, StatusChange DEF Settling, Outcomes, Status

\* Phones, clocks, users and tabs that come and go never touch a run's claim.
LEMMA LockWorld ==
    ASSUME TypeOK, Lock, PhoneNext \/ World PROVE Lock'
<1> USE DEF mailbox, kindoo, gate, tick, history
<1>1. ASSUME NEW p \in Phones, NEW r \in Requests, NEW j \in Jobs, Tap(p, r, j) PROVE Lock'
  <2>1. Status(j) \notin Settling BY <1>1 DEF Tap, NoJob, Status, Settling, Outcomes
  <2>2. \A k \in Jobs \ {j} : jobs'[k] = jobs[k] BY <1>1 DEF Tap, TypeOK
  <2>3. \A k \in Jobs : Status(k) \in Settling =>
            Status(k)' \in Settling /\ jobs'[k].request = jobs[k].request
    BY <2>1, <2>2 DEF Status
  <2>. QED BY <1>1, <2>3, LockKept DEF Tap
<1>2. ASSUME NEW p \in Phones, Snapshot(p) PROVE Lock'
  BY <1>2, LockKept DEF Snapshot, Status
<1>3. ASSUME NEW p \in Phones, NEW j \in Jobs, PhoneTimeout(p, j) PROVE Lock'
  BY <1>3, LockKept, ForwardChange DEF PhoneTimeout, Cancelled, TerminalStatuses
<1>4. ASSUME NEW j \in Jobs, Late(j) PROVE Lock'
  <2>1. \A k \in Jobs : Status(k)' = Status(k) /\ jobs'[k].request = jobs[k].request
    BY <1>4 DEF Late, Status, TypeOK
  <2>. QED BY <1>4, <2>1, LockKept DEF Late
<1>5. ASSUME NEW j \in Jobs, Age(j) PROVE Lock'
  <2>1. \A k \in Jobs : Status(k)' = Status(k) /\ jobs'[k].request = jobs[k].request
    BY <1>5 DEF Age, Status, TypeOK
  <2>. QED BY <1>5, <2>1, LockKept DEF Age
<1>6. ASSUME NEW r \in Requests, Close(r) PROVE Lock'
  BY <1>6, LockKept DEF Close, Status
<1>7. ASSUME NEW t \in Tabs, NEW s \in Sites, Navigate(t, s) PROVE Lock'
  BY <1>7, LockKept DEF Navigate, Status
<1>8. ASSUME NEW t \in Tabs, HoldLapses(t) PROVE Lock'
  BY <1>8, LockKept DEF HoldLapses, Status
<1>9. ASSUME NEW t \in Tabs, CloseTab(t) PROVE Lock'
  <2>1. /\ pc' = [pc EXCEPT ![t] = "closed"]
        /\ job' = [job EXCEPT ![t] = None]
        /\ \A u \in Tabs : run'[<<u, "loop">>] = IF u = t THEN NoRun ELSE run[<<u, "loop">>]
        /\ UNCHANGED <<jobs, wrote>>
    BY <1>9 DEF CloseTab, Runners
  <2>. QED BY <2>1 DEF TypeOK, Lock, RunHoldsItsJob, OneRunner, WroteForClaimed, Status, NoRun, NewRun
<1>10. ASSUME NEW t \in Tabs, OpenTab(t) PROVE Lock'
  <2>1. \A u \in Tabs : pc'[u] = "run" <=> pc[u] = "run"
    BY <1>10 DEF OpenTab, TypeOK
  <2>. QED BY <1>10, <2>1, LockKept DEF OpenTab, Status
<1>. QED BY <1>1, <1>2, <1>3, <1>4, <1>5, <1>6, <1>7, <1>8, <1>9, <1>10 DEF PhoneNext, World

\* The tick is where the lock is taken: a claim needs the job queued, so no
\* other tab can be running it, and a sweep only moves a running job forward.
LEMMA LockTick ==
    ASSUME TypeOK, Lock, NEW t \in Tabs, TickNext(t) PROVE Lock'
<1> USE DEF mailbox, kindoo, gate, tick, history
<1>1. CASE BeginPoll(t) \/ ReadRunning(t) \/ ReadRunningFails(t) \/ EndPoll(t) \/ TickBlind(t)
  <2>1. \A u \in Tabs : pc'[u] = "run" <=> pc[u] = "run"
    BY <1>1 DEF BeginPoll, ReadRunning, ReadRunningFails, EndPoll, TickBlind, Publish, EndTick, TypeOK
  <2>2. UNCHANGED <<job, wrote, run, jobs>>
    BY <1>1 DEF BeginPoll, ReadRunning, ReadRunningFails, EndPoll, TickBlind
  <2>. QED BY <2>1, <2>2, LockKept DEF Status
<1>2. ASSUME NEW j \in Jobs, Sweep(t, j) PROVE Lock'
  BY <1>2, LockKept, ForwardChange DEF Sweep, TerminalStatuses, Outcomes
<1>3. ASSUME NEW j \in Jobs, Sift(t, j) PROVE Lock'
  <2>1. \/ Status(j) = "queued" /\ Cancelled(j)
        \/ UNCHANGED jobs
    BY <1>3 DEF Sift
  <2>2. \A k \in Jobs : Status(k) \in Settling =>
            Status(k)' \in Settling /\ jobs'[k].request = jobs[k].request
    BY <2>1, ForwardChange DEF Cancelled, Status, TerminalStatuses
  <2>. QED BY <1>3, <2>2, LockKept DEF Sift
<1>4. ASSUME NEW j \in Jobs, Claim(t, j) PROVE Lock'
  <2>1. CASE Status(j) = "queued" /\ SetStatus(j, "running") /\ Start(t, j)
    <3>1. /\ pc[t] = "claim" /\ pc' = [pc EXCEPT ![t] = "run"] /\ job' = [job EXCEPT ![t] = j]
          /\ wrote' = wrote
          /\ \A u \in Tabs : run'[<<u, "loop">>] =
                IF u = t THEN NewRun("pending", jobs[j].request) ELSE run[<<u, "loop">>]
      BY <1>4, <2>1 DEF Claim, Start, TypeOK, Runners
    <3>2. \A k \in Jobs : Status(k) \in Settling =>
              Status(k)' \in Settling /\ jobs'[k].request = jobs[k].request
      BY <2>1, ForwardChange DEF LiveStatuses
    <3>3. Status(j)' = "running" /\ jobs'[j].request = jobs[j].request
      BY <2>1, StatusChange DEF LiveStatuses
    <3>4. \A u \in Tabs : pc[u] = "run" => job[u] # j
      BY <2>1 DEF Lock, RunHoldsItsJob, Outcomes
    <3>5. RunHoldsItsJob'
      <4>1. ASSUME NEW u \in Tabs, u # t, pc'[u] = "run"
            PROVE  /\ job'[u] \in Jobs /\ jobs'[job'[u]].status \in Settling
                   /\ run'[<<u, "loop">>].request = jobs'[job'[u]].request
        BY <3>1, <3>2, <4>1 DEF Lock, RunHoldsItsJob, TypeOK, Settling, Status
      <4>2. \A u \in Tabs : u # t => job'[u] = job[u] /\ pc'[u] = pc[u] /\ run'[<<u, "loop">>] = run[<<u, "loop">>]
        BY <3>1 DEF TypeOK
      <4>3. /\ pc'[t] = "run" /\ job'[t] = j
            /\ run'[<<t, "loop">>].step = "pending" /\ run'[<<t, "loop">>].request = jobs[j].request
        <5>1. run'[<<t, "loop">>] = NewRun("pending", jobs[j].request) BY <3>1
        <5>2. /\ NewRun("pending", jobs[j].request).step = "pending"
              /\ NewRun("pending", jobs[j].request).request = jobs[j].request
          BY DEF NewRun
        <5>. QED BY <3>1, <5>1, <5>2 DEF TypeOK
      <4>4. \A u \in Tabs : pc'[u] = "run" <=> run'[<<u, "loop">>].step # "idle"
        BY <4>2, <4>3 DEF Lock, RunHoldsItsJob
      <4>5. /\ job'[t] \in Jobs /\ jobs'[job'[t]].status \in Settling
            /\ run'[<<t, "loop">>].request = jobs'[job'[t]].request
        BY <3>3, <4>3 DEF Settling, Status
      <4>. QED BY <4>1, <4>4, <4>5 DEF RunHoldsItsJob, Settling, Status
    <3>6. OneRunner'
      BY <3>1, <3>4 DEF Lock, OneRunner, TypeOK
    <3>7. WroteForClaimed'
      BY <3>1, <3>2 DEF Lock, WroteForClaimed
    <3>. QED BY <3>5, <3>6, <3>7 DEF Lock
  <2>2. CASE EndTick(t) /\ UNCHANGED <<jobs, job, run>>
    <3>1. \A u \in Tabs : pc'[u] = "run" <=> pc[u] = "run"
      BY <1>4, <2>2 DEF Claim, EndTick, TypeOK
    <3>. QED BY <1>4, <2>2, <3>1, LockKept DEF Claim, Status
  <2>. QED BY <1>4, <2>1, <2>2 DEF Claim
<1>5. ASSUME NEW j \in Jobs, ClaimFails(t, j) PROVE Lock'
  <2>1. \/ Status(j) = "queued" /\ SetStatus(j, "running")
        \/ UNCHANGED jobs
    BY <1>5 DEF ClaimFails
  <2>2. \A k \in Jobs : Status(k) \in Settling =>
            Status(k)' \in Settling /\ jobs'[k].request = jobs[k].request
    BY <2>1, ForwardChange DEF Status, LiveStatuses
  <2>3. \A u \in Tabs : pc'[u] = "run" <=> pc[u] = "run"
    BY <1>5 DEF ClaimFails, EndTick, TypeOK
  <2>. QED BY <1>5, <2>2, <2>3, LockKept DEF ClaimFails
<1>. QED BY <1>1, <1>2, <1>3, <1>4, <1>5 DEF TickNext

\* A run steps on, or a Kindoo write of it is recorded.
LEMMA LockStep ==
    ASSUME TypeOK, Lock, NEW a \in Runners, run[a].step # "idle",
           UNCHANGED <<jobs, job, pc>>,
           \/ \E step \in {"lookup", "invite", "rules", "mark"}, site \in Sites \cup {None} :
                 Advance(a, step, site, "none")
           \/ \E result \in Outcomes : Result(a, result),
           UNCHANGED wrote \/ Wrote(a)
    PROVE  Lock'
<1>1. ASSUME NEW u \in Tabs PROVE
         /\ run'[<<u, "loop">>].step # "idle" <=> run[<<u, "loop">>].step # "idle"
         /\ run'[<<u, "loop">>].request = run[<<u, "loop">>].request
  <2>0. <<u, "loop">> \in Runners BY DEF Runners
  <2>1. CASE a = <<u, "loop">>
    <3>1. a[2] = "loop" BY <2>1
    <3>2. \E step \in {"lookup", "invite", "rules", "mark", "finish"}, site \in Sites \cup {None},
             result \in Outcomes \cup {"none"} : Advance(a, step, site, result)
      <4>1. CASE \E step \in {"lookup", "invite", "rules", "mark"}, site \in Sites \cup {None} :
                   Advance(a, step, site, "none")
        BY <4>1
      <4>2. CASE \E result \in Outcomes : Result(a, result)
        <5>1. PICK result \in Outcomes : Advance(a, "finish", run[a].site, result)
          BY <3>1, <4>2 DEF Result
        <5>2. run[a].site \in Sites \cup {None} BY DEF TypeOK, Run
        <5>. QED BY <5>1, <5>2
      <4>. QED BY <4>1, <4>2
    <3>. QED BY <2>0, <2>1, <3>2 DEF Advance, TypeOK
  <2>2. CASE a # <<u, "loop">>
    BY <2>0, <2>2 DEF Result, Advance, TypeOK
  <2>. QED BY <2>1, <2>2
<1>2. RunHoldsItsJob' /\ OneRunner'
  BY <1>1 DEF Lock, RunHoldsItsJob, OneRunner, Status
<1>3. WroteForClaimed'
  <2>1. CASE UNCHANGED wrote
    BY <2>1 DEF Lock, WroteForClaimed, Status
  <2>2. CASE a[2] = "loop" /\ wrote' = wrote \cup {job[a[1]]}
    <3>1. a = <<a[1], "loop">> /\ a[1] \in Tabs BY <2>2 DEF Runners
    <3>2. job[a[1]] \in Jobs /\ Status(job[a[1]]) \in Settling
      BY <3>1 DEF Lock, RunHoldsItsJob, Settling
    <3>. QED BY <2>2, <3>2 DEF Lock, WroteForClaimed, Status
  <2>. QED BY <2>1, <2>2 DEF Wrote
<1>. QED BY <1>2, <1>3 DEF Lock

\* The steps of a run keep the claim they run under, to the terminal write.
LEMMA LockRun ==
    ASSUME TypeOK, Lock, NEW t \in Tabs, RunNext(t) \/ PanelNext(t) PROVE Lock'
<1> USE DEF mailbox, kindoo, gate, tick, history
<1>r. <<t, "loop">> \in Runners /\ <<t, "panel">> \in Runners
  BY DEF Runners
<1>e. "failed" \in Outcomes /\ "partial" \in Outcomes /\ "applied" \in Outcomes
  BY DEF Outcomes
<1>s. \A a \in Runners : run[a].site \in Sites \cup {None} /\ at[a[1]] \in Sites
  BY DEF TypeOK, Run, Runners
<1>1. CASE CheckPending(t)
  BY <1>1, <1>r, <1>e, <1>s, LockStep DEF CheckPending, Step, Ends, Fails
<1>2. ASSUME NEW a \in Runners, Lookup(a) PROVE Lock'
  BY <1>2, <1>e, <1>s, LockStep DEF Lookup, LookedUp, Ends, Fails
<1>3. ASSUME NEW a \in Runners, Invite(a) PROVE Lock'
  BY <1>3, <1>e, <1>s, LockStep DEF Invite, Step, Fails
<1>4. ASSUME NEW a \in Runners, Rules(a) PROVE Lock'
  BY <1>4, <1>e, <1>s, LockStep DEF Rules, Step, Fails
<1>5. ASSUME NEW a \in Runners, Mark(a) PROVE Lock'
  BY <1>5, <1>e, <1>s, LockStep DEF Mark, Ends, Fails
<1>6. CASE Finish(t)
  <2>1. run[<<t, "loop">>].step = "finish" /\ run[<<t, "loop">>].result \in Outcomes
    BY <1>6, <1>r DEF Finish, TypeOK, Run
  <2>2. job[t] \in Jobs
    BY <2>1 DEF Lock, RunHoldsItsJob
  <2>3. Report(t) \/ UNCHANGED jobs
    BY <1>6 DEF Finish
  <2>4. \A k \in Jobs : Status(k) \in Settling =>
            Status(k)' \in Settling /\ jobs'[k].request = jobs[k].request
    BY <2>1, <2>2, <2>3, ForwardChange DEF Report, Status, TerminalStatuses
  <2>5. /\ \A u \in Tabs : run'[<<u, "loop">>] = IF u = t THEN NoRun ELSE run[<<u, "loop">>]
        /\ pc' = [pc EXCEPT ![t] = "idle"] /\ job' = [job EXCEPT ![t] = None] /\ UNCHANGED wrote
    <3>1. run' = [run EXCEPT ![<<t, "loop">>] = NoRun] BY <1>6 DEF Finish
    <3>2. \A u \in Tabs : <<u, "loop">> \in Runners /\ (<<u, "loop">> = <<t, "loop">> <=> u = t) BY DEF Runners
    <3>3. \A u \in Tabs : run'[<<u, "loop">>] = IF u = t THEN NoRun ELSE run[<<u, "loop">>]
      BY <3>1, <3>2 DEF TypeOK
    <3>. QED BY <1>6, <3>3 DEF Finish, EndTick
  <2>. QED BY <2>4, <2>5 DEF Lock, RunHoldsItsJob, OneRunner, WroteForClaimed, TypeOK, NoRun, NewRun, Settling
<1>7. ASSUME NEW r \in Requests, Click(t, r) PROVE Lock'
  <2>1. \A u \in Tabs : run'[<<u, "loop">>] = run[<<u, "loop">>]
    BY <1>7, <1>r DEF Click, TypeOK
  <2>. QED BY <1>7, <2>1, LockKept DEF Click, Status
<1>8. CASE Refresh(t)
  BY <1>8, LockKept DEF Refresh, Status
<1>9. CASE RetryMark(t)
  <2>1. \A u \in Tabs : run'[<<u, "loop">>] = run[<<u, "loop">>]
    <3>1. \A u \in Tabs : <<u, "loop">> \in Runners /\ <<u, "loop">> # <<t, "panel">> BY DEF Runners
    <3>2. \E r \in [step : {"mark", "idle"}, request : Requests \cup {None}, site : Sites \cup {None},
                     result : {"none"}] : run' = [run EXCEPT ![<<t, "panel">>] = r]
      BY <1>9, <1>r DEF RetryMark, Advance, TypeOK, Run, NoRun, NewRun
    <3>. QED BY <3>1, <3>2 DEF TypeOK
  <2>. QED BY <1>9, <2>1, LockKept DEF RetryMark, Status
<1>. QED
  BY <1>1, <1>2, <1>3, <1>4, <1>5, <1>6, <1>7, <1>8, <1>9, <1>r DEF RunNext, PanelNext, Apply

\* The inductive invariant behind the theorems below: every run holds the job
\* its tab claimed, no job is run twice, and only claimed jobs wrote to Kindoo.
THEOREM LockInvariant == Spec => []Lock
<1>1. Init => Lock
  BY DEF Init, Lock, RunHoldsItsJob, OneRunner, WroteForClaimed, Runners, NoRun, NewRun
<1>2. TypeOK /\ Lock /\ [Next]_vars => Lock'
  <2>1. ASSUME Lock, UNCHANGED vars PROVE Lock'
    BY <2>1, LockKept DEF vars, mailbox, kindoo, gate, tick, history, Status
  <2>2. ASSUME TypeOK, Lock, Next PROVE Lock'
    BY <2>2, LockWorld, LockTick, LockRun DEF Next
  <2>. QED BY <2>1, <2>2
<1>. QED BY <1>1, <1>2, TypeCorrect, PTL DEF Spec

\* A run in progress is of the job its tab claimed, and nothing takes the job
\* back while it runs, however many actors write the mailbox.
THEOREM RunsHoldTheirJobs == Spec => []RunHoldsItsJob
  BY LockInvariant, PTL DEF Lock

\* The conditional status write is a lock: no two tabs run the same job.
THEOREM OneTabRuns == Spec => []OneRunner
  BY LockInvariant, PTL DEF Lock

\* A job that its phone or a poll cancelled was never provisioned.
THEOREM CancelledMeansUntouched == Spec => []CancelledUntouched
<1>1. Lock => CancelledUntouched
  BY DEF Lock, WroteForClaimed, CancelledUntouched, Settling, Outcomes
<1>. QED BY <1>1, LockInvariant, PTL
-----------------------------------------------------------------------------
(* The statuses of a job only move forward.                                  *)

Forward ==
    \A j \in Jobs : jobs[j] # NoJob /\ jobs'[j] # jobs[j] =>
        /\ jobs'[j].request = jobs[j].request
        /\ \/ Status(j) = "queued"  /\ jobs'[j].status \in {"queued", "running", "cancelled"}
           \/ Status(j) = "running" /\ jobs'[j].status \in {"running"} \cup Outcomes

\* A legal status change moves one job forward and leaves the others.
LEMMA ForwardStatus ==
    ASSUME TypeOK, NEW j \in Jobs, NEW s \in LiveStatuses \cup TerminalStatuses, SetStatus(j, s),
           \/ Status(j) = "queued" /\ s \in {"running", "cancelled"}
           \/ Status(j) = "running" /\ s \in Outcomes
    PROVE  Forward
<1>1. Status(j) # "none" BY DEF LiveStatuses
<1>. QED BY <1>1, StatusChange DEF Forward, Status

\* Every step of every actor moves jobs forward only.
LEMMA ForwardNext == ASSUME TypeOK, Lock, Next PROVE Forward
<1> USE DEF mailbox, kindoo, gate, tick, history
<1>u. ASSUME UNCHANGED jobs PROVE Forward
  BY <1>u DEF Forward
<1>e. /\ "running" \in LiveStatuses \cup TerminalStatuses /\ "cancelled" \in LiveStatuses \cup TerminalStatuses
      /\ "failed" \in Outcomes /\ Outcomes \subseteq LiveStatuses \cup TerminalStatuses
  BY DEF LiveStatuses, TerminalStatuses, Outcomes
<1>1. CASE PhoneNext
  <2>1. ASSUME NEW p \in Phones, NEW r \in Requests, NEW j \in Jobs, Tap(p, r, j) PROVE Forward
    BY <2>1 DEF Tap, Forward, TypeOK
  <2>2. ASSUME NEW p \in Phones, NEW j \in Jobs, PhoneTimeout(p, j) PROVE Forward
    BY <2>2, <1>e, ForwardStatus DEF PhoneTimeout, Cancelled
  <2>. QED BY <1>1, <1>u, <2>1, <2>2 DEF PhoneNext, Snapshot
<1>2. CASE World
  <2>1. ASSUME NEW j \in Jobs, Late(j) PROVE Forward
    BY <2>1 DEF Late, Forward, TypeOK, Status
  <2>2. ASSUME NEW j \in Jobs, Age(j) PROVE Forward
    BY <2>2 DEF Age, Forward, TypeOK, Status
  <2>. QED BY <1>2, <1>u, <2>1, <2>2 DEF World, Close, Navigate, HoldLapses, CloseTab, OpenTab
<1>3. ASSUME NEW t \in Tabs, TickNext(t) PROVE Forward
  <2>1. ASSUME NEW j \in Jobs, Sweep(t, j) PROVE Forward
    BY <2>1, <1>e, ForwardStatus DEF Sweep
  <2>2. ASSUME NEW j \in Jobs, Sift(t, j) PROVE Forward
    <3>1. \/ Status(j) = "queued" /\ Cancelled(j)
          \/ UNCHANGED jobs
      BY <2>2 DEF Sift
    <3>. QED BY <3>1, <1>u, <1>e, ForwardStatus DEF Cancelled
  <2>3. ASSUME NEW j \in Jobs, Claim(t, j) \/ ClaimFails(t, j) PROVE Forward
    <3>1. \/ Status(j) = "queued" /\ SetStatus(j, "running")
          \/ UNCHANGED jobs
      BY <2>3 DEF Claim, ClaimFails
    <3>. QED BY <3>1, <1>u, <1>e, ForwardStatus
  <2>. QED
    BY <1>3, <1>u, <2>1, <2>2, <2>3 DEF TickNext, BeginPoll, ReadRunning, ReadRunningFails, EndPoll, TickBlind
<1>4. ASSUME NEW t \in Tabs, RunNext(t) \/ PanelNext(t) PROVE Forward
  <2>1. CASE Finish(t)
    <3>1. run[<<t, "loop">>].result \in Outcomes /\ job[t] \in Jobs
      BY <2>1 DEF Finish, TypeOK, Run, Runners, Lock, RunHoldsItsJob
    <3>2. \/ Status(job[t]) = "running" /\ SetStatus(job[t], run[<<t, "loop">>].result)
          \/ UNCHANGED jobs
      BY <2>1 DEF Finish, Report
    <3>. QED BY <3>1, <3>2, <1>u, <1>e, ForwardStatus
  <2>2. ASSUME ~Finish(t) PROVE UNCHANGED jobs
    BY <1>4, <2>2 DEF RunNext, PanelNext, Apply, CheckPending, Lookup, Invite, Rules, Mark, Click, Refresh, RetryMark
  <2>. QED BY <1>u, <2>1, <2>2
<1>. QED BY <1>1, <1>2, <1>3, <1>4 DEF Next

\* A job moves from queued to running or cancelled, from running to an outcome,
\* and then never again, and its request never changes.
THEOREM StatusesMoveForward == Spec => JobsMoveForward
<1>1. TypeOK /\ Lock /\ [Next]_vars => [Forward]_vars
  BY ForwardNext
<1>. QED BY <1>1, TypeCorrect, LockInvariant, PTL DEF Spec, JobsMoveForward, Forward
-----------------------------------------------------------------------------
(* What a run has done when it says so.  RunRight carries, from step to      *)
(* step, what the outcome of the run will vouch for.                         *)

RunRight(a) ==
    /\ run[a].step = "invite" => run[a].site = SiteOf[run[a].request]
    /\ run[a].step \in {"mark", "dialog"} => run[a].request \in granted
    /\ run[a].step = "finish" /\ run[a].result = "applied" =>
          run[a].request \in granted /\ reqs[run[a].request] = "complete"
Honest == (\A a \in Runners : RunRight(a)) /\ AppliedIsDone

\* What a run vouches for lasts: grants and completions are never undone.
LEMMA HonestKept ==
    ASSUME Honest,
           granted \subseteq granted',
           \A r \in Requests : reqs[r] = "complete" => reqs'[r] = "complete",
           \A j \in Jobs : jobs[j].request \in Requests \/ Status(j) # "applied",
           \A a \in Runners : run[a].request \in Requests \/ run[a].step = "idle",
           \A j \in Jobs : Status(j)' = "applied" =>
               Status(j) = "applied" /\ jobs'[j].request = jobs[j].request,
           \A a \in Runners : run'[a] = run[a] \/ RunRight(a)'
    PROVE  Honest'
<1>1. AppliedIsDone'
  BY DEF Honest, AppliedIsDone, Status
<1>2. ASSUME NEW a \in Runners, run'[a] = run[a] PROVE RunRight(a)'
  <2>1. RunRight(a) BY DEF Honest
  <2>. QED BY <1>2, <2>1 DEF RunRight
<1>. QED BY <1>1, <1>2 DEF Honest

\* The requests of settled jobs and of runs in progress are requests.
LEMMA TypedRequests ==
    ASSUME TypeOK
    PROVE  /\ \A j \in Jobs : jobs[j].request \in Requests \/ Status(j) # "applied"
           /\ \A a \in Runners : run[a].request \in Requests \/ run[a].step = "idle"
  BY DEF TypeOK, Run

\* The outside world changes no result, and a closed tab's runs are gone.
LEMMA HonestWorld == ASSUME TypeOK, Lock, Honest, PhoneNext \/ World PROVE Honest'
<1> USE DEF mailbox, kindoo, gate, tick, history
<1>1. ASSUME NEW j \in Jobs, Status(j)' = "applied"
      PROVE  Status(j) = "applied" /\ jobs'[j].request = jobs[j].request
  <2>1. CASE UNCHANGED jobs BY <1>1, <2>1 DEF Status
  <2>2. ASSUME NEW p \in Phones, NEW r \in Requests, NEW k \in Jobs, Tap(p, r, k)
        PROVE  Status(j) = "applied" /\ jobs'[j].request = jobs[j].request
    BY <1>1, <2>2 DEF Tap, TypeOK, Status
  <2>3. ASSUME NEW k \in Jobs, Cancelled(k) \/ Late(k) \/ Age(k)
        PROVE  Status(j) = "applied" /\ jobs'[j].request = jobs[j].request
    BY <1>1, <2>3 DEF Cancelled, SetStatus, Late, Age, TypeOK, Status
  <2>. QED
    BY <2>1, <2>2, <2>3 DEF PhoneNext, World, Snapshot, PhoneTimeout, Close, Navigate, HoldLapses, CloseTab, OpenTab
<1>2. \A r \in Requests : reqs[r] = "complete" => reqs'[r] = "complete"
  <2>1. ASSUME NEW r \in Requests, Close(r) PROVE \A q \in Requests : reqs[q] = "complete" => reqs'[q] = "complete"
    BY <2>1 DEF Close, TypeOK
  <2>. QED BY <2>1 DEF PhoneNext, World, Tap, Snapshot, PhoneTimeout, Late, Age, Navigate, HoldLapses, CloseTab, OpenTab
<1>3. granted' = granted
  BY DEF PhoneNext, World, Tap, Snapshot, PhoneTimeout, Late, Age, Close, Navigate, HoldLapses, CloseTab, OpenTab
<1>4. ASSUME NEW a \in Runners PROVE run'[a] = run[a] \/ run'[a] = NoRun
  BY DEF PhoneNext, World, Tap, Snapshot, PhoneTimeout, Late, Age, Close, Navigate, HoldLapses, CloseTab, OpenTab, TypeOK
<1>5. ASSUME NEW a \in Runners, run'[a] = NoRun PROVE RunRight(a)'
  BY <1>5 DEF RunRight, NoRun, NewRun
<1>. QED BY <1>1, <1>2, <1>3, <1>4, <1>5, HonestKept, TypedRequests

\* A tick writes no `applied` status and starts only fresh runs.
LEMMA HonestTick == ASSUME TypeOK, Honest, NEW t \in Tabs, TickNext(t) PROVE Honest'
<1> USE DEF mailbox, kindoo, gate, tick, history
<1>1. ASSUME NEW j \in Jobs, Status(j)' = "applied"
      PROVE  Status(j) = "applied" /\ jobs'[j].request = jobs[j].request
  <2>1. CASE UNCHANGED jobs BY <1>1, <2>1 DEF Status
  <2>2. ASSUME NEW k \in Jobs, Cancelled(k) \/ SetStatus(k, "running") \/ SetStatus(k, "failed")
        PROVE  Status(j) = "applied" /\ jobs'[j].request = jobs[j].request
    BY <1>1, <2>2 DEF Cancelled, SetStatus, TypeOK, Status
  <2>. QED
    BY <2>1, <2>2 DEF TickNext, BeginPoll, ReadRunning, ReadRunningFails, EndPoll, TickBlind, Sweep, Sift, Claim, ClaimFails
<1>2. UNCHANGED <<granted, reqs>>
  BY DEF TickNext, BeginPoll, ReadRunning, ReadRunningFails, EndPoll, TickBlind, Sweep, Sift, Claim, ClaimFails
<1>3. \/ UNCHANGED run
      \/ \E j \in Jobs : run' = [run EXCEPT ![<<t, "loop">>] = NewRun("pending", jobs[j].request)]
  BY DEF TickNext, BeginPoll, ReadRunning, ReadRunningFails, EndPoll, TickBlind, Sweep, Sift, Claim, ClaimFails, Start
<1>4. ASSUME NEW a \in Runners PROVE run'[a] = run[a] \/ RunRight(a)'
  <2>1. CASE run'[a] = run[a] BY <2>1
  <2>2. ASSUME NEW j \in Jobs, run'[a] = NewRun("pending", jobs[j].request) PROVE RunRight(a)'
    BY <2>2 DEF RunRight, NewRun
  <2>. QED BY <1>3, <2>1, <2>2 DEF TypeOK
<1>. QED BY <1>1, <1>2, <1>4, HonestKept, TypedRequests

\* A step of one run leaves the other runs and the mailbox alone.
LEMMA HonestStep ==
    ASSUME TypeOK, Honest, NEW a \in Runners, UNCHANGED jobs,
           granted \subseteq granted',
           \A r \in Requests : reqs[r] = "complete" => reqs'[r] = "complete",
           \A b \in Runners \ {a} : run'[b] = run[b],
           RunRight(a)'
    PROVE  Honest'
<1>1. \A b \in Runners : run'[b] = run[b] \/ RunRight(b)' OBVIOUS
<1>. QED BY <1>1, HonestKept, TypedRequests DEF Status

\* What a run may become, and what it then vouches for.
LEMMA RunBecomes ==
    ASSUME TypeOK, NEW a \in Runners, NEW step, NEW site, NEW result, Advance(a, step, site, result)
    PROVE  /\ run'[a].step = step /\ run'[a].site = site /\ run'[a].result = result
           /\ run'[a].request = run[a].request
           /\ \A b \in Runners \ {a} : run'[b] = run[b]
  BY DEF Advance, TypeOK

\* A run that ends as failed vouches for nothing.
LEMMA FailedIsRight ==
    ASSUME TypeOK, NEW a \in Runners, Result(a, "failed")
    PROVE  RunRight(a)' /\ \A b \in Runners \ {a} : run'[b] = run[b]
<1>1. CASE Advance(a, "finish", run[a].site, "failed")
  BY <1>1, RunBecomes DEF RunRight
<1>2. CASE run' = [run EXCEPT ![a] = NoRun]
  <2>1. run'[a] = NoRun /\ \A b \in Runners \ {a} : run'[b] = run[b] BY <1>2 DEF TypeOK
  <2>. QED BY <2>1 DEF RunRight, NoRun, NewRun
<1>. QED BY <1>1, <1>2 DEF Result

\* A partial result, or an applied one of a completed request, after the rules
\* are in Kindoo.
LEMMA MarkedIsRight ==
    ASSUME TypeOK, NEW a \in Runners, NEW result \in {"applied", "partial"}, Result(a, result),
           run[a].request \in granted', result = "applied" => reqs'[run[a].request] = "complete"
    PROVE  RunRight(a)' /\ \A b \in Runners \ {a} : run'[b] = run[b]
<1>1. CASE Advance(a, "finish", run[a].site, result)
  BY <1>1, RunBecomes DEF RunRight
<1>2. CASE Advance(a, "dialog", run[a].site, "none")
  BY <1>2, RunBecomes DEF RunRight
<1>3. CASE run' = [run EXCEPT ![a] = NoRun]
  <2>1. run'[a] = NoRun /\ \A b \in Runners \ {a} : run'[b] = run[b] BY <1>3 DEF TypeOK
  <2>. QED BY <2>1 DEF RunRight, NoRun, NewRun
<1>. QED BY <1>1, <1>2, <1>3 DEF Result

\* Each step of a run earns what its next step vouches for.
LEMMA HonestRun ==
    ASSUME TypeOK, Lock, Honest, NEW t \in Tabs, RunNext(t) \/ PanelNext(t) PROVE Honest'
<1> USE DEF mailbox, kindoo, gate, tick, history
<1>r. <<t, "loop">> \in Runners /\ <<t, "panel">> \in Runners
  BY DEF Runners
<1>1. CASE CheckPending(t)
  <2>1. UNCHANGED <<jobs, granted, reqs>> BY <1>1 DEF CheckPending
  <2>2. CASE Advance(<<t, "loop">>, "lookup", run[<<t, "loop">>].site, "none")
    <3>1. RunRight(<<t, "loop">>)' /\ \A b \in Runners \ {<<t, "loop">>} : run'[b] = run[b]
      BY <1>r, <2>2, RunBecomes DEF RunRight
    <3>. QED BY <1>r, <2>1, <3>1, HonestStep
  <2>3. CASE Result(<<t, "loop">>, "failed")
    BY <1>r, <2>1, <2>3, FailedIsRight, HonestStep
  <2>. QED BY <1>1, <2>2, <2>3 DEF CheckPending, Step, Ends, Fails
<1>2. ASSUME NEW a \in Runners, Lookup(a) PROVE Honest'
  <2>1. UNCHANGED <<jobs, granted, reqs>> BY <1>2 DEF Lookup
  <2>2. CASE at[a[1]] = SiteOf[run[a].request] /\ LookedUp(a)
    <3>1. Advance(a, "invite", at[a[1]], "none") \/ Advance(a, "rules", at[a[1]], "none")
      BY <2>2 DEF LookedUp
    <3>2. RunRight(a)' /\ \A b \in Runners \ {a} : run'[b] = run[b]
      BY <2>2, <3>1, RunBecomes DEF RunRight
    <3>. QED BY <2>1, <3>2, HonestStep
  <2>3. CASE Result(a, "failed")
    BY <2>1, <2>3, FailedIsRight, HonestStep
  <2>. QED BY <1>2, <2>2, <2>3 DEF Lookup, Ends, Fails
<1>3. ASSUME NEW a \in Runners, Invite(a) PROVE Honest'
  <2>1. UNCHANGED <<jobs, granted, reqs>> BY <1>3 DEF Invite
  <2>2. CASE Advance(a, "rules", run[a].site, "none")
    <3>1. RunRight(a)' /\ \A b \in Runners \ {a} : run'[b] = run[b]
      BY <2>2, RunBecomes DEF RunRight
    <3>. QED BY <2>1, <3>1, HonestStep
  <2>3. CASE Result(a, "failed")
    BY <2>1, <2>3, FailedIsRight, HonestStep
  <2>. QED BY <1>3, <2>2, <2>3 DEF Invite, Step, Fails
<1>4. ASSUME NEW a \in Runners, Rules(a) PROVE Honest'
  <2>1. UNCHANGED <<jobs, reqs>> /\ granted \subseteq granted' BY <1>4 DEF Rules
  <2>2. CASE run[a].request \in granted' /\ Advance(a, "mark", run[a].site, "none")
    <3>1. RunRight(a)' /\ \A b \in Runners \ {a} : run'[b] = run[b]
      BY <2>2, RunBecomes DEF RunRight
    <3>. QED BY <2>1, <3>1, HonestStep
  <2>3. CASE Result(a, "failed")
    BY <2>1, <2>3, FailedIsRight, HonestStep
  <2>. QED BY <1>4, <2>2, <2>3 DEF Rules, Step, Fails
<1>5. ASSUME NEW a \in Runners, Mark(a) PROVE Honest'
  <2>1. UNCHANGED <<jobs, granted>> /\ run[a].request \in granted /\ run[a].request \in Requests
    BY <1>5 DEF Mark, Honest, RunRight, TypeOK, Run
  <2>2. \A r \in Requests : reqs[r] = "complete" => reqs'[r] = "complete"
    BY <1>5 DEF Mark, TypeOK
  <2>3. \/ Result(a, "partial")
        \/ Result(a, "applied") /\ reqs' = [reqs EXCEPT ![run[a].request] = "complete"]
    BY <1>5 DEF Mark, Ends, Fails
  <2>4. RunRight(a)' /\ \A b \in Runners \ {a} : run'[b] = run[b]
    BY <2>1, <2>3, MarkedIsRight DEF TypeOK
  <2>. QED BY <2>1, <2>2, <2>4, HonestStep
<1>6. CASE Finish(t)
  <2>1. /\ run[<<t, "loop">>].step = "finish" /\ UNCHANGED <<granted, reqs>>
        /\ run' = [run EXCEPT ![<<t, "loop">>] = NoRun]
    BY <1>6 DEF Finish
  <2>2. /\ job[t] \in Jobs /\ run[<<t, "loop">>].request = jobs[job[t]].request
        /\ RunRight(<<t, "loop">>)
    BY <1>r, <2>1 DEF Lock, RunHoldsItsJob, Honest
  <2>3. \/ Report(t)
        \/ UNCHANGED jobs
    BY <1>6 DEF Finish
  <2>4. ASSUME NEW j \in Jobs, Status(j)' = "applied"
        PROVE  jobs'[j].request \in granted /\ reqs[jobs'[j].request] = "complete"
    <3>1. CASE jobs'[j] = jobs[j]
      BY <2>4, <3>1 DEF Honest, AppliedIsDone, Status
    <3>2. CASE Report(t) /\ j = job[t]
      BY <2>1, <2>2, <2>4, <3>2 DEF Report, SetStatus, RunRight, Status, TypeOK
    <3>. QED BY <2>3, <3>1, <3>2 DEF Report, SetStatus, TypeOK
  <2>5. ASSUME NEW a \in Runners PROVE RunRight(a)'
    <3>1. CASE run'[a] = run[a] BY <2>1, <3>1 DEF Honest, RunRight
    <3>2. CASE run'[a] = NoRun BY <3>2 DEF RunRight, NoRun, NewRun
    <3>. QED BY <2>1, <3>1, <3>2 DEF TypeOK
  <2>. QED BY <2>1, <2>4, <2>5 DEF Honest, AppliedIsDone
<1>7. ASSUME NEW r \in Requests, Click(t, r) PROVE Honest'
  <2>1. /\ UNCHANGED <<jobs, granted, reqs>>
        /\ run' = [run EXCEPT ![<<t, "panel">>] = NewRun("lookup", r)]
    BY <1>7 DEF Click
  <2>2. run'[<<t, "panel">>] = NewRun("lookup", r) /\ \A b \in Runners \ {<<t, "panel">>} : run'[b] = run[b]
    BY <1>r, <2>1 DEF TypeOK
  <2>3. RunRight(<<t, "panel">>)' BY <2>2 DEF RunRight, NewRun
  <2>. QED BY <1>r, <2>1, <2>2, <2>3, HonestStep
<1>8. CASE Refresh(t)
  BY <1>8, HonestKept, TypedRequests DEF Refresh, Status
<1>9. CASE RetryMark(t)
  <2>1. UNCHANGED <<jobs, granted, reqs>> /\ run[<<t, "panel">>].request \in granted
    BY <1>9, <1>r DEF RetryMark, Honest, RunRight
  <2>2. CASE Advance(<<t, "panel">>, "mark", run[<<t, "panel">>].site, "none")
    <3>1. RunRight(<<t, "panel">>)' /\ \A b \in Runners \ {<<t, "panel">>} : run'[b] = run[b]
      BY <1>r, <2>1, <2>2, RunBecomes DEF RunRight
    <3>. QED BY <1>r, <2>1, <3>1, HonestStep
  <2>3. CASE run' = [run EXCEPT ![<<t, "panel">>] = NoRun]
    <3>1. run'[<<t, "panel">>] = NoRun /\ \A b \in Runners \ {<<t, "panel">>} : run'[b] = run[b]
      BY <1>r, <2>3 DEF TypeOK
    <3>2. RunRight(<<t, "panel">>)' BY <3>1 DEF RunRight, NoRun, NewRun
    <3>. QED BY <1>r, <2>1, <3>1, <3>2, HonestStep
  <2>. QED BY <1>9, <2>2, <2>3 DEF RetryMark
<1>. QED
  BY <1>1, <1>2, <1>3, <1>4, <1>5, <1>6, <1>7, <1>8, <1>9, <1>r DEF RunNext, PanelNext, Apply

\* The inductive invariant behind the next two theorems: a run about to invite
\* looked its member up on the request's site, one that is about to complete the
\* request has granted the access, and one that reports `applied` has done both.
THEOREM HonestInvariant == Spec => []Honest
<1>1. Init => Honest
  BY DEF Init, Honest, RunRight, AppliedIsDone, Status, NoRun, NewRun, NoJob
<1>2. TypeOK /\ Lock /\ Honest /\ [Next]_vars => Honest'
  <2>1. ASSUME TypeOK, Honest, UNCHANGED vars PROVE Honest'
    BY <2>1, HonestKept, TypedRequests DEF vars, mailbox, kindoo, gate, tick, history, Status
  <2>2. ASSUME TypeOK, Lock, Honest, Next PROVE Honest'
    BY <2>2, HonestWorld, HonestTick, HonestRun DEF Next
  <2>. QED BY <2>1, <2>2
<1>. QED BY <1>1, <1>2, TypeCorrect, LockInvariant, PTL DEF Spec

\* A job shown as applied has its access rules in Kindoo and its request
\* completed, whatever was lost, closed or decided meanwhile.
THEOREM AppliedMeansDone == Spec => []AppliedIsDone
  BY HonestInvariant, PTL DEF Honest

\* A member is only ever invited on the site of the request, wherever the
\* operator navigates between the poll, the claim and the run.
THEOREM InvitesOnRightSite == Spec => []RightSiteOnly
<1>1. Init => RightSiteOnly
  BY DEF Init, RightSiteOnly
<1>2. TypeOK /\ Honest /\ RightSiteOnly /\ [Next]_vars => RightSiteOnly'
  <2> USE DEF mailbox, kindoo, gate, tick, history
  <2>1. ASSUME RightSiteOnly, UNCHANGED invites PROVE RightSiteOnly'
    BY <2>1 DEF RightSiteOnly
  <2>2. ASSUME TypeOK, Honest, RightSiteOnly, NEW a \in Runners, Invite(a) PROVE RightSiteOnly'
    <3>1. \/ UNCHANGED invites
          \/ invites' = [invites EXCEPT ![<<run[a].request, run[a].site>>] = @ + 1]
      BY <2>2 DEF Invite
    <3>2. run[a].site = SiteOf[run[a].request]
      BY <2>2 DEF Invite, Honest, RunRight
    <3>3. ASSUME NEW r \in Requests, NEW s \in Sites, s # SiteOf[r] PROVE invites'[<<r, s>>] = 0
      <4>1. <<r, s>> # <<run[a].request, run[a].site>> BY <3>2, <3>3
      <4>2. invites[<<r, s>>] = 0 BY <2>2, <3>3 DEF RightSiteOnly
      <4>. QED BY <2>2, <3>1, <4>1, <4>2 DEF TypeOK
    <3>. QED BY <3>3 DEF RightSiteOnly
  <2>3. ASSUME Next PROVE UNCHANGED invites \/ \E a \in Runners : Invite(a)
    <3>1. ASSUME PhoneNext \/ World PROVE UNCHANGED invites
      BY <3>1 DEF PhoneNext, World, Tap, Snapshot, PhoneTimeout, Late, Age, Close, Navigate, HoldLapses, CloseTab, OpenTab
    <3>2. ASSUME NEW t \in Tabs, TickNext(t) PROVE UNCHANGED invites
      BY <3>2 DEF TickNext, BeginPoll, ReadRunning, ReadRunningFails, EndPoll, TickBlind, Sweep, Sift, Claim, ClaimFails
    <3>3. ASSUME NEW t \in Tabs, RunNext(t) \/ PanelNext(t)
          PROVE  UNCHANGED invites \/ \E a \in Runners : Invite(a)
      BY <3>3 DEF RunNext, PanelNext, Apply, CheckPending, Lookup, Rules, Mark, Finish, Click, Refresh, RetryMark, Runners
    <3>. QED BY <2>3, <3>1, <3>2, <3>3 DEF Next
  <2>. QED BY <2>1, <2>2, <2>3 DEF vars
<1>. QED BY <1>1, <1>2, TypeCorrect, HonestInvariant, PTL DEF Spec

(***************************************************************************)
(* The lock, as the run RA_jobs states it.                                 *)
(***************************************************************************)
\* A job is run by one tab, which nobody takes it from, and a cancelled job was
\* never begun: the status is the lock (loop.ts, pollOnce; firestore.rules, jobs).
THEOREM LockHolds == Spec => []StatusIsLock
BY TypeCorrect, RunsHoldTheirJobs, OneTabRuns, CancelledMeansUntouched, PTL DEF StatusIsLock
-----------------------------------------------------------------------------
(* One phone.  It sees what it wrote, so it queues a request again only when *)
(* no job of the request is live: at most one job of a request ever is.      *)

OnePhone == \A p, q \in Phones : p = q

\* No job is half written, and the phone's snapshot has every job.
Sighted ==
    /\ \A j \in Jobs : jobs[j] = NoJob \/ Status(j) # "none"
    /\ \A p \in Phones, j \in Jobs : jobs[j] # NoJob => j \in seen[p]

OneLive == \A j, k \in Live : jobs[j].request = jobs[k].request => j = k

\* What a step may do to a job that is there.
Moved(j) ==
    \/ jobs'[j] = jobs[j]
    \/ /\ jobs'[j].request = jobs[j].request
       /\ jobs[j].late => jobs'[j].late
       /\ \/ Status(j) = "queued"  /\ Status(j)' \in {"queued", "running", "cancelled"}
          \/ Status(j) = "running" /\ Status(j)' \in {"running"} \cup Outcomes

LEMMA MovedStatus ==
    ASSUME TypeOK, NEW j \in Jobs, NEW s \in LiveStatuses \cup TerminalStatuses, SetStatus(j, s),
           \/ Status(j) = "queued" /\ s \in {"running", "cancelled"}
           \/ Status(j) = "running" /\ s \in Outcomes
    PROVE  \A k \in Jobs : Moved(k)
<1>1. jobs'[j] = [request |-> jobs[j].request, status |-> s, late |-> jobs[j].late, age |-> jobs[j].age]
      /\ \A k \in Jobs \ {j} : jobs'[k] = jobs[k]
  BY DEF SetStatus, TypeOK
<1>2. jobs'[j].request = jobs[j].request /\ jobs'[j].late = jobs[j].late /\ Status(j)' = s BY <1>1 DEF Status
<1>. QED BY <1>1, <1>2 DEF Moved

\* A step moves the jobs that are there, or is a tap, which makes one.
LEMMA MovedNext ==
    ASSUME TypeOK, Lock, Next
    PROVE  \/ \A k \in Jobs : Moved(k)
           \/ \E p \in Phones, r \in Requests, j \in Jobs : Tap(p, r, j)
<1> USE DEF mailbox, kindoo, gate, tick, history
<1> DEFINE Tapped == \E p \in Phones, r \in Requests, j \in Jobs : Tap(p, r, j)
           Steady == \A k \in Jobs : Moved(k)
<1>u. ASSUME UNCHANGED jobs PROVE Steady BY <1>u DEF Moved
<1>e. /\ "running" \in LiveStatuses \cup TerminalStatuses /\ "cancelled" \in LiveStatuses \cup TerminalStatuses
      /\ "failed" \in Outcomes /\ Outcomes \subseteq LiveStatuses \cup TerminalStatuses
  BY DEF LiveStatuses, TerminalStatuses, Outcomes
<1>1. ASSUME PhoneNext PROVE Steady \/ Tapped
  <2>1. ASSUME NEW p \in Phones, NEW j \in Jobs, PhoneTimeout(p, j) PROVE Steady
    BY <2>1, <1>e, MovedStatus DEF PhoneTimeout, Cancelled
  <2>. HIDE DEF Steady
  <2>. QED BY <1>1, <1>u, <2>1 DEF PhoneNext, Snapshot
<1>2. ASSUME World PROVE Steady
  <2>1. ASSUME NEW j \in Jobs, Late(j) PROVE Steady
    BY <2>1 DEF Late, Moved, TypeOK, Status
  <2>2. ASSUME NEW j \in Jobs, Age(j) PROVE Steady
    BY <2>2 DEF Age, Moved, TypeOK, Status
  <2>. HIDE DEF Steady
  <2>. QED BY <1>2, <1>u, <2>1, <2>2 DEF World, Close, Navigate, HoldLapses, CloseTab, OpenTab
<1>3. ASSUME NEW t \in Tabs, TickNext(t) PROVE Steady
  <2>1. ASSUME NEW j \in Jobs, Sweep(t, j) PROVE Steady
    BY <2>1, <1>e, MovedStatus DEF Sweep
  <2>2. ASSUME NEW j \in Jobs, Sift(t, j) PROVE Steady
    <3>1. \/ Status(j) = "queued" /\ Cancelled(j)
          \/ UNCHANGED jobs
      BY <2>2 DEF Sift
    <3>. HIDE DEF Steady
    <3>2. ASSUME Status(j) = "queued", Cancelled(j) PROVE Steady
      <4>. USE DEF Steady
      <4>. QED BY <3>2, <1>e, MovedStatus DEF Cancelled
    <3>. QED BY <3>1, <3>2, <1>u
  <2>3. ASSUME NEW j \in Jobs, Claim(t, j) \/ ClaimFails(t, j) PROVE Steady
    <3>1. \/ Status(j) = "queued" /\ SetStatus(j, "running")
          \/ UNCHANGED jobs
      BY <2>3 DEF Claim, ClaimFails
    <3>2. ASSUME Status(j) = "queued", SetStatus(j, "running") PROVE Steady
      BY <3>2, <1>e, MovedStatus
    <3>. HIDE DEF Steady
    <3>. QED BY <3>1, <3>2, <1>u
  <2>. HIDE DEF Steady
  <2>. QED
    BY <1>3, <1>u, <2>1, <2>2, <2>3 DEF TickNext, BeginPoll, ReadRunning, ReadRunningFails, EndPoll, TickBlind
<1>4. ASSUME NEW t \in Tabs, RunNext(t) \/ PanelNext(t) PROVE Steady
  <2>1. ASSUME Finish(t) PROVE Steady
    <3>1. run[<<t, "loop">>].result \in Outcomes /\ job[t] \in Jobs
      BY <2>1 DEF Finish, TypeOK, Run, Runners, Lock, RunHoldsItsJob
    <3>2. \/ Status(job[t]) = "running" /\ SetStatus(job[t], run[<<t, "loop">>].result)
          \/ UNCHANGED jobs
      BY <2>1 DEF Finish, Report
    <3>3. ASSUME Status(job[t]) = "running", SetStatus(job[t], run[<<t, "loop">>].result) PROVE Steady
      BY <3>1, <3>3, <1>e, MovedStatus
    <3>. HIDE DEF Steady
    <3>. QED BY <3>2, <3>3, <1>u
  <2>2. ASSUME ~Finish(t) PROVE UNCHANGED jobs
    BY <1>4, <2>2 DEF RunNext, PanelNext, Apply, CheckPending, Lookup, Invite, Rules, Mark, Click, Refresh, RetryMark
  <2>. HIDE DEF Steady
  <2>. QED BY <1>u, <2>1, <2>2
<1>. HIDE DEF Steady, Tapped
<1>5. Steady \/ Tapped BY <1>1, <1>2, <1>3, <1>4 DEF Next
<1>. QED BY <1>5 DEF Steady, Tapped

\* Only the phone changes its snapshot.
LEMMA SeenNext ==
    ASSUME Next
    PROVE  \/ UNCHANGED seen
           \/ \E p \in Phones : Snapshot(p) \/ \E r \in Requests, j \in Jobs : Tap(p, r, j)
<1> USE DEF mailbox
<1>1. ASSUME NEW p \in Phones, NEW j \in Jobs, PhoneTimeout(p, j) PROVE UNCHANGED seen BY <1>1 DEF PhoneTimeout
<1>2. ASSUME World PROVE UNCHANGED seen
  BY <1>2 DEF World, Late, Age, Close, Navigate, HoldLapses, CloseTab, OpenTab
<1>3. ASSUME NEW t \in Tabs, TickNext(t) PROVE UNCHANGED seen
  BY <1>3 DEF TickNext, BeginPoll, ReadRunning, ReadRunningFails, EndPoll, TickBlind, Sweep, Sift, Claim, ClaimFails
<1>4. ASSUME NEW t \in Tabs, RunNext(t) \/ PanelNext(t) PROVE UNCHANGED seen
  BY <1>4 DEF RunNext, PanelNext, Apply, CheckPending, Lookup, Invite, Rules, Mark, Finish, Click, Refresh, RetryMark
<1>. QED BY <1>1, <1>2, <1>3, <1>4 DEF Next, PhoneNext

\* Of the jobs of a request with a live one, a live, applied or partial one speaks.
LEMMA SpeakerExists ==
    ASSUME TypeOK, Sighted, NEW p \in Phones, NEW r \in Requests, NEW k \in JobsOf(r), Status(k) \in LiveStatuses
    PROVE  \E j \in Jobs : SpeaksFor(p, r, j) /\ Status(j) \notin {"failed", "cancelled"}
<1> DEFINE S == seen[p] \cap JobsOf(r)
<1>1. r # None BY RemoteApplyAssumption
<1>2. \A j \in JobsOf(r) : j \in S /\ Status(j) \in LiveStatuses \cup TerminalStatuses
  <2>1. ASSUME NEW j \in JobsOf(r) PROVE j \in Jobs /\ jobs[j] # NoJob /\ jobs[j] \in Job
    BY <1>1, <2>1 DEF JobsOf, NoJob, TypeOK
  <2>. QED BY <2>1 DEF Sighted, Job, Status
<1>3. /\ StatusRank["applied"] = 5 /\ StatusRank["partial"] = 4 /\ StatusRank["running"] = 3
      /\ StatusRank["queued"] = 2 /\ StatusRank["failed"] = 1 /\ StatusRank["cancelled"] = 1
  BY DEF StatusRank
<1>4. \A j \in S : j \in Jobs /\ Status(j) \in {"applied", "partial", "running", "queued", "failed", "cancelled"}
  BY <1>2 DEF JobsOf, LiveStatuses, TerminalStatuses, Outcomes
<1>5. k \in S /\ Status(k) \in {"queued", "running"} BY <1>2 DEF LiveStatuses
<1> HIDE DEF S
<1>6. ASSUME NEW j \in S, Status(j) \notin {"failed", "cancelled"},
             \A i \in S : StatusRank[Status(i)] <= StatusRank[Status(j)]
      PROVE  \E i \in Jobs : SpeaksFor(p, r, i) /\ Status(i) \notin {"failed", "cancelled"}
  BY <1>4, <1>6 DEF SpeaksFor, S
<1>7. CASE \E j \in S : Status(j) = "applied" BY <1>3, <1>4, <1>6, <1>7
<1>8. CASE (\E j \in S : Status(j) = "partial") /\ ~(\E j \in S : Status(j) = "applied") BY <1>3, <1>4, <1>6, <1>8
<1>9. CASE /\ \E j \in S : Status(j) = "running"
           /\ ~(\E j \in S : Status(j) \in {"applied", "partial"})
  BY <1>3, <1>4, <1>6, <1>9
<1>10. CASE ~\E j \in S : Status(j) \in {"applied", "partial", "running"} BY <1>3, <1>4, <1>5, <1>6, <1>10
<1>. QED BY <1>7, <1>8, <1>9, <1>10

LEMMA OneLiveNext ==
    ASSUME OnePhone, TypeOK, Lock, Sighted, OneLive, [Next]_vars
    PROVE  Sighted' /\ OneLive'
<1>0. Live = {j \in Jobs : Status(j) \in LiveStatuses} /\ Live' = {j \in Jobs : Status(j)' \in LiveStatuses} BY DEF Live
<1>1. CASE UNCHANGED vars BY <1>1 DEF vars, mailbox, Sighted, OneLive, Live, Status
<1>2. ASSUME NEW p \in Phones, NEW r \in Requests, NEW j \in Jobs, Tap(p, r, j) PROVE Sighted' /\ OneLive'
  <2>1. /\ jobs[j] = NoJob
        /\ jobs'[j] = [request |-> r, status |-> "queued", late |-> FALSE, age |-> 0]
        /\ \A k \in Jobs \ {j} : jobs'[k] = jobs[k]
        /\ seen' = [seen EXCEPT ![p] = @ \cup {j}]
    BY <1>2 DEF Tap, TypeOK
  <2>2. Status(j)' = "queued" /\ jobs'[j].request = r BY <2>1 DEF Status
  <2>3. \A k \in Live : jobs[k].request # r
    <3>1. ASSUME NEW k \in Live, jobs[k].request = r PROVE FALSE
      <4>1. k \in JobsOf(r) /\ Status(k) \in LiveStatuses BY <3>1 DEF Live, JobsOf
      <4>2. PICK i \in Jobs : SpeaksFor(p, r, i) /\ Status(i) \notin {"failed", "cancelled"} BY <4>1, SpeakerExists
      <4>. QED BY <1>2, <4>2 DEF Tap
    <3>. QED BY <3>1
  <2>4. OneLive' BY <1>0, <2>1, <2>2, <2>3 DEF OneLive, Status
  <2>5. \A q \in Phones : q = p BY DEF OnePhone
  <2>6. Sighted' BY <2>1, <2>2, <2>5 DEF Sighted, Status, TypeOK
  <2>. QED BY <2>4, <2>6
<1>3. ASSUME Next, \A k \in Jobs : Moved(k), ~ \E p \in Phones, r \in Requests, j \in Jobs : Tap(p, r, j)
      PROVE  Sighted' /\ OneLive'
  <2>0. \A j \in Jobs : jobs[j] = NoJob => Status(j) = "none" BY DEF NoJob, Status
  <2>1. \A j \in Jobs : Status(j)' \in LiveStatuses => Status(j) \in LiveStatuses /\ jobs'[j].request = jobs[j].request
    BY <1>3 DEF Moved, LiveStatuses, Status
  <2>2. OneLive' BY <1>0, <2>1 DEF OneLive
  <2>3. \A j \in Jobs : jobs'[j] = NoJob \/ (Status(j)' # "none" /\ jobs[j] # NoJob)
    BY <1>3, <2>0 DEF Moved, Sighted, Status, Outcomes
  <2>4. seen' = seen \/ \E p \in Phones : seen' = [seen EXCEPT ![p] = {j \in Jobs : jobs[j] # NoJob}]
    BY <1>3, SeenNext DEF Snapshot
  <2>5. \A p \in Phones, j \in Jobs : jobs[j] # NoJob => j \in seen'[p] BY <2>4 DEF Sighted, TypeOK
  <2>6. Sighted' BY <2>3, <2>5 DEF Sighted
  <2>. QED BY <2>2, <2>6
<1>. QED BY <1>1, <1>2, <1>3, MovedNext
-----------------------------------------------------------------------------
(* The gate.  What a poll has found live is on its page until it is sifted, *)
(* and then published; a run releases one request, which had one live job.  *)

CoveredAt(t) ==
    /\ \A j \in began[t] \cup polled[t] : Status(j) # "none"
    /\ pc[t] = "sift" => \A j \in began[t] : Status(j) = "queued" /\ ~jobs[j].late => j \in page[t] \cup fresh[t]
    /\ \A j \in polled[t] : Status(j) \in LiveStatuses /\ ~jobs[j].late => jobs[j].request \in busy[t]
Covered == \A t \in Tabs : CoveredAt(t)

\* What a job was before a step that leaves it live and within its window.
LEMMA MovedBack ==
    ASSUME TypeOK, Lock, [Next]_vars
    PROVE  \A j \in Jobs : Status(j) # "none" =>
             /\ Status(j)' # "none" /\ jobs'[j].request = jobs[j].request
             /\ Status(j)' \in LiveStatuses => Status(j) \in LiveStatuses
             /\ Status(j)' = "queued" => Status(j) = "queued"
             /\ ~jobs'[j].late => ~jobs[j].late
<1>1. CASE UNCHANGED vars BY <1>1 DEF vars, mailbox, Status
<1>2. ASSUME NEW p \in Phones, NEW r \in Requests, NEW i \in Jobs, Tap(p, r, i), NEW j \in Jobs, Status(j) # "none"
      PROVE  jobs'[j] = jobs[j]
  BY <1>2 DEF Tap, TypeOK, Status, NoJob
<1>3. ASSUME \A k \in Jobs : Moved(k), NEW j \in Jobs, Status(j) # "none"
      PROVE  /\ Status(j)' # "none" /\ jobs'[j].request = jobs[j].request
             /\ Status(j)' \in LiveStatuses => Status(j) \in LiveStatuses
             /\ Status(j)' = "queued" => Status(j) = "queued"
             /\ ~jobs'[j].late => ~jobs[j].late
  BY <1>3 DEF Moved, Status, LiveStatuses, Outcomes
<1>4. CASE \A k \in Jobs : Moved(k) BY <1>3, <1>4
<1>5. CASE \E p \in Phones, r \in Requests, j \in Jobs : Tap(p, r, j) BY <1>2, <1>5 DEF Status
<1>. QED BY <1>1, <1>4, <1>5, MovedNext

\* A tab whose tick and gate stand, or that forgets what it had.
LEMMA CoveredKept ==
    ASSUME TypeOK, Lock, [Next]_vars, NEW t \in Tabs, CoveredAt(t),
           pc'[t] = "sift" => pc[t] = "sift" /\ page[t] \cup fresh[t] \subseteq page'[t] \cup fresh'[t],
           began'[t] \subseteq began[t],
           polled'[t] = {} \/ (polled'[t] \subseteq polled[t] /\ busy[t] \subseteq busy'[t])
    PROVE  CoveredAt(t)'
<1>1. began[t] \subseteq Jobs /\ polled[t] \subseteq Jobs BY DEF TypeOK
<1>. QED BY <1>1, MovedBack DEF CoveredAt

LEMMA HeldKeeps ==
    ASSUME TypeOK, NEW t \in Tabs, Held(t)
    PROVE  /\ polled'[t] = {} \/ (polled'[t] = polled[t] /\ busy'[t] = busy[t])
           /\ \A u \in Tabs \ {t} : polled'[u] = polled[u] /\ busy'[u] = busy[u]
<1>1. CASE stale[t]
  <2>1. busy' = [busy EXCEPT ![t] = {}] /\ polled' = [polled EXCEPT ![t] = {}] BY <1>1 DEF Held
  <2>. QED BY <2>1 DEF TypeOK
<1>2. CASE ~stale[t] BY <1>2 DEF Held
<1>. QED BY <1>1, <1>2

\* The rest of a tick: where the tab that ends or blinds one is afterwards.
LEMMA EndKeeps ==
    ASSUME TypeOK, NEW t \in Tabs, EndTick(t)
    PROVE  /\ pc'[t] = "idle" /\ began'[t] = {}
           /\ \A u \in Tabs \ {t} : pc'[u] = pc[u] /\ page'[u] = page[u] /\ fresh'[u] = fresh[u] /\ began'[u] = began[u]
  BY DEF EndTick, TypeOK

LEMMA CoveredNext ==
    ASSUME TypeOK, Lock, OneLive, Covered, [Next]_vars
    PROVE  Covered'
<1> USE DEF mailbox, kindoo, gate, tick, history
<1>0. \A u \in Tabs : CoveredAt(u) BY DEF Covered
<1> DEFINE Stands(u) == /\ pc'[u] = "sift" => pc[u] = "sift" /\ page[u] \cup fresh[u] \subseteq page'[u] \cup fresh'[u]
                        /\ began'[u] \subseteq began[u]
                        /\ polled'[u] = {} \/ (polled'[u] \subseteq polled[u] /\ busy[u] \subseteq busy'[u])
<1>1. ASSUME NEW u \in Tabs, Stands(u) PROVE CoveredAt(u)' BY <1>0, <1>1, CoveredKept
<1>2. ASSUME UNCHANGED <<pc, page, fresh, began, polled, busy>> PROVE Covered'
  <2>1. \A u \in Tabs : Stands(u) BY <1>2
  <2>. QED BY <1>1, <2>1 DEF Covered
<1> HIDE DEF Stands
<1>3. ASSUME NEW t \in Tabs, CoveredAt(t)', \A u \in Tabs \ {t} : Stands(u) PROVE Covered'
  BY <1>1, <1>3 DEF Covered
<1>4. ASSUME PhoneNext PROVE Covered' BY <1>2, <1>4 DEF PhoneNext, Tap, Snapshot, PhoneTimeout
<1>5. ASSUME World PROVE Covered'
  <2>1. ASSUME NEW t \in Tabs, CloseTab(t) PROVE Covered'
    <3>1. \A u \in Tabs : Stands(u) BY <2>1 DEF CloseTab, TypeOK, Stands
    <3>. QED BY <1>1, <3>1 DEF Covered
  <2>2. ASSUME NEW t \in Tabs, OpenTab(t) PROVE Covered'
    <3>1. \A u \in Tabs : Stands(u) BY <2>2 DEF OpenTab, TypeOK, Stands
    <3>. QED BY <1>1, <3>1 DEF Covered
  <2>. QED BY <1>2, <1>5, <2>1, <2>2 DEF World, Late, Age, Close, Navigate, HoldLapses
<1>6. ASSUME NEW t \in Tabs, BeginPoll(t) PROVE Covered'
  <2>1. /\ pc'[t] = "sift" /\ page'[t] = {j \in Jobs : Status(j) = "queued"} /\ began'[t] = Live
        /\ UNCHANGED <<jobs, fresh, polled, busy>>
        /\ \A u \in Tabs \ {t} : pc'[u] = pc[u] /\ page'[u] = page[u] /\ began'[u] = began[u]
    BY <1>6 DEF BeginPoll, TypeOK
  <2>2. CoveredAt(t)' BY <1>0, <2>1 DEF CoveredAt, Live, LiveStatuses, Status
  <2>3. \A u \in Tabs \ {t} : Stands(u) BY <2>1 DEF Stands
  <2>. QED BY <1>3, <2>2, <2>3
<1>7. ASSUME NEW t \in Tabs, NEW j \in Jobs, Sift(t, j) PROVE Covered'
  <2>1. /\ pc[t] = "sift" /\ UNCHANGED <<pc, began, polled, busy>>
        /\ page'[t] = page[t] \ {j}
        /\ fresh'[t] = fresh[t] \cup (IF jobs[j].late THEN {} ELSE {j})
        /\ \A u \in Tabs \ {t} : page'[u] = page[u] /\ fresh'[u] = fresh[u]
    BY <1>7 DEF Sift, TypeOK
  <2>2. CoveredAt(t)'
    <3>1. began[t] \subseteq Jobs /\ polled[t] \subseteq Jobs BY DEF TypeOK
    <3>2. \A i \in began[t] : Status(i)' = "queued" /\ ~jobs'[i].late => i \in page'[t] \cup fresh'[t]
      <4>1. ASSUME NEW i \in began[t], Status(i)' = "queued", ~jobs'[i].late PROVE i \in page'[t] \cup fresh'[t]
        <5>1. Status(i) # "none" /\ i \in Jobs BY <1>0, <3>1 DEF CoveredAt
        <5>2. Status(i) = "queued" /\ ~jobs[i].late BY <4>1, <5>1, MovedBack
        <5>3. i \in page[t] \cup fresh[t] BY <1>0, <2>1, <5>2 DEF CoveredAt
        <5>. QED BY <2>1, <5>2, <5>3
      <4>. QED BY <4>1
    <3>3. /\ \A i \in began[t] \cup polled[t] : Status(i)' # "none"
          /\ \A i \in polled[t] : Status(i)' \in LiveStatuses /\ ~jobs'[i].late => jobs'[i].request \in busy[t]
      BY <1>0, <3>1, MovedBack DEF CoveredAt
    <3>. QED BY <2>1, <3>2, <3>3 DEF CoveredAt
  <2>3. \A u \in Tabs \ {t} : Stands(u) BY <2>1 DEF Stands
  <2>. QED BY <1>3, <2>2, <2>3
<1>8. ASSUME NEW t \in Tabs, ReadRunning(t) PROVE Covered'
  <2>1. /\ pc[t] = "sift" /\ page[t] = {} /\ pc'[t] = "claim" /\ UNCHANGED <<jobs, page, fresh, began>>
        /\ busy'[t] = RequestsOf(fresh[t]) \cup RequestsOf(Running) /\ polled'[t] = began[t] \cap Live
        /\ \A u \in Tabs \ {t} : pc'[u] = pc[u] /\ busy'[u] = busy[u] /\ polled'[u] = polled[u]
    BY <1>8 DEF ReadRunning, Publish, TypeOK
  <2>2. ASSUME NEW j \in polled'[t], ~jobs[j].late PROVE jobs[j].request \in busy'[t]
    <3>1. j \in began[t] /\ j \in Jobs /\ Status(j) \in {"queued", "running"} BY <2>1, <2>2 DEF Live, LiveStatuses
    <3>2. CASE Status(j) = "running" BY <2>1, <3>1, <3>2 DEF Running, RequestsOf
    <3>3. CASE Status(j) = "queued"
      <4>1. j \in fresh[t] BY <1>0, <2>1, <2>2, <3>1, <3>3 DEF CoveredAt
      <4>. QED BY <2>1, <4>1 DEF RequestsOf
    <3>. QED BY <3>1, <3>2, <3>3
  <2>3. CoveredAt(t)' BY <1>0, <2>1, <2>2 DEF CoveredAt, Status
  <2>4. \A u \in Tabs \ {t} : Stands(u) BY <2>1 DEF Stands
  <2>. QED BY <1>3, <2>3, <2>4
<1>9. ASSUME NEW t \in Tabs, ReadRunningFails(t) PROVE Covered'
  <2>1. /\ pc'[t] = "claim" /\ polled'[t] = {} /\ UNCHANGED <<page, fresh, began>>
        /\ \A u \in Tabs \ {t} : pc'[u] = pc[u] /\ busy'[u] = busy[u] /\ polled'[u] = polled[u]
    BY <1>9 DEF ReadRunningFails, Publish, TypeOK
  <2>2. \A u \in Tabs : Stands(u) BY <2>1 DEF Stands
  <2>. QED BY <1>1, <2>2 DEF Covered
<1>10. ASSUME NEW t \in Tabs, TickBlind(t) PROVE Covered'
  <2>1. UNCHANGED <<pc, page, fresh, began>> /\ Held(t) BY <1>10 DEF TickBlind
  <2>2. \A u \in Tabs : Stands(u) BY <2>1, HeldKeeps DEF Stands
  <2>. QED BY <1>1, <2>2 DEF Covered
<1>11. ASSUME NEW t \in Tabs, EndTick(t), UNCHANGED <<polled, busy>> \/ Held(t) PROVE Covered'
  <2>1. \A u \in Tabs : Stands(u) BY <1>11, EndKeeps, HeldKeeps DEF Stands
  <2>. QED BY <1>1, <2>1 DEF Covered
<1>12. ASSUME NEW t \in Tabs, NEW j \in Jobs, Claim(t, j) PROVE Covered'
  <2>1. CASE Start(t, j)
    <3>1. UNCHANGED <<polled, busy, began, page>> /\ pc'[t] = "run"
          /\ \A u \in Tabs \ {t} : pc'[u] = pc[u] /\ fresh'[u] = fresh[u]
      BY <1>12, <2>1 DEF Claim, Start, TypeOK
    <3>2. \A u \in Tabs : Stands(u) BY <3>1 DEF Stands
    <3>. QED BY <1>1, <3>2 DEF Covered
  <2>2. CASE EndTick(t) BY <1>11, <1>12, <2>2 DEF Claim
  <2>. QED BY <1>12, <2>1, <2>2 DEF Claim
<1>13. ASSUME NEW t \in Tabs, Finish(t) PROVE Covered'
  <2>1. EndTick(t) /\ run[<<t, "loop">>].step = "finish" BY <1>13 DEF Finish
  <2>2. CASE Held(t) BY <1>11, <2>1, <2>2
  <2>3. CASE Report(t) /\ busy' = [busy EXCEPT ![t] = @ \ {run[<<t, "loop">>].request}] /\ UNCHANGED polled
    <3>1. /\ busy'[t] = busy[t] \ {run[<<t, "loop">>].request}
          /\ \A u \in Tabs \ {t} : busy'[u] = busy[u]
      BY <2>3 DEF TypeOK
    <3>2. PICK m \in Jobs : m = job[t] /\ run[<<t, "loop">>].request = jobs[m].request
      BY <2>1 DEF Lock, RunHoldsItsJob
    <3>3. run[<<t, "loop">>].result \in Outcomes BY <2>1 DEF TypeOK, Run, Runners
    <3>4. Status(m) = "running" /\ Status(m)' \in Outcomes
      BY <2>3, <3>2, <3>3, StatusChange DEF Report, TerminalStatuses
    <3>5. polled[t] \subseteq Jobs BY DEF TypeOK
    <3>6. ASSUME NEW j \in polled[t], Status(j)' \in LiveStatuses, ~jobs'[j].late PROVE jobs'[j].request \in busy'[t]
      <4>1. /\ jobs'[j].request = jobs[j].request /\ Status(j) \in LiveStatuses /\ ~jobs[j].late
        BY <1>0, <3>5, <3>6, MovedBack DEF CoveredAt
      <4>2. jobs[j].request \in busy[t] BY <1>0, <4>1 DEF CoveredAt
      <4>3. j # m BY <3>4, <3>6 DEF LiveStatuses, Outcomes
      <4>4. jobs[j].request # run[<<t, "loop">>].request
        BY <3>2, <3>4, <3>5, <4>1, <4>3 DEF OneLive, Live, LiveStatuses
      <4>. QED BY <3>1, <4>1, <4>2, <4>4
    <3>7. \A j \in polled[t] : Status(j)' # "none" BY <1>0, <3>5, MovedBack DEF CoveredAt
    <3>8. pc'[t] = "idle" /\ began'[t] = {} /\ polled' = polled BY <2>1, <2>3, EndKeeps
    <3>9. CoveredAt(t)' BY <3>6, <3>7, <3>8 DEF CoveredAt
    <3>10. \A u \in Tabs \ {t} : Stands(u) BY <2>1, <3>1, <3>8, EndKeeps DEF Stands
    <3>. QED BY <1>3, <3>9, <3>10
  <2>. QED BY <1>13, <2>2, <2>3 DEF Finish
<1>14. ASSUME NEW t \in Tabs, TickNext(t) PROVE Covered'
  <2>1. ASSUME NEW j \in Jobs, Sweep(t, j) PROVE Covered' BY <1>2, <2>1 DEF Sweep
  <2>2. ASSUME NEW j \in Jobs, ClaimFails(t, j) PROVE Covered' BY <1>11, <2>2 DEF ClaimFails
  <2>3. ASSUME EndPoll(t) PROVE Covered' BY <1>11, <2>3 DEF EndPoll
  <2>. QED BY <1>6, <1>7, <1>8, <1>9, <1>10, <1>12, <1>14, <2>1, <2>2, <2>3 DEF TickNext
<1>15. ASSUME NEW t \in Tabs, RunNext(t) \/ PanelNext(t) PROVE Covered'
  BY <1>2, <1>13, <1>15 DEF RunNext, PanelNext, Apply, CheckPending, Lookup, Invite, Rules, Mark, Click, Refresh, RetryMark
<1>16. ASSUME UNCHANGED vars PROVE Covered' BY <1>2, <1>16 DEF vars
<1>. QED BY <1>4, <1>5, <1>14, <1>15, <1>16 DEF Next

\* The inductive invariant behind the theorems on one phone.
LEMMA OnePhoneInvariant ==
    ASSUME OnePhone
    PROVE  Spec => [](Sighted /\ OneLive /\ Covered)
<1>1. Init => Sighted /\ OneLive /\ Covered
  BY DEF Init, Sighted, OneLive, Covered, CoveredAt, Live, LiveStatuses, Status, NoJob
<1>2. TypeOK /\ Lock /\ Sighted /\ OneLive /\ Covered /\ [Next]_vars => (Sighted /\ OneLive /\ Covered)'
  BY OneLiveNext, CoveredNext
<1>. QED BY <1>1, <1>2, TypeCorrect, LockInvariant, PTL DEF Spec

\* While one phone queues, a tab's own button stays shut for every job its last
\* complete poll has found live, until the job is: whatever siblings claim, sweeps
\* give up, reports lose and the tab itself runs (docs/spec.md, remote apply).
THEOREM GateStaysShut ==
    ASSUME OnePhone
    PROVE  Spec => []GateCoversPoll
<1>1. Covered => GateCoversPoll BY DEF Covered, CoveredAt, GateCoversPoll
<1>. QED BY <1>1, OnePhoneInvariant, PTL
-----------------------------------------------------------------------------
(* One member, one invitation.  A run that is about to invite found nobody   *)
(* invited; of a request's runs all but one have been given up by a sweep.   *)

\* A run outlives its job only if a sweep took the job from it.
SweptOrRunning == \A t \in Tabs : pc[t] = "run" => Status(job[t]) = "running" \/ job[t] \in swept

\* From the phone alone.
NoPanel == \A t \in Tabs : run[<<t, "panel">>] = NoRun

InvitesFor(t, r, s) ==
    /\ run[<<t, "loop">>].step = "invite"
    /\ run[<<t, "loop">>].request = r
    /\ run[<<t, "loop">>].site = s

\* The jobs whose runs are about to invite the member of r on site s.
Inviting(r, s) == {j \in Jobs : \E t \in Tabs : job[t] = j /\ InvitesFor(t, r, s)}

\* Invites made and about to be made.
Budgeted(r, s) == invites[<<r, s>>] + Cardinality(Inviting(r, s)) <= 1 + Cardinality(swept \cap JobsOf(r))

Spending ==
    /\ NoPanel /\ SweptOrRunning
    /\ IsFiniteSet(swept)
    /\ \A r \in Requests, s \in Sites : IsFiniteSet(Inviting(r, s)) /\ Budgeted(r, s)

LEMMA AllButOne ==
    ASSUME NEW X, NEW F, IsFiniteSet(F), \A x, y \in X \ F : x = y
    PROVE  IsFiniteSet(X) /\ Cardinality(X) <= 1 + Cardinality(F)
<1>1. CASE X \subseteq F
  <2>1. IsFiniteSet(X) /\ Cardinality(X) <= Cardinality(F) BY <1>1, FS_Subset
  <2>. QED BY <2>1, FS_CardinalityType
<1>2. CASE ~(X \subseteq F)
  <2>1. PICK x \in X : x \notin F BY <1>2
  <2>2. X \subseteq F \cup {x} BY <2>1
  <2>3. IsFiniteSet(F \cup {x}) /\ Cardinality(F \cup {x}) = Cardinality(F) + 1 BY <2>1, FS_AddElement
  <2>4. IsFiniteSet(X) /\ Cardinality(X) <= Cardinality(F \cup {x}) BY <2>2, <2>3, FS_Subset
  <2>. QED BY <2>3, <2>4, FS_CardinalityType
<1>. QED BY <1>1, <1>2

\* Only a tap, a sweep and a run's own report end the running of a job.
LEMMA SweptNext ==
    ASSUME TypeOK, Lock, SweptOrRunning, [Next]_vars
    PROVE  SweptOrRunning'
<1> USE DEF mailbox, kindoo, gate, tick, history
<1>0. \A t \in Tabs : pc[t] = "run" => job[t] \in Jobs /\ Status(job[t]) \in {"running"} \cup Outcomes
  BY DEF Lock, RunHoldsItsJob
<1>1. ASSUME swept \subseteq swept', \A u \in Tabs : pc'[u] = "run" => pc[u] = "run" /\ job'[u] = job[u],
             \A u \in Tabs, m \in Jobs : pc[u] = "run" /\ m = job[u] /\ Status(m) = "running" /\ pc'[u] = "run"
                                         => Status(m)' = "running" \/ m \in swept'
      PROVE  SweptOrRunning'
  <2>1. ASSUME NEW u \in Tabs, pc'[u] = "run", NEW m, m = job'[u] PROVE jobs'[m].status = "running" \/ m \in swept'
    <3>1. pc[u] = "run" /\ m = job[u] /\ m \in Jobs BY <1>0, <1>1, <2>1
    <3>2. CASE m \in swept BY <1>1, <3>2
    <3>3. CASE Status(m) = "running" BY <1>1, <2>1, <3>1, <3>3 DEF Status
    <3>4. CASE Status(m) # "running" /\ m \notin swept BY <3>1, <3>4 DEF SweptOrRunning
    <3>. QED BY <3>2, <3>3, <3>4
  <2>. QED BY <2>1 DEF SweptOrRunning, Status
<1>2. ASSUME UNCHANGED swept, \A u \in Tabs : pc'[u] = "run" => pc[u] = "run" /\ job'[u] = job[u],
             \A m \in Jobs : Status(m) = "running" => Status(m)' = "running"
      PROVE  SweptOrRunning'
  BY <1>1, <1>2
<1>3. ASSUME NEW j \in Jobs, Status(j) = "queued", NEW s \in {"running", "cancelled"}, SetStatus(j, s)
      PROVE  /\ Status(j)' = s
             /\ \A m \in Jobs : Status(m) = "running" => Status(m)' = "running"
  <2>1. s \in LiveStatuses \cup TerminalStatuses /\ Status(j) # "none" BY <1>3 DEF LiveStatuses, TerminalStatuses
  <2>. QED BY <1>3, <2>1, StatusChange DEF Status
<1>4. ASSUME PhoneNext PROVE SweptOrRunning'
  <2>1. ASSUME NEW p \in Phones, NEW r \in Requests, NEW j \in Jobs, Tap(p, r, j) PROVE SweptOrRunning'
    <3>1. \A m \in Jobs : Status(m) = "running" => Status(m)' = "running" BY <2>1 DEF Tap, TypeOK, Status, NoJob
    <3>. QED BY <1>2, <2>1, <3>1 DEF Tap
  <2>2. ASSUME NEW p \in Phones, NEW j \in Jobs, PhoneTimeout(p, j) PROVE SweptOrRunning'
    BY <1>2, <1>3, <2>2 DEF PhoneTimeout, Cancelled
  <2>3. ASSUME NEW p \in Phones, Snapshot(p) PROVE SweptOrRunning' BY <1>2, <2>3 DEF Snapshot, Status
  <2>. QED BY <1>4, <2>1, <2>2, <2>3 DEF PhoneNext
<1>5. ASSUME World PROVE SweptOrRunning'
  <2>1. ASSUME NEW j \in Jobs, Late(j) \/ Age(j) PROVE SweptOrRunning'
    <3>1. \A m \in Jobs : Status(m)' = Status(m) BY <2>1 DEF Late, Age, TypeOK, Status
    <3>. QED BY <1>2, <2>1, <3>1 DEF Late, Age
  <2>2. ASSUME NEW t \in Tabs, CloseTab(t) \/ OpenTab(t) PROVE SweptOrRunning'
    <3>1. \A u \in Tabs : pc'[u] = "run" => pc[u] = "run" /\ job'[u] = job[u] BY <2>2 DEF CloseTab, OpenTab, TypeOK
    <3>. QED BY <1>2, <2>2, <3>1 DEF CloseTab, OpenTab, Status
  <2>. QED BY <1>2, <1>5, <2>1, <2>2 DEF World, Close, Navigate, HoldLapses, Status
<1>6. ASSUME NEW t \in Tabs, TickNext(t) PROVE SweptOrRunning'
  <2>1. ASSUME NEW j \in Jobs, Sweep(t, j) PROVE SweptOrRunning'
    <3>1. /\ UNCHANGED <<pc, job>> /\ swept' = IF \E u \in Tabs : pc[u] = "run" /\ job[u] = j THEN swept \cup {j} ELSE swept
          /\ \A m \in Jobs \ {j} : jobs'[m] = jobs[m]
      BY <2>1 DEF Sweep, SetStatus, TypeOK
    <3>. QED BY <1>1, <3>1 DEF Status
  <2>2. ASSUME NEW j \in Jobs, Sift(t, j) PROVE SweptOrRunning'
    <3>1. \A m \in Jobs : Status(m) = "running" => Status(m)' = "running"
      BY <1>3, <2>2 DEF Sift, Cancelled, Status
    <3>. QED BY <1>2, <2>2, <3>1 DEF Sift
  <2>3. ASSUME NEW j \in Jobs, Claim(t, j) PROVE SweptOrRunning'
    <3>1. CASE EndTick(t) /\ UNCHANGED <<jobs, job, run>>
      <4>1. \A u \in Tabs : pc'[u] = "run" => pc[u] = "run" BY <3>1, EndKeeps
      <4>. QED BY <1>2, <2>3, <3>1, <4>1 DEF Claim, Status
    <3>2. CASE Status(j) = "queued" /\ SetStatus(j, "running") /\ Start(t, j)
      <4>1. /\ job'[t] = j /\ UNCHANGED swept
            /\ \A u \in Tabs \ {t} : pc'[u] = pc[u] /\ job'[u] = job[u]
        BY <2>3, <3>2 DEF Claim, Start, TypeOK
      <4>2. Status(j)' = "running" /\ \A m \in Jobs : Status(m) = "running" => Status(m)' = "running"
        BY <1>3, <3>2
      <4>3. ASSUME NEW u \in Tabs, pc'[u] = "run", NEW m, m = job'[u] PROVE jobs'[m].status = "running" \/ m \in swept'
        <5>1. CASE u = t BY <4>1, <4>2, <4>3, <5>1 DEF Status
        <5>2. CASE u # t
          <6>1. pc[u] = "run" /\ m = job[u] /\ m \in Jobs BY <1>0, <4>1, <4>3, <5>2
          <6>2. Status(m) = "running" \/ m \in swept BY <6>1 DEF SweptOrRunning
          <6>. QED BY <4>1, <4>2, <6>1, <6>2 DEF Status
        <5>. QED BY <5>1, <5>2
      <4>. QED BY <4>3 DEF SweptOrRunning, Status
    <3>. QED BY <2>3, <3>1, <3>2 DEF Claim
  <2>4. ASSUME NEW j \in Jobs, ClaimFails(t, j) PROVE SweptOrRunning'
    <3>1. \A u \in Tabs : pc'[u] = "run" => pc[u] = "run" BY <2>4, EndKeeps DEF ClaimFails
    <3>2. \A m \in Jobs : Status(m) = "running" => Status(m)' = "running" BY <1>3, <2>4 DEF ClaimFails, Status
    <3>. QED BY <1>2, <2>4, <3>1, <3>2 DEF ClaimFails
  <2>5. ASSUME BeginPoll(t) \/ ReadRunning(t) \/ ReadRunningFails(t) \/ EndPoll(t) \/ TickBlind(t) PROVE SweptOrRunning'
    <3>1. \A u \in Tabs : pc'[u] = "run" => pc[u] = "run"
      BY <2>5 DEF BeginPoll, ReadRunning, ReadRunningFails, EndPoll, TickBlind, Publish, EndTick, TypeOK
    <3>. QED BY <1>2, <2>5, <3>1 DEF BeginPoll, ReadRunning, ReadRunningFails, EndPoll, TickBlind, Status
  <2>. QED BY <1>6, <2>1, <2>2, <2>3, <2>4, <2>5 DEF TickNext
<1>7. ASSUME NEW t \in Tabs, Finish(t) PROVE SweptOrRunning'
  <2>1. /\ pc[t] = "run" /\ pc' = [pc EXCEPT ![t] = "idle"] /\ job' = [job EXCEPT ![t] = None] /\ UNCHANGED swept
        /\ Report(t) \/ UNCHANGED jobs
    BY <1>7 DEF Finish, EndTick, Lock, RunHoldsItsJob
  <2>2. \A m \in Jobs : m # job[t] => jobs'[m] = jobs[m] BY <2>1 DEF Report, SetStatus, TypeOK
  <2>3. \A u \in Tabs : pc'[u] = "run" => u # t /\ pc[u] = "run" /\ job'[u] = job[u] BY <2>1 DEF TypeOK
  <2>4. \A u \in Tabs : pc[u] = "run" /\ u # t => job[u] # job[t] BY <2>1 DEF Lock, OneRunner
  <2>. QED BY <1>1, <2>1, <2>2, <2>3, <2>4 DEF Status
<1>8. ASSUME NEW t \in Tabs, RunNext(t) \/ PanelNext(t), ~Finish(t) PROVE SweptOrRunning'
  <2>1. UNCHANGED <<jobs, pc, job, swept>>
    BY <1>8 DEF RunNext, PanelNext, Apply, CheckPending, Lookup, Invite, Rules, Mark, Click, Refresh, RetryMark
  <2>. QED BY <1>2, <2>1 DEF Status
<1>9. ASSUME UNCHANGED vars PROVE SweptOrRunning' BY <1>2, <1>9 DEF vars, Status
<1>. QED BY <1>4, <1>5, <1>6, <1>7, <1>8, <1>9 DEF Next

\* A sweep records at most one job more.
LEMMA SweptGrows ==
    ASSUME IsFiniteSet(swept), [Next]_vars
    PROVE  swept \subseteq swept' /\ IsFiniteSet(swept')
<1> USE DEF mailbox, kindoo, gate, tick, history
<1>1. ASSUME UNCHANGED swept PROVE swept \subseteq swept' /\ IsFiniteSet(swept') BY <1>1
<1>2. ASSUME NEW t \in Tabs, NEW j \in Jobs, Sweep(t, j) PROVE swept \subseteq swept' /\ IsFiniteSet(swept')
  <2>1. swept' \in {swept, swept \cup {j}} BY <1>2 DEF Sweep
  <2>. QED BY <2>1, FS_AddElement
<1>3. ASSUME PhoneNext \/ World PROVE UNCHANGED swept
  BY <1>3 DEF PhoneNext, World, Tap, Snapshot, PhoneTimeout, Late, Age, Close, Navigate, HoldLapses, CloseTab, OpenTab
<1>4. ASSUME NEW t \in Tabs, TickNext(t) PROVE UNCHANGED swept \/ \E j \in Jobs : Sweep(t, j)
  BY <1>4 DEF TickNext, BeginPoll, ReadRunning, ReadRunningFails, EndPoll, TickBlind, Sift, Claim, ClaimFails
<1>5. ASSUME NEW t \in Tabs, RunNext(t) \/ PanelNext(t) PROVE UNCHANGED swept
  BY <1>5 DEF RunNext, PanelNext, Apply, CheckPending, Lookup, Invite, Rules, Mark, Finish, Click, Refresh, RetryMark, Wrote
<1>6. ASSUME UNCHANGED vars PROVE UNCHANGED swept BY <1>6 DEF vars
<1>. QED BY <1>1, <1>2, <1>3, <1>4, <1>5, <1>6 DEF Next

LEMMA LoopEnds ==
    ASSUME TypeOK, NEW t \in Tabs, NEW result, Result(<<t, "loop">>, result)
    PROVE  /\ run'[<<t, "loop">>].step = "finish"
           /\ \A b \in Runners \ {<<t, "loop">>} : run'[b] = run[b]
<1>1. <<t, "loop">> \in Runners BY DEF Runners
<1>2. Advance(<<t, "loop">>, "finish", run[<<t, "loop">>].site, result) BY DEF Result
<1>. QED BY <1>1, <1>2, RunBecomes

LEMMA LoopSteps ==
    ASSUME TypeOK, NEW t \in Tabs, NEW step, NEW site, Advance(<<t, "loop">>, step, site, "none")
    PROVE  /\ run'[<<t, "loop">>].step = step /\ run'[<<t, "loop">>].site = site
           /\ run'[<<t, "loop">>].request = run[<<t, "loop">>].request
           /\ \A b \in Runners \ {<<t, "loop">>} : run'[b] = run[b]
<1>1. <<t, "loop">> \in Runners BY DEF Runners
<1>. QED BY <1>1, RunBecomes

\* The loop of a tab finds nobody invited, invites, or does neither.
Calm == /\ UNCHANGED invites
        /\ \A u \in Tabs : run'[<<u, "loop">>].step = "invite" => run'[<<u, "loop">>] = run[<<u, "loop">>] /\ job'[u] = job[u]
FindsNobody(t) ==
    LET a == <<t, "loop">> IN
    /\ UNCHANGED <<invites, job, jobs, swept>>
    /\ run[a].step = "lookup" /\ run'[a].request = run[a].request
    /\ invites[<<run[a].request, run'[a].site>>] = 0
    /\ \A b \in Runners \ {a} : run'[b] = run[b]
Spends(t) ==
    LET a == <<t, "loop">> IN
    /\ UNCHANGED <<job, jobs, swept>>
    /\ run[a].step = "invite" /\ run'[a].step # "invite"
    /\ invites' = [invites EXCEPT ![<<run[a].request, run[a].site>>] = @ + 1]
    /\ \A b \in Runners \ {a} : run'[b] = run[b]

LEMMA LoopNext ==
    ASSUME TypeOK, Lock, NoPanel, Clickers = {}, [Next]_vars
    PROVE  NoPanel' /\ (Calm \/ \E t \in Tabs : FindsNobody(t) \/ Spends(t))
<1> USE DEF mailbox, kindoo, gate, tick, history
<1>r. /\ \A u \in Tabs : <<u, "loop">> \in Runners /\ <<u, "panel">> \in Runners
      /\ \A u, v \in Tabs : <<u, "panel">> # <<v, "loop">> /\ (<<u, "loop">> = <<v, "loop">> => u = v)
  BY DEF Runners
<1>n. NoRun.step = "idle" BY DEF NoRun, NewRun
<1> DEFINE Step3 == Calm \/ \E t \in Tabs : FindsNobody(t) \/ Spends(t)
           Goal == NoPanel' /\ Step3
<1>1. ASSUME UNCHANGED <<invites, run, job>> PROVE Goal BY <1>1 DEF Calm, NoPanel
<1>2. ASSUME NEW t \in Tabs, UNCHANGED <<invites, job>>, run'[<<t, "loop">>].step # "invite",
             \A b \in Runners \ {<<t, "loop">>} : run'[b] = run[b]
      PROVE  Goal
  <2>1. NoPanel' BY <1>2, <1>r DEF NoPanel
  <2>2. Calm BY <1>2, <1>r DEF Calm
  <2>. QED BY <2>1, <2>2
<1>3. ASSUME NEW t \in Tabs, FindsNobody(t) \/ Spends(t) PROVE Goal
  <2>1. \A b \in Runners \ {<<t, "loop">>} : run'[b] = run[b] BY <1>3 DEF FindsNobody, Spends
  <2>2. NoPanel' BY <2>1, <1>r DEF NoPanel
  <2>. QED BY <1>3, <2>2
<1> HIDE DEF Goal, Step3
<1>4. ASSUME PhoneNext PROVE Goal BY <1>1, <1>4 DEF PhoneNext, Tap, Snapshot, PhoneTimeout
<1>5. ASSUME World PROVE Goal
  <2>1. ASSUME NEW t \in Tabs, CloseTab(t) PROVE Goal
    <3>1. UNCHANGED invites /\ job' = [job EXCEPT ![t] = None] /\ run' = [a \in Runners |-> IF a[1] = t THEN NoRun ELSE run[a]]
      BY <2>1 DEF CloseTab
    <3>2. NoPanel' BY <1>r, <3>1 DEF NoPanel
    <3>3. \A u \in Tabs : run'[<<u, "loop">>] = IF u = t THEN NoRun ELSE run[<<u, "loop">>] BY <1>r, <3>1
    <3>4. Calm BY <1>n, <3>1, <3>3 DEF Calm, TypeOK
    <3>. QED BY <3>2, <3>4 DEF Goal, Step3
  <2>. QED BY <1>1, <1>5, <2>1 DEF World, Late, Age, Close, Navigate, HoldLapses, OpenTab
<1>6. ASSUME NEW t \in Tabs, TickNext(t) PROVE Goal
  <2>1. ASSUME NEW j \in Jobs, Claim(t, j), Start(t, j) PROVE Goal
    <3>1. /\ UNCHANGED invites /\ run' = [run EXCEPT ![<<t, "loop">>] = NewRun("pending", jobs[j].request)]
          /\ job' = [job EXCEPT ![t] = j]
      BY <2>1 DEF Claim, Start
    <3>2. NewRun("pending", jobs[j].request).step = "pending" BY DEF NewRun
    <3>3. /\ run'[<<t, "loop">>].step = "pending"
          /\ \A b \in Runners \ {<<t, "loop">>} : run'[b] = run[b]
          /\ \A u \in Tabs \ {t} : job'[u] = job[u]
      BY <1>r, <3>1, <3>2 DEF TypeOK
    <3>4. NoPanel' BY <1>r, <3>3 DEF NoPanel
    <3>5. Calm BY <1>r, <3>1, <3>3 DEF Calm
    <3>. QED BY <3>4, <3>5 DEF Goal, Step3
  <2>2. ASSUME NEW j \in Jobs, Claim(t, j), ~Start(t, j) PROVE Goal BY <1>1, <2>2 DEF Claim
  <2>. QED
    BY <1>1, <1>6, <2>1, <2>2
    DEF TickNext, BeginPoll, ReadRunning, ReadRunningFails, EndPoll, TickBlind, Sweep, Sift, ClaimFails
<1>7. ASSUME NEW t \in Tabs, CheckPending(t) PROVE Goal
  <2>1. UNCHANGED <<invites, job>> /\ (Advance(<<t, "loop">>, "lookup", run[<<t, "loop">>].site, "none") \/ Result(<<t, "loop">>, "failed"))
    BY <1>7 DEF CheckPending, Step, Ends, Fails
  <2>2. run'[<<t, "loop">>].step # "invite" /\ \A b \in Runners \ {<<t, "loop">>} : run'[b] = run[b]
    BY <2>1, LoopEnds, LoopSteps
  <2>. QED BY <1>2, <2>1, <2>2
<1>8. ASSUME NEW t \in Tabs, Lookup(<<t, "loop">>) PROVE Goal
  <2> DEFINE a == <<t, "loop">>
             slot == <<run[a].request, at[t]>>
  <2>1. /\ run[a].step = "lookup" /\ UNCHANGED <<invites, job, jobs, swept>>
        /\ \/ Advance(a, IF invites[slot] = 0 THEN "invite" ELSE "rules", at[t], "none")
           \/ Result(a, "failed")
    BY <1>8 DEF Lookup, LookedUp, Ends, Fails
  <2>2. CASE Result(a, "failed") BY <1>2, <2>1, <2>2, LoopEnds
  <2>3. CASE invites[slot] = 0 /\ Advance(a, "invite", at[t], "none")
    <3>1. /\ run'[a].site = at[t] /\ run'[a].request = run[a].request
          /\ \A b \in Runners \ {a} : run'[b] = run[b]
      BY <2>3, LoopSteps
    <3>2. FindsNobody(t) BY <2>1, <2>3, <3>1 DEF FindsNobody
    <3>. QED BY <1>3, <3>2
  <2>4. CASE Advance(a, "rules", at[t], "none")
    <3>1. run'[a].step = "rules" /\ \A b \in Runners \ {a} : run'[b] = run[b] BY <2>4, LoopSteps
    <3>. QED BY <1>2, <2>1, <3>1
  <2>. QED BY <2>1, <2>2, <2>3, <2>4
<1>9. ASSUME NEW t \in Tabs, Invite(<<t, "loop">>) PROVE Goal
  <2> DEFINE a == <<t, "loop">>
  <2>1. /\ run[a].step = "invite" /\ UNCHANGED <<job, jobs, swept>>
        /\ invites' = [invites EXCEPT ![<<run[a].request, run[a].site>>] = @ + 1] \/ UNCHANGED invites
        /\ Advance(a, "rules", run[a].site, "none") \/ Result(a, "failed")
    BY <1>9 DEF Invite, Step, Fails
  <2>2. run'[a].step # "invite" /\ \A b \in Runners \ {a} : run'[b] = run[b] BY <2>1, LoopEnds, LoopSteps
  <2>3. CASE UNCHANGED invites BY <1>2, <2>1, <2>2, <2>3
  <2>4. CASE invites' = [invites EXCEPT ![<<run[a].request, run[a].site>>] = @ + 1]
    <3>1. Spends(t) BY <2>1, <2>2, <2>4 DEF Spends
    <3>. QED BY <1>3, <3>1
  <2>. QED BY <2>1, <2>3, <2>4
<1>10. ASSUME NEW t \in Tabs, Rules(<<t, "loop">>) PROVE Goal
  <2>1. UNCHANGED <<invites, job>> /\ (Advance(<<t, "loop">>, "mark", run[<<t, "loop">>].site, "none") \/ Result(<<t, "loop">>, "failed"))
    BY <1>10 DEF Rules, Step, Fails
  <2>2. run'[<<t, "loop">>].step # "invite" /\ \A b \in Runners \ {<<t, "loop">>} : run'[b] = run[b]
    BY <2>1, LoopEnds, LoopSteps
  <2>. QED BY <1>2, <2>1, <2>2
<1>11. ASSUME NEW t \in Tabs, Mark(<<t, "loop">>) PROVE Goal
  <2>1. UNCHANGED <<invites, job>> /\ \E result : Result(<<t, "loop">>, result) BY <1>11 DEF Mark, Ends, Fails
  <2>. QED BY <1>2, <2>1, LoopEnds
<1>12. ASSUME NEW t \in Tabs, Finish(t) PROVE Goal
  <2>1. UNCHANGED invites /\ run' = [run EXCEPT ![<<t, "loop">>] = NoRun] /\ job' = [job EXCEPT ![t] = None]
    BY <1>12 DEF Finish
  <2>2. run'[<<t, "loop">>] = NoRun /\ \A b \in Runners \ {<<t, "loop">>} : run'[b] = run[b] BY <1>r, <2>1 DEF TypeOK
  <2>3. NoPanel' BY <1>r, <2>2 DEF NoPanel
  <2>4. Calm BY <1>n, <1>r, <2>1, <2>2 DEF Calm, TypeOK
  <2>. QED BY <2>3, <2>4 DEF Goal, Step3
<1>13. ASSUME NEW t \in Tabs, PanelNext(t) PROVE Goal
  <2>1. run[<<t, "panel">>].step = "idle" BY <1>n DEF NoPanel
  <2>2. ~RetryMark(t) /\ ~Apply(<<t, "panel">>) /\ \A r \in Requests : ~Click(t, r)
    BY <2>1 DEF RetryMark, Apply, Lookup, Invite, Rules, Mark, Click
  <2>3. Refresh(t) BY <1>13, <2>2 DEF PanelNext
  <2>. QED BY <1>1, <2>3 DEF Refresh
<1>14. ASSUME UNCHANGED vars PROVE Goal BY <1>1, <1>14 DEF vars
<1>15. Goal
  BY <1>4, <1>5, <1>6, <1>7, <1>8, <1>9, <1>10, <1>11, <1>12, <1>13, <1>14 DEF Next, RunNext, Apply
<1>. QED BY <1>15 DEF Goal, Step3

\* A request keeps its jobs, and a sweep its victims.
LEMMA AllowanceGrows ==
    ASSUME RemoteApplyAssumption, TypeOK, Lock, Sighted, IsFiniteSet(swept), [Next]_vars, NEW r \in Requests
    PROVE  /\ IsFiniteSet(swept \cap JobsOf(r)) /\ IsFiniteSet((swept \cap JobsOf(r))')
           /\ Cardinality(swept \cap JobsOf(r)) \in Nat
           /\ Cardinality((swept \cap JobsOf(r))') \in Nat
           /\ Cardinality(swept \cap JobsOf(r)) <= Cardinality((swept \cap JobsOf(r))')
<1>1. ASSUME NEW j \in JobsOf(r) PROVE j \in JobsOf(r)'
  <2>1. j \in Jobs /\ jobs[j].request = r /\ r # None BY <1>1 DEF JobsOf, RemoteApplyAssumption
  <2>2. Status(j) # "none" BY <2>1 DEF Sighted, NoJob
  <2>3. jobs'[j].request = jobs[j].request BY <2>1, <2>2, MovedBack
  <2>. QED BY <2>1, <2>3 DEF JobsOf
<1>2. swept \subseteq swept' /\ IsFiniteSet(swept') BY SweptGrows
<1> DEFINE Old == swept \cap JobsOf(r)
           New == swept' \cap JobsOf(r)'
<1>3. Old \subseteq swept /\ New \subseteq swept' /\ Old \subseteq New BY <1>1, <1>2
<1> HIDE DEF Old, New
<1>4. IsFiniteSet(Old) /\ IsFiniteSet(New) BY <1>2, <1>3, FS_Subset
<1>5. Cardinality(Old) \in Nat /\ Cardinality(New) \in Nat /\ Cardinality(Old) <= Cardinality(New)
  BY <1>3, <1>4, FS_CardinalityType, FS_Subset
<1>. QED BY <1>4, <1>5 DEF Old, New

\* No more invites made or to be made than a step before.
LEMMA NotMore ==
    ASSUME RemoteApplyAssumption, TypeOK, TypeOK', Lock, Sighted, Spending, [Next]_vars,
           NEW r \in Requests, NEW s \in Sites,
           NEW X, X = Inviting(r, s)', X \subseteq Inviting(r, s),
           \/ invites'[<<r, s>>] = invites[<<r, s>>]
           \/ invites'[<<r, s>>] = invites[<<r, s>>] + 1 /\ X # Inviting(r, s)
    PROVE  (IsFiniteSet(Inviting(r, s)) /\ Budgeted(r, s))'
<1> DEFINE Old == Inviting(r, s)
<1>1. IsFiniteSet(Old) /\ Budgeted(r, s) BY DEF Spending
<1>2. invites[<<r, s>>] \in Nat /\ invites'[<<r, s>>] \in Nat BY DEF TypeOK
<1>3. IsFiniteSet(X) /\ Cardinality(X) \in Nat /\ Cardinality(Old) \in Nat /\ Cardinality(X) <= Cardinality(Old)
      /\ (X # Old => Cardinality(X) # Cardinality(Old))
  BY <1>1, FS_CardinalityType, FS_Subset
<1>4. invites'[<<r, s>>] + Cardinality(X) <= invites[<<r, s>>] + Cardinality(Old) BY <1>2, <1>3
<1> DEFINE allowed == Cardinality(swept \cap JobsOf(r))
           allows  == Cardinality((swept \cap JobsOf(r))')
<1>5. allowed \in Nat /\ allows \in Nat /\ allowed <= allows BY AllowanceGrows DEF Spending
<1>6. invites[<<r, s>>] + Cardinality(Old) <= 1 + allowed BY <1>1 DEF Budgeted
<1> HIDE DEF Old, allowed, allows
<1>7. invites'[<<r, s>>] + Cardinality(X) <= 1 + allows BY <1>2, <1>3, <1>4, <1>5, <1>6
<1>. QED BY <1>3, <1>7 DEF allows, Budgeted

LEMMA BudgetNext ==
    ASSUME RemoteApplyAssumption, TypeOK, TypeOK', Lock, Sighted, OneLive, Spending, Clickers = {}, [Next]_vars
    PROVE  Spending'
<1>1. /\ NoPanel' /\ SweptOrRunning' /\ IsFiniteSet(swept')
      /\ Calm \/ \E t \in Tabs : FindsNobody(t) \/ Spends(t)
  BY SweptNext, SweptGrows, LoopNext DEF Spending
<1>r. /\ \A u \in Tabs : <<u, "loop">> \in Runners
      /\ \A u, v \in Tabs : <<u, "loop">> = <<v, "loop">> => u = v
  BY DEF Runners
<1>l. \A u \in Tabs : run[<<u, "loop">>].step # "idle" =>
        /\ pc[u] = "run" /\ job[u] \in Jobs /\ run[<<u, "loop">>].request = jobs[job[u]].request
  BY DEF Lock, RunHoldsItsJob
<1>2. ASSUME NEW r \in Requests, NEW s \in Sites PROVE (IsFiniteSet(Inviting(r, s)) /\ Budgeted(r, s))'
  <2> DEFINE Goal == (IsFiniteSet(Inviting(r, s)) /\ Budgeted(r, s))'
  <2>1. PICK X : X = Inviting(r, s)' OBVIOUS
  <2>2. ASSUME NEW j \in X
        PROVE  j \in Jobs /\ \E u \in Tabs :
                 /\ job'[u] = j /\ run'[<<u, "loop">>].step = "invite"
                 /\ run'[<<u, "loop">>].request = r /\ run'[<<u, "loop">>].site = s
    BY <2>1, <2>2 DEF Inviting, InvitesFor
  <2>s. ASSUME \A u \in Tabs : run'[<<u, "loop">>].step = "invite" /\ run'[<<u, "loop">>].request = r /\ run'[<<u, "loop">>].site = s
                              => run'[<<u, "loop">>] = run[<<u, "loop">>] /\ job'[u] = job[u]
        PROVE  X \subseteq Inviting(r, s)
    <3>1. ASSUME NEW j \in X PROVE j \in Inviting(r, s)
      <4>1. PICK u \in Tabs : /\ job'[u] = j /\ run'[<<u, "loop">>].step = "invite"
                              /\ run'[<<u, "loop">>].request = r /\ run'[<<u, "loop">>].site = s
        BY <2>2, <3>1
      <4>2. j \in Jobs /\ job[u] = j /\ InvitesFor(u, r, s) BY <2>2, <2>s, <3>1, <4>1 DEF InvitesFor
      <4>. QED BY <4>2 DEF Inviting
    <3>. QED BY <3>1
  <2>c. ASSUME X \subseteq Inviting(r, s),
               \/ invites'[<<r, s>>] = invites[<<r, s>>]
               \/ invites'[<<r, s>>] = invites[<<r, s>>] + 1 /\ X # Inviting(r, s)
        PROVE  Goal
    BY <2>1, <2>c, NotMore
  <2> HIDE DEF Goal
  <2>3. ASSUME Calm PROVE Goal
    <3>1. X \subseteq Inviting(r, s) BY <2>s, <2>3 DEF Calm
    <3>2. invites'[<<r, s>>] = invites[<<r, s>>] BY <2>3 DEF Calm
    <3>. QED BY <2>c, <3>1, <3>2
  <2>4. ASSUME NEW t \in Tabs, FindsNobody(t) PROVE Goal
    <3> DEFINE a == <<t, "loop">>
    <3>0. /\ UNCHANGED <<invites, job, jobs, swept>> /\ run[a].step = "lookup" /\ run'[a].request = run[a].request
          /\ invites[<<run[a].request, run'[a].site>>] = 0
          /\ \A u \in Tabs \ {t} : run'[<<u, "loop">>] = run[<<u, "loop">>]
      BY <1>r, <2>4 DEF FindsNobody
    <3>1. CASE run[a].request = r /\ run'[a].site = s
      <4>1. ASSUME NEW j \in X, j \notin swept \cap JobsOf(r) PROVE j \in Live /\ jobs[j].request = r
        <5>1. PICK u \in Tabs : /\ job[u] = j /\ run'[<<u, "loop">>].step = "invite"
                                /\ run'[<<u, "loop">>].request = r
          BY <2>2, <3>0, <4>1
        <5>2. run[<<u, "loop">>].step # "idle" /\ run[<<u, "loop">>].request = r BY <3>0, <5>1
        <5>3. pc[u] = "run" /\ j \in Jobs /\ jobs[j].request = r BY <1>l, <5>1, <5>2
        <5>4. j \notin swept BY <4>1, <5>3 DEF JobsOf
        <5>5. Status(j) = "running" BY <5>1, <5>3, <5>4 DEF Spending, SweptOrRunning
        <5>. QED BY <5>3, <5>5 DEF Live, LiveStatuses
      <4>2. \A j, k \in X \ (swept \cap JobsOf(r)) : j = k BY <4>1 DEF OneLive
      <4>3. IsFiniteSet(swept \cap JobsOf(r)) BY AllowanceGrows DEF Spending
      <4>4. IsFiniteSet(X) /\ Cardinality(X) <= 1 + Cardinality(swept \cap JobsOf(r)) BY <4>2, <4>3, AllButOne
      <4>5. (swept \cap JobsOf(r))' = swept \cap JobsOf(r) BY <3>0 DEF JobsOf
      <4>6. invites'[<<r, s>>] = 0 BY <3>0, <3>1
      <4>7. Cardinality(X) \in Nat BY <4>4, FS_CardinalityType
      <4>8. invites'[<<r, s>>] + Cardinality(X) <= 1 + Cardinality((swept \cap JobsOf(r))') 
        <5>1. Cardinality(swept \cap JobsOf(r)) = Cardinality((swept \cap JobsOf(r))') BY <4>5
        <5>2. Cardinality(swept \cap JobsOf(r)) \in Nat BY <4>3, FS_CardinalityType
        <5>. QED BY <4>4, <4>6, <4>7, <5>1, <5>2
      <4>. QED BY <2>1, <4>4, <4>8 DEF Goal, Budgeted
    <3>2. CASE ~(run[a].request = r /\ run'[a].site = s)
      <4>1. X \subseteq Inviting(r, s) BY <2>s, <3>0, <3>2
      <4>. QED BY <2>c, <3>0, <4>1
    <3>. QED BY <3>1, <3>2
  <2>5. ASSUME NEW t \in Tabs, Spends(t) PROVE Goal
    <3> DEFINE a == <<t, "loop">>
    <3>0. /\ UNCHANGED <<job, jobs, swept>> /\ run[a].step = "invite" /\ run'[a].step # "invite"
          /\ invites' = [invites EXCEPT ![<<run[a].request, run[a].site>>] = @ + 1]
          /\ \A u \in Tabs \ {t} : run'[<<u, "loop">>] = run[<<u, "loop">>]
      BY <1>r, <2>5 DEF Spends
    <3>1. X \subseteq Inviting(r, s) BY <2>s, <3>0
    <3>2. CASE run[a].request = r /\ run[a].site = s
      <4>1. job[t] \in Inviting(r, s) BY <1>l, <3>0, <3>2 DEF Inviting, InvitesFor
      <4>2. job[t] \notin X
        <5>1. ASSUME job[t] \in X PROVE FALSE
          <6>1. PICK u \in Tabs : job[u] = job[t] /\ run'[<<u, "loop">>].step = "invite" BY <2>2, <3>0, <5>1
          <6>2. u # t BY <3>0, <6>1
          <6>3. pc[u] = "run" /\ pc[t] = "run" BY <1>l, <3>0, <6>1, <6>2
          <6>. QED BY <6>1, <6>2, <6>3 DEF Lock, OneRunner
        <5>. QED BY <5>1
      <4>3. invites'[<<r, s>>] = invites[<<r, s>>] + 1 BY <3>0, <3>2 DEF TypeOK
      <4>. QED BY <2>c, <3>1, <4>1, <4>2, <4>3
    <3>3. CASE ~(run[a].request = r /\ run[a].site = s)
      <4>1. <<run[a].request, run[a].site>> # <<r, s>> BY <3>3
      <4>2. invites'[<<r, s>>] = invites[<<r, s>>] BY <3>0, <4>1 DEF TypeOK
      <4>. QED BY <2>c, <3>1, <4>2
    <3>. QED BY <3>2, <3>3
  <2>. QED BY <1>1, <2>3, <2>4, <2>5 DEF Goal
<1>. QED BY <1>1, <1>2 DEF Spending

LEMMA BudgetInit == Init => Spending
<1>1. SUFFICES ASSUME Init PROVE Spending OBVIOUS
<1>2. \A a \in Runners : run[a].step = "idle" /\ run[a] = NoRun BY <1>1 DEF Init, NoRun, NewRun
<1>3. \A t \in Tabs : <<t, "loop">> \in Runners /\ <<t, "panel">> \in Runners BY DEF Runners
<1>4. NoPanel /\ SweptOrRunning BY <1>1, <1>2, <1>3 DEF Init, NoPanel, SweptOrRunning
<1>5. ASSUME NEW r \in Requests, NEW s \in Sites PROVE IsFiniteSet(Inviting(r, s)) /\ Budgeted(r, s)
  <2>1. Inviting(r, s) = {} BY <1>2, <1>3 DEF Inviting, InvitesFor
  <2>2. invites[<<r, s>>] = 0 /\ swept \cap JobsOf(r) = {} BY <1>1 DEF Init
  <2>. QED BY <2>1, <2>2, FS_EmptySet DEF Budgeted
<1>. QED BY <1>1, <1>4, <1>5, FS_EmptySet DEF Spending, Init

\* From one phone alone, with no click on the desktop, a member is invited once on
\* a site, whatever claims, reports and answers are lost and whatever tabs close;
\* each invite more is the price of one job that a sweep gave up while its tab was
\* running it (loop.ts: "re-applying blind ... burns a second Kindoo licence").
THEOREM OneInvitation ==
    ASSUME OnePhone, Clickers = {}
    PROVE  Spec => []InvitedOnce
<1>1. TypeOK /\ TypeOK' /\ Lock /\ Sighted /\ OneLive /\ Spending /\ [Next]_vars => Spending'
  BY BudgetNext, RemoteApplyAssumption
<1>2. TypeOK /\ Spending => InvitedOnce
  <2>1. ASSUME TypeOK, Spending, NEW r \in Requests, NEW s \in Sites
        PROVE  invites[<<r, s>>] <= 1 + Cardinality(swept \cap JobsOf(r))
    <3>1. IsFiniteSet(Inviting(r, s)) /\ Budgeted(r, s) BY <2>1 DEF Spending
    <3>2. Cardinality(Inviting(r, s)) \in Nat /\ invites[<<r, s>>] \in Nat BY <2>1, <3>1, FS_CardinalityType DEF TypeOK
    <3>3. IsFiniteSet(swept \cap JobsOf(r)) BY <2>1, FS_Subset DEF Spending
    <3>4. Cardinality(swept \cap JobsOf(r)) \in Nat BY <3>3, FS_CardinalityType
    <3>. QED BY <3>1, <3>2, <3>4 DEF Budgeted
  <2>. QED BY <2>1 DEF InvitedOnce
<1>. QED BY <1>1, <1>2, BudgetInit, TypeCorrect, LockInvariant, OnePhoneInvariant, PTL DEF Spec

-----------------------------------------------------------------------------
(* The loop implements the mailbox's promise (JobLifecycle), for any number  *)
(* of tabs, phones, jobs, requests and sites.                                *)

-----------------------------------------------------------------------------
(* A run that is about to complete its request, or that reports `applied`    *)
(* or `partial`, has touched Kindoo for its job.                             *)

VouchedFor(t) ==
    \/ run[<<t, "loop">>].step = "mark"
    \/ run[<<t, "loop">>].step = "finish" /\ run[<<t, "loop">>].result \in {"applied", "partial"}
    => job[t] \in wrote
Vouched == \A t \in Tabs : VouchedFor(t)

\* What a step leaves of a tab's run, job and writes, it leaves of its word.
LEMMA VouchedKept ==
    ASSUME Vouched, wrote \subseteq wrote', NEW t \in Tabs,
           \/ job'[t] = job[t] /\ run'[<<t, "loop">>] = run[<<t, "loop">>]
           \/ run'[<<t, "loop">>].step \notin {"mark", "finish"}
    PROVE  VouchedFor(t)'
  BY DEF Vouched, VouchedFor

LEMMA VouchedWorld == ASSUME TypeOK, Vouched, PhoneNext \/ World PROVE Vouched'
<1> USE DEF mailbox, kindoo, gate, tick, history
<1>1. CASE \E t \in Tabs : CloseTab(t)
  <2>1. PICK t \in Tabs : CloseTab(t) BY <1>1
  <2>2. ASSUME NEW u \in Tabs PROVE VouchedFor(u)'
    <3>1. <<u, "loop">> \in Runners BY DEF Runners
    <3>2. CASE u = t
      <4>1. run'[<<u, "loop">>] = NoRun BY <2>1, <3>1, <3>2 DEF CloseTab
      <4>. QED BY <2>1, <4>1, VouchedKept DEF CloseTab, NoRun, NewRun
    <3>3. CASE u # t
      <4>1. run'[<<u, "loop">>] = run[<<u, "loop">>] /\ job'[u] = job[u]
        BY <2>1, <3>1, <3>3 DEF CloseTab, TypeOK
      <4>. QED BY <2>1, <4>1, VouchedKept DEF CloseTab
    <3>. QED BY <3>2, <3>3
  <2>. QED BY <2>2 DEF Vouched
<1>2. CASE ~\E t \in Tabs : CloseTab(t)
  <2>1. UNCHANGED <<job, wrote, run>>
    BY <1>2 DEF PhoneNext, World, Tap, Snapshot, PhoneTimeout, Late, Age, Close, Navigate, HoldLapses, OpenTab
  <2>. QED BY <2>1 DEF Vouched, VouchedFor
<1>. QED BY <1>1, <1>2

LEMMA VouchedTick == ASSUME TypeOK, Vouched, NEW t \in Tabs, TickNext(t) PROVE Vouched'
<1> USE DEF mailbox, kindoo, gate, tick, history
<1>1. CASE \E j \in Jobs : Claim(t, j)
  <2>1. PICK j \in Jobs : Claim(t, j) BY <1>1
  <2>2. CASE Start(t, j)
    <3>1. ASSUME NEW u \in Tabs PROVE VouchedFor(u)'
      <4>1. <<u, "loop">> \in Runners BY DEF Runners
      <4>2. CASE u = t
        <5>1. run'[<<u, "loop">>].step = "pending"
          BY <2>2, <4>1, <4>2 DEF Start, TypeOK, NewRun
        <5>. QED BY <2>1, <5>1, VouchedKept DEF Claim
      <4>3. CASE u # t
        <5>1. run'[<<u, "loop">>] = run[<<u, "loop">>] /\ job'[u] = job[u]
          BY <2>2, <4>1, <4>3 DEF Start, TypeOK
        <5>. QED BY <2>1, <5>1, VouchedKept DEF Claim
      <4>. QED BY <4>2, <4>3
    <3>. QED BY <3>1 DEF Vouched
  <2>3. CASE UNCHANGED <<job, run>>
    BY <2>1, <2>3 DEF Claim, Vouched, VouchedFor
  <2>. QED BY <2>1, <2>2, <2>3 DEF Claim
<1>2. CASE ~\E j \in Jobs : Claim(t, j)
  <2>1. UNCHANGED <<job, run, wrote>>
    BY <1>2 DEF TickNext, BeginPoll, ReadRunning, ReadRunningFails, EndPoll, TickBlind, Sweep, Sift, ClaimFails
  <2>. QED BY <2>1 DEF Vouched, VouchedFor
<1>. QED BY <1>1, <1>2

\* One runner moves on; its word, if it is a loop's, has to be shown.
LEMMA VouchedStep ==
    ASSUME TypeOK, Vouched, NEW a \in Runners, UNCHANGED job, wrote \subseteq wrote',
           \A b \in Runners \ {a} : run'[b] = run[b],
           a[2] = "loop" => VouchedFor(a[1])'
    PROVE  Vouched'
<1>1. ASSUME NEW u \in Tabs PROVE VouchedFor(u)'
  <2>1. <<u, "loop">> \in Runners BY DEF Runners
  <2>2. CASE a = <<u, "loop">> BY <2>2
  <2>3. CASE a # <<u, "loop">> BY <2>1, <2>3, VouchedKept
  <2>. QED BY <2>2, <2>3
<1>. QED BY <1>1 DEF Vouched

\* A runner that fails vouches for nothing.
LEMMA VouchedFailed ==
    ASSUME TypeOK, Vouched, NEW a \in Runners, UNCHANGED job, wrote \subseteq wrote', Result(a, "failed")
    PROVE  Vouched'
<1>1. \A b \in Runners \ {a} : run'[b] = run[b]
  BY FailedIsRight
<1>2. ASSUME a[2] = "loop" PROVE VouchedFor(a[1])'
  <2>1. Advance(a, "finish", run[a].site, "failed") /\ a = <<a[1], "loop">>
    BY <1>2 DEF Result, Runners
  <2>. QED BY <2>1, RunBecomes DEF VouchedFor
<1>. QED BY <1>1, <1>2, VouchedStep

LEMMA VouchedRun ==
    ASSUME TypeOK, Lock, Vouched, NEW t \in Tabs, RunNext(t) \/ PanelNext(t) PROVE Vouched'
<1> USE DEF mailbox, kindoo, gate, tick, history
<1>r. <<t, "loop">> \in Runners /\ <<t, "panel">> \in Runners
  BY DEF Runners
<1>a. ASSUME NEW a \in Runners, UNCHANGED job, wrote \subseteq wrote',
             NEW step \in {"lookup", "invite", "rules"}, NEW site, Advance(a, step, site, "none")
      PROVE  Vouched'
  <2>1. ASSUME a[2] = "loop" PROVE VouchedFor(a[1])'
    <3>1. a = <<a[1], "loop">> BY <2>1 DEF Runners
    <3>. QED BY <1>a, <3>1, RunBecomes DEF VouchedFor
  <2>. QED BY <1>a, <2>1, RunBecomes, VouchedStep
<1>1. CASE CheckPending(t)
  <2>1. UNCHANGED <<job, wrote>> BY <1>1 DEF CheckPending
  <2>2. Advance(<<t, "loop">>, "lookup", run[<<t, "loop">>].site, "none") \/ Result(<<t, "loop">>, "failed")
    BY <1>1 DEF CheckPending, Step, Ends, Fails
  <2>. QED BY <1>r, <1>a, <2>1, <2>2, VouchedFailed
<1>2. ASSUME NEW a \in Runners, Lookup(a) PROVE Vouched'
  <2>1. UNCHANGED <<job, wrote>> BY <1>2 DEF Lookup
  <2>2. \/ Advance(a, "invite", at[a[1]], "none") \/ Advance(a, "rules", at[a[1]], "none")
        \/ Result(a, "failed")
    BY <1>2 DEF Lookup, LookedUp, Ends, Fails
  <2>. QED BY <1>a, <2>1, <2>2, VouchedFailed
<1>3. ASSUME NEW a \in Runners, Invite(a) PROVE Vouched'
  <2>1. UNCHANGED job /\ wrote \subseteq wrote' BY <1>3 DEF Invite, Wrote
  <2>2. Advance(a, "rules", run[a].site, "none") \/ Result(a, "failed")
    BY <1>3 DEF Invite, Step, Fails
  <2>. QED BY <1>a, <2>1, <2>2, VouchedFailed
<1>4. ASSUME NEW a \in Runners, Rules(a) PROVE Vouched'
  <2>1. UNCHANGED job /\ wrote \subseteq wrote' BY <1>4 DEF Rules, Wrote
  <2>2. CASE Wrote(a) /\ Advance(a, "mark", run[a].site, "none")
    <3>1. ASSUME a[2] = "loop" PROVE VouchedFor(a[1])'
      BY <2>1, <2>2, <3>1 DEF Wrote, VouchedFor
    <3>. QED BY <2>1, <2>2, <3>1, RunBecomes, VouchedStep
  <2>3. CASE Result(a, "failed") BY <2>1, <2>3, VouchedFailed
  <2>. QED BY <1>4, <2>2, <2>3 DEF Rules, Step, Fails
<1>5. ASSUME NEW a \in Runners, Mark(a) PROVE Vouched'
  <2>1. UNCHANGED <<job, wrote>> /\ run[a].step = "mark" BY <1>5 DEF Mark
  <2>2. PICK result \in {"partial", "applied"} : Result(a, result) BY <1>5 DEF Mark, Ends, Fails
  <2>3. \A b \in Runners \ {a} : run'[b] = run[b]
    BY <2>2 DEF Result, Advance, TypeOK
  <2>4. ASSUME a[2] = "loop" PROVE VouchedFor(a[1])'
    <3>1. a = <<a[1], "loop">> /\ a[1] \in Tabs BY <2>4 DEF Runners
    <3>. QED BY <2>1, <3>1 DEF Vouched, VouchedFor
  <2>. QED BY <2>1, <2>3, <2>4, VouchedStep
<1>6. CASE Finish(t)
  <2>1. /\ UNCHANGED wrote /\ job' = [job EXCEPT ![t] = None]
        /\ run' = [run EXCEPT ![<<t, "loop">>] = NoRun]
    BY <1>6 DEF Finish
  <2>2. ASSUME NEW u \in Tabs PROVE VouchedFor(u)'
    <3>1. <<u, "loop">> \in Runners BY DEF Runners
    <3>2. \/ job'[u] = job[u] /\ run'[<<u, "loop">>] = run[<<u, "loop">>]
          \/ run'[<<u, "loop">>] = NoRun
      BY <2>1, <3>1 DEF TypeOK
    <3>. QED BY <2>1, <3>2, VouchedKept DEF NoRun, NewRun
  <2>. QED BY <2>2 DEF Vouched
<1>7. CASE (\E r \in Requests : Click(t, r)) \/ Refresh(t) \/ RetryMark(t)
  <2>1. UNCHANGED <<job, wrote>>
    BY <1>7 DEF Click, Refresh, RetryMark
  <2>2. \A b \in Runners \ {<<t, "panel">>} : run'[b] = run[b]
    BY <1>7, <1>r DEF Click, Refresh, RetryMark, Advance, TypeOK
  <2>. QED BY <1>r, <2>1, <2>2, VouchedStep
<1>. QED
  BY <1>1, <1>2, <1>3, <1>4, <1>5, <1>6, <1>7, <1>r DEF RunNext, PanelNext, Apply

\* The inductive invariant behind the refinement's reports.
THEOREM VouchedInvariant == Spec => []Vouched
<1>1. Init => Vouched
  BY DEF Init, Vouched, VouchedFor, Runners, NoRun, NewRun
<1>2. TypeOK /\ Lock /\ Vouched /\ [Next]_vars => Vouched'
  <2>1. ASSUME Vouched, UNCHANGED vars PROVE Vouched'
    BY <2>1 DEF vars, tick, history, Vouched, VouchedFor
  <2>2. ASSUME TypeOK, Lock, Vouched, Next PROVE Vouched'
    BY <2>2, VouchedWorld, VouchedTick, VouchedRun DEF Next
  <2>. QED BY <2>1, <2>2
<1>. QED BY <1>1, <1>2, TypeCorrect, LockInvariant, PTL DEF Spec

-----------------------------------------------------------------------------
(* Every step of the loop, the phones and the world is one of the promise,   *)
(* or is not visible in it.                                                  *)

Shown   == [j \in Jobs |-> Status(j)]
Wanted  == [j \in Jobs |-> jobs[j].request]
InHands == [t \in Tabs |-> IF pc[t] = "run" THEN job[t] ELSE None]
Seen    == <<Shown, Wanted, InHands, wrote>>

LEMMA StatusShown ==
    ASSUME TypeOK, NEW j \in Jobs, NEW s \in LiveStatuses \cup TerminalStatuses, SetStatus(j, s),
           Status(j) # "none"
    PROVE  Shown' = [Shown EXCEPT ![j] = s] /\ UNCHANGED Wanted
<1>1. /\ Status(j)' = s /\ \A k \in Jobs : jobs'[k].request = jobs[k].request
      /\ \A k \in Jobs \ {j} : jobs'[k] = jobs[k]
  BY StatusChange
<1>. QED BY <1>1 DEF Shown, Wanted, Status

LEMMA HandsKept ==
    ASSUME UNCHANGED job, \A t \in Tabs : pc'[t] = "run" <=> pc[t] = "run"
    PROVE  UNCHANGED InHands
  BY DEF InHands

LEMMA JobsKept == ASSUME UNCHANGED jobs PROVE UNCHANGED <<Shown, Wanted>>
  BY DEF Shown, Wanted, Status

\* Nothing but the status of one job is seen to change.
LEMMA OneStatus ==
    ASSUME TypeOK, UNCHANGED <<InHands, wrote>>, NEW j \in Jobs,
           \/ Status(j) = "queued" /\ (SetStatus(j, "cancelled") \/ SetStatus(j, "running"))
           \/ Status(j) = "running" /\ SetStatus(j, "failed")
    PROVE  Promised!Next
<1>1. CASE Status(j) = "queued" /\ SetStatus(j, "cancelled")
  <2>1. Promised!Cancel(j)
    BY <1>1, StatusShown DEF Promised!Cancel, Shown, Wanted, InHands, TerminalStatuses
  <2>. QED BY <2>1 DEF Promised!Next
<1>2. CASE Status(j) = "queued" /\ SetStatus(j, "running")
  <2>1. Promised!ClaimUnheard(j)
    BY <1>2, StatusShown DEF Promised!ClaimUnheard, Promised!Take, Shown, Wanted, InHands, LiveStatuses
  <2>. QED BY <2>1 DEF Promised!Next
<1>3. CASE Status(j) = "running" /\ SetStatus(j, "failed")
  <2>1. Promised!GiveUp(j)
    BY <1>3, StatusShown DEF Promised!GiveUp, Shown, Wanted, InHands, TerminalStatuses, Outcomes
  <2>. QED BY <2>1 DEF Promised!Next
<1>. QED BY <1>1, <1>2, <1>3

LEMMA WorldImplements ==
    ASSUME RemoteApplyAssumption, TypeOK, PhoneNext \/ World PROVE Promised!Next \/ UNCHANGED Seen
<1> USE DEF mailbox, kindoo, gate, tick, history
<1>1. ASSUME NEW p \in Phones, NEW r \in Requests, NEW j \in Jobs, Tap(p, r, j) PROVE Promised!Next
  <2>1. jobs' = [jobs EXCEPT ![j] = [request |-> r, status |-> "queued", late |-> FALSE, age |-> 0]]
    BY <1>1 DEF Tap
  <2>2. Shown' = [Shown EXCEPT ![j] = "queued"] /\ Wanted' = [Wanted EXCEPT ![j] = r]
    BY <2>1 DEF Shown, Wanted, Status, TypeOK
  <2>3. Status(j) = "none" BY <1>1 DEF Tap, NoJob, Status
  <2>4. UNCHANGED <<InHands, wrote>> BY <1>1 DEF Tap, InHands
  <2>5. Promised!Submit(j, r)
    BY <2>2, <2>3, <2>4 DEF Promised!Submit, Shown, Wanted, InHands
  <2>. QED BY <2>5 DEF Promised!Next
<1>2. ASSUME NEW p \in Phones, NEW j \in Jobs, PhoneTimeout(p, j) PROVE Promised!Next
  BY <1>2, OneStatus DEF PhoneTimeout, Cancelled, InHands
<1>3. ASSUME NEW j \in Jobs, Late(j) \/ Age(j) PROVE UNCHANGED Seen
  <2>1. \A k \in Jobs : jobs'[k].status = jobs[k].status /\ jobs'[k].request = jobs[k].request
    BY <1>3 DEF Late, Age, TypeOK
  <2>. QED BY <1>3, <2>1 DEF Late, Age, Seen, Shown, Wanted, InHands, Status
<1>4. ASSUME NEW t \in Tabs, CloseTab(t) PROVE Promised!Next \/ UNCHANGED Seen
  <2>1. /\ UNCHANGED <<jobs, wrote>> /\ pc' = [pc EXCEPT ![t] = "closed"]
        /\ job' = [job EXCEPT ![t] = None]
    BY <1>4 DEF CloseTab
  <2>2. InHands' = [InHands EXCEPT ![t] = None]
    BY <2>1 DEF InHands, TypeOK
  <2>3. CASE InHands[t] = None
    <3>1. UNCHANGED InHands BY <2>2, <2>3 DEF InHands
    <3>. QED BY <2>1, <3>1, JobsKept DEF Seen
  <2>4. CASE InHands[t] # None
    <3>1. Promised!Drop(t)
      BY <2>1, <2>2, <2>4, JobsKept DEF Promised!Drop, Promised!LetGo, InHands, Shown, Wanted
    <3>. QED BY <3>1 DEF Promised!Next
  <2>. QED BY <2>3, <2>4
<1>5. ASSUME NEW t \in Tabs, OpenTab(t) PROVE UNCHANGED Seen
  <2>1. \A u \in Tabs : pc'[u] = "run" <=> pc[u] = "run" BY <1>5 DEF OpenTab, TypeOK
  <2>. QED BY <1>5, <2>1, HandsKept, JobsKept DEF OpenTab, Seen
<1>6. ASSUME \/ \E p \in Phones : Snapshot(p)
             \/ \E r \in Requests : Close(r)
             \/ \E t \in Tabs : (\E s \in Sites : Navigate(t, s)) \/ HoldLapses(t)
      PROVE  UNCHANGED Seen
  <2>1. UNCHANGED <<jobs, pc, job, wrote>> BY <1>6 DEF Snapshot, Close, Navigate, HoldLapses
  <2>. QED BY <2>1, JobsKept, HandsKept DEF Seen
<1>. QED BY <1>1, <1>2, <1>3, <1>4, <1>5, <1>6 DEF PhoneNext, World

LEMMA TickImplements ==
    ASSUME RemoteApplyAssumption, TypeOK, NEW t \in Tabs, TickNext(t)
    PROVE  Promised!Next \/ UNCHANGED Seen
<1> USE DEF mailbox, kindoo, gate, tick, history
<1>1. CASE BeginPoll(t) \/ ReadRunning(t) \/ ReadRunningFails(t) \/ EndPoll(t) \/ TickBlind(t)
  <2>1. \A u \in Tabs : pc'[u] = "run" <=> pc[u] = "run"
    BY <1>1 DEF BeginPoll, ReadRunning, ReadRunningFails, EndPoll, TickBlind, Publish, EndTick, TypeOK
  <2>2. UNCHANGED <<jobs, job, wrote>>
    BY <1>1 DEF BeginPoll, ReadRunning, ReadRunningFails, EndPoll, TickBlind
  <2>. QED BY <2>1, <2>2, HandsKept, JobsKept DEF Seen
<1>2. ASSUME NEW j \in Jobs, Sweep(t, j) PROVE Promised!Next
  BY <1>2, OneStatus, HandsKept DEF Sweep
<1>3. ASSUME NEW j \in Jobs, Sift(t, j) PROVE Promised!Next \/ UNCHANGED Seen
  <2>1. UNCHANGED <<InHands, wrote>> BY <1>3, HandsKept DEF Sift
  <2>2. CASE UNCHANGED jobs BY <2>1, <2>2, JobsKept DEF Seen
  <2>3. CASE Status(j) = "queued" /\ Cancelled(j) BY <2>1, <2>3, OneStatus DEF Cancelled
  <2>. QED BY <1>3, <2>2, <2>3 DEF Sift
<1>4. ASSUME NEW j \in Jobs, Claim(t, j) PROVE Promised!Next \/ UNCHANGED Seen
  <2>1. UNCHANGED wrote /\ pc[t] = "claim" BY <1>4 DEF Claim
  <2>2. CASE Status(j) = "queued" /\ SetStatus(j, "running") /\ Start(t, j)
    <3>1. InHands' = [InHands EXCEPT ![t] = j] /\ InHands[t] = None
      BY <2>1, <2>2 DEF Start, InHands, TypeOK
    <3>2. Shown' = [Shown EXCEPT ![j] = "running"] /\ UNCHANGED Wanted
      BY <2>2, StatusShown DEF LiveStatuses
    <3>3. Shown[j] = "queued" BY <2>2 DEF Shown
    <3>4. Promised!Claim(t, j)
      BY <2>1, <3>1, <3>2, <3>3 DEF Promised!Claim, Promised!Take, Shown, Wanted, InHands
    <3>. QED BY <3>4 DEF Promised!Next
  <2>3. CASE EndTick(t) /\ UNCHANGED <<jobs, job>>
    <3>1. \A u \in Tabs : pc'[u] = "run" <=> pc[u] = "run" BY <2>1, <2>3 DEF EndTick, TypeOK
    <3>. QED BY <2>1, <2>3, <3>1, HandsKept, JobsKept DEF Seen
  <2>. QED BY <1>4, <2>2, <2>3 DEF Claim
<1>5. ASSUME NEW j \in Jobs, ClaimFails(t, j) PROVE Promised!Next \/ UNCHANGED Seen
  <2>1. \A u \in Tabs : pc'[u] = "run" <=> pc[u] = "run"
    BY <1>5 DEF ClaimFails, EndTick, TypeOK
  <2>2. UNCHANGED <<InHands, wrote>> BY <1>5, <2>1, HandsKept DEF ClaimFails
  <2>3. CASE UNCHANGED jobs BY <2>2, <2>3, JobsKept DEF Seen
  <2>4. CASE Status(j) = "queued" /\ SetStatus(j, "running") BY <2>2, <2>4, OneStatus
  <2>. QED BY <1>5, <2>3, <2>4 DEF ClaimFails
<1>. QED BY <1>1, <1>2, <1>3, <1>4, <1>5 DEF TickNext

\* A write in Kindoo is made for the job in the tab's hands, if it is a loop's.
LEMMA WriteImplements ==
    ASSUME RemoteApplyAssumption, TypeOK, Lock, NEW a \in Runners, run[a].step # "idle",
           UNCHANGED <<jobs, job, pc>>, Wrote(a) \/ UNCHANGED wrote
    PROVE  Promised!Next \/ UNCHANGED Seen
<1>1. UNCHANGED <<Shown, Wanted, InHands>> BY JobsKept, HandsKept
<1>2. CASE UNCHANGED wrote BY <1>1, <1>2 DEF Seen
<1>3. CASE Wrote(a) /\ a[2] = "loop"
  <2>1. a[1] \in Tabs /\ a = <<a[1], "loop">> BY <1>3 DEF Runners
  <2>2. pc[a[1]] = "run" /\ job[a[1]] \in Jobs BY <2>1 DEF Lock, RunHoldsItsJob
  <2>3. InHands[a[1]] = job[a[1]] /\ job[a[1]] # None
    BY <2>1, <2>2 DEF InHands, RemoteApplyAssumption
  <2>4. Promised!Work(a[1])
    BY <1>1, <1>3, <2>3 DEF Promised!Work, Wrote, InHands, Shown, Wanted
  <2>. QED BY <2>1, <2>4 DEF Promised!Next
<1>4. CASE Wrote(a) /\ a[2] # "loop" BY <1>1, <1>4 DEF Wrote, Seen
<1>. QED BY <1>2, <1>3, <1>4

LEMMA RunImplements ==
    ASSUME RemoteApplyAssumption, TypeOK, Lock, Vouched, NEW t \in Tabs, RunNext(t) \/ PanelNext(t)
    PROVE  Promised!Next \/ UNCHANGED Seen
<1> USE DEF mailbox, kindoo, gate, tick, history
<1>1. CASE \/ CheckPending(t)
           \/ \E a \in Runners : Lookup(a) \/ Mark(a)
           \/ (\E r \in Requests : Click(t, r)) \/ Refresh(t) \/ RetryMark(t)
  <2>1. UNCHANGED <<jobs, job, pc, wrote>>
    BY <1>1 DEF CheckPending, Lookup, Mark, Click, Refresh, RetryMark
  <2>. QED BY <2>1, JobsKept, HandsKept DEF Seen
<1>2. ASSUME NEW a \in Runners, Invite(a) \/ Rules(a) PROVE Promised!Next \/ UNCHANGED Seen
  <2>1. UNCHANGED <<jobs, job, pc>> /\ run[a].step # "idle" BY <1>2 DEF Invite, Rules
  <2>2. Wrote(a) \/ UNCHANGED wrote BY <1>2 DEF Invite, Rules
  <2>. QED BY <2>1, <2>2, WriteImplements
<1>3. CASE Finish(t)
  <2> DEFINE result == run[<<t, "loop">>].result
  <2>1. /\ run[<<t, "loop">>].step = "finish" /\ UNCHANGED wrote
        /\ pc' = [pc EXCEPT ![t] = "idle"] /\ job' = [job EXCEPT ![t] = None]
    BY <1>3 DEF Finish, EndTick
  <2>2. <<t, "loop">> \in Runners BY DEF Runners
  <2>3. pc[t] = "run" /\ job[t] \in Jobs
    BY <2>1, <2>2 DEF Lock, RunHoldsItsJob
  <2>4. result \in Outcomes BY <2>1, <2>2 DEF TypeOK, Run
  <2>5. InHands' = [InHands EXCEPT ![t] = None] /\ InHands[t] = job[t] /\ job[t] # None
    BY <2>1, <2>3 DEF InHands, TypeOK, RemoteApplyAssumption
  <2>6. CASE UNCHANGED jobs
    <3>1. Promised!Drop(t)
      BY <2>1, <2>5, <2>6, JobsKept DEF Promised!Drop, Promised!LetGo, InHands, Shown, Wanted
    <3>. QED BY <3>1 DEF Promised!Next
  <2>7. CASE Status(job[t]) = "running" /\ SetStatus(job[t], result)
    <3>1. Shown' = [Shown EXCEPT ![job[t]] = result] /\ UNCHANGED Wanted
      BY <2>3, <2>4, <2>7, StatusShown DEF TerminalStatuses
    <3>2. Shown[job[t]] = "running" BY <2>3, <2>7 DEF Shown
    <3>3. result \in {"applied", "partial"} => job[t] \in wrote
      BY <2>1 DEF Vouched, VouchedFor
    <3>4. Promised!Report(t, result)
      BY <2>1, <2>5, <3>1, <3>2, <3>3 DEF Promised!Report, Promised!LetGo, InHands, Shown, Wanted
    <3>. QED BY <2>4, <3>4 DEF Promised!Next, Outcomes
  <2>. QED BY <1>3, <2>6, <2>7 DEF Finish, Report
<1>. QED
  BY <1>1, <1>2, <1>3 DEF RunNext, PanelNext, Apply, Runners

\* The loop, with its polls, sweeps, faults, sites and closed tabs, implements
\* the mailbox's promise: a job is attempted at most once, by the tab that took
\* it, and its outcome comes from who did the work.
THEOREM LoopKeepsPromise == Spec => KeepsPromise
<1>1. Init => Promised!Init
  BY DEF Init, Promised!Init, Status, NoJob
<1>2. TypeOK /\ Lock /\ Vouched /\ [Next]_vars => [Promised!Next]_(Promised!jobVars)
  <2>1. ASSUME UNCHANGED vars PROVE UNCHANGED Promised!jobVars
    BY <2>1 DEF vars, mailbox, tick, history, Promised!jobVars, Status
  <2>2. ASSUME TypeOK, Lock, Vouched, Next PROVE Promised!Next \/ UNCHANGED Seen
    BY <2>2, RemoteApplyAssumption, WorldImplements, TickImplements, RunImplements DEF Next
  <2>3. UNCHANGED Seen => UNCHANGED Promised!jobVars
    BY DEF Seen, Shown, Wanted, InHands, Promised!jobVars
  <2>. QED BY <2>1, <2>2, <2>3
<1>. QED BY <1>1, <1>2, TypeCorrect, LockInvariant, VouchedInvariant, PTL
         DEF Spec, KeepsPromise, Promised!Spec

=============================================================================
