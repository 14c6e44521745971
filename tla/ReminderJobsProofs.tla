------------------------- MODULE ReminderJobsProofs -------------------------
(***************************************************************************)
(* Proofs about ReminderJobs, for any members, hours and tasks, and any    *)
(* number of bounded events.                                               *)
(*                                                                         *)
(* The inductive invariant is IInv:                                        *)
(*   JobsInv   every job is in order by itself (JobOK): one that waits has *)
(*             a run left, a run past is accounted for by a failure, a     *)
(*             stall or a retry, and what the gentle reminder added falls  *)
(*             due in the allowed hours until it is retried;               *)
(*   RunInv    the job of a run is an active cron job;                     *)
(*   DebtInv   what a run has done and still has to do covers those who    *)
(*             owed at all times of it;                                    *)
(*   Rest      the types of the other variables.                           *)
(* The lemmas about Queues say what one step may do to the jobs.           *)
(***************************************************************************)
EXTENDS ReminderJobs, SequenceTheorems, TLAPS

(***************************************************************************)
(* The inductive invariant.                                                *)
(***************************************************************************)
AnyJob == [type : EmailTypes \cup ReminderTasks, to : Members \cup {None},
           id : {"repeat", "manual", "added"}, state : JobStates, due : Nat,
           runs : Nat, made : Nat, stalls : 0..1, retries : Nat]
Tries(j) == IF j.type \in EmailTypes THEN 3 ELSE 1

\* The limit keeps itself: a job that waits has a run left, and every run but the last one
\* ended in a failure, in a stall, or was followed by a retry.
RunsOK(runs, made, stalls, retries, waiting, tries) ==
  /\ runs <= tries + retries + stalls
  /\ waiting => runs < tries + retries + stalls /\ runs <= made + stalls + retries
  /\ runs <= made + stalls + retries + 1

\* The job was retried at most n times.
JobOK(j, n) ==
  /\ j \in AnyJob /\ j.retries <= n
  /\ j.type \in EmailTypes => j.to \in Members
  /\ RunsOK(j.runs, j.made, j.stalls, j.retries, j.state = "waiting", Tries(j))
  /\ j.id = "added" /\ j.type # "obligationReminder" /\ j.made + j.retries = 0 => IsSendingAllowed(j.due)

AllOK(js, n) == js \in Seq(AnyJob) /\ \A i \in DOMAIN js : JobOK(js[i], n)
JobsInv == AllOK(jobs, events)

\* The job of a run is the active cron job.
RunInv ==
  /\ run \in [job : 0..Len(jobs), step : {"idle", "check", "remind"}, due : SUBSET Members, queued : SUBSET Members,
              unsent : SUBSET Members]
  /\ run.step = "idle" => run = Idle
  /\ run.step # "idle" => /\ run.job \in DOMAIN jobs /\ jobs[run.job].state = "active"
                          /\ jobs[run.job].type \notin EmailTypes

\* Of those who owed at all times of a run none was left out, and all it came to owed at
\* some time.
InDebtNow == {m \in Members : InDebt(m, contributed)}
DebtInv ==
  /\ debt \in [always : SUBSET Members, ever : SUBSET Members]
  /\ run.step # "idle" => debt.always \subseteq InDebtNow /\ InDebtNow \subseteq debt.ever
  /\ run.step = "check" => run.queued = {} /\ run.unsent = {}
  /\ run.step = "remind" => /\ debt.always \subseteq run.due \cup run.queued \cup run.unsent
                            /\ run.due \cup run.queued \cup run.unsent \subseteq debt.ever

Rest ==
  /\ clock \in Times /\ events \in 0..MaxEvents
  /\ endpoint \in (SUBSET Members) \cup {None}
  /\ mails \subseteq [job : 1..Len(jobs), to : Members]
  /\ contributed \in [Members -> 0..Obligation]
  /\ worker \in {"up", "down"}

(***************************************************************************)
(* Quiet hours.                                                            *)
(***************************************************************************)
\* getDelayUntilAllowed leads into the allowed hours from any hour of any day.
LEMMA DelayEndsAllowed ==
  ASSUME NEW t \in Nat
  PROVE  DelayUntilAllowed(t) \in Nat /\ IsSendingAllowed(t + DelayUntilAllowed(t))
<1>1. CASE IsSendingAllowed(t)
  BY <1>1 DEF DelayUntilAllowed
<1>2. CASE ~IsSendingAllowed(t)
  <2> DEFINE next == NextMorning(t)
             end == IF IsSunday(next) THEN next + 24 ELSE next
  <2>1. next \in Nat /\ next > t /\ Hour(next) = 9
    BY DEF NextMorning, Hour
  <2>2. end \in Nat /\ end > t /\ Hour(end) = 9 /\ ~IsSunday(end)
    <3> HIDE DEF next
    <3>1. CASE IsSunday(next)
      BY <2>1, <3>1 DEF IsSunday, Hour
    <3>2. CASE ~IsSunday(next)
      BY <2>1, <3>2
    <3> QED
      BY <3>1, <3>2
  <2>3. DelayUntilAllowed(t) = end - t
    BY <1>2 DEF DelayUntilAllowed
  <2>4. IsSendingAllowed(end)
    BY <2>2 DEF IsSendingAllowed, InQuietWindow
  <2> HIDE DEF end
  <2>5. t + (end - t) = end /\ end - t \in Nat
    BY <2>2
  <2> QED
    BY <2>3, <2>4, <2>5
<1> QED
  BY <1>1, <1>2

LEMMA DueAllowed == \A t \in Nat : \E due \in Nat : due = t + DelayUntilAllowed(t) /\ IsSendingAllowed(due)
<1> SUFFICES ASSUME NEW t \in Nat PROVE \E due \in Nat : due = t + DelayUntilAllowed(t) /\ IsSendingAllowed(due)
  OBVIOUS
<1> PICK d \in Nat : d = DelayUntilAllowed(t) /\ IsSendingAllowed(t + d)
  BY DelayEndsAllowed
<1> WITNESS t + d \in Nat
<1> QED
  OBVIOUS

(***************************************************************************)
(* One job.                                                                *)
(***************************************************************************)
LEMMA NewJob ==
  ASSUME NEW n \in Nat, NEW type \in EmailTypes \cup ReminderTasks, NEW to \in Members \cup {None},
         NEW id \in {"repeat", "manual", "added"}, NEW due \in Nat,
         type \in EmailTypes => to \in Members,
         id = "added" /\ type # "obligationReminder" => IsSendingAllowed(due)
  PROVE  JobOK(Job(type, to, id, due), n)
<1> DEFINE j == Job(type, to, id, due)
<1>1. j \in AnyJob
  BY DEF Job, AnyJob, JobStates
<1>2. /\ j.retries = 0 /\ j.made = 0 /\ j.runs = 0 /\ j.stalls = 0 /\ j.type = type /\ j.to = to /\ j.id = id /\ j.due = due
      /\ Tries(j) \in {1, 3}
  BY DEF Job, Tries
<1> HIDE DEF j
<1>3. JobOK(j, n)
  BY <1>1, <1>2 DEF JobOK, RunsOK
<1> QED
  BY <1>3 DEF j

\* A new state, other than to wait again.
LEMMA JobState ==
  ASSUME NEW n \in Nat, NEW j \in AnyJob, NEW k \in AnyJob, JobOK(j, n),
         k.type = j.type, k.to = j.to, k.id = j.id, k.due = j.due, k.runs = j.runs, k.made = j.made,
         k.stalls = j.stalls, k.retries = j.retries, k.state # "waiting"
  PROVE  JobOK(k, n)
<1>1. Tries(k) = Tries(j)
  BY DEF Tries
<1> QED
  BY <1>1 DEF JobOK, RunsOK

LEMMA WithStateOK ==
  ASSUME JobsInv, events \in Nat, NEW i \in DOMAIN jobs, NEW state \in JobStates, state # "waiting"
  PROVE  /\ JobOK(WithState(i, state), events) /\ WithState(i, state).state = state
         /\ WithState(i, state).type = jobs[i].type
<1>1. jobs[i] \in AnyJob /\ JobOK(jobs[i], events)
  BY DEF JobsInv, AllOK, JobOK
<1> PICK j \in AnyJob : j = jobs[i]
  BY <1>1
<1> DEFINE k == [j EXCEPT !.state = state]
<1>2. /\ k \in AnyJob /\ k.state = state /\ k.type = j.type /\ k.to = j.to /\ k.id = j.id /\ k.due = j.due
      /\ k.runs = j.runs /\ k.made = j.made /\ k.stalls = j.stalls /\ k.retries = j.retries
  BY DEF AnyJob
<1> HIDE DEF k
<1>3. JobOK(k, events)
  BY <1>1, <1>2, JobState
<1> QED
  BY <1>2, <1>3 DEF WithState, k

\* A job that is taken: it had a run left.
LEMMA TakenOK ==
  ASSUME JobsInv, events \in Nat, NEW i \in DOMAIN jobs, jobs[i].state = "waiting"
  PROVE  JobOK(Taken(i), events) /\ Taken(i).state = "active" /\ Taken(i).type = jobs[i].type
<1>1. jobs[i] \in AnyJob /\ JobOK(jobs[i], events)
  BY DEF JobsInv, AllOK, JobOK
<1> PICK j \in AnyJob : j = jobs[i]
  BY <1>1
<1> DEFINE k == [j EXCEPT !.state = "active", !.runs = @ + 1]
<1>9. j.runs \in Nat /\ j.runs + 1 \in Nat /\ "active" \in JobStates
  BY DEF AnyJob, JobStates
<1>2. /\ k \in AnyJob /\ k.state = "active" /\ k.type = j.type /\ k.to = j.to /\ k.id = j.id /\ k.due = j.due
      /\ k.runs = j.runs + 1 /\ k.made = j.made /\ k.stalls = j.stalls /\ k.retries = j.retries
  BY <1>9 DEF AnyJob
<1> HIDE DEF k
<1>3. Tries(k) = Tries(j) /\ Tries(j) \in {1, 3}
  BY <1>2 DEF Tries
<1>4. j.made \in Nat /\ j.stalls \in Nat /\ j.retries \in Nat
  BY DEF AnyJob
<1>5. RunsOK(j.runs, j.made, j.stalls, j.retries, TRUE, Tries(j))
  BY <1>1 DEF JobOK
<1>6. RunsOK(k.runs, k.made, k.stalls, k.retries, FALSE, Tries(k))
  BY <1>2, <1>3, <1>4, <1>5, <1>9 DEF RunsOK
<1>7. JobOK(k, events)
  BY <1>1, <1>2, <1>3, <1>6 DEF JobOK
<1> QED
  BY <1>2, <1>7 DEF Taken, k

\* The fields a failure or a retry may change.
LEMMA JobChange ==
  ASSUME NEW n \in Nat, NEW j \in AnyJob, NEW k \in AnyJob, JobOK(j, n), NEW m \in {n, n + 1},
         k.type = j.type, k.to = j.to, k.id = j.id, k.retries <= m,
         k.made + k.retries # 0,
         RunsOK(k.runs, k.made, k.stalls, k.retries, k.state = "waiting", Tries(j))
  PROVE  JobOK(k, m)
<1>1. Tries(k) = Tries(j)
  BY DEF Tries
<1> QED
  BY <1>1 DEF JobOK

LEMMA JobLater ==
  ASSUME NEW j, NEW n \in Nat, JobOK(j, n)
  PROVE  JobOK(j, n + 1)
BY DEF JobOK, AnyJob

LEMMA MoreEvents ==
  ASSUME NEW js, NEW n \in Nat, AllOK(js, n)
  PROVE  AllOK(js, n + 1)
BY JobLater DEF AllOK

(***************************************************************************)
(* The queues.                                                             *)
(***************************************************************************)
LEMMA AppendOK ==
  ASSUME NEW js, NEW n \in Nat, AllOK(js, n), NEW j, JobOK(j, n)
  PROVE  LET t == Append(js, j)
         IN AllOK(t, n) /\ Len(t) = Len(js) + 1 /\ DOMAIN js \subseteq DOMAIN t /\ \A k \in DOMAIN js : t[k] = js[k]
<1> DEFINE t == Append(js, j)
<1>0. js \in Seq(AnyJob) /\ j \in AnyJob /\ DOMAIN js = 1..Len(js) /\ Len(js) \in Nat
  BY DEF AllOK, JobOK
<1>1. /\ t \in Seq(AnyJob) /\ Len(t) = Len(js) + 1 /\ DOMAIN t = 1..(Len(js) + 1)
      /\ \A k \in DOMAIN js : t[k] = js[k]
      /\ t[Len(js) + 1] = j
  BY <1>0, AppendProperties
<1> HIDE DEF t
<1>2. ASSUME NEW k \in DOMAIN t PROVE JobOK(t[k], n)
  BY <1>0, <1>1, <1>2 DEF AllOK
<1>3. DOMAIN js \subseteq DOMAIN t
  BY <1>0, <1>1
<1> QED
  BY <1>1, <1>2, <1>3 DEF AllOK, t

\* The queues after a step that may only add jobs to js.
Added(js, t) == Len(js) <= Len(t) /\ DOMAIN js \subseteq DOMAIN t /\ \A k \in DOMAIN js : t[k] = js[k]

LEMMA RepeatOK ==
  ASSUME NEW js, NEW n \in Nat, AllOK(js, n), NEW task \in ReminderTasks, NEW t \in Nat
  PROVE  AllOK(Repeat(js, task, t), n) /\ Added(js, Repeat(js, task, t))
<1> DEFINE j == Job(task, None, "repeat", NextRun(task, t))
<1>0. Len(js) \in Nat
  BY DEF AllOK
<1>1. NextRun(task, t) \in Nat
  BY DEF NextRun, CronHour, Hour
<1>2. task \notin EmailTypes
  BY DEF ReminderTasks, EmailTypes
<1>3. JobOK(j, n)
  BY <1>1, <1>2, NewJob
<1>4. Repeat(js, task, t) \in {js, Append(js, j)}
  BY DEF Repeat
<1> HIDE DEF j
<1>5. AllOK(js, n) /\ Added(js, js)
  BY <1>0 DEF Added
<1>6. AllOK(Append(js, j), n) /\ Added(js, Append(js, j))
  BY <1>0, <1>3, AppendOK DEF Added
<1> QED
  BY <1>4, <1>5, <1>6

LEMMA RegisterOK ==
  ASSUME NEW js, NEW n \in Nat, AllOK(js, n), NEW t \in Nat
  PROVE  AllOK(RegisterCronJobs(js, t), n) /\ Added(js, RegisterCronJobs(js, t))
<1> DEFINE daily == IF "dailyObligationReminders" \in Tasks THEN Repeat(js, "dailyObligationReminders", t) ELSE js
<1>0. Len(js) \in Nat
  BY DEF AllOK
<1>1. AllOK(daily, n) /\ Added(js, daily)
  BY <1>0, RepeatOK DEF ReminderTasks, Added
<1>2. RegisterCronJobs(js, t) = IF "gentleObligationReminders" \in Tasks
                                THEN Repeat(daily, "gentleObligationReminders", t) ELSE daily
  BY DEF RegisterCronJobs
<1> HIDE DEF daily
<1>3. CASE RegisterCronJobs(js, t) = daily
  BY <1>1, <1>3
<1>4. CASE RegisterCronJobs(js, t) = Repeat(daily, "gentleObligationReminders", t)
  <2> PICK r : r = Repeat(daily, "gentleObligationReminders", t)
    OBVIOUS
  <2>0. AllOK(r, n) /\ Added(daily, r)
    BY <1>1, RepeatOK DEF ReminderTasks
  <2>1. Len(r) \in Nat /\ Len(daily) \in Nat
    BY <1>1, <2>0 DEF AllOK
  <2>2. Added(js, r)
    BY <1>0, <1>1, <2>0, <2>1 DEF Added
  <2> QED
    BY <1>4, <2>0, <2>2
<1> QED
  BY <1>2, <1>3, <1>4

(***************************************************************************)
(* What a step may do to the queues.                                       *)
(***************************************************************************)
Queues(js) ==
  /\ AllOK(js, events') /\ Len(jobs) <= Len(js) /\ DOMAIN jobs \subseteq DOMAIN js
  /\ \A i \in DOMAIN jobs :
       /\ js[i].type = jobs[i].type
       /\ jobs[i].state = "active" /\ jobs[i].type \notin EmailTypes => js[i].state = "active" \/ run' = Idle

LEMMA Kept ==
  ASSUME JobsInv, events \in Nat, events' \in {events, events + 1}
  PROVE  Queues(jobs) /\ AllOK(jobs, events') /\ events' \in Nat /\ Len(jobs) \in Nat
<1>1. AllOK(jobs, events) /\ AllOK(jobs, events + 1)
  BY MoreEvents DEF JobsInv
<1>2. AllOK(jobs, events') /\ events' \in Nat
  BY <1>1
<1>3. Len(jobs) \in Nat
  BY <1>1 DEF AllOK
<1> QED
  BY <1>2, <1>3 DEF Queues

\* It sets one job, which no run is at, or ends the run.
LEMMA SetStep ==
  ASSUME JobsInv, events \in Nat, events' \in {events, events + 1}, NEW i \in DOMAIN jobs, NEW j, JobOK(j, events'),
         j.type = jobs[i].type,
         run' = Idle \/ jobs[i].type \in EmailTypes \/ jobs[i].state # "active" \/ j.state = "active"
  PROVE  Queues(Set(i, j)) /\ Set(i, j)[i] = j /\ DOMAIN Set(i, j) = DOMAIN jobs
<1>1. AllOK(jobs, events') /\ events' \in Nat /\ Len(jobs) \in Nat
  BY Kept
<1> PICK t : t = [jobs EXCEPT ![i] = j]
  OBVIOUS
<1>0. jobs \in Seq(AnyJob) /\ j \in AnyJob /\ DOMAIN jobs = 1..Len(jobs)
  BY <1>1 DEF AllOK, JobOK
<1>2. /\ t \in Seq(AnyJob) /\ Len(t) = Len(jobs) /\ DOMAIN t = DOMAIN jobs
      /\ t[i] = j /\ \A k \in DOMAIN jobs \ {i} : t[k] = jobs[k]
  BY <1>0
<1>4. AllOK(t, events')
  BY <1>1, <1>2 DEF AllOK
<1>3. Queues(t)
  BY <1>1, <1>2, <1>4 DEF Queues
<1> QED
  BY <1>2, <1>3 DEF Set

\* It adds jobs.
LEMMA AddStep ==
  ASSUME NEW js, Queues(js), NEW t, AllOK(t, events'), Added(js, t)
  PROVE  Queues(t)
<1>1. Len(jobs) <= Len(js) /\ Len(js) <= Len(t) => Len(jobs) <= Len(t)
  <2>1. ASSUME NEW n \in Nat, NEW m \in Nat, NEW l \in Nat, n <= m, m <= l PROVE n <= l
    BY <2>1
  <2> QED
    BY <2>1
<1> QED
  BY DEF Queues, Added, AllOK

LEMMA AppendStep ==
  ASSUME NEW js, Queues(js), events' \in Nat, NEW j, JobOK(j, events')
  PROVE  Queues(Append(js, j))
<1>1. AllOK(js, events') /\ Len(js) \in Nat
  BY DEF Queues, AllOK
<1> PICK t : t = Append(js, j)
  OBVIOUS
<1>2. AllOK(t, events') /\ Len(t) = Len(js) + 1 /\ DOMAIN js \subseteq DOMAIN t /\ \A k \in DOMAIN js : t[k] = js[k]
  BY <1>1, AppendOK
<1>3. Added(js, t)
  BY <1>1, <1>2 DEF Added
<1> QED
  BY <1>2, <1>3, AddStep

LEMMA FailureOK ==
  ASSUME JobsInv, events \in Nat, clock \in Nat, NEW i \in DOMAIN jobs, jobs[i].state # "waiting",
         NEW n \in {events, events + 1}
  PROVE  JobOK(AfterFailure(i), n) /\ AfterFailure(i).type = jobs[i].type
<1>1. jobs[i] \in AnyJob /\ JobOK(jobs[i], events)
  BY DEF JobsInv, AllOK, JobOK
<1> PICK j \in AnyJob : j = jobs[i]
  BY <1>1
<1> PICK state \in {"waiting", "failed"} : /\ state = IF j.made + 1 < MaxAttempts(i) THEN "waiting" ELSE "failed"
  OBVIOUS
<1> DEFINE k == [j EXCEPT !.state = state, !.due = clock, !.made = j.made + 1]
<1>9. j.made \in Nat /\ j.made + 1 \in Nat /\ state \in JobStates
  BY DEF AnyJob, JobStates
<1>2. /\ k \in AnyJob /\ k.state = state /\ k.type = j.type /\ k.to = j.to /\ k.id = j.id
      /\ k.runs = j.runs /\ k.made = j.made + 1 /\ k.stalls = j.stalls /\ k.retries = j.retries
  BY <1>9 DEF AnyJob
<1>3. AfterFailure(i) = k
  BY DEF AfterFailure, Retried
<1> HIDE DEF k
<1>4. Tries(j) = MaxAttempts(i) /\ Tries(j) \in {1, 3}
  BY DEF Tries, MaxAttempts, IsEmail
<1>5. /\ j.runs \in Nat /\ j.stalls \in Nat /\ j.retries \in Nat /\ j.retries <= events
      /\ RunsOK(j.runs, j.made, j.stalls, j.retries, FALSE, Tries(j))
  BY <1>1 DEF JobOK, AnyJob, RunsOK
<1>6. state = "waiting" => j.made + 1 < Tries(j)
  BY <1>4
<1>7. RunsOK(j.runs, j.made + 1, j.stalls, j.retries, state = "waiting", Tries(j))
  BY <1>4, <1>5, <1>6, <1>9 DEF RunsOK
<1>8. j.retries <= n /\ j.made + 1 + j.retries # 0
  BY <1>5, <1>9
<1>10. RunsOK(k.runs, k.made, k.stalls, k.retries, k.state = "waiting", Tries(j))
  BY <1>2, <1>7
<1>11. k.type = j.type /\ k.to = j.to /\ k.id = j.id /\ k.retries <= n /\ k.made + k.retries # 0
  BY <1>2, <1>8
<1>12. JobOK(k, n)
  BY <1>1, <1>2, <1>10, <1>11, JobChange
<1> QED
  BY <1>2, <1>3, <1>12

LEMMA RetryOK ==
  ASSUME JobsInv, events \in Nat, clock \in Nat, NEW i \in DOMAIN jobs
  PROVE  LET k == [jobs[i] EXCEPT !.state = "waiting", !.due = clock, !.retries = @ + 1]
         IN JobOK(k, events + 1) /\ k.type = jobs[i].type
<1>1. jobs[i] \in AnyJob /\ JobOK(jobs[i], events)
  BY DEF JobsInv, AllOK, JobOK
<1> PICK j \in AnyJob : j = jobs[i]
  BY <1>1
<1> DEFINE k == [j EXCEPT !.state = "waiting", !.due = clock, !.retries = @ + 1]
<1>9. j.retries \in Nat /\ j.retries + 1 \in Nat /\ "waiting" \in JobStates
  BY DEF AnyJob, JobStates
<1>2. /\ k \in AnyJob /\ k.state = "waiting" /\ k.type = j.type /\ k.to = j.to /\ k.id = j.id
      /\ k.runs = j.runs /\ k.made = j.made /\ k.stalls = j.stalls /\ k.retries = j.retries + 1
  BY <1>9 DEF AnyJob
<1> HIDE DEF k
<1>4. Tries(j) \in {1, 3}
  BY DEF Tries
<1>5. /\ j.runs \in Nat /\ j.made \in Nat /\ j.stalls \in Nat /\ j.retries <= events
      /\ RunsOK(j.runs, j.made, j.stalls, j.retries, FALSE, Tries(j))
  BY <1>1 DEF JobOK, AnyJob, RunsOK
<1>6. RunsOK(j.runs, j.made, j.stalls, j.retries + 1, TRUE, Tries(j))
  BY <1>4, <1>5, <1>9 DEF RunsOK
<1>8. j.retries + 1 <= events + 1 /\ j.made + (j.retries + 1) # 0
  BY <1>5, <1>9
<1>7. JobOK(k, events + 1) /\ k.type = j.type
  BY <1>1, <1>2, <1>6, <1>8, JobChange
<1> QED
  BY <1>7 DEF k

LEMMA StallOK ==
  ASSUME JobsInv, events \in Nat, NEW i \in DOMAIN jobs, jobs[i].state = "stalled"
  PROVE  JobOK(AfterStall(i), events) /\ AfterStall(i).type = jobs[i].type
<1>1. jobs[i] \in AnyJob /\ JobOK(jobs[i], events)
  BY DEF JobsInv, AllOK, JobOK
<1>2. CASE jobs[i].stalls # 0
  BY <1>2, WithStateOK DEF AfterStall, JobStates
<1>3. CASE jobs[i].stalls = 0
  <2> PICK j \in AnyJob : j = jobs[i]
    BY <1>1
  <2> DEFINE k == [j EXCEPT !.state = "waiting", !.stalls = 1]
  <2>1. /\ k \in AnyJob /\ k.state = "waiting" /\ k.type = j.type /\ k.to = j.to /\ k.id = j.id /\ k.due = j.due
        /\ k.runs = j.runs /\ k.made = j.made /\ k.stalls = 1 /\ k.retries = j.retries
    <3>1. "waiting" \in JobStates /\ 1 \in 0..1
      BY DEF JobStates
    <3> QED
      BY <3>1 DEF AnyJob
  <2>2. AfterStall(i) = k
    BY <1>3 DEF AfterStall
  <2> HIDE DEF k
  <2>3. Tries(k) = Tries(j) /\ Tries(j) \in {1, 3} /\ j.runs \in Nat /\ j.made \in Nat /\ j.retries \in Nat
    BY <2>1 DEF Tries, AnyJob
  <2>4. RunsOK(j.runs, j.made, 0, j.retries, FALSE, Tries(j))
    BY <1>1, <1>3 DEF JobOK
  <2>5. RunsOK(j.runs, j.made, 1, j.retries, TRUE, Tries(j))
    BY <2>3, <2>4 DEF RunsOK
  <2>6. JobOK(k, events)
    BY <1>1, <2>1, <2>3, <2>5 DEF JobOK
  <2> QED
    BY <2>1, <2>2, <2>6
<1> QED
  BY <1>2, <1>3

\* A job is taken.
LEMMA TakeStep ==
  ASSUME JobsInv, events \in Nat, UNCHANGED events, NEW i \in DOMAIN jobs, jobs[i].state = "waiting"
  PROVE  LET js == Set(i, Taken(i))
         IN Queues(js) /\ js[i].state = "active" /\ js[i].type = jobs[i].type /\ DOMAIN js = DOMAIN jobs
<1> PICK j : j = Taken(i)
  OBVIOUS
<1>1. JobOK(j, events') /\ j.state = "active" /\ j.type = jobs[i].type
  BY TakenOK
<1>2. Queues(Set(i, j)) /\ Set(i, j)[i] = j /\ DOMAIN Set(i, j) = DOMAIN jobs
  BY <1>1, SetStep
<1> QED
  BY <1>1, <1>2

\* A step changes the state of a job.
LEMMA StateStep ==
  ASSUME JobsInv, events \in Nat, UNCHANGED events, NEW i \in DOMAIN jobs, NEW state \in JobStates, state # "waiting",
         run' = Idle \/ jobs[i].type \in EmailTypes \/ jobs[i].state # "active" \/ state = "active"
  PROVE  LET js == Set(i, WithState(i, state))
         IN Queues(js) /\ js[i].state = state /\ js[i].type = jobs[i].type /\ DOMAIN js = DOMAIN jobs
<1> PICK j : j = WithState(i, state)
  OBVIOUS
<1>1. JobOK(j, events') /\ j.state = state /\ j.type = jobs[i].type
  BY WithStateOK
<1>2. Queues(Set(i, j)) /\ Set(i, j)[i] = j /\ DOMAIN Set(i, j) = DOMAIN jobs
  BY <1>1, SetStep
<1> QED
  BY <1>1, <1>2

LEMMA QueuesStep == JobsInv /\ RunInv /\ Rest /\ [Next]_vars => Queues(jobs')
<1> SUFFICES ASSUME JobsInv, RunInv, Rest, [Next]_vars PROVE Queues(jobs')
  OBVIOUS
<1>0. /\ events \in Nat /\ clock \in Nat /\ None \notin Members /\ jobs \in Seq(AnyJob)
      /\ \A i \in DOMAIN jobs : JobOK(jobs[i], events) /\ jobs[i] \in AnyJob
  BY ConstantsAssumption DEF JobsInv, AllOK, Rest, JobOK
<1>e. /\ UNCHANGED events => events' \in {events, events + 1}
      /\ Event => events' = events + 1 /\ events' \in {events, events + 1}
  BY DEF Event
<1>k. ASSUME events' \in {events, events + 1} PROVE Queues(jobs) /\ events' \in Nat
  BY <1>0, <1>k, Kept
<1>1. ASSUME UNCHANGED jobs, UNCHANGED events \/ Event PROVE Queues(jobs')
  BY <1>1, <1>e, <1>k
<1>2. ASSUME QueueObligationReminder PROVE Queues(jobs')
  <2>1. CASE UNCHANGED jobs
    BY <1>1, <1>2, <2>1 DEF QueueObligationReminder
  <2>2. CASE ~UNCHANGED jobs
    <3>0. endpoint \subseteq Members
      <4>1. endpoint # None
        BY <1>2 DEF QueueObligationReminder
      <4>2. endpoint \in (SUBSET Members) \cup {None}
        BY DEF Rest
      <4> QED
        BY <4>1, <4>2
    <3> PICK m \in endpoint : jobs' = Append(jobs, Job("obligationReminder", m, "added", clock))
      BY <1>2, <2>2 DEF QueueObligationReminder
    <3> PICK j : j = Job("obligationReminder", m, "added", clock)
      OBVIOUS
    <3>1. UNCHANGED events /\ events' \in Nat /\ Queues(jobs)
      BY <1>2, <1>e, <1>k DEF QueueObligationReminder
    <3>2. JobOK(j, events')
      BY <1>0, <3>0, <3>1, NewJob DEF EmailTypes
    <3> QED
      BY <3>1, <3>2, AppendStep
  <2> QED
    BY <2>1, <2>2
<1>3. ASSUME NEW task \in Tasks, TriggerCronTask(task) PROVE Queues(jobs')
  <2> PICK j : j = Job(task, None, "manual", clock)
    OBVIOUS
  <2>1. events' \in Nat /\ Queues(jobs) /\ jobs' = Append(jobs, j)
    BY <1>3, <1>e, <1>k DEF TriggerCronTask
  <2>2. task \in ReminderTasks /\ task \notin EmailTypes
    BY ConstantsAssumption DEF ReminderTasks, EmailTypes
  <2>3. JobOK(j, events')
    BY <1>0, <2>1, <2>2, NewJob
  <2> QED
    BY <2>1, <2>3, AppendStep
<1>4. ASSUME NEW i \in DOMAIN jobs, RetryJob(i) PROVE Queues(jobs')
  <2> PICK j : j = [jobs[i] EXCEPT !.state = "waiting", !.due = clock, !.retries = @ + 1]
    OBVIOUS
  <2>1. JobOK(j, events + 1) /\ j.type = jobs[i].type
    BY <1>0, RetryOK
  <2>2. jobs' = Set(i, j) /\ events' = events + 1 /\ jobs[i].state # "active"
    BY <1>4, <1>e DEF RetryJob
  <2> QED
    BY <1>0, <2>1, <2>2, SetStep
<1>5. ASSUME NEW i \in DOMAIN jobs, RemoveJob(i) PROVE Queues(jobs')
  <2>1. Event /\ jobs[i].state # "active" /\ jobs' = Set(i, WithState(i, "removed"))
    BY <1>5 DEF RemoveJob
  <2> PICK j : j = WithState(i, "removed")
    OBVIOUS
  <2>2. JobOK(j, events) /\ j.type = jobs[i].type
    BY <1>0, WithStateOK DEF JobStates
  <2>3. JobOK(j, events')
    BY <1>0, <1>e, <2>1, <2>2, JobLater
  <2> QED
    BY <1>0, <1>e, <2>1, <2>2, <2>3, SetStep
<1>6. ASSUME StartWorker PROVE Queues(jobs')
  <2>1. UNCHANGED events /\ jobs' = RegisterCronJobs(jobs, clock)
    BY <1>6 DEF StartWorker
  <2>2. AllOK(jobs', events') /\ Added(jobs, jobs') /\ Queues(jobs)
    BY <1>0, <1>e, <1>k, <2>1, RegisterOK DEF JobsInv
  <2> QED
    BY <2>2, AddStep
<1>7. ASSUME Crash PROVE Queues(jobs')
  <2>1. /\ Event /\ run' = Idle
        /\ jobs' = [i \in DOMAIN jobs |-> IF jobs[i].state \in Active THEN WithState(i, "stalled") ELSE jobs[i]]
    BY <1>7 DEF Crash
  <2>2. \A i \in DOMAIN jobs : JobOK(jobs'[i], events) /\ jobs'[i].type = jobs[i].type
    <3> SUFFICES ASSUME NEW i \in DOMAIN jobs PROVE JobOK(jobs'[i], events) /\ jobs'[i].type = jobs[i].type
      OBVIOUS
    <3>1. CASE jobs[i].state \in Active
      <4>1. jobs'[i] = WithState(i, "stalled")
        BY <2>1, <3>1
      <4> QED
        BY <1>0, <3>1, <4>1, WithStateOK DEF JobStates
    <3>2. CASE jobs[i].state \notin Active
      <4>1. jobs'[i] = jobs[i]
        BY <2>1, <3>2
      <4> QED
        BY <1>0, <4>1
    <3> QED
      BY <3>1, <3>2
  <2>3. \A i \in DOMAIN jobs : JobOK(jobs'[i], events') /\ jobs'[i] \in AnyJob
    <3> SUFFICES ASSUME NEW i \in DOMAIN jobs PROVE JobOK(jobs'[i], events') /\ jobs'[i] \in AnyJob
      OBVIOUS
    <3> PICK j : j = jobs'[i] /\ JobOK(j, events)
      BY <2>2
    <3>1. JobOK(j, events')
      BY <1>0, <1>e, <2>1, JobLater
    <3> QED
      BY <3>1 DEF JobOK
  <2>4. jobs' \in Seq(AnyJob) /\ Len(jobs') = Len(jobs) /\ DOMAIN jobs' = DOMAIN jobs /\ Len(jobs) \in Nat
    <3>1. DOMAIN jobs' = DOMAIN jobs /\ DOMAIN jobs = 1..Len(jobs) /\ Len(jobs) \in Nat
      BY <1>0, <2>1
    <3>2. jobs' \in [1..Len(jobs) -> AnyJob]
      BY <2>1, <2>3, <3>1
    <3> QED
      BY <3>1, <3>2
  <2> QED
    BY <2>1, <2>2, <2>3, <2>4 DEF Queues, AllOK
<1>8. ASSUME NEW i \in DOMAIN jobs, RecoverStalled(i) PROVE Queues(jobs')
  <2> PICK j : j = AfterStall(i)
    OBVIOUS
  <2>1. jobs' = Set(i, j) /\ UNCHANGED events /\ jobs[i].state = "stalled"
    BY <1>8 DEF RecoverStalled
  <2>2. JobOK(j, events') /\ j.type = jobs[i].type
    BY <1>0, <2>1, StallOK
  <2> QED
    BY <1>0, <2>1, <2>2, SetStep
<1>9. ASSUME NEW i \in DOMAIN jobs, EmailStep(i) PROVE Queues(jobs')
  <2>0. jobs[i].type \in EmailTypes
    BY <1>9 DEF EmailStep, TakeEmail, SendEmail, FailEmail, CompleteEmail, IsEmail
  <2>1. CASE FailEmail(i)
    <3>1. jobs' = Set(i, AfterFailure(i)) /\ events' \in {events, events + 1} /\ jobs[i].state # "waiting"
      BY <1>e, <2>1 DEF FailEmail, Active
    <3> PICK j : j = AfterFailure(i)
      OBVIOUS
    <3>2. JobOK(j, events') /\ j.type = jobs[i].type
      BY <1>0, <3>1, FailureOK
    <3> QED
      BY <1>0, <2>0, <3>1, <3>2, SetStep
  <2>2. CASE SendEmail(i) \/ CompleteEmail(i)
    <3> PICK state \in {"sent", "completed"} : jobs' = Set(i, WithState(i, state))
      BY <2>2 DEF SendEmail, CompleteEmail
    <3>1. UNCHANGED events
      BY <2>2 DEF SendEmail, CompleteEmail
    <3> QED
      BY <1>0, <2>0, <3>1, StateStep DEF JobStates
  <2>3. CASE TakeEmail(i)
    BY <1>0, <2>3, TakeStep DEF TakeEmail, Ready, IsDue
  <2> QED
    BY <1>9, <2>1, <2>2, <2>3 DEF EmailStep
<1>10. ASSUME NEW i \in DOMAIN jobs, TakeCron(i) PROVE Queues(jobs')
  <2> PICK js : js = Set(i, Taken(i))
    OBVIOUS
  <2>1. UNCHANGED events /\ jobs[i].state = "waiting" /\ jobs[i].type \notin EmailTypes
    BY <1>10 DEF TakeCron, Ready, IsDue, IsEmail
  <2>2. Queues(js)
    BY <1>0, <2>1, TakeStep
  <2>3. \/ jobs' = js
        \/ jobs' = Repeat(js, jobs[i].type, clock)
    BY <1>10 DEF TakeCron
  <2>4. CASE jobs' = Repeat(js, jobs[i].type, clock)
    <3>1. jobs[i].type \in ReminderTasks
      BY <1>0, <2>1 DEF AnyJob
    <3>2. AllOK(jobs', events') /\ Added(js, jobs')
      BY <1>0, <2>1, <2>2, <2>4, <3>1, RepeatOK DEF Queues
    <3> QED
      BY <2>2, <3>2, AddStep
  <2> QED
    BY <2>2, <2>3, <2>4
\* The job of a run.
<1>r. ASSUME run.step # "idle"
      PROVE  run.job \in DOMAIN jobs /\ jobs[run.job].state = "active" /\ jobs[run.job].type \notin EmailTypes
  BY <1>r DEF RunInv
<1>11. ASSUME Postpone \/ EndRun PROVE Queues(jobs')
  <2> PICK js : js = Set(run.job, WithState(run.job, "completed"))
    OBVIOUS
  <2>1. UNCHANGED events /\ run.step # "idle" /\ run' = Idle
    BY <1>11 DEF Postpone, EndRun
  <2>2. Queues(js) /\ events' \in Nat
    BY <1>0, <1>r, <2>1, StateStep DEF JobStates
  <2>3. CASE Postpone
    <3> PICK due \in Nat : due = clock + DelayUntilAllowed(clock) /\ IsSendingAllowed(due)
      BY <1>0, DueAllowed
    <3> PICK j : j = Job("gentleObligationReminders", None, "added", due)
      OBVIOUS
    <3>2. JobOK(j, events')
      BY <2>2, NewJob DEF EmailTypes, ReminderTasks
    <3>3. jobs' = Append(js, j)
      BY <2>3 DEF Postpone
    <3> QED
      BY <2>2, <3>2, <3>3, AppendStep
  <2>4. CASE EndRun
    BY <2>2, <2>4 DEF EndRun
  <2> QED
    BY <1>11, <2>3, <2>4
<1>12. ASSUME NEW m \in Members, QueueGentleReminder(m) PROVE Queues(jobs')
  <2> PICK due \in Nat : due = clock + DelayUntilAllowed(clock) /\ IsSendingAllowed(due)
    BY <1>0, DueAllowed
  <2> PICK j : j = Job("gentlePaymentReminder", m, "added", due)
    OBVIOUS
  <2>2. UNCHANGED events /\ jobs' = Append(jobs, j)
    BY <1>12 DEF QueueGentleReminder
  <2>3. JobOK(j, events') /\ events' \in Nat /\ Queues(jobs)
    BY <1>0, <1>e, <1>k, <2>2, NewJob DEF EmailTypes
  <2> QED
    BY <2>2, <2>3, AppendStep
<1>13. ASSUME FailRun PROVE Queues(jobs')
  <2>1. run.step # "idle" /\ Event /\ run' = Idle /\ jobs' = Set(run.job, AfterFailure(run.job))
    BY <1>13 DEF FailRun
  <2> PICK i \in DOMAIN jobs : i = run.job
    BY <1>r, <2>1
  <2> PICK j : j = AfterFailure(i)
    OBVIOUS
  <2>2. JobOK(j, events + 1) /\ j.type = jobs[i].type
    BY <1>0, <1>r, <2>1, FailureOK
  <2> QED
    BY <1>0, <1>e, <2>1, <2>2, SetStep
<1>14. CASE Next
  <2>1. \/ Tick \/ RequestReminders \/ ListDebtors \/ (\E m \in Members, n \in {-1, 1} : Pay(m, n))
        \/ (\E m \in Members : SendDailyReminder(m))
        => UNCHANGED jobs /\ (UNCHANGED events \/ Event)
    BY DEF Tick, RequestReminders, ListDebtors, Pay, SendDailyReminder
  <2> QED
    BY <1>14, <2>1, <1>1, <1>2, <1>3, <1>4, <1>5, <1>6, <1>7, <1>8, <1>9, <1>10, <1>11, <1>12, <1>13
       DEF Next, RunStep, JobStep
<1>15. CASE UNCHANGED vars
  BY <1>1, <1>15 DEF vars
<1> QED
  BY <1>14, <1>15

(***************************************************************************)
(* Runs.                                                                   *)
(***************************************************************************)
AnyRun(n) == [job : 0..n, step : {"idle", "check", "remind"}, due : SUBSET Members, queued : SUBSET Members,
              unsent : SUBSET Members]

LEMMA IdleRun == \A n \in Nat : Idle \in AnyRun(n) /\ Idle.step = "idle"
BY DEF Idle, AnyRun

LEMMA RunStays ==
  JobsInv /\ RunInv /\ Rest /\ [Next]_vars => RunInv'
<1> SUFFICES ASSUME JobsInv, RunInv, Rest, [Next]_vars PROVE RunInv'
  OBVIOUS
<1>0. Queues(jobs')
  BY QueuesStep
<1> PICK n \in Nat, m \in Nat : n = Len(jobs) /\ m = Len(jobs') /\ n <= m
  BY <1>0 DEF Queues, JobsInv, AllOK
<1>1. /\ run \in AnyRun(n) /\ (run.step = "idle" => run = Idle)
      /\ run.step # "idle" => /\ run.job \in DOMAIN jobs /\ jobs[run.job].state = "active"
                              /\ jobs[run.job].type \notin EmailTypes
  BY DEF RunInv, AnyRun
<1>2. run \in AnyRun(m)
  BY <1>1 DEF AnyRun
<1>3. CASE run' = Idle
  <2>1. Idle \in AnyRun(m) /\ Idle.step = "idle"
    BY IdleRun
  <2> QED
    BY <1>3, <2>1 DEF RunInv, AnyRun
\* A run goes on with its job.
<1>4. ASSUME run'.job = run.job, run.step # "idle", run'.step # "idle", run' \in AnyRun(m) PROVE RunInv'
  <2> PICK i \in DOMAIN jobs : i = run.job
    BY <1>1, <1>4
  <2>1. run' # Idle
    BY <1>4, IdleRun
  <2>2. i \in DOMAIN jobs' /\ jobs'[i].state = "active" /\ jobs'[i].type \notin EmailTypes
    BY <1>0, <1>1, <1>4, <2>1 DEF Queues
  <2> QED
    BY <1>4, <2>2 DEF RunInv, AnyRun
<1>5. CASE UNCHANGED run
  <2>1. CASE run.step = "idle"
    BY <1>1, <1>3, <1>5, <2>1
  <2>2. CASE run.step # "idle"
    BY <1>2, <1>4, <1>5, <2>2
  <2> QED
    BY <2>1, <2>2
<1>6. ASSUME NEW i \in DOMAIN jobs, TakeCron(i) PROVE RunInv'
  <2>1. /\ jobs[i].state = "waiting" /\ jobs[i].type \notin EmailTypes
        /\ UNCHANGED events /\ jobs \in Seq(AnyJob) /\ events \in Nat
        /\ clock \in Nat /\ jobs[i].type \in ReminderTasks
    BY <1>6, ConstantsAssumption DEF TakeCron, Ready, IsDue, IsEmail, JobsInv, AllOK, JobOK, AnyJob, Rest
  <2> PICK js : js = Set(i, Taken(i))
    OBVIOUS
  <2>2. Queues(js) /\ js[i].state = "active" /\ js[i].type = jobs[i].type /\ DOMAIN js = DOMAIN jobs
    BY <2>1, TakeStep
  <2>3. jobs' = js \/ jobs' = Repeat(js, jobs[i].type, clock)
    BY <1>6 DEF TakeCron
  <2>4. jobs' = js \/ Added(js, jobs')
    BY <2>1, <2>2, <2>3, RepeatOK DEF Queues
  <2>5. i \in DOMAIN jobs' /\ jobs'[i].state = "active" /\ jobs'[i].type \notin EmailTypes
    BY <2>1, <2>2, <2>4 DEF Added
  <2>6. i \in 0..m
    <3>1. i \in 1..n
      BY <2>1
    <3> QED
      BY <3>1
  <2>7. run' = [job |-> i, step |-> "check", due |-> {}, queued |-> {}, unsent |-> {}]
    BY <1>6 DEF TakeCron
  <2> QED
    BY <2>5, <2>6, <2>7 DEF RunInv
<1>7. CASE ListDebtors
  <2>1. run.step = "check" /\ run' = [run EXCEPT !.step = "remind", !.due = {x \in Members : Owes(x)}]
    BY <1>7 DEF ListDebtors
  <2>2. run' \in AnyRun(m) /\ run'.job = run.job /\ run'.step = "remind"
    BY <1>2, <2>1 DEF AnyRun
  <2> QED
    BY <1>4, <2>1, <2>2
<1>8. ASSUME NEW x \in Members, QueueGentleReminder(x) \/ SendDailyReminder(x) PROVE RunInv'
  <2>1. run.step = "remind" /\ run' \in {RemindedOf(x), Unsent(x)}
    BY <1>8 DEF QueueGentleReminder, SendDailyReminder
  <2>3. RemindedOf(x) \in AnyRun(m) /\ RemindedOf(x).job = run.job /\ RemindedOf(x).step = run.step
    BY <1>2 DEF AnyRun, RemindedOf
  <2>4. Unsent(x) \in AnyRun(m) /\ Unsent(x).job = run.job /\ Unsent(x).step = run.step
    BY <1>2 DEF AnyRun, Unsent
  <2>2. run' \in AnyRun(m) /\ run'.job = run.job /\ run'.step = "remind"
    BY <2>1, <2>3, <2>4
  <2> QED
    BY <1>4, <2>1, <2>2
<1>9. CASE Next
  <2>1. \/ UNCHANGED run \/ run' = Idle \/ ListDebtors
        \/ \E i \in DOMAIN jobs : TakeCron(i)
        \/ \E x \in Members : QueueGentleReminder(x) \/ SendDailyReminder(x)
    BY <1>9 DEF Next, RunStep, JobStep, EmailStep, Tick, RequestReminders, QueueObligationReminder, StartWorker, Crash,
                Postpone, EndRun, FailRun, Pay, TriggerCronTask, RetryJob, RemoveJob, SendEmail, FailEmail,
                CompleteEmail, TakeEmail, RecoverStalled
  <2> QED
    BY <1>3, <1>5, <1>6, <1>7, <1>8, <2>1
<1>10. CASE UNCHANGED vars
  BY <1>5, <1>10 DEF vars
<1> QED
  BY <1>9, <1>10

(***************************************************************************)
(* The debts of a run.                                                     *)
(***************************************************************************)
LEMMA DebtStays ==
  RunInv /\ DebtInv /\ Rest /\ [Next]_vars => DebtInv'
<1> SUFFICES ASSUME RunInv, DebtInv, Rest, [Next]_vars PROVE DebtInv'
  OBVIOUS
<1>0. /\ debt.always \subseteq Members /\ debt.ever \subseteq Members
      /\ debt \in [always : SUBSET Members, ever : SUBSET Members]
      /\ contributed \in [Members -> 0..Obligation] /\ Obligation \in Nat
      /\ run.step = "idle" => run = Idle
      /\ run.due \subseteq Members /\ run.queued \subseteq Members
  BY ConstantsAssumption DEF DebtInv, Rest, RunInv
<1>1. ASSUME run' = Idle, debt' = NoDebt PROVE DebtInv'
  BY <1>1, IdleRun DEF DebtInv, NoDebt, Idle
<1>2. ASSUME UNCHANGED <<run, debt, contributed>> PROVE DebtInv'
  BY <1>2 DEF DebtInv, InDebtNow, InDebt
<1>3. ASSUME NEW m \in Members, NEW n \in {-1, 1}, Pay(m, n) PROVE DebtInv'
  <2>1. UNCHANGED run /\ contributed' = [contributed EXCEPT ![m] = @ + n]
    BY <1>3 DEF Pay
  <2>2. CASE run = Idle
    <3>1. UNCHANGED debt /\ run'.step = "idle"
      BY <1>3, <2>1, <2>2, IdleRun DEF Pay
    <3> QED
      BY <1>0, <3>1 DEF DebtInv
  <2>3. CASE run # Idle
    <3>1. \A x \in Members \ {m} : InDebt(x, contributed') = InDebt(x, contributed)
      BY <1>0, <2>1 DEF InDebt
    <3>2. run.step # "idle" /\ debt.always \subseteq InDebtNow /\ InDebtNow \subseteq debt.ever
      BY <1>0, <2>3 DEF DebtInv
    <3>3. CASE InDebt(m, contributed')
      <4>1. debt' = [debt EXCEPT !.ever = @ \cup {m}]
        BY <1>3, <2>3, <3>3 DEF Pay
      <4>2. debt'.always = debt.always /\ debt'.ever = debt.ever \cup {m}
        BY <1>0, <4>1
      <4>3. InDebtNow' \subseteq InDebtNow \cup {m} /\ InDebtNow \subseteq InDebtNow'
        BY <3>1, <3>3 DEF InDebtNow
      <4>4. debt' \in [always : SUBSET Members, ever : SUBSET Members]
        BY <1>0, <4>1
      <4> QED
        BY <2>1, <3>2, <4>2, <4>3, <4>4 DEF DebtInv
    <3>4. CASE ~InDebt(m, contributed')
      <4>1. debt' = [debt EXCEPT !.always = @ \ {m}]
        BY <1>3, <2>3, <3>4 DEF Pay
      <4>2. debt'.always = debt.always \ {m} /\ debt'.ever = debt.ever
        BY <1>0, <4>1
      <4>3. InDebtNow' \subseteq InDebtNow /\ InDebtNow \ {m} \subseteq InDebtNow'
        BY <3>1, <3>4 DEF InDebtNow
      <4>4. debt' \in [always : SUBSET Members, ever : SUBSET Members]
        BY <1>0, <4>1
      <4> QED
        BY <2>1, <3>2, <4>2, <4>3, <4>4 DEF DebtInv
    <3> QED
      BY <3>3, <3>4
  <2> QED
    BY <2>2, <2>3
<1>4. ASSUME NEW i \in DOMAIN jobs, TakeCron(i) PROVE DebtInv'
  <2>1. /\ run'.step = "check" /\ run'.queued = {} /\ run'.unsent = {} /\ UNCHANGED contributed
        /\ debt' = [always |-> InDebtNow, ever |-> InDebtNow]
    BY <1>4 DEF TakeCron, InDebtNow
  <2>2. InDebtNow' = InDebtNow /\ InDebtNow \subseteq Members
    BY <2>1 DEF InDebtNow, InDebt
  <2> QED
    BY <2>1, <2>2 DEF DebtInv
<1>5. CASE ListDebtors
  <2>1. /\ run.step = "check" /\ UNCHANGED <<debt, contributed>>
        /\ run' = [run EXCEPT !.step = "remind", !.due = {x \in Members : Owes(x)}]
    BY <1>5 DEF ListDebtors
  <2>2. {x \in Members : Owes(x)} = InDebtNow
    BY <1>0 DEF Owes, InDebtNow, InDebt
  <2>3. InDebtNow' = InDebtNow
    BY <2>1 DEF InDebtNow, InDebt
  <2>4. run'.step = "remind" /\ run'.due = InDebtNow /\ run'.queued = run.queued /\ run'.unsent = run.unsent
    BY <2>1, <2>2 DEF RunInv
  <2>5. run.queued = {} /\ run.unsent = {}
    BY <2>1 DEF DebtInv
  <2> QED
    BY <2>1, <2>3, <2>4, <2>5 DEF DebtInv
<1>6. ASSUME NEW x \in Members, QueueGentleReminder(x) \/ SendDailyReminder(x) PROVE DebtInv'
  <2>1. /\ run.step = "remind" /\ x \in run.due /\ UNCHANGED <<debt, contributed>>
        /\ run' \in {RemindedOf(x), Unsent(x)}
    BY <1>6 DEF QueueGentleReminder, SendDailyReminder
  <2>2. /\ run'.step = "remind" /\ run'.due = run.due \ {x}
        /\ run'.queued \cup run'.unsent = run.queued \cup run.unsent \cup {x}
    BY <2>1 DEF RunInv, RemindedOf, Unsent
  <2>3. InDebtNow' = InDebtNow
    BY <2>1 DEF InDebtNow, InDebt
  <2> QED
    BY <2>1, <2>2, <2>3 DEF DebtInv
<1>7. CASE Next
  <2>1. \/ run' = Idle /\ debt' = NoDebt
        \/ UNCHANGED <<run, debt, contributed>>
        \/ ListDebtors
        \/ \E m \in Members, n \in {-1, 1} : Pay(m, n)
        \/ \E i \in DOMAIN jobs : TakeCron(i)
        \/ \E x \in Members : QueueGentleReminder(x) \/ SendDailyReminder(x)
    BY <1>7 DEF Next, RunStep, JobStep, EmailStep, Tick, RequestReminders, QueueObligationReminder, StartWorker, Crash,
                Postpone, EndRun, FailRun, TriggerCronTask, RetryJob, RemoveJob, SendEmail, FailEmail,
                CompleteEmail, TakeEmail, RecoverStalled
  <2> QED
    BY <1>1, <1>2, <1>3, <1>4, <1>5, <1>6, <2>1
<1>8. CASE UNCHANGED vars
  BY <1>2, <1>8 DEF vars
<1> QED
  BY <1>7, <1>8

(***************************************************************************)
(* The other variables.                                                    *)
(***************************************************************************)
LEMMA MailsStay ==
  JobsInv /\ RunInv /\ Rest /\ [Next]_vars => mails' \subseteq [job : 1..Len(jobs'), to : Members]
<1> SUFFICES ASSUME JobsInv, RunInv, Rest, [Next]_vars
             PROVE  mails' \subseteq [job : 1..Len(jobs'), to : Members]
  OBVIOUS
<1>0. jobs \in Seq(AnyJob) /\ mails \subseteq [job : 1..Len(jobs), to : Members]
  BY DEF JobsInv, AllOK, Rest
<1> PICK n \in Nat, m \in Nat : n = Len(jobs) /\ m = Len(jobs') /\ n <= m
  BY QueuesStep DEF Queues, JobsInv, AllOK
<1>1. mails \subseteq [job : 1..m, to : Members]
  BY <1>0
<1>2. ASSUME NEW i \in DOMAIN jobs, NEW x \in Members, mails' = mails \cup {Mail(i, x)}
      PROVE  mails' \subseteq [job : 1..m, to : Members]
  <2>1. i \in 1..n
    BY <1>0
  <2>2. i \in 1..m
    BY <2>1
  <2> QED
    BY <1>1, <1>2, <2>2 DEF Mail
<1>3. ASSUME NEW i \in DOMAIN jobs, SendEmail(i) PROVE mails' \subseteq [job : 1..m, to : Members]
  <2>1. jobs[i].to \in Members
    BY <1>3 DEF SendEmail, IsEmail, JobsInv, AllOK, JobOK
  <2> QED
    BY <1>2, <1>3, <2>1 DEF SendEmail
<1>4. ASSUME NEW x \in Members, SendDailyReminder(x) PROVE mails' \subseteq [job : 1..m, to : Members]
  <2> PICK i \in DOMAIN jobs : i = run.job
    BY <1>4 DEF SendDailyReminder, RunInv
  <2> QED
    BY <1>1, <1>2, <1>4 DEF SendDailyReminder
<1>5. CASE UNCHANGED mails
  BY <1>1, <1>5
<1>6. \/ UNCHANGED mails
      \/ \E i \in DOMAIN jobs : SendEmail(i)
      \/ \E x \in Members : SendDailyReminder(x)
  BY DEF Next, RunStep, JobStep, EmailStep, Tick, RequestReminders, QueueObligationReminder, StartWorker, Crash,
         Postpone, ListDebtors, EndRun, FailRun, Pay, TriggerCronTask, RetryJob, RemoveJob, FailEmail,
         CompleteEmail, TakeEmail, RecoverStalled, TakeCron, QueueGentleReminder, vars
<1> QED
  BY <1>3, <1>4, <1>5, <1>6

LEMMA RestStays ==
  JobsInv /\ RunInv /\ Rest /\ [Next]_vars => Rest'
<1> SUFFICES ASSUME JobsInv, RunInv, Rest, [Next]_vars PROVE Rest'
  OBVIOUS
<1>1. clock' \in Times
  BY DEF Rest, Next, RunStep, JobStep, EmailStep, Tick, RequestReminders, QueueObligationReminder, StartWorker, Crash,
         Postpone, ListDebtors, EndRun, FailRun, Pay, TriggerCronTask, RetryJob, RemoveJob, SendEmail, FailEmail,
         CompleteEmail, TakeEmail, RecoverStalled, TakeCron, QueueGentleReminder, SendDailyReminder, vars
<1>2. events' \in 0..MaxEvents
  <2>1. UNCHANGED events \/ Event
    BY DEF Next, RunStep, JobStep, EmailStep, Tick, RequestReminders, QueueObligationReminder, StartWorker, Crash,
           Postpone, ListDebtors, EndRun, FailRun, Pay, TriggerCronTask, RetryJob, RemoveJob, SendEmail, FailEmail,
           CompleteEmail, TakeEmail, RecoverStalled, TakeCron, QueueGentleReminder, SendDailyReminder, vars
  <2> QED
    BY <2>1, ConstantsAssumption DEF Rest, Event
<1>3. endpoint' \in (SUBSET Members) \cup {None}
  <2>1. CASE QueueObligationReminder
    <3>1. endpoint # None
      BY <2>1 DEF QueueObligationReminder
    <3>2. endpoint \subseteq Members
      BY <3>1 DEF Rest
    <3> QED
      BY <2>1, <3>2 DEF QueueObligationReminder
  <2>2. UNCHANGED endpoint \/ QueueObligationReminder \/ endpoint' \subseteq Members
    BY DEF Next, RunStep, JobStep, EmailStep, Tick, RequestReminders, StartWorker, Crash,
           Postpone, ListDebtors, EndRun, FailRun, Pay, TriggerCronTask, RetryJob, RemoveJob, SendEmail, FailEmail,
           CompleteEmail, TakeEmail, RecoverStalled, TakeCron, QueueGentleReminder, SendDailyReminder, vars
  <2> QED
    BY <2>1, <2>2 DEF Rest
<1>4. contributed' \in [Members -> 0..Obligation]
  <2>1. ASSUME NEW m \in Members, NEW k \in {-1, 1}, Pay(m, k) PROVE contributed' \in [Members -> 0..Obligation]
    BY <2>1 DEF Pay, Rest
  <2>2. UNCHANGED contributed \/ \E m \in Members, k \in {-1, 1} : Pay(m, k)
    BY DEF Next, RunStep, JobStep, EmailStep, Tick, RequestReminders, QueueObligationReminder, StartWorker, Crash,
           Postpone, ListDebtors, EndRun, FailRun, TriggerCronTask, RetryJob, RemoveJob, SendEmail, FailEmail,
           CompleteEmail, TakeEmail, RecoverStalled, TakeCron, QueueGentleReminder, SendDailyReminder, vars
  <2> QED
    BY <2>1, <2>2 DEF Rest
<1>5. worker' \in {"up", "down"}
  BY DEF Rest, Next, RunStep, JobStep, EmailStep, Tick, RequestReminders, QueueObligationReminder, StartWorker, Crash,
         Postpone, ListDebtors, EndRun, FailRun, Pay, TriggerCronTask, RetryJob, RemoveJob, SendEmail, FailEmail,
         CompleteEmail, TakeEmail, RecoverStalled, TakeCron, QueueGentleReminder, SendDailyReminder, vars
<1> QED
  BY <1>1, <1>2, <1>3, <1>4, <1>5, MailsStay DEF Rest

(***************************************************************************)
(* Theorems.                                                               *)
(***************************************************************************)
IInv == JobsInv /\ RunInv /\ DebtInv /\ Rest

LEMMA InitInv == Init => IInv
<1> SUFFICES ASSUME Init PROVE IInv
  OBVIOUS
<1>0. clock \in Nat /\ events = 0 /\ run = Idle /\ MaxEvents \in Nat /\ Obligation \in Nat
  BY ConstantsAssumption DEF Init
<1> PICK js : js = <<>>
  OBVIOUS
<1>1. AllOK(js, 0)
  BY DEF AllOK
<1>2. AllOK(RegisterCronJobs(js, clock), 0)
  BY <1>0, <1>1, RegisterOK
<1>3. JobsInv
  BY <1>0, <1>2 DEF Init, JobsInv
<1>4. RunInv
  <2>1. Len(jobs) \in Nat
    BY <1>3 DEF JobsInv, AllOK
  <2>2. Idle \in AnyRun(Len(jobs)) /\ Idle.step = "idle"
    BY <2>1, IdleRun
  <2> QED
    BY <1>0, <2>2 DEF RunInv, AnyRun
<1>5. DebtInv
  BY <1>0, IdleRun DEF Init, DebtInv, NoDebt, Idle
<1>6. Rest
  BY <1>0 DEF Init, Rest
<1> QED
  BY <1>3, <1>4, <1>5, <1>6 DEF IInv

LEMMA Invariance == Spec => []IInv
<1>1. IInv /\ [Next]_vars => IInv'
  BY QueuesStep, RunStays, DebtStays, RestStays DEF IInv, JobsInv, Queues
<1> QED
  BY <1>1, InitInv, PTL DEF Spec

\* Jobs, the run and the mails are well typed; a run is of a job of the queue, a job was
\* stalled at most once, and mails go to members.
THEOREM TypeCorrect == Spec => []TypeOK
<1>1. IInv => TypeOK
  <2> SUFFICES ASSUME IInv PROVE TypeOK
    OBVIOUS
  <2>1. ASSUME NEW i \in DOMAIN jobs PROVE jobs[i] \in JobType
    <3>1. JobOK(jobs[i], events) /\ events \in 0..MaxEvents /\ MaxEvents \in Nat
      BY ConstantsAssumption DEF IInv, JobsInv, AllOK, Rest
    <3>2. jobs[i] \in AnyJob /\ jobs[i].retries \in 0..MaxEvents
      BY <3>1 DEF JobOK, AnyJob
    <3> QED
      BY <3>2 DEF AnyJob, JobType
  <2> QED
    BY <2>1 DEF IInv, RunInv, DebtInv, Rest, TypeOK
<1> QED
  BY <1>1, Invariance, PTL

\* The gentle reminder adds nothing that falls due in the quiet hours or on a Sunday, at
\* whatever hour of whatever day it runs.
THEOREM GentleKeepsHours == Spec => []GentleDueInAllowedHours
<1>1. IInv => GentleDueInAllowedHours
  BY DEF IInv, JobsInv, AllOK, JobOK, GentleDueInAllowedHours
<1> QED
  BY <1>1, Invariance, PTL

\* No job is run more often than its attempts, its retries and its one stall allow, in
\* whatever order it fails, stalls and is retried.
THEOREM AttemptsAreLimited == Spec => []AttemptsLimited
<1>1. IInv => AttemptsLimited
  BY DEF IInv, JobsInv, AllOK, JobOK, RunsOK, Tries, IsEmail, AttemptsLimited
<1> QED
  BY <1>1, Invariance, PTL

\* A run that ends came to all who owed during all of it, with a mail or a logged failure,
\* and to nobody who never owed.
THEOREM DebtorsReminded == Spec => RunRemindsDebtors
<1>1. IInv /\ [Next]_vars =>
        [EndRun => /\ debt.always \subseteq run.queued \cup run.unsent
                   /\ run.queued \cup run.unsent \subseteq debt.ever]_vars
  <2> SUFFICES ASSUME IInv, EndRun
               PROVE  /\ debt.always \subseteq run.queued \cup run.unsent
                      /\ run.queued \cup run.unsent \subseteq debt.ever
    OBVIOUS
  <2>1. run.step = "remind" /\ run.due = {}
    BY DEF EndRun
  <2> QED
    BY <2>1 DEF IInv, DebtInv
<1> QED
  BY <1>1, Invariance, PTL DEF RunRemindsDebtors, Spec
=============================================================================
