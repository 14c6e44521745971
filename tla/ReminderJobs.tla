---------------------------- MODULE ReminderJobs ----------------------------
(***************************************************************************)
(* Gift-obligation reminders: the three Bull queues as far as code adds to *)
(* them (queue.js, producer.js, cron.js), the worker that runs cron and    *)
(* e-mail jobs (worker.js), the quiet hours of culturalTiming.js, the      *)
(* reminder endpoint of familyController.js and the queue endpoints of     *)
(* monitor.js.                                                             *)
(*                                                                         *)
(* Time is counted in whole hours of Astana from a Monday 00:00; the       *)
(* worker's container runs in UTC, five hours behind.  Bull itself is      *)
(* external: a job waits until it is due, one job of a queue is active, a  *)
(* failed attempt is retried while attempts are left, and a job whose      *)
(* worker died is run again once.                                          *)
(***************************************************************************)
EXTENDS Integers, Sequences, FiniteSets

CONSTANTS
  Members,      \* family members of a wedding with an open pool, each with an obligation
  Obligation,   \* giftObligation of each member
  Times,        \* the hours the clock stops at
  Tasks,        \* the cron tasks in use, a subset of ReminderTasks
  MaxEvents,    \* bound on requests, payments, crashes, failed runs and failing mails together
  None          \* no member

ReminderTasks == {"dailyObligationReminders", "gentleObligationReminders"}

ASSUME ConstantsAssumption ==
  /\ Obligation \in Nat \ {0}
  /\ Times \subseteq Nat /\ Times # {} /\ IsFiniteSet(Times)
  /\ Tasks \subseteq ReminderTasks
  /\ MaxEvents \in Nat
  /\ None \notin Members

VARIABLES
  clock,        \* the hour it is in Astana
  jobs,         \* every job ever added, by its number
  run,          \* the cron job being processed and its handler's local state
  endpoint,     \* debtors listed by a reminder request and not yet queued, None when idle
  mails,        \* the e-mails the SMTP server accepted
  contributed,  \* contributed[m]: sum of m's COMPLETED contributions
  worker,       \* "up" or "down"
  events,       \* requests, payments, failures and crashes so far
  debt          \* history of the run: members who owed at all times, at some time

vars == <<clock, jobs, run, endpoint, mails, contributed, worker, events, debt>>

(***************************************************************************)
(* culturalTiming.js.                                                      *)
(***************************************************************************)
Hour(t) == t % 24
IsSunday(t) == (t \div 24) % 7 = 6
InQuietWindow(t) == Hour(t) < 9 \/ Hour(t) >= 21

IsSendingAllowed(t) == ~InQuietWindow(t) /\ ~IsSunday(t)

NextMorning(t) == LET today == t - Hour(t) + 9 IN IF Hour(t) < 9 THEN today ELSE today + 24
DelayToNextMorning(t) == IF IsSendingAllowed(t) THEN 0 ELSE NextMorning(t) - t      \* mutated: Sundays are not skipped
DelayUntilAllowed(t) ==
  IF IsSendingAllowed(t) THEN 0
  ELSE LET next == NextMorning(t) IN (IF IsSunday(next) THEN next + 24 ELSE next) - t

(***************************************************************************)
(* Jobs.                                                                   *)
(***************************************************************************)
EmailTypes == {"obligationReminder", "gentlePaymentReminder"}
Job(type, to, id, due) ==
  [type |-> type, to |-> to, id |-> id, state |-> "waiting", due |-> due,
   runs |-> 0, made |-> 0, stalls |-> 0, retries |-> 0]
IsEmail(i) == jobs[i].type \in EmailTypes
MaxAttempts(i) == IF IsEmail(i) THEN 3 ELSE 1
Idle == [job |-> 0, step |-> "idle", due |-> {}, queued |-> {}, unsent |-> {}]

\* The hour of a task's cron expression, on the container's clock and in Astana.
CronHour(task) == IF task = "dailyObligationReminders" THEN 9 ELSE 10
NextRun(task, t) == t + 1 + ((CronHour(task) + 4 - Hour(t)) % 24)

\* Repeated jobs carry the time in their id: adding the same one again adds nothing.
Repeat(js, task, t) ==
  LET j == Job(task, None, "repeat", NextRun(task, t))
  IN IF \E i \in DOMAIN js : /\ js[i].id = "repeat"
                             /\ js[i].type = task
                             /\ js[i].due = j.due
     THEN js ELSE Append(js, j)

\* registerCronJobs runs at every start of the worker.
RegisterCronJobs(js, t) ==
  LET daily == IF "dailyObligationReminders" \in Tasks
               THEN Repeat(js, "dailyObligationReminders", t) ELSE js
  IN IF "gentleObligationReminders" \in Tasks
     THEN Repeat(daily, "gentleObligationReminders", t) ELSE daily

NoDebt == [always |-> {}, ever |-> {}]
Set(i, j) == [jobs EXCEPT ![i] = j]
WithState(i, state) == [jobs[i] EXCEPT !.state = state]

Init == /\ clock \in Times /\ (\A u \in Times : clock <= u)
        /\ jobs = RegisterCronJobs(<<>>, clock)
        /\ run = Idle
        /\ endpoint = None
        /\ mails = {}
        /\ contributed = [m \in Members |-> 0]
        /\ worker = "up"
        /\ events = 0
        /\ debt = NoDebt

Event == events < MaxEvents /\ events' = events + 1

OwesAtMost(m) == contributed[m] <= Obligation       \* mutated: a met obligation is still owed
Owes(m) == Obligation > contributed[m]
InDebt(m, paid) == paid[m] < Obligation         \* what the history of a run keeps

(***************************************************************************)
(* Around the queues: time, money and the endpoints.                       *)
(***************************************************************************)
Tick == /\ \E t \in Times : t > clock /\ (\A u \in Times : u > clock => t <= u) /\ clock' = t
        /\ UNCHANGED <<jobs, run, endpoint, mails, contributed, worker, events, debt>>

\* A contribution completes or is refunded.
Pay(m, n) ==
  /\ Event
  /\ contributed[m] + n \in 0..Obligation
  /\ contributed' = [contributed EXCEPT ![m] = @ + n]
  /\ debt' = IF run = Idle THEN debt
             ELSE IF InDebt(m, contributed')
             THEN [debt EXCEPT !.ever = @ \cup {m}]
             ELSE [debt EXCEPT !.always = @ \ {m}]
  /\ UNCHANGED <<clock, jobs, run, endpoint, mails, worker>>

\* sendObligationReminders lists the debtors, then queues a mail for each, with no delay.
RequestReminders ==
  /\ Event /\ endpoint = None
  /\ endpoint' = {m \in Members : Owes(m)}
  /\ UNCHANGED <<clock, jobs, run, mails, contributed, worker, debt>>

QueueObligationReminder ==
  /\ endpoint # None
  /\ IF endpoint = {} THEN endpoint' = None /\ UNCHANGED jobs
     ELSE \E m \in endpoint : /\ endpoint' = endpoint \ {m}
                              /\ jobs' = Append(jobs, Job("obligationReminder", m, "added", clock))
  /\ UNCHANGED <<clock, run, mails, contributed, worker, events, debt>>

TriggerCronTask(task) ==
  /\ Event
  /\ jobs' = Append(jobs, Job(task, None, "manual", clock))
  /\ UNCHANGED <<clock, run, endpoint, mails, contributed, worker, debt>>

\* getJob(Number(jobId)) finds only the jobs Bull numbered itself, and Bull retries
\* only a failed job and removes only one that is not active.
Found(i) == jobs[i].id = "added"
RetryJob(i) ==
  /\ Event
  /\ Found(i) /\ jobs[i].state = "failed"
  /\ jobs' = Set(i, [jobs[i] EXCEPT !.state = "waiting", !.due = clock, !.retries = @ + 1])
  /\ UNCHANGED <<clock, run, endpoint, mails, contributed, worker, debt>>

RemoveJob(i) ==
  /\ Event
  /\ Found(i) /\ jobs[i].state \in {"waiting", "failed", "completed"}
  /\ jobs' = Set(i, WithState(i, "removed"))
  /\ UNCHANGED <<clock, run, endpoint, mails, contributed, worker, debt>>

(***************************************************************************)
(* The worker: start, crash, and what Bull does with a job.                *)
(***************************************************************************)
StartWorker ==
  /\ worker = "down"
  /\ worker' = "up"
  /\ jobs' = RegisterCronJobs(jobs, clock)
  /\ UNCHANGED <<clock, run, endpoint, mails, contributed, events, debt>>

Active == {"active", "sent"}
Crash ==
  /\ worker = "up" /\ Event
  /\ worker' = "down"
  /\ jobs' = [i \in DOMAIN jobs |-> IF jobs[i].state \in Active THEN WithState(i, "stalled") ELSE jobs[i]]
  /\ run' = Idle /\ debt' = NoDebt
  /\ UNCHANGED <<clock, endpoint, mails, contributed>>

AfterAnyStall(i) == [jobs[i] EXCEPT !.state = "waiting", !.stalls = @ + 1]      \* mutated: no limit
AfterStall(i) == IF jobs[i].stalls = 0
                 THEN [jobs[i] EXCEPT !.state = "waiting", !.stalls = 1]
                 ELSE WithState(i, "failed")

RecoverStalled(i) ==
  /\ worker = "up" /\ jobs[i].state = "stalled"
  /\ jobs' = Set(i, AfterStall(i))
  /\ UNCHANGED <<clock, run, endpoint, mails, contributed, worker, events, debt>>

IsPastDue(i) == jobs[i].state = "waiting" /\ jobs[i].due < clock      \* mutated: not in the hour it is due
IsDue(i) == jobs[i].state = "waiting" /\ jobs[i].due <= clock
Before(i, k) == jobs[i].due < jobs[k].due \/ (jobs[i].due = jobs[k].due /\ i < k)

\* A queue has one job active and takes the one that fell due first.
Ready(i) == /\ worker = "up" /\ IsDue(i)
            /\ \A k \in DOMAIN jobs \ {i} :
                 IsEmail(k) = IsEmail(i) => jobs[k].state \notin Active /\ (IsDue(k) => Before(i, k))

\* One more attempt was made: wait for the next one, if any is left.
Retried(i, made, again) == [jobs[i] EXCEPT !.state = IF again THEN "waiting" ELSE "failed",
                                           !.due = clock, !.made = made]
AfterFailureOneMore(i) == Retried(i, jobs[i].made + 1, jobs[i].made < MaxAttempts(i))  \* mutated: off by one
AfterFailure(i) == Retried(i, jobs[i].made + 1, jobs[i].made + 1 < MaxAttempts(i))

Taken(i) == [jobs[i] EXCEPT !.state = "active", !.runs = @ + 1]

(***************************************************************************)
(* E-mail jobs.                                                            *)
(***************************************************************************)
Mail(i, m) == [job |-> i, to |-> m]

TakeEmail(i) ==
  /\ IsEmail(i) /\ Ready(i)
  /\ jobs' = Set(i, Taken(i))
  /\ UNCHANGED <<clock, run, endpoint, mails, contributed, worker, events, debt>>

SendEmail(i) ==
  /\ IsEmail(i) /\ jobs[i].state = "active"
  /\ mails' = mails \cup {Mail(i, jobs[i].to)}
  /\ jobs' = Set(i, WithState(i, "sent"))
  /\ UNCHANGED <<clock, run, endpoint, contributed, worker, events, debt>>

\* The server refuses the mail, or accepts it and its answer is lost.  The bound counts the
\* first time; a server that refused a mail may go on refusing it.
FailEmail(i) ==
  /\ IsEmail(i) /\ jobs[i].state \in Active
  /\ Event \/ (jobs[i].made > 0 /\ UNCHANGED events)
  /\ jobs' = Set(i, AfterFailure(i))
  /\ UNCHANGED <<clock, run, endpoint, mails, contributed, worker, debt>>

CompleteEmail(i) ==
  /\ IsEmail(i) /\ jobs[i].state = "sent"
  /\ jobs' = Set(i, WithState(i, "completed"))
  /\ UNCHANGED <<clock, run, endpoint, mails, contributed, worker, events, debt>>

(***************************************************************************)
(* Cron jobs.                                                              *)
(***************************************************************************)
\* Bull schedules the next run of a repeated job when it takes this one.
TakeCron(i) ==
  /\ ~IsEmail(i) /\ Ready(i)
  /\ jobs' = LET js == Set(i, Taken(i))
             IN IF jobs[i].id = "repeat" THEN Repeat(js, jobs[i].type, clock) ELSE js
  /\ run' = [job |-> i, step |-> "check", due |-> {}, queued |-> {}, unsent |-> {}]
  /\ debt' = LET owing == {m \in Members : InDebt(m, contributed)} IN [always |-> owing, ever |-> owing]
  /\ UNCHANGED <<clock, endpoint, mails, contributed, worker, events>>

IsGentle == jobs[run.job].type = "gentleObligationReminders"

\* In quiet hours the gentle reminder adds itself again and ends.
Postpone ==
  /\ run.step = "check" /\ IsGentle /\ ~IsSendingAllowed(clock)
  /\ jobs' = Append(Set(run.job, WithState(run.job, "completed")),
                    Job("gentleObligationReminders", None, "added", clock + DelayUntilAllowed(clock)))
  /\ run' = Idle /\ debt' = NoDebt
  /\ UNCHANGED <<clock, endpoint, mails, contributed, worker, events>>

ListDebtors ==
  /\ run.step = "check" /\ (IsGentle => IsSendingAllowed(clock))
  /\ run' = [run EXCEPT !.step = "remind", !.due = {m \in Members : Owes(m)}]
  /\ UNCHANGED <<clock, jobs, endpoint, mails, contributed, worker, events, debt>>

RemindedOf(m) == [run EXCEPT !.due = @ \ {m}, !.queued = @ \cup {m}]
Unsent(m) == [run EXCEPT !.due = @ \ {m}, !.unsent = @ \cup {m}]

QueueGentleReminder(m) ==
  /\ run.step = "remind" /\ IsGentle /\ m \in run.due
  /\ jobs' = Append(jobs, Job("gentlePaymentReminder", m, "added", clock + DelayUntilAllowed(clock)))
  /\ run' = RemindedOf(m)
  /\ UNCHANGED <<clock, endpoint, mails, contributed, worker, events, debt>>

\* The daily reminder sends by itself, and a failed send is only logged.
SendDailyReminder(m) ==
  /\ run.step = "remind" /\ ~IsGentle /\ m \in run.due
  /\ \/ mails' = mails \cup {Mail(run.job, m)} /\ run' = RemindedOf(m)
     \/ UNCHANGED mails /\ run' = Unsent(m)
  /\ UNCHANGED <<clock, jobs, endpoint, contributed, worker, events, debt>>

EndRun ==
  /\ run.step = "remind" /\ run.due = {}
  /\ jobs' = Set(run.job, WithState(run.job, "completed"))
  /\ run' = Idle /\ debt' = NoDebt
  /\ UNCHANGED <<clock, endpoint, mails, contributed, worker, events>>

\* A query or an add fails: the handler throws, and cron jobs have one attempt.
FailRun ==
  /\ run.step # "idle" /\ Event
  /\ jobs' = Set(run.job, AfterFailure(run.job))
  /\ run' = Idle /\ debt' = NoDebt
  /\ UNCHANGED <<clock, endpoint, mails, contributed, worker>>

EmailStep(i) == TakeEmail(i) \/ SendEmail(i) \/ FailEmail(i) \/ CompleteEmail(i)
RunStep == \/ Postpone \/ ListDebtors \/ EndRun \/ FailRun
           \/ \E m \in Members : QueueGentleReminder(m) \/ SendDailyReminder(m)
JobStep(i) == EmailStep(i) \/ TakeCron(i) \/ RecoverStalled(i)

Next == \/ Tick \/ RequestReminders \/ QueueObligationReminder
        \/ StartWorker \/ Crash \/ RunStep
        \/ \E m \in Members, n \in {-1, 1} : Pay(m, n)
        \/ \E task \in Tasks : TriggerCronTask(task)
        \/ \E i \in DOMAIN jobs : RetryJob(i) \/ RemoveJob(i) \/ JobStep(i)

Fairness == /\ WF_vars(Tick) /\ WF_vars(StartWorker) /\ WF_vars(QueueObligationReminder)
            /\ WF_vars(RunStep) /\ WF_vars(\E i \in DOMAIN jobs : JobStep(i))

Spec == Init /\ [][Next]_vars
FairSpec == Spec /\ Fairness

(***************************************************************************)
(* Properties.                                                             *)
(***************************************************************************)
JobStates == {"waiting", "active", "sent", "stalled", "completed", "failed", "removed"}
JobType == [type : EmailTypes \cup ReminderTasks, to : Members \cup {None},
            id : {"repeat", "manual", "added"}, state : JobStates, due : Nat,
            runs : Nat, made : Nat, stalls : 0..1, retries : 0..MaxEvents]

\* Types of the variables.
TypeOK ==
  /\ clock \in Times
  /\ \A i \in DOMAIN jobs : jobs[i] \in JobType
  /\ run \in [job : 0..Len(jobs), step : {"idle", "check", "remind"},
              due : SUBSET Members, queued : SUBSET Members, unsent : SUBSET Members]
  /\ endpoint \in (SUBSET Members) \cup {None}
  /\ mails \subseteq [job : 1..Len(jobs), to : Members]
  /\ contributed \in [Members -> 0..Obligation]
  /\ worker \in {"up", "down"}
  /\ events \in 0..MaxEvents
  /\ debt \in [always : SUBSET Members, ever : SUBSET Members]

\* Whatever hour the gentle reminder runs at, by schedule, by hand, late or again after
\* a stall, all it adds (mails, and itself when postponed) falls due from Monday to
\* Saturday between 9 and 21 Astana time, unless a retry has moved it.
GentleDueInAllowedHours ==
  \A i \in DOMAIN jobs :
    jobs[i].id = "added" /\ jobs[i].type # "obligationReminder" /\ jobs[i].made + jobs[i].retries = 0
      => IsSendingAllowed(jobs[i].due)

\* A cron run that ends has gone through the debtors: to each member who owed during all
\* of the run it sent (or queued) a mail, or failed to and logged it, and to no member
\* who owed at no time of it, though contributions and refunds complete between its
\* awaits.
RunRemindsDebtors ==
  [][EndRun => /\ debt.always \subseteq run.queued \cup run.unsent
               /\ run.queued \cup run.unsent \subseteq debt.ever]_vars

\* How often a job is run, whatever becomes of each run: an e-mail job three times, a
\* cron job once, once more each time an administrator retries it, and once more after a
\* stall.  A reminder is in the mail no more often than that.
AttemptsLimited ==
  \A i \in DOMAIN jobs : jobs[i].runs <= (IF IsEmail(i) THEN 3 ELSE 1) + jobs[i].retries + jobs[i].stalls

\* Jobs settle: once requests, payments and crashes cease, every job that falls due
\* completes, fails or is removed, and none waits behind a dead worker or a lost run.
LastTime == CHOOSE t \in Times : \A u \in Times : u <= t
Settled == /\ endpoint = None /\ run = Idle
           /\ \A i \in DOMAIN jobs :
                jobs[i].due <= LastTime => jobs[i].state \in {"completed", "failed", "removed"}
JobsSettle == <>[]Settled

\* The claim of the checklist that mails keep to the hours 09:00 to 21:00 in Astana and
\* skip Sunday, for the obligation reminders.
RemindersInAllowedHours == [][mails' # mails => IsSendingAllowed(clock)]_vars
=============================================================================
