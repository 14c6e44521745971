--------------------------- MODULE ExchangeRates ---------------------------
(***************************************************************************)
(* Exchange rates to KZT: the rows of exchange_rates with their period of  *)
(* validity, the snapshots that contributions lock, the two ways a rate is *)
(* replaced (updateExchangeRate of adminController.js, handleRateUpdate of *)
(* worker.js) and the answers of exchangeService.js.                       *)
(*                                                                         *)
(* The dates that a statement writes (validUntil, validFrom, lockedAt) are *)
(* taken by the process that sends it, before it runs.  A rate is named by *)
(* the row it was set with.  The cache of                                  *)
(* getExchangeRate asks for redisClient.isOpen, which the Redis client in  *)
(* use does not have, so it is never read or written.                      *)
(***************************************************************************)
EXTENDS Integers, Sequences, FiniteSets

CONSTANTS
  Currencies,       \* currencies other than KZT
  WorkerPairs,      \* the currencies handleRateUpdate goes through, in order
  Admins,           \* administrators setting a rate at once
  Workers,          \* rate-update jobs running at once
  Guests,           \* contributions being made at once
  MaxTime,          \* bound on the clock
  MaxEvents,        \* bound on updates, contributions and crashes together
  None              \* no end of validity

Updaters == Admins \cup Workers

ASSUME ConstantsAssumption ==
  /\ IsFiniteSet(Currencies) /\ IsFiniteSet(Updaters) /\ IsFiniteSet(Guests)
  /\ WorkerPairs \in Seq(Currencies) \ {<<>>}
  /\ Admins \cap Workers = {}
  /\ MaxTime \in Nat /\ MaxEvents \in Nat
  /\ None \notin Nat

VARIABLES
  now,          \* the clock
  rates,        \* rates[p]: the rows of a currency in the order they were made
  snapshots,    \* snapshots[p]: locked rates, [rate, at]
  updater,      \* updater[u]: what an update has still to do, and the date of its statement
  guest,        \* guest[g]: the rate a contribution read and has not locked yet, and the date it locks it on
  broken,       \* history: currencies in which an update closed the rates and made none, and no newer was made
  events        \* updates, contributions and crashes so far

vars == <<now, rates, snapshots, updater, guest, broken, events>>

Times == 0..MaxTime
NoUpdate == [step |-> "idle", todo |-> <<>>, date |-> None]

\* The seed gives every currency the worker updates one current rate.
Init == /\ now = 0
        /\ rates = [p \in Currencies |-> IF \E k \in DOMAIN WorkerPairs : WorkerPairs[k] = p
                                         THEN <<[from |-> 0, until |-> None]>> ELSE <<>>]
        /\ snapshots = [p \in Currencies |-> {}]
        /\ updater = [u \in Updaters |-> NoUpdate]
        /\ guest = [g \in Guests |-> None]
        /\ broken = {}
        /\ events = 0

Event == events < MaxEvents /\ events' = events + 1

(***************************************************************************)
(* exchangeService.js.  A query ordered by a time has several answers when *)
(* rows share it.                                                          *)
(***************************************************************************)
Current(p) == {i \in DOMAIN rates[p] : rates[p][i].until = None}
Earliest(p, R) == {i \in R : \A j \in R : rates[p][i].from <= rates[p][j].from}  \* mutated: orderBy asc
Latest(p, R) == {i \in R : \A j \in R : rates[p][j].from <= rates[p][i].from}
LastLocked(S) == {s.rate : s \in {t \in S : \A u \in S : u.at <= t.at}}

\* getExchangeRate: the newest current row, else the newest snapshot; it throws on neither.
Quotes(p) == IF Current(p) # {} THEN Latest(p, Current(p)) ELSE LastLocked(snapshots[p])

\* getExchangeRateAt: the newest snapshot no later than the date; the rows' own periods
\* are asked for with a condition no row meets; else the quote of the moment.
LockedEver(p, date) == snapshots[p]                      \* mutated: lockedAt is not compared
LockedBy(p, date) == {s \in snapshots[p] : s.at <= date}
QuotesAt(p, date) == IF LockedBy(p, date) # {} THEN LastLocked(LockedBy(p, date)) ELSE Quotes(p)

(***************************************************************************)
(* An update closes the current rows, then makes a new one.  The order of  *)
(* the two statements is the same for an administrator and for the worker. *)
(***************************************************************************)
CreateThenClose == <<"create", "close">>                 \* mutated: swapped
Statements == <<"close", "create">>
First == Statements[1]
After(step) == IF step = First THEN Statements[2] ELSE "done"

Pair(u) == Head(updater[u].todo)
Resume(u, step) == updater' = [updater EXCEPT ![u].step = step, ![u].date = None]

\* The worker goes on with the next currency, an administrator answers.
Continue(u) ==
  updater' = [updater EXCEPT ![u] =
    IF Len(@.todo) > 1 THEN [step |-> "read", todo |-> Tail(@.todo), date |-> None] ELSE NoUpdate]

UpdateExchangeRate(u, p) ==
  /\ Event /\ updater[u] = NoUpdate
  /\ updater' = [updater EXCEPT ![u] = [step |-> First, todo |-> <<p>>, date |-> None]]
  /\ UNCHANGED <<now, rates, snapshots, guest, broken>>

HandleRateUpdate(u) ==
  /\ Event /\ updater[u] = NoUpdate
  /\ updater' = [updater EXCEPT ![u] = [step |-> "read", todo |-> WorkerPairs, date |-> None]]
  /\ UNCHANGED <<now, rates, snapshots, guest, broken>>

\* The worker varies the rate it is quoted: no quote ends the job, and a variation that
\* rounds to the same rate leaves it.
ReadRate(u) ==
  /\ updater[u].step = "read"
  /\ \/ Quotes(Pair(u)) = {} /\ updater' = [updater EXCEPT ![u] = NoUpdate]
     \/ Quotes(Pair(u)) # {} /\ (Resume(u, First) \/ Continue(u))
  /\ UNCHANGED <<now, rates, snapshots, guest, broken, events>>

Then(u) == IF After(updater[u].step) = "done" THEN Continue(u) ELSE Resume(u, After(updater[u].step))

\* new Date(), and Prisma's now() for a column's default.
TakeDate(u) ==
  /\ updater[u].step \in {"close", "create"} /\ updater[u].date = None
  /\ updater' = [updater EXCEPT ![u].date = now]
  /\ UNCHANGED <<now, rates, snapshots, guest, broken, events>>

CloseCurrent(u) ==
  /\ updater[u].step = "close" /\ updater[u].date # None
  /\ rates' = [rates EXCEPT ![Pair(u)] =
       [i \in DOMAIN @ |-> IF @[i].until = None THEN [@[i] EXCEPT !.until = updater[u].date] ELSE @[i]]]
  /\ Then(u)
  /\ UNCHANGED <<now, snapshots, guest, broken, events>>

\* A row of the currency dated in the same millisecond makes the insert fail.
NoClash(p, date) == FALSE                                \* mutated: no unique index
Clash(p, date) == \E i \in DOMAIN rates[p] : rates[p][i].from = date

Newer(p, date) == \A i \in DOMAIN rates[p] : rates[p][i].from < date

CreateRate(u) ==
  /\ updater[u].step = "create" /\ updater[u].date # None
  /\ LET p == Pair(u) date == updater[u].date
     IN \/ /\ ~Clash(p, date)
           /\ rates' = [rates EXCEPT ![p] = Append(@, [from |-> date, until |-> None])]
           /\ broken' = IF Newer(p, date) THEN broken \ {p} ELSE broken
           /\ Then(u)
        \/ /\ Clash(p, date)
           /\ broken' = broken \cup {p}
           /\ updater' = [updater EXCEPT ![u] = NoUpdate]
           /\ UNCHANGED rates
  /\ UNCHANGED <<now, snapshots, guest, events>>

(***************************************************************************)
(* A contribution reads the quote, pays, and locks the rate it read.  The  *)
(* snapshot is written outside the contribution's transaction.             *)
(***************************************************************************)
ReadQuote(g, p) ==
  /\ Event /\ guest[g] = None
  /\ \E r \in Quotes(p) : guest' = [guest EXCEPT ![g] = [of |-> p, rate |-> r, at |-> None]]
  /\ UNCHANGED <<now, rates, snapshots, updater, broken>>

TakeLockDate(g) ==
  /\ guest[g] # None /\ guest[g].at = None
  /\ guest' = [guest EXCEPT ![g].at = now]
  /\ UNCHANGED <<now, rates, snapshots, updater, broken, events>>

Locking(g) == guest[g] # None /\ guest[g].at # None

RecordSnapshot(g) ==
  /\ Locking(g)
  /\ LET q == guest[g]
     IN snapshots' = [snapshots EXCEPT ![q.of] = @ \cup {[rate |-> q.rate, at |-> q.at]}]
  /\ guest' = [guest EXCEPT ![g] = None]
  /\ UNCHANGED <<now, rates, updater, broken, events>>

\* The payment was refused, or the pool closed in the meantime.
GiveUp(g) ==
  /\ guest[g] # None
  /\ guest' = [guest EXCEPT ![g] = None]
  /\ UNCHANGED <<now, rates, snapshots, updater, broken, events>>

Tick == /\ now < MaxTime /\ now' = now + 1
        /\ UNCHANGED <<rates, snapshots, updater, guest, broken, events>>

\* The process of an update stops.
Crash(u) ==
  /\ Event /\ updater[u] # NoUpdate
  /\ broken' = IF updater[u].step = "create" THEN broken \cup {Pair(u)} ELSE broken
  /\ updater' = [updater EXCEPT ![u] = NoUpdate]
  /\ UNCHANGED <<now, rates, snapshots, guest>>

Next == \/ \E u \in Admins, p \in Currencies : UpdateExchangeRate(u, p)
        \/ \E u \in Workers : HandleRateUpdate(u) \/ ReadRate(u)
        \/ \E u \in Updaters : TakeDate(u) \/ CloseCurrent(u) \/ CreateRate(u) \/ Crash(u)
        \/ \E g \in Guests : TakeLockDate(g) \/ RecordSnapshot(g) \/ GiveUp(g)
        \/ \E g \in Guests, p \in Currencies : ReadQuote(g, p)
        \/ Tick

Spec == Init /\ [][Next]_vars

(***************************************************************************)
(* Properties.                                                             *)
(***************************************************************************)
\* The state has the shape the schema gives it, no two rows of a currency start at the same
\* moment, though updates overlap, and a rate that is being paid with is one that was made.
TypeOK ==
  /\ now \in Times
  /\ \A p \in Currencies :
       /\ rates[p] \in Seq([from : 0..now, until : (0..now) \cup {None}])
       /\ \A i, j \in DOMAIN rates[p] : i # j => rates[p][i].from # rates[p][j].from
       /\ snapshots[p] \subseteq [rate : DOMAIN rates[p], at : 0..now]
  /\ updater \in [Updaters -> [step : {"idle", "read", "close", "create"}, todo : Seq(Currencies),
                               date : (0..now) \cup {None}]]
  /\ guest \in [Guests -> {None} \cup [of : Currencies, rate : Nat, at : (0..now) \cup {None}]]
  /\ \A g \in Guests : guest[g] # None => guest[g].rate \in DOMAIN rates[guest[g].of]
  /\ broken \subseteq Currencies
  /\ events \in 0..MaxEvents

Updating(p) == \E u \in Updaters : updater[u].step = "create" /\ Pair(u) = p

\* Overlapping updates leave several current rows, some closed before they began, and make
\* rows in another order than they are dated; yet once no update of the currency is between
\* its two statements, and unless one failed there, the row with the latest validFrom is
\* what everybody is quoted.
QuoteIsNewest ==
  \A p \in Currencies :
    rates[p] # <<>> /\ ~Updating(p) /\ p \notin broken => Quotes(p) = Latest(p, DOMAIN rates[p])

\* A currency that had a rate is without a current one, and quoted from its snapshots,
\* only while an update is between its two statements or after one failed there.
GapOnlyInUpdates ==
  \A p \in Currencies : rates[p] # <<>> /\ Current(p) = {} => p \in broken \/ Updating(p)

\* What the service answers for a past moment that a snapshot covers never changes again,
\* whatever rates and snapshots are added later, once no snapshot dated up to that moment
\* is still being written.
HistoryFixed ==
  [][\A p \in Currencies, date \in 0..(now - 1) :
       /\ LockedBy(p, date) # {}
       /\ \A g \in Guests : Locking(g) => date < guest[g].at
       => QuotesAt(p, date)' = QuotesAt(p, date)]_vars
=============================================================================
