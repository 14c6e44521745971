------------------------ MODULE ExchangeRatesProofs ------------------------
(***************************************************************************)
(* Proofs about ExchangeRates, for any numbers of currencies, updates,     *)
(* contributions and moments.                                              *)
(*                                                                         *)
(* The inductive invariant is Shape /\ Gaps.  Beyond the types, Shape says *)
(* that the rows of a currency start at different moments and that one of  *)
(* them is the newest.  Gaps says of every row that was closed why: an     *)
(* update that will date its row no earlier has still to make it, or a     *)
(* newer row was made, or an update failed before it made one.             *)
(***************************************************************************)
EXTENDS ExchangeRates, SequenceTheorems, TLAPS

(***************************************************************************)
(* Sequences of rows.                                                      *)
(***************************************************************************)
LEMMA SeqOfFunction ==
  ASSUME NEW S, NEW n \in Nat, NEW f \in [1..n -> S]
  PROVE  f \in Seq(S) /\ Len(f) = n /\ DOMAIN f = 1..n
OBVIOUS

LEMMA SeqOfSmaller ==
  ASSUME NEW S, NEW T, NEW s \in Seq(S), \A i \in DOMAIN s : s[i] \in T
  PROVE  s \in Seq(T)
<1>1. Len(s) \in Nat /\ s \in [1..Len(s) -> T]
  BY LenProperties
<1> QED
  BY <1>1, SeqOfFunction

(***************************************************************************)
(* The inductive invariant.                                                *)
(***************************************************************************)
Row == [from : Times, until : Times \cup {None}]
Past(date) == date = None \/ date <= now

Newest(p) == rates[p] # <<>> => \E m \in DOMAIN rates[p] : \A i \in DOMAIN rates[p] : rates[p][i].from <= rates[p][m].from

RowsOK(p) ==
  /\ rates[p] \in Seq(Row)
  /\ \A i, j \in DOMAIN rates[p] : i # j => rates[p][i].from # rates[p][j].from
  /\ \A i \in DOMAIN rates[p] : rates[p][i].from <= now /\ Past(rates[p][i].until)
  /\ Newest(p)

\* Why row i of the currency was closed.
Cause(u, p, i) == /\ updater[u].step = "create" /\ Pair(u) = p
                  /\ updater[u].date = None \/ rates[p][i].from <= updater[u].date
Replaced(p, i) ==
  \/ p \in broken
  \/ \E j \in DOMAIN rates[p] : rates[p][i].from < rates[p][j].from
  \/ \E u \in Updaters : Cause(u, p, i)

Locked(g) == guest[g] # None => guest[g].rate \in DOMAIN rates[guest[g].of] /\ Past(guest[g].at)

Update == [step : {"idle", "read", "close", "create"}, todo : Seq(Currencies), date : Times \cup {None}]
Busy(u) == (updater[u].step # "idle" => updater[u].todo # <<>>) /\ Past(updater[u].date)

Guest == {None} \cup [of : Currencies, rate : Nat, at : Times \cup {None}]

Shape ==
  /\ now \in Times /\ broken \subseteq Currencies /\ events \in 0..MaxEvents
  /\ DOMAIN rates = Currencies /\ rates = [p \in Currencies |-> rates[p]]
  /\ snapshots \in [Currencies -> SUBSET [rate : Nat, at : 0..now]]
  /\ \A p \in Currencies : RowsOK(p)
  /\ \A p \in Currencies : \A s \in snapshots[p] : s.rate \in DOMAIN rates[p]
  /\ updater \in [Updaters -> Update] /\ \A u \in Updaters : Busy(u)
  /\ guest \in [Guests -> Guest]
  /\ \A g \in Guests : Locked(g)

Gaps == \A p \in Currencies : \A i \in DOMAIN rates[p] : rates[p][i].until # None => Replaced(p, i)

LEMMA ShapeInit == Init => Shape /\ Gaps
<1> SUFFICES ASSUME Init PROVE Shape /\ Gaps
  OBVIOUS
<1>1. now \in Times /\ broken \subseteq Currencies /\ events \in 0..MaxEvents
  BY ConstantsAssumption DEF Init, Times
<1>2. snapshots \in [Currencies -> SUBSET [rate : Nat, at : 0..now]]
  BY DEF Init
<1>3. ASSUME NEW p \in Currencies PROVE RowsOK(p) /\ \A i \in DOMAIN rates[p] : rates[p][i].until = None
  <2>1. CASE rates[p] = <<>>
    BY <2>1 DEF Init, RowsOK, Newest
  <2>2. CASE rates[p] = <<[from |-> 0, until |-> None]>>
    <3>1. [from |-> 0, until |-> None] \in Row
      BY ConstantsAssumption DEF Row, Times
    <3>2. rates[p] \in Seq(Row) /\ Len(rates[p]) = 1 /\ DOMAIN rates[p] = {1}
      BY <2>2, <3>1
    <3>3. rates[p][1].from = 0 /\ rates[p][1].until = None /\ now = 0
      BY <2>2 DEF Init
    <3> QED
      BY <3>2, <3>3 DEF RowsOK, Newest, Past
  <2> QED
    BY <2>1, <2>2 DEF Init
<1>4. updater \in [Updaters -> Update] /\ \A u \in Updaters : Busy(u)
  BY DEF Init, NoUpdate, Update, Busy, Past
<1> QED
  BY <1>1, <1>2, <1>3, <1>4 DEF Init, Shape, Gaps, Locked, Guest

(***************************************************************************)
(* What a step can come to.                                                *)
(***************************************************************************)
OthersKept(u) == \A v \in Updaters \ {u} : updater'[v] = updater[v]
Ready(u) == /\ updater' \in [Updaters -> Update] /\ OthersKept(u)
            /\ updater'[u].step # "idle" => updater'[u].todo # <<>>
            /\ updater'[u].date \in {None, now}

\* The updater goes on with the same currency, or leaves it.
Stays(u, step) == /\ Ready(u) /\ updater'[u].step = step /\ updater'[u].todo = updater[u].todo
                  /\ updater'[u].date = None
Leaves(u) == Ready(u) /\ updater'[u].step \in {"idle", "read"}

LEMMA UpdaterEffect ==
  ASSUME updater \in [Updaters -> Update], NEW u \in Updaters, updater[u].todo # <<>>
  PROVE  /\ Pair(u) \in Currencies
         /\ \A step \in {"read", "close", "create"} : Resume(u, step) => Stays(u, step)
         /\ Continue(u) => Leaves(u)
         /\ updater' = [updater EXCEPT ![u] = NoUpdate] => Leaves(u)
<1>0. updater[u] \in Update /\ updater[u].todo \in Seq(Currencies)
  BY DEF Update
<1>1. Pair(u) \in Currencies
  BY <1>0, HeadTailProperties DEF Pair
<1>2. ASSUME NEW step \in {"read", "close", "create"}, Resume(u, step) PROVE Stays(u, step)
  BY <1>0, <1>2 DEF Resume, Stays, Ready, OthersKept, Update
<1>3. ASSUME updater' = [updater EXCEPT ![u] = NoUpdate] PROVE Leaves(u)
  BY <1>0, <1>3 DEF NoUpdate, Leaves, Ready, OthersKept, Update
<1>4. ASSUME Continue(u) PROVE Leaves(u)
  <2>1. CASE Len(updater[u].todo) > 1
    <3>0. Tail(updater[u].todo) \in Seq(Currencies) /\ Len(Tail(updater[u].todo)) = Len(updater[u].todo) - 1
      BY <1>0, HeadTailProperties
    <3> PICK rest \in Seq(Currencies) : rest = Tail(updater[u].todo)
      BY <3>0
    <3>1. rest # <<>>
      <4>1. Len(rest) # 0
        BY <2>1, <3>0
      <4> QED
        BY <4>1
    <3>2. updater' = [updater EXCEPT ![u] = [step |-> "read", todo |-> rest, date |-> None]]
      BY <1>4, <2>1 DEF Continue
    <3> QED
      BY <1>0, <3>1, <3>2 DEF Leaves, Ready, OthersKept, Update
  <2>2. CASE ~(Len(updater[u].todo) > 1)
    BY <1>3, <1>4, <2>2 DEF Continue
  <2> QED
    BY <2>1, <2>2
<1> QED
  BY <1>1, <1>2, <1>3, <1>4

Closes(p, d) ==
  /\ rates' = [q \in Currencies |-> rates'[q]]
  /\ \A q \in Currencies \ {p} : rates'[q] = rates[q]
  /\ rates'[p] \in Seq(Row) /\ Len(rates'[p]) = Len(rates[p])
  /\ \A i \in DOMAIN rates[p] :
       /\ rates'[p][i].from = rates[p][i].from
       /\ rates'[p][i].until = IF rates[p][i].until = None THEN d ELSE rates[p][i].until

Appends(p, d) ==
  /\ rates' = [q \in Currencies |-> rates'[q]]
  /\ \A q \in Currencies \ {p} : rates'[q] = rates[q]
  /\ rates'[p] \in Seq(Row) /\ Len(rates'[p]) = Len(rates[p]) + 1
  /\ \A i \in DOMAIN rates[p] : rates'[p][i] = rates[p][i] /\ rates[p][i].from # d
  /\ rates'[p][Len(rates[p]) + 1].from = d /\ rates'[p][Len(rates[p]) + 1].until = None

\* The date of a statement, and what it is written to.
Dates(u, d) == updater[u].date = d /\ d <= now

LEMMA CloseOutcome ==
  ASSUME Shape, NEW u \in Updaters, CloseCurrent(u)
  PROVE  /\ updater[u].step = "close" /\ Pair(u) \in Currencies
         /\ \E d \in Times : Dates(u, d) /\ Closes(Pair(u), d)
         /\ Stays(u, "create")
         /\ UNCHANGED <<now, snapshots, guest, broken, events>>
<1>0. /\ updater \in [Updaters -> Update] /\ updater[u].step = "close" /\ updater[u].todo # <<>>
      /\ updater[u].date # None /\ Past(updater[u].date)
      /\ UNCHANGED <<now, snapshots, guest, broken, events>>
  BY DEF Shape, Busy, CloseCurrent
<1>1. Pair(u) \in Currencies
  BY <1>0, UpdaterEffect
<1> PICK p \in Currencies : p = Pair(u)
  BY <1>1
<1> PICK d \in Times : d = updater[u].date
  BY <1>0 DEF Update
<1>2. Stays(u, "create")
  <2>1. Resume(u, "create")
    BY <1>0 DEF CloseCurrent, Then, After, First, Statements
  <2> QED
    BY <1>0, <2>1, UpdaterEffect
<1>3. Closes(p, d)
  <2> DEFINE rows == rates[p]
             closed == [i \in DOMAIN rows |-> IF rows[i].until = None THEN [rows[i] EXCEPT !.until = d] ELSE rows[i]]
  <2>1. rates' = [rates EXCEPT ![p] = closed]
    BY DEF CloseCurrent
  <2>2. rows \in Seq(Row) /\ rates = [q \in Currencies |-> rates[q]]
    BY DEF Shape, RowsOK
  <2>3. Len(rows) \in Nat /\ DOMAIN rows = 1..Len(rows) /\ \A i \in DOMAIN rows : rows[i] \in Row
    BY <2>2, LenProperties, ElementOfSeq
  <2>4. \A i \in DOMAIN rows : /\ closed[i] \in Row /\ closed[i].from = rows[i].from
                               /\ closed[i].until = IF rows[i].until = None THEN d ELSE rows[i].until
    BY <2>2, <2>3 DEF Row
  <2>5. closed \in Seq(Row) /\ Len(closed) = Len(rows)
    <3>1. closed \in [1..Len(rows) -> Row]
      BY <2>3, <2>4
    <3> HIDE DEF closed
    <3> QED
      BY <2>3, <3>1, SeqOfFunction
  <2>6. rates'[p] = closed /\ \A q \in Currencies \ {p} : rates'[q] = rates[q]
    BY <2>1, <2>2
  <2>7. rates' = [q \in Currencies |-> rates'[q]]
    BY <2>1, <2>2
  <2> HIDE DEF closed
  <2> QED
    BY <2>4, <2>5, <2>6, <2>7 DEF Closes
<1>4. Dates(u, d)
  BY <1>0 DEF Dates, Past
<1> QED
  BY <1>0, <1>2, <1>3, <1>4

Made(p, d) == Appends(p, d) /\ (broken' = broken \/ (broken' = broken \ {p} /\ Newer(p, d)))

LEMMA CreateOutcome ==
  ASSUME Shape, NEW u \in Updaters, CreateRate(u)
  PROVE  /\ updater[u].step = "create" /\ Pair(u) \in Currencies /\ Leaves(u)
         /\ \/ \E d \in Times : Dates(u, d) /\ Made(Pair(u), d)
            \/ broken' = broken \cup {Pair(u)} /\ UNCHANGED rates
         /\ UNCHANGED <<now, snapshots, guest, events>>
<1>0. /\ updater \in [Updaters -> Update] /\ updater[u].step = "create" /\ updater[u].todo # <<>>
      /\ updater[u].date # None /\ Past(updater[u].date)
      /\ UNCHANGED <<now, snapshots, guest, events>>
  BY DEF Shape, Busy, CreateRate
<1>1. Pair(u) \in Currencies
  BY <1>0, UpdaterEffect
<1> PICK p \in Currencies : p = Pair(u)
  BY <1>1
<1> PICK d \in Times : d = updater[u].date
  BY <1>0 DEF Update
<1>2. CASE Clash(p, d)
  BY <1>0, <1>2, UpdaterEffect DEF CreateRate
<1>3. CASE ~Clash(p, d)
  <2> DEFINE rows == rates[p]
             new == [from |-> d, until |-> None]
  <2>1. /\ rates' = [rates EXCEPT ![p] = Append(rows, new)] /\ Then(u)
        /\ (broken' = broken \/ (broken' = broken \ {p} /\ Newer(p, d)))
        /\ \A i \in DOMAIN rows : rows[i].from # d
    BY <1>3 DEF CreateRate, Clash
  <2>2. Leaves(u)
    <3>1. Continue(u)
      BY <1>0, <2>1 DEF Then, After, First, Statements
    <3> QED
      BY <1>0, <3>1, UpdaterEffect
  <2>3. rows \in Seq(Row) /\ new \in Row /\ rates = [q \in Currencies |-> rates[q]]
    BY DEF Shape, RowsOK, Row
  <2>4. /\ Append(rows, new) \in Seq(Row) /\ Len(Append(rows, new)) = Len(rows) + 1
        /\ DOMAIN rows = 1..Len(rows) /\ Len(rows) \in Nat
        /\ \A i \in DOMAIN rows : Append(rows, new)[i] = rows[i]
        /\ Append(rows, new)[Len(rows) + 1] = new
    BY <2>3, AppendProperties, LenProperties
  <2>5. rates'[p] = Append(rows, new) /\ \A q \in Currencies \ {p} : rates'[q] = rates[q]
    BY <2>1, <2>3
  <2>6. rates' = [q \in Currencies |-> rates'[q]]
    BY <2>1, <2>3
  <2>7. Appends(p, d)
    BY <2>1, <2>4, <2>5, <2>6 DEF Appends
  <2>8. Dates(u, d)
    BY <1>0 DEF Dates, Past
  <2>9. Made(p, d)
    BY <2>1, <2>7 DEF Made
  <2> QED
    BY <1>0, <2>2, <2>8, <2>9
<1> QED
  BY <1>2, <1>3

\* The updater's other steps leave the rows, the snapshots and the contributions alone.
Turns(u) ==
  /\ UNCHANGED <<now, rates, snapshots, guest>> /\ events' \in 0..MaxEvents
  /\ Ready(u)
  /\ \/ updater[u].step # "create" /\ UNCHANGED broken
     \/ updater[u].step = "create" /\ Pair(u) \in Currencies /\ broken' = broken \cup {Pair(u)}
     \/ /\ updater'[u].step = updater[u].step /\ updater'[u].todo = updater[u].todo /\ updater'[u].date = now
        /\ UNCHANGED broken

LEMMA TurnOutcome ==
  ASSUME Shape, NEW u \in Updaters,
         \/ \E p \in Currencies : UpdateExchangeRate(u, p)
         \/ HandleRateUpdate(u) \/ ReadRate(u) \/ TakeDate(u) \/ Crash(u)
  PROVE  Turns(u)
<1>0. updater \in [Updaters -> Update] /\ Busy(u) /\ events \in 0..MaxEvents /\ MaxEvents \in Nat
  BY ConstantsAssumption DEF Shape
<1>1. Event => events' \in 0..MaxEvents
  BY <1>0 DEF Event
<1>2. CASE \E p \in Currencies : UpdateExchangeRate(u, p)
  <2>1. PICK p \in Currencies : UpdateExchangeRate(u, p)
    BY <1>2
  <2>2. <<p>> \in Seq(Currencies) /\ <<p>> # <<>>
    OBVIOUS
  <2>3. updater' = [updater EXCEPT ![u] = [step |-> "close", todo |-> <<p>>, date |-> None]]
    BY <2>1 DEF UpdateExchangeRate, First, Statements
  <2>4. Ready(u)
    BY <1>0, <2>2, <2>3 DEF Ready, OthersKept, Update
  <2> QED
    BY <1>1, <2>1, <2>4 DEF UpdateExchangeRate, NoUpdate, Turns
<1>3. CASE HandleRateUpdate(u)
  <2>1. updater' = [updater EXCEPT ![u] = [step |-> "read", todo |-> WorkerPairs, date |-> None]]
    BY <1>3 DEF HandleRateUpdate
  <2>2. Ready(u)
    BY <1>0, <2>1, ConstantsAssumption DEF Ready, OthersKept, Update
  <2> QED
    BY <1>1, <1>3, <2>2 DEF HandleRateUpdate, NoUpdate, Turns
<1>4. CASE ReadRate(u)
  <2>1. updater[u].step = "read" /\ updater[u].todo # <<>>
    BY <1>0, <1>4 DEF ReadRate, Busy
  <2>2. \/ updater' = [updater EXCEPT ![u] = NoUpdate] \/ Resume(u, "close") \/ Continue(u)
    BY <1>4 DEF ReadRate, First, Statements
  <2>3. Ready(u)
    BY <1>0, <2>1, <2>2, UpdaterEffect DEF Stays, Leaves
  <2> QED
    BY <1>0, <1>4, <2>1, <2>3 DEF ReadRate, Turns
<1>5. CASE Crash(u)
  <2>1. updater' = [updater EXCEPT ![u] = NoUpdate]
    BY <1>5 DEF Crash
  <2>2. Ready(u)
    BY <1>0, <2>1 DEF NoUpdate, Ready, OthersKept, Update
  <2>3. updater[u].step = "create" => Pair(u) \in Currencies
    BY <1>0, UpdaterEffect DEF Busy
  <2> QED
    BY <1>1, <1>5, <2>2, <2>3 DEF Crash, Turns
<1>6. CASE TakeDate(u)
  <2>1. updater' = [updater EXCEPT ![u].date = now] /\ now \in Times /\ updater[u].todo # <<>>
    BY <1>0, <1>6 DEF TakeDate, Shape, Busy
  <2>2. /\ updater' \in [Updaters -> Update] /\ OthersKept(u)
        /\ updater'[u].step = updater[u].step /\ updater'[u].todo = updater[u].todo /\ updater'[u].date = now
    BY <1>0, <2>1 DEF OthersKept, Update
  <2> QED
    BY <1>0, <1>6, <2>1, <2>2 DEF TakeDate, Ready, Turns
<1> QED
  BY <1>2, <1>3, <1>4, <1>5, <1>6

(***************************************************************************)
(* The invariant is kept.                                                  *)
(***************************************************************************)
LEMMA RowsClosed ==
  ASSUME Shape, NEW p \in Currencies, NEW d \in Times, Closes(p, d), d <= now, UNCHANGED now
  PROVE  RowsOK(p)' /\ DOMAIN rates'[p] = DOMAIN rates[p]
<1>0. RowsOK(p) /\ now \in Nat /\ d \in Nat
  BY DEF Shape, Times
<1>1. Len(rates[p]) \in Nat /\ DOMAIN rates[p] = 1..Len(rates[p])
  BY <1>0, LenProperties DEF RowsOK
<1>2. DOMAIN rates'[p] = DOMAIN rates[p]
  BY <1>1, LenProperties DEF Closes
<1>3. \A i \in DOMAIN rates'[p] : rates'[p][i].from = rates[p][i].from
  BY <1>2 DEF Closes
<1>4. \A i, j \in DOMAIN rates'[p] : i # j => rates'[p][i].from # rates'[p][j].from
  BY <1>0, <1>2, <1>3 DEF RowsOK
<1>5. \A i \in DOMAIN rates'[p] : rates'[p][i].from <= now' /\ Past(rates[p][i].until)'
  BY <1>0, <1>2, <1>3 DEF Closes, RowsOK, Past
<1>6. Newest(p)'
  <2> SUFFICES ASSUME rates'[p] # <<>>
               PROVE  \E m \in DOMAIN rates'[p] : \A i \in DOMAIN rates'[p] : rates'[p][i].from <= rates'[p][m].from
    BY DEF Newest
  <2>1. rates[p] # <<>>
    BY <1>1 DEF Closes
  <2> QED
    BY <1>0, <1>2, <1>3, <2>1 DEF RowsOK, Newest
<1> QED
  BY <1>2, <1>4, <1>5, <1>6 DEF RowsOK, Closes

LEMMA RowsAppended ==
  ASSUME Shape, NEW p \in Currencies, NEW d \in Times, Appends(p, d), d <= now, UNCHANGED now
  PROVE  /\ RowsOK(p)' /\ DOMAIN rates[p] \subseteq DOMAIN rates'[p]
         /\ \A i \in DOMAIN rates'[p] : i \in DOMAIN rates[p] \/ rates'[p][i].until = None
         /\ \E i \in DOMAIN rates'[p] : rates'[p][i].from = d
<1> DEFINE last == Len(rates[p]) + 1
<1>0. RowsOK(p) /\ now \in Nat /\ d \in Nat
  BY DEF Shape, Times
<1>1. /\ Len(rates[p]) \in Nat /\ DOMAIN rates[p] = 1..Len(rates[p])
      /\ \A i \in DOMAIN rates[p] : rates[p][i] \in Row /\ rates[p][i].from \in Nat
  <2>1. /\ Len(rates[p]) \in Nat /\ DOMAIN rates[p] = 1..Len(rates[p])
        /\ \A i \in DOMAIN rates[p] : rates[p][i] \in Row
    BY <1>0, LenProperties, ElementOfSeq DEF RowsOK
  <2> QED
    BY <2>1 DEF Row, Times
<1>2. DOMAIN rates'[p] = DOMAIN rates[p] \cup {last} /\ last \notin DOMAIN rates[p]
  BY <1>1, LenProperties DEF Appends
<1>3. /\ \A i \in DOMAIN rates[p] : rates'[p][i] = rates[p][i] /\ rates[p][i].from # d
      /\ rates'[p][last].from = d /\ rates'[p][last].until = None
  BY DEF Appends
<1> HIDE DEF last
<1>4. \A i, j \in DOMAIN rates'[p] : i # j => rates'[p][i].from # rates'[p][j].from
  BY <1>0, <1>2, <1>3 DEF RowsOK
<1>5. \A i \in DOMAIN rates'[p] : rates'[p][i].from <= now' /\ Past(rates[p][i].until)'
  BY <1>0, <1>2, <1>3 DEF RowsOK, Past
<1>6. Newest(p)'
  <2> SUFFICES \E m \in DOMAIN rates'[p] : \A i \in DOMAIN rates'[p] : rates'[p][i].from <= rates'[p][m].from
    BY DEF Newest
  <2>1. CASE \A i \in DOMAIN rates[p] : rates[p][i].from <= d
    <3>1. \A i \in DOMAIN rates'[p] : rates'[p][i].from <= rates'[p][last].from
      BY <1>0, <1>2, <1>3, <2>1
    <3> QED
      BY <1>2, <3>1
  <2>2. CASE \E i \in DOMAIN rates[p] : ~(rates[p][i].from <= d)
    <3>1. rates[p] # <<>>
      BY <2>2
    <3> PICK m \in DOMAIN rates[p] : \A i \in DOMAIN rates[p] : rates[p][i].from <= rates[p][m].from
      BY <1>0, <3>1 DEF RowsOK, Newest
    <3> PICK k \in DOMAIN rates[p] : ~(rates[p][k].from <= d)
      BY <2>2
    <3>2. d <= rates[p][m].from
      BY <1>0, <1>1
    <3>3. \A i \in DOMAIN rates'[p] : rates'[p][i].from <= rates'[p][m].from
      BY <1>2, <1>3, <3>2
    <3> QED
      BY <1>2, <3>3
  <2> QED
    BY <2>1, <2>2
<1> QED
  BY <1>2, <1>3, <1>4, <1>5, <1>6 DEF RowsOK, Appends

\* A quote names a row of its currency.
LEMMA QuotesAreRows == ASSUME Shape, NEW p \in Currencies PROVE Quotes(p) \subseteq DOMAIN rates[p]
BY DEF Shape, Quotes, Latest, Current, LastLocked

LEMMA ShapeKept ==
  ASSUME Shape, now' \in Times, now <= now', broken' \subseteq Currencies, events' \in 0..MaxEvents,
         rates' = [q \in Currencies |-> rates'[q]],
         \A q \in Currencies : RowsOK(q)' /\ DOMAIN rates[q] \subseteq DOMAIN rates'[q],
         UNCHANGED <<snapshots, guest>>,
         updater' \in [Updaters -> Update], \A u \in Updaters : Busy(u)'
  PROVE  Shape'
<1>1. snapshots' \in [Currencies -> SUBSET [rate : Nat, at : 0..now']]
  <2>1. ASSUME NEW s \in [rate : Nat, at : 0..now] PROVE s \in [rate : Nat, at : 0..now']
    BY <2>1 DEF Shape, Times
  <2> QED
    BY <2>1 DEF Shape
<1>2. \A q \in Currencies : \A s \in snapshots'[q] : s.rate \in DOMAIN rates'[q]
  BY DEF Shape
<1>3. ASSUME NEW g \in Guests PROVE Locked(g)'
  <2>1. CASE guest[g] = None
    BY <2>1 DEF Locked
  <2>2. CASE guest[g] # None
    <3>1. guest[g] \in [of : Currencies, rate : Nat, at : Times \cup {None}] /\ Locked(g)
      BY <2>2 DEF Shape, Guest
    <3>2. guest[g].at = None \/ (guest[g].at <= now /\ guest[g].at \in Nat)
      BY <2>2, <3>1 DEF Locked, Past, Times
    <3>3. Past(guest[g].at)'
      BY <3>2 DEF Past, Shape, Times
    <3> QED
      BY <2>2, <3>1, <3>3 DEF Locked
  <2> QED
    BY <2>1, <2>2
<1> QED
  BY <1>1, <1>2, <1>3 DEF Shape

LEMMA ReadyBusy ==
  ASSUME Shape, UNCHANGED now, NEW u \in Updaters, Ready(u)
  PROVE  updater' \in [Updaters -> Update] /\ \A v \in Updaters : Busy(v)'
<1>1. now \in Nat
  BY DEF Shape, Times
<1>2. Busy(u)'
  BY <1>1 DEF Ready, Busy, Past
<1>3. ASSUME NEW v \in Updaters \ {u} PROVE Busy(v)'
  BY DEF Ready, OthersKept, Shape, Busy, Past
<1> QED
  BY <1>2, <1>3 DEF Ready

LEMMA ShapeStep == Shape /\ [Next]_vars => Shape'
<1> SUFFICES ASSUME Shape, [Next]_vars PROVE Shape'
  OBVIOUS
<1>0. /\ now \in Times /\ now \in Nat /\ now <= now
      /\ broken \subseteq Currencies /\ events \in 0..MaxEvents /\ MaxEvents \in Nat
      /\ rates = [p \in Currencies |-> rates[p]] /\ \A q \in Currencies : RowsOK(q)
      /\ updater \in [Updaters -> Update] /\ \A u \in Updaters : Busy(u)
      /\ guest \in [Guests -> Guest] /\ \A g \in Guests : Locked(g)
  BY ConstantsAssumption DEF Shape, Times
<1>1. ASSUME NEW u \in Updaters, CloseCurrent(u) PROVE Shape'
  <2>1. UNCHANGED <<now, snapshots, guest, broken, events>> /\ Ready(u)
    BY <1>1, CloseOutcome DEF Stays
  <2>2. PICK p \in Currencies, d \in Times : Closes(p, d) /\ d <= now
    BY <1>1, CloseOutcome DEF Dates
  <2>3. \A q \in Currencies : RowsOK(q)' /\ DOMAIN rates[q] \subseteq DOMAIN rates'[q]
    <3>1. ASSUME NEW q \in Currencies, q # p PROVE RowsOK(q)' /\ DOMAIN rates[q] \subseteq DOMAIN rates'[q]
      BY <1>0, <2>1, <2>2, <3>1 DEF Closes, RowsOK, Newest, Past
    <3> QED
      BY <2>1, <2>2, <3>1, RowsClosed
  <2>4. rates' = [q \in Currencies |-> rates'[q]]
    BY <2>2 DEF Closes
  <2> QED
    BY <1>0, <2>1, <2>3, <2>4, ShapeKept, ReadyBusy
<1>2. ASSUME NEW u \in Updaters, CreateRate(u) PROVE Shape'
  <2>1. UNCHANGED <<now, snapshots, guest, events>> /\ Ready(u)
    BY <1>2, CreateOutcome DEF Leaves
  <2>2. CASE UNCHANGED rates /\ broken' = broken \cup {Pair(u)}
    <3>1. \A q \in Currencies : RowsOK(q)' /\ DOMAIN rates[q] \subseteq DOMAIN rates'[q]
      BY <1>0, <2>1, <2>2 DEF RowsOK, Newest, Past
    <3>2. broken' \subseteq Currencies
      BY <1>0, <1>2, <2>2, CreateOutcome
    <3> QED
      BY <1>0, <2>1, <2>2, <3>1, <3>2, ShapeKept, ReadyBusy
  <2>3. ASSUME NEW p \in Currencies, NEW d \in Times, Dates(u, d), Made(p, d) PROVE Shape'
    <3>1. Appends(p, d) /\ d <= now /\ broken' \subseteq Currencies
      BY <1>0, <2>3 DEF Made, Dates
    <3>2. \A q \in Currencies : RowsOK(q)' /\ DOMAIN rates[q] \subseteq DOMAIN rates'[q]
      <4>1. ASSUME NEW q \in Currencies, q # p PROVE RowsOK(q)' /\ DOMAIN rates[q] \subseteq DOMAIN rates'[q]
        <5>1. rates'[q] = rates[q] /\ RowsOK(q)
          BY <1>0, <3>1, <4>1 DEF Appends
        <5> QED
          BY <2>1, <5>1 DEF RowsOK, Newest, Past
      <4> QED
        BY <2>1, <3>1, <4>1, RowsAppended
    <3>3. rates' = [q \in Currencies |-> rates'[q]]
      BY <3>1 DEF Appends
    <3> QED
      BY <1>0, <2>1, <3>1, <3>2, <3>3, ShapeKept, ReadyBusy
  <2> QED
    BY <1>2, <2>2, <2>3, CreateOutcome
<1>3. ASSUME NEW u \in Updaters, Turns(u) PROVE Shape'
  <2>1. broken' \subseteq Currencies /\ Ready(u)
    BY <1>0, <1>3 DEF Turns
  <2>2. \A q \in Currencies : RowsOK(q)' /\ DOMAIN rates[q] \subseteq DOMAIN rates'[q]
    BY <1>0, <1>3 DEF Turns, RowsOK, Newest, Past
  <2>3. updater' \in [Updaters -> Update] /\ \A v \in Updaters : Busy(v)'
    BY <1>3, <2>1, ReadyBusy DEF Turns
  <2> QED
    BY <1>0, <1>3, <2>1, <2>2, <2>3, ShapeKept DEF Turns
<1>4. ASSUME UNCHANGED <<now, rates, snapshots, updater, broken>>, events' \in 0..MaxEvents,
             guest' \in [Guests -> Guest], \A g \in Guests : Locked(g)'
      PROVE  Shape'
  BY <1>0, <1>4 DEF Shape, RowsOK, Newest, Past, Busy
\* A contribution takes another turn.
<1>g. ASSUME NEW g \in Guests, NEW x \in Guest, guest' = [guest EXCEPT ![g] = x], UNCHANGED <<now, rates>>,
             x # None => x.rate \in DOMAIN rates[x.of] /\ Past(x.at)
      PROVE  guest' \in [Guests -> Guest] /\ \A h \in Guests : Locked(h)'
  BY <1>0, <1>g DEF Locked, Past
<1>5. ASSUME NEW g \in Guests, NEW p \in Currencies, ReadQuote(g, p) PROVE Shape'
  <2>1. PICK i \in Quotes(p) : guest' = [guest EXCEPT ![g] = [of |-> p, rate |-> i, at |-> None]]
    BY <1>5 DEF ReadQuote
  <2>2. i \in DOMAIN rates[p] /\ i \in Nat
    <3>1. DOMAIN rates[p] = 1..Len(rates[p]) /\ Len(rates[p]) \in Nat
      BY <1>0, LenProperties DEF RowsOK
    <3> QED
      BY <3>1, QuotesAreRows
  <2>3. PICK x \in Guest : x = [of |-> p, rate |-> i, at |-> None]
    BY <2>2 DEF Guest
  <2>4. guest' \in [Guests -> Guest] /\ \A h \in Guests : Locked(h)'
    BY <1>5, <1>g, <2>1, <2>2, <2>3 DEF ReadQuote, Past
  <2> QED
    BY <1>0, <1>4, <1>5, <2>4 DEF ReadQuote, Event
<1>6. ASSUME NEW g \in Guests, GiveUp(g) PROVE Shape'
  <2>1. guest' \in [Guests -> Guest] /\ \A h \in Guests : Locked(h)'
    BY <1>6, <1>g DEF GiveUp, Guest
  <2> QED
    BY <1>0, <1>4, <1>6, <2>1 DEF GiveUp
<1>7. ASSUME NEW g \in Guests, TakeLockDate(g) PROVE Shape'
  <2>1. guest[g] \in [of : Currencies, rate : Nat, at : Times \cup {None}] /\ guest[g].rate \in DOMAIN rates[guest[g].of]
    BY <1>0, <1>7 DEF TakeLockDate, Guest, Locked
  <2>2. PICK y \in [of : Currencies, rate : Nat, at : Times \cup {None}] : y = guest[g]
    BY <2>1
  <2>3. PICK x : x = [y EXCEPT !.at = now]
    OBVIOUS
  <2>4. x \in Guest /\ x.rate = y.rate /\ x.of = y.of /\ x.at = now
    BY <1>0, <2>3 DEF Guest
  <2>5. guest' = [guest EXCEPT ![g] = x]
    BY <1>7, <2>2, <2>3 DEF TakeLockDate
  <2>6. guest' \in [Guests -> Guest] /\ \A h \in Guests : Locked(h)'
    BY <1>0, <1>7, <1>g, <2>1, <2>2, <2>4, <2>5 DEF TakeLockDate, Past
  <2> QED
    BY <1>0, <1>4, <1>7, <2>6 DEF TakeLockDate
<1>8. ASSUME NEW g \in Guests, RecordSnapshot(g) PROVE Shape'
  <2>1. /\ guest[g] \in [of : Currencies, rate : Nat, at : Times \cup {None}] /\ guest[g].at # None
        /\ guest[g].rate \in DOMAIN rates[guest[g].of] /\ Past(guest[g].at)
    BY <1>0, <1>8 DEF RecordSnapshot, Locking, Guest, Locked
  <2> DEFINE s == [rate |-> guest[g].rate, at |-> guest[g].at]
  <2>2. PICK p \in Currencies : p = guest[g].of
    BY <2>1
  <2>3. guest[g].at \in 0..now /\ guest[g].rate \in Nat
    BY <1>0, <2>1 DEF Past, Times
  <2>4. snapshots' = [snapshots EXCEPT ![p] = @ \cup {s}] /\ s \in [rate : Nat, at : 0..now] /\ s.rate \in DOMAIN rates[p]
    BY <1>8, <2>1, <2>2, <2>3 DEF RecordSnapshot
  <2>5. /\ snapshots' \in [Currencies -> SUBSET [rate : Nat, at : 0..now']]
        /\ \A q \in Currencies : \A z \in snapshots'[q] : z.rate \in DOMAIN rates[q]
    <3> PICK r \in [rate : Nat, at : 0..now] : r = s
      BY <2>4
    <3>1. snapshots' = [snapshots EXCEPT ![p] = @ \cup {r}] /\ r.rate \in DOMAIN rates[p] /\ now' = now
      BY <1>8, <2>4 DEF RecordSnapshot
    <3> HIDE DEF s
    <3> QED
      BY <3>1 DEF Shape
  <2>6. guest' \in [Guests -> Guest] /\ \A h \in Guests : Locked(h)'
    BY <1>8, <1>g DEF RecordSnapshot, Guest
  <2> QED
    BY <1>0, <1>8, <2>5, <2>6 DEF Shape, RecordSnapshot, RowsOK, Newest, Past, Busy
<1>9. ASSUME Tick PROVE Shape'
  <2>1. now' \in Times /\ now <= now' /\ now' \in Nat
    BY <1>0, <1>9, ConstantsAssumption DEF Tick, Times
  <2>p. ASSUME NEW d \in Times \cup {None}, Past(d) PROVE Past(d)'
    BY <1>0, <2>1, <2>p DEF Past, Times
  <2>2. ASSUME NEW q \in Currencies PROVE RowsOK(q)'
    <3>1. RowsOK(q) /\ UNCHANGED rates
      BY <1>0, <1>9 DEF Tick
    <3>2. \A i \in DOMAIN rates[q] : rates[q][i].from \in Nat /\ rates[q][i].until \in Times \cup {None}
      <4>1. \A i \in DOMAIN rates[q] : rates[q][i] \in Row
        BY <3>1, ElementOfSeq, LenProperties DEF RowsOK
      <4> QED
        BY <4>1 DEF Row, Times
    <3>3. \A i \in DOMAIN rates[q] : rates[q][i].from <= now' /\ Past(rates[q][i].until)'
      BY <1>0, <2>1, <2>p, <3>1, <3>2 DEF RowsOK
    <3> QED
      BY <3>1, <3>3 DEF RowsOK, Newest
  <2>3. ASSUME NEW u \in Updaters PROVE Busy(u)'
    <3>1. updater[u].date \in Times \cup {None} /\ Busy(u)
      BY <1>0 DEF Update
    <3>2. Past(updater[u].date)'
      BY <1>9, <2>p, <3>1 DEF Busy, Tick, Past
    <3> QED
      BY <1>9, <3>1, <3>2 DEF Tick, Busy
  <2> QED
    BY <1>0, <1>9, <2>1, <2>2, <2>3, ShapeKept DEF Tick
<1>10. CASE UNCHANGED vars
  BY <1>0, <1>4, <1>10 DEF vars, Locked, Past
<1> QED
  BY <1>1, <1>2, <1>3, <1>5, <1>6, <1>7, <1>8, <1>9, <1>10, TurnOutcome DEF Next, Updaters

\* A step of one updater leaves the causes of the others.
LEMMA GapStep == Shape /\ Gaps /\ [Next]_vars => Gaps'
<1> SUFFICES ASSUME Shape, Gaps, [Next]_vars,
                    NEW p \in Currencies, NEW i \in DOMAIN rates'[p], rates'[p][i].until # None
             PROVE  Replaced(p, i)'
  BY DEF Gaps
<1>0. now \in Nat /\ updater \in [Updaters -> Update] /\ RowsOK(p)
  BY DEF Shape, Times
<1>1. i \in DOMAIN rates[p] /\ rates[p][i].until # None => Replaced(p, i)
  BY DEF Gaps
<1>c. ASSUME NEW v \in Updaters, Cause(v, p, i), rates'[p][i].from = rates[p][i].from, updater'[v] = updater[v]
      PROVE  Cause(v, p, i)'
  BY <1>c DEF Cause, Pair
<1>2. ASSUME NEW u \in Updaters, CloseCurrent(u) PROVE Replaced(p, i)'
  <2>1. PICK q \in Currencies, d \in Times : q = Pair(u) /\ Closes(q, d) /\ Dates(u, d)
    BY <1>2, CloseOutcome
  <2>2. updater[u].step = "close" /\ Stays(u, "create") /\ UNCHANGED broken
    BY <1>2, CloseOutcome
  <2>3. CASE p = q
    <3>1. updater'[u].step = "create" /\ Pair(u)' = p /\ updater'[u].date = None
      BY <2>1, <2>2, <2>3 DEF Stays, Pair
    <3>2. Cause(u, p, i)'
      BY <3>1 DEF Cause
    <3> QED
      BY <3>2 DEF Replaced
  <2>4. CASE p # q
    <3>1. rates'[p] = rates[p] /\ Replaced(p, i)
      BY <1>1, <2>1, <2>4 DEF Closes
    <3>2. ASSUME NEW v \in Updaters, Cause(v, p, i) PROVE Cause(v, p, i)'
      <4>1. v # u
        BY <2>2, <3>2 DEF Cause
      <4>2. updater'[v] = updater[v]
        BY <2>2, <4>1 DEF Stays, Ready, OthersKept
      <4> QED
        BY <1>c, <3>1, <3>2, <4>2
    <3> QED
      BY <2>2, <3>1, <3>2 DEF Replaced
  <2> QED
    BY <2>3, <2>4
<1>3. ASSUME NEW u \in Updaters, CreateRate(u) PROVE Replaced(p, i)'
  <2>1. PICK q \in Currencies : q = Pair(u) /\ UNCHANGED now
    BY <1>3, CreateOutcome
  <2>2. \A v \in Updaters \ {u} : updater'[v] = updater[v]
    BY <1>3, CreateOutcome DEF Leaves, Ready, OthersKept
  \* The other currencies.
  <2>o. ASSUME p # q, rates'[p] = rates[p], p \in broken => p \in broken' PROVE Replaced(p, i)'
    <3>1. Replaced(p, i)
      BY <1>1, <2>o
    <3>2. ASSUME NEW v \in Updaters, Cause(v, p, i) PROVE Cause(v, p, i)'
      <4>1. v # u
        BY <2>1, <2>o, <3>2 DEF Cause
      <4> QED
        BY <1>c, <2>2, <2>o, <3>2, <4>1
    <3> QED
      BY <2>o, <3>1, <3>2 DEF Replaced
  <2>3. CASE broken' = broken \cup {q} /\ UNCHANGED rates
    <3>1. CASE p = q
      BY <2>3, <3>1 DEF Replaced
    <3>2. CASE p # q
      BY <2>3, <2>o, <3>2
    <3> QED
      BY <3>1, <3>2
  <2>4. ASSUME NEW d \in Times, Dates(u, d), Made(q, d) PROVE Replaced(p, i)'
    <3>0. Appends(q, d) /\ d <= now /\ updater[u].date = d /\ d \in Nat /\ d # None
      BY <2>4, ConstantsAssumption DEF Made, Dates, Times
    <3>1. CASE p # q
      <4>1. rates'[p] = rates[p] /\ (p \in broken => p \in broken')
        BY <2>4, <3>0, <3>1 DEF Made, Appends
      <4> QED
        BY <2>o, <3>1, <4>1
    <3>2. CASE p = q
      <4>1. i \in DOMAIN rates[p] /\ DOMAIN rates[p] \subseteq DOMAIN rates'[p]
        BY <2>1, <3>0, <3>2, RowsAppended
      <4>2. \A j \in DOMAIN rates[p] : rates'[p][j] = rates[p][j] /\ rates[p][j].from # d
        BY <3>0, <3>2 DEF Appends
      <4>3. PICK last \in DOMAIN rates'[p] : rates'[p][last].from = d
        BY <2>1, <3>0, <3>2, RowsAppended
      <4>4. Replaced(p, i) /\ rates'[p][i].from = rates[p][i].from /\ rates[p][i].from \in Nat
        <5>1. rates[p][i] \in Row
          BY <1>0, <4>1, ElementOfSeq, LenProperties DEF RowsOK
        <5> QED
          BY <1>1, <4>1, <4>2, <5>1 DEF Row, Times
      <4>5. CASE p \in broken
        <5>1. p \in broken' \/ Newer(p, d)
          BY <2>4, <3>2, <4>5 DEF Made
        <5>2. Newer(p, d) => rates'[p][i].from < rates'[p][last].from
          BY <4>1, <4>3, <4>4 DEF Newer
        <5> QED
          BY <5>1, <5>2 DEF Replaced
      <4>6. CASE \E j \in DOMAIN rates[p] : rates[p][i].from < rates[p][j].from
        BY <4>1, <4>2, <4>6 DEF Replaced
      <4>7. ASSUME NEW v \in Updaters, Cause(v, p, i) PROVE Replaced(p, i)'
        <5>1. CASE v = u
          <6>1. rates'[p][i].from < rates'[p][last].from
            BY <3>0, <4>1, <4>2, <4>3, <4>4, <4>7, <5>1 DEF Cause
          <6> QED
            BY <6>1 DEF Replaced
        <5>2. CASE v # u
          <6>1. Cause(v, p, i)'
            BY <1>c, <2>2, <4>4, <4>7, <5>2
          <6> QED
            BY <6>1 DEF Replaced
        <5> QED
          BY <5>1, <5>2
      <4> QED
        BY <4>4, <4>5, <4>6, <4>7 DEF Replaced
    <3> QED
      BY <3>1, <3>2
  <2> QED
    BY <1>3, <2>1, <2>3, <2>4, CreateOutcome
<1>4. ASSUME NEW u \in Updaters, Turns(u) PROVE Replaced(p, i)'
  <2>0. rates' = rates /\ Replaced(p, i) /\ \A v \in Updaters \ {u} : updater'[v] = updater[v]
    BY <1>1, <1>4 DEF Turns, Ready, OthersKept
  <2>1. CASE p \in broken \/ \E j \in DOMAIN rates[p] : rates[p][i].from < rates[p][j].from
    BY <1>4, <2>0, <2>1 DEF Turns, Replaced
  <2>2. ASSUME NEW v \in Updaters, Cause(v, p, i) PROVE Replaced(p, i)'
    <3>1. CASE v # u
      <4>1. Cause(v, p, i)'
        BY <1>c, <2>0, <2>2, <3>1
      <4> QED
        BY <4>1 DEF Replaced
    <3>2. CASE v = u
      <4>1. updater[u].step = "create" /\ Pair(u) = p
        BY <2>2, <3>2 DEF Cause
      <4>2. CASE broken' = broken \cup {Pair(u)}
        BY <4>1, <4>2 DEF Replaced
      <4>3. CASE updater'[u].step = updater[u].step /\ updater'[u].todo = updater[u].todo /\ updater'[u].date = now
        <5>1. rates'[p][i].from <= now
          BY <1>0, <2>0 DEF RowsOK
        <5>2. Cause(u, p, i)'
          BY <4>1, <4>3, <5>1 DEF Cause, Pair
        <5> QED
          BY <5>2 DEF Replaced
      <4> QED
        BY <1>4, <4>1, <4>2, <4>3 DEF Turns
    <3> QED
      BY <3>1, <3>2
  <2> QED
    BY <2>0, <2>1, <2>2 DEF Replaced
<1>5. ASSUME UNCHANGED <<rates, updater, broken>> PROVE Replaced(p, i)'
  BY <1>1, <1>5 DEF Replaced, Cause, Pair
<1>6. CASE \/ Tick \/ \E g \in Guests : TakeLockDate(g) \/ RecordSnapshot(g) \/ GiveUp(g)
           \/ \E g \in Guests, q \in Currencies : ReadQuote(g, q)
  BY <1>5, <1>6 DEF Tick, TakeLockDate, RecordSnapshot, GiveUp, ReadQuote
<1>7. CASE UNCHANGED vars
  BY <1>5, <1>7 DEF vars
<1> QED
  BY <1>2, <1>3, <1>4, <1>6, <1>7, TurnOutcome DEF Next, Updaters

LEMMA Invariance == Spec => [](Shape /\ Gaps)
BY ShapeInit, ShapeStep, GapStep, PTL DEF Spec

(***************************************************************************)
(* Theorems.                                                               *)
(***************************************************************************)
\* No two rows of a currency start at the same moment, for every number of administrators,
\* jobs and moments: two updates that overlap make a row each, and the unique index refuses
\* the second one of a millisecond.
THEOREM TypeCorrect == Spec => []TypeOK
<1>1. Shape => TypeOK
  <2> SUFFICES ASSUME Shape PROVE TypeOK
    OBVIOUS
  <2>0. now \in Nat
    BY DEF Shape, Times
  <2>d. ASSUME NEW d \in Times \cup {None}, Past(d) PROVE d \in (0..now) \cup {None}
    BY <2>0, <2>d DEF Past, Times
  <2>1. ASSUME NEW p \in Currencies
        PROVE  /\ rates[p] \in Seq([from : 0..now, until : (0..now) \cup {None}])
               /\ \A i, j \in DOMAIN rates[p] : i # j => rates[p][i].from # rates[p][j].from
               /\ snapshots[p] \subseteq [rate : DOMAIN rates[p], at : 0..now]
    <3>1. RowsOK(p)
      BY DEF Shape
    <3>2. snapshots[p] \subseteq [rate : DOMAIN rates[p], at : 0..now]
      BY DEF Shape
    <3>3. Len(rates[p]) \in Nat /\ DOMAIN rates[p] = 1..Len(rates[p]) /\ \A i \in DOMAIN rates[p] : rates[p][i] \in Row
      BY <3>1, LenProperties, ElementOfSeq DEF RowsOK
    <3>4. ASSUME NEW i \in DOMAIN rates[p] PROVE rates[p][i] \in [from : 0..now, until : (0..now) \cup {None}]
      <4>1. rates[p][i].until \in (0..now) \cup {None} /\ rates[p][i].from \in 0..now
        BY <2>0, <2>d, <3>1, <3>3 DEF RowsOK, Row, Times
      <4> QED
        BY <3>3, <4>1 DEF Row
    <3>5. rates[p] \in Seq([from : 0..now, until : (0..now) \cup {None}])
      BY <3>1, <3>4, SeqOfSmaller DEF RowsOK
    <3> QED
      BY <3>1, <3>2, <3>5 DEF RowsOK
  <2>2. updater \in [Updaters -> [step : {"idle", "read", "close", "create"}, todo : Seq(Currencies),
                                 date : (0..now) \cup {None}]]
    <3>1. ASSUME NEW u \in Updaters
          PROVE  updater[u] \in [step : {"idle", "read", "close", "create"}, todo : Seq(Currencies),
                                 date : (0..now) \cup {None}]
      <4>1. updater[u] \in Update /\ Past(updater[u].date)
        BY DEF Shape, Busy
      <4>2. updater[u].date \in (0..now) \cup {None}
        BY <2>d, <4>1 DEF Update
      <4> QED
        BY <4>1, <4>2 DEF Update
    <3> QED
      BY <3>1 DEF Shape
  <2>3. guest \in [Guests -> {None} \cup [of : Currencies, rate : Nat, at : (0..now) \cup {None}]]
    <3>1. ASSUME NEW g \in Guests, guest[g] # None
          PROVE  guest[g] \in [of : Currencies, rate : Nat, at : (0..now) \cup {None}]
      <4>1. guest[g] \in [of : Currencies, rate : Nat, at : Times \cup {None}] /\ Past(guest[g].at)
        BY <3>1 DEF Shape, Guest, Locked
      <4>2. guest[g].at \in (0..now) \cup {None}
        BY <2>d, <4>1
      <4> QED
        BY <4>1, <4>2
    <3> QED
      BY <3>1 DEF Shape
  <2> QED
    BY <2>1, <2>2, <2>3 DEF Shape, TypeOK, Locked
<1> QED
  BY <1>1, Invariance, PTL

\* The newest row of a currency is current when nothing excuses that it is not.
LEMMA NewestCurrent ==
  ASSUME Shape, Gaps, NEW p \in Currencies, rates[p] # <<>>, ~Updating(p), p \notin broken
  PROVE  \E m \in Current(p) : \A i \in DOMAIN rates[p] : rates[p][i].from <= rates[p][m].from
<1>1. PICK m \in DOMAIN rates[p] : \A i \in DOMAIN rates[p] : rates[p][i].from <= rates[p][m].from
  BY DEF Shape, RowsOK, Newest
<1>2. \A i \in DOMAIN rates[p] : rates[p][i].from \in Nat
  <2>1. RowsOK(p)
    BY DEF Shape
  <2>2. \A i \in DOMAIN rates[p] : rates[p][i] \in Row
    BY <2>1, ElementOfSeq, LenProperties DEF RowsOK
  <2> QED
    BY <2>2 DEF Row, Times
<1>3. ~Replaced(p, m)
  BY <1>1, <1>2 DEF Replaced, Cause, Updating
<1> QED
  BY <1>1, <1>3 DEF Gaps, Current

\* What getExchangeRate answers is the row with the latest validFrom, however many updates
\* overlapped, when none is between its statements and none failed there.
THEOREM NewestQuoted == Spec => []QuoteIsNewest
<1>1. Shape /\ Gaps => QuoteIsNewest
  <2> SUFFICES ASSUME Shape, Gaps, NEW p \in Currencies, rates[p] # <<>>, ~Updating(p), p \notin broken
               PROVE  Quotes(p) = Latest(p, DOMAIN rates[p])
    BY DEF QuoteIsNewest
  <2>1. PICK m \in Current(p) : \A i \in DOMAIN rates[p] : rates[p][i].from <= rates[p][m].from
    BY NewestCurrent
  <2>2. \A i, j \in DOMAIN rates[p] : i # j => rates[p][i].from # rates[p][j].from
    BY DEF Shape, RowsOK
  <2>3. \A i \in DOMAIN rates[p] : rates[p][i].from \in Nat
    <3>1. RowsOK(p)
      BY DEF Shape
    <3>2. \A i \in DOMAIN rates[p] : rates[p][i] \in Row
      BY <3>1, ElementOfSeq, LenProperties DEF RowsOK
    <3> QED
      BY <3>2 DEF Row, Times
  <2>4. ASSUME NEW R \in SUBSET DOMAIN rates[p], m \in R PROVE Latest(p, R) = {m}
    BY <2>1, <2>2, <2>3, <2>4 DEF Latest
  <2>5. Current(p) \subseteq DOMAIN rates[p]
    BY DEF Current
  <2>6. Latest(p, Current(p)) = {m} /\ Latest(p, DOMAIN rates[p]) = {m}
    BY <2>4, <2>5
  <2> QED
    BY <2>6 DEF Quotes
<1> QED
  BY <1>1, Invariance, PTL

\* A currency that had a rate is without a current one only while an update is between
\* its two statements, or after one failed there.
THEOREM GapsHaveACause == Spec => []GapOnlyInUpdates
<1>1. Shape /\ Gaps => GapOnlyInUpdates
  BY NewestCurrent DEF GapOnlyInUpdates
<1> QED
  BY <1>1, Invariance, PTL

\* What getExchangeRateAt answers for a past moment that a snapshot covers is fixed: a
\* snapshot still to be written carries a later date.
THEOREM HistoryKept == Spec => HistoryFixed
<1>1. Shape /\ [Next]_vars =>
        [\A p \in Currencies, date \in 0..(now - 1) :
           /\ LockedBy(p, date) # {}
           /\ \A g \in Guests : Locking(g) => date < guest[g].at
           => QuotesAt(p, date)' = QuotesAt(p, date)]_vars
  <2> SUFFICES ASSUME Shape, Next, NEW p \in Currencies, NEW date \in 0..(now - 1), LockedBy(p, date) # {},
                      \A g \in Guests : Locking(g) => date < guest[g].at
               PROVE  QuotesAt(p, date)' = QuotesAt(p, date)
    OBVIOUS
  <2>0. now \in Nat /\ date \in Nat
    BY DEF Shape, Times
  <2>1. CASE UNCHANGED snapshots
    <3>1. LockedBy(p, date)' = LockedBy(p, date)
      BY <2>1 DEF LockedBy
    <3> QED
      BY <3>1 DEF QuotesAt, LastLocked
  <2>2. CASE \E g \in Guests : RecordSnapshot(g)
    <3>1. PICK g \in Guests : RecordSnapshot(g)
      BY <2>2
    <3>0. guest[g] \in [of : Currencies, rate : Nat, at : Times \cup {None}] /\ guest[g].at # None
      BY <3>1 DEF RecordSnapshot, Locking, Shape, Guest
    <3>2. LockedBy(p, date)' = LockedBy(p, date)
      <4>1. PICK at \in Nat : at = guest[g].at /\ date < at
        BY <3>0, <3>1 DEF RecordSnapshot, Times
      <4>2. snapshots'[p] = snapshots[p] \/ snapshots'[p] = snapshots[p] \cup {[rate |-> guest[g].rate, at |-> at]}
        BY <3>0, <3>1, <4>1 DEF RecordSnapshot, Shape
      <4>3. ~([rate |-> guest[g].rate, at |-> at].at <= date)
        BY <2>0, <4>1
      <4> QED
        BY <4>2, <4>3 DEF LockedBy
    <3> QED
      BY <3>2 DEF QuotesAt, LastLocked
  <2>3. UNCHANGED snapshots \/ \E g \in Guests : RecordSnapshot(g)
    BY DEF Next, UpdateExchangeRate, HandleRateUpdate, ReadRate, TakeDate, CloseCurrent, CreateRate, Crash, GiveUp,
           ReadQuote, TakeLockDate, Tick
  <2> QED
    BY <2>1, <2>2, <2>3
<1> QED
  BY <1>1, Invariance, PTL DEF HistoryFixed, Spec
=============================================================================
