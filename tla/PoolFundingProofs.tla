------------------------- MODULE PoolFundingProofs -------------------------
(***************************************************************************)
(* Theorems about PoolFunding, for any number of pools, keys and sessions. *)
(***************************************************************************)
EXTENDS PoolFunding, FiniteSetTheorems, TLAPS

\* What a request of each kind carries: a pool while it runs, a key when it is about a contribution.
WellFormed ==
  /\ \A s \in Sessions : req[s].at # "idle" => req[s].pool \in Pools
  /\ \A s \in Sessions : req[s].op \in {"createContribution", "deleteContribution"} => req[s].key \in Keys
  /\ \A s \in Sessions : req[s].op = "deleteContribution" =>
       contrib[req[s].key].status # "NONE" /\ contrib[req[s].key].pool = req[s].pool
  /\ \A k \in Keys : contrib[k].status # "NONE" => contrib[k].pool \in Pools

TypeInv == TypeOK /\ WellFormed

LEMMA IdleType == \A b \in {"other", "refused"} : Idle(b) \in RequestState /\ Idle(b).at = "idle" /\ Idle(b).op = "none"
BY DEF Idle, Request, RequestState, NoRow, Row, Steps, AllOperations, PoolStatuses

LEMMA InitTypeInv == Init => TypeInv
<1> SUFFICES ASSUME Init PROVE TypeInv
  OBVIOUS
<1>1. TypeOK
  BY IdleType DEF Init, TypeOK, NoRow, Row, NoContribution, Contribution, PoolStatuses
<1>2. WellFormed
  BY IdleType DEF Init, WellFormed, NoContribution
<1> QED
  BY <1>1, <1>2 DEF TypeInv

LEMMA SendTypeInv == ASSUME TypeInv, NEW s \in Sessions, Send(s) PROVE TypeInv'
<1> USE DEF TypeInv
<1>1. PICK r \in ClientRequests : r.op \in Operations /\ req' = [req EXCEPT ![s] = r]
  BY DEF Send
<1>2. /\ r \in RequestState /\ r.pool \in Pools
      /\ r.op \in {"createContribution", "deleteContribution"} => r.key \in Keys
      /\ r.op = "deleteContribution" => contrib[r.key].status # "NONE" /\ contrib[r.key].pool = r.pool
  BY ConstantsAssumption DEF ClientRequests, Request, RequestState, TypeOK, WellFormed, NoRow, Row, Steps, AllOperations, PoolStatuses
<1>3. UNCHANGED <<pool, contrib, rates, lock, paid, charges, stale>>
  BY DEF Send, database, outside
<1> QED
  BY <1>1, <1>2, <1>3 DEF TypeOK, WellFormed

(***************************************************************************)
(* The ways a handler's step changes req.                                  *)
(***************************************************************************)
Reads(s, next) == /\ req[s].at \in {"read", "readPool"}
                  /\ \/ GotoWith(s, next, pool[req[s].pool])
                     \/ ReadContribution(s) /\ Goto(s, next)
                     \/ Refuse(s) \/ Done(s)
                  /\ UNCHANGED <<database, outside>>

ReadSteps(s) == \/ ReadPoolForContribution(s) \/ ReadContribution(s) \/ ReadPoolOfContribution(s)
                \/ ReadForUpdatePool(s) \/ ReadForStatus(s) \/ ReadForPurchase(s) \/ ReadForDelivery(s) \/ ReadForDeletePool(s)

WriteSteps(s) == \/ WriteUpdatePool(s) \/ WriteStatus(s) \/ WritePurchase(s) \/ WriteDelivery(s)
                 \/ WriteDeletePool(s)

LEMMA ReadEffect == ASSUME NEW s \in Sessions, ReadSteps(s)
                    PROVE \E next \in Steps : Reads(s, next)
BY DEF ReadSteps, ReadPoolForContribution, ReadContribution, ReadPoolOfContribution, ReadForUpdatePool,
       ReadForStatus, ReadForPurchase, ReadForDelivery, ReadForDeletePool, ReadPool, Reads, At, Steps

\* Two handler states of one request.
SameRequest(q, r) == q.op = r.op /\ q.pool = r.pool /\ q.key = r.key /\ q.kzt = r.kzt /\ q.status = r.status

LEMMA CarryingEffect ==
  ASSUME NEW r \in RequestState, NEW step \in Steps, NEW row \in Row
  PROVE  /\ Carrying(r, step, row) \in RequestState
         /\ Carrying(r, step, row).at = step /\ Carrying(r, step, row).row = row
         /\ SameRequest(Carrying(r, step, row), r)
<1> DEFINE moved == [r EXCEPT !.at = step]
<1>1. moved \in RequestState /\ moved.at = step /\ SameRequest(moved, r)
  BY DEF RequestState, SameRequest
<1>2. Carrying(r, step, row) = [moved EXCEPT !.row = row]
  BY DEF Carrying
<1> HIDE DEF moved
<1>3. [moved EXCEPT !.row = row] \in RequestState
  BY <1>1 DEF RequestState
<1>4. /\ [moved EXCEPT !.row = row].at = moved.at /\ [moved EXCEPT !.row = row].row = row
      /\ SameRequest([moved EXCEPT !.row = row], moved)
  BY <1>1 DEF RequestState, SameRequest
<1> QED
  BY <1>1, <1>2, <1>3, <1>4 DEF SameRequest

LEMMA GotoWithEffect ==
  ASSUME NEW s \in Sessions, NEW step \in Steps, NEW row \in Row, req \in [Sessions -> RequestState],
         GotoWith(s, step, row)
  PROVE  /\ req' \in [Sessions -> RequestState]
         /\ req'[s].at = step /\ req'[s].row = row
         /\ SameRequest(req'[s], req[s])
         /\ \A t \in Sessions \ {s} : req'[t] = req[t]
BY CarryingEffect DEF GotoWith

LEMMA GotoEffect ==
  ASSUME NEW s \in Sessions, NEW step \in Steps, req \in [Sessions -> RequestState], Goto(s, step)
  PROVE  /\ req' \in [Sessions -> RequestState]
         /\ req'[s].at = step /\ req'[s].row = req[s].row
         /\ SameRequest(req'[s], req[s])
         /\ \A t \in Sessions \ {s} : req'[t] = req[t]
BY DEF Goto, RequestState, SameRequest

LEMMA RowTypes ==
  ASSUME NEW current \in Row, NEW read \in Row, NEW n \in Nat
  PROVE  /\ Funded(current, read, n) \in Row /\ Refunded(current, read, n) \in Row
         /\ Retargeted(current, read, n) \in Row
BY DEF Funded, Refunded, Retargeted, Row, PoolStatuses

LEMMA ReadTypeInv == ASSUME TypeInv, NEW s \in Sessions, ReadSteps(s) PROVE TypeInv'
<1>1. PICK next \in Steps : Reads(s, next)
  BY ReadEffect
<1>2. CASE GotoWith(s, next, pool[req[s].pool])
  <2>1. req[s].pool \in Pools /\ pool[req[s].pool] \in Row
    BY <1>1 DEF Reads, TypeInv, TypeOK, WellFormed
  <2> QED
    BY <1>1, <1>2, <2>1, GotoWithEffect DEF Reads, SameRequest, TypeInv, TypeOK, WellFormed, database, outside
<1>3. CASE Goto(s, next)
  BY <1>1, <1>3, GotoEffect DEF Reads, SameRequest, TypeInv, TypeOK, WellFormed, database, outside
<1>4. CASE Refuse(s) \/ Done(s)
  BY <1>1, <1>4, IdleType DEF Reads, Refuse, Done, TypeInv, TypeOK, WellFormed, database, outside
<1> QED
  BY <1>1, <1>2, <1>3, <1>4 DEF Reads

LEMMA WriteEffect == ASSUME TypeInv, NEW s \in Sessions, WriteSteps(s)
                     PROVE /\ Done(s) /\ UNCHANGED <<contrib, rates, lock, outside>>
                           /\ pool' \in [Pools -> Row]
<1>1. CASE WriteUpdatePool(s)
  <2>1. req[s].pool \in Pools /\ req[s].row \in Row /\ req[s].kzt \in Nat
    BY <1>1 DEF WriteUpdatePool, WriteRow, At, TypeInv, TypeOK, WellFormed, RequestState
  <2> QED
    <3>1. Retargeted(pool[req[s].pool], req[s].row, req[s].kzt) \in Row
      BY <2>1, RowTypes DEF TypeInv, TypeOK
    <3> QED
      BY <1>1, <3>1 DEF WriteUpdatePool, WriteRow, TypeInv, TypeOK
<1>2. CASE WriteStatus(s) \/ WritePurchase(s) \/ WriteDelivery(s)
  BY <1>2 DEF WriteStatus, WritePurchase, WriteDelivery, WriteRow, WithStatus, TypeInv, TypeOK, RequestState, Row
<1>3. CASE WriteDeletePool(s)
  BY <1>3 DEF WriteDeletePool, TypeInv, TypeOK, Row, DeletedRow
<1> QED
  BY <1>1, <1>2, <1>3 DEF WriteSteps

LEMMA WriteTypeInv == ASSUME TypeInv, NEW s \in Sessions, WriteSteps(s) PROVE TypeInv'
BY WriteEffect, IdleType DEF Done, TypeInv, TypeOK, WellFormed, outside

LEMMA TxTypeInv == ASSUME TypeInv, NEW s \in Sessions,
                          \/ TxReadRemaining(s) \/ TxLookupAndPay(s) \/ TxUpdatePool(s)
                          \/ TxCommitContribution(s) \/ RefundUpdatePool(s) \/ RefundCommit(s)
                   PROVE TypeInv'
<1> USE DEF TypeInv
<1>1. CASE TxReadRemaining(s)
  <2>1. req[s].pool \in Pools /\ pool[req[s].pool] \in Row /\ UNCHANGED <<database, outside>>
    BY <1>1 DEF TxReadRemaining, At, TypeOK, WellFormed
  <2>2. CASE GotoWith(s, "lookup", pool[req[s].pool])
    BY <2>1, <2>2, GotoWithEffect DEF SameRequest, Steps, TypeOK, WellFormed, database, outside
  <2>3. CASE Done(s) \/ Refuse(s)
    BY <2>1, <2>3, IdleType DEF Done, Refuse, TypeOK, WellFormed, database, outside
  <2> QED
    BY <1>1, <2>2, <2>3 DEF TxReadRemaining
<1>2. CASE TxLookupAndPay(s)
  <2>1. req[s].key \in Keys /\ req[s].pool \in Pools /\ UNCHANGED <<pool, contrib, rates, lock, stale>>
    BY <1>2 DEF TxLookupAndPay, At, TypeOK, WellFormed, database
  <2>2. paid' \subseteq Keys /\ charges' \in [Keys -> 0..2]
    BY <1>2, <2>1 DEF TxLookupAndPay, ProcessPayment, TypeOK
  <2>3. CASE Goto(s, "update")
    BY <2>1, <2>2, <2>3, GotoEffect DEF SameRequest, Steps, TypeOK, WellFormed
  <2>4. CASE Done(s)
    BY <2>1, <2>2, <2>4, IdleType DEF Done, TypeOK, WellFormed
  <2> QED
    BY <1>2, <2>3, <2>4 DEF TxLookupAndPay
<1>3. CASE TxUpdatePool(s)
  <2>1. /\ req[s].key \in Keys /\ req[s].pool \in Pools /\ UNCHANGED <<pool, contrib, paid, charges, stale>>
        /\ lock' \in [Pools -> Sessions \cup {None}] /\ rates' \subseteq Keys
    BY <1>3 DEF TxUpdatePool, LockRow, RecordRate, At, TypeOK, WellFormed, outside
  <2>2. CASE Goto(s, "commit")
    BY <2>1, <2>2, GotoEffect DEF SameRequest, Steps, TypeOK, WellFormed
  <2>3. CASE Done(s)
    BY <2>1, <2>3, IdleType DEF Done, TypeOK, WellFormed
  <2> QED
    BY <1>3, <2>2, <2>3 DEF TxUpdatePool, LockRow
<1>4. CASE TxCommitContribution(s)
  <2>1. req[s].pool \in Pools /\ req[s].key \in Keys /\ req[s].kzt \in Nat /\ req[s].row \in Row
    BY <1>4 DEF TxCommitContribution, At, TypeOK, WellFormed, RequestState
  <2>2. pool' \in [Pools -> Row] /\ contrib' \in [Keys -> Contribution] /\ lock' \in [Pools -> Sessions \cup {None}]
    <3>1. Funded(pool[req[s].pool], req[s].row, req[s].kzt) \in Row
      BY <2>1, RowTypes DEF TypeOK
    <3> QED
      BY <1>4, <2>1, <3>1 DEF TxCommitContribution, Release, TypeOK, Contribution
  <2>3. \A k \in Keys : contrib'[k].status # "NONE" => contrib'[k].pool \in Pools
    BY <1>4, <2>1 DEF TxCommitContribution, TypeOK, WellFormed
  <2>4. \A k \in Keys : contrib[k].status # "NONE" => contrib'[k] = contrib[k]
    BY <1>4, <2>1 DEF TxCommitContribution, Duplicate, TypeOK
  <2> QED
    BY <1>4, <2>1, <2>2, <2>3, <2>4, IdleType DEF TxCommitContribution, Done, Refuse, TypeOK, WellFormed, outside
<1>5. CASE RefundUpdatePool(s)
  BY <1>5, IdleType DEF RefundUpdatePool, LockRow, At, Done, Goto, TypeOK, WellFormed, RequestState, Steps, outside
<1>6. CASE RefundCommit(s)
  <2>1. req[s].pool \in Pools /\ req[s].key \in Keys /\ req[s].row \in Row
    BY <1>6 DEF RefundCommit, At, TypeOK, WellFormed, RequestState
  <2>2. pool' \in [Pools -> Row] /\ lock' \in [Pools -> Sessions \cup {None}]
    <3>1. Refunded(pool[req[s].pool], req[s].row, contrib[req[s].key].kzt) \in Row
      BY <2>1, RowTypes DEF TypeOK, Contribution
    <3> QED
      BY <1>6, <2>1, <3>1 DEF RefundCommit, Release, TypeOK
  <2>3. contrib' \in [Keys -> Contribution] /\ \A k \in Keys : contrib'[k].pool = contrib[k].pool
    BY <1>6, <2>1 DEF RefundCommit, TypeOK, Contribution
  <2>4. \A k \in Keys : contrib[k].status # "NONE" => contrib'[k].status # "NONE"
    BY <1>6, <2>1 DEF RefundCommit, TypeOK, Contribution
  <2>5. \A k \in Keys : contrib'[k].status # "NONE" => contrib'[k].pool \in Pools
    BY <1>6, <2>1, <2>3 DEF RefundCommit, At, TypeOK, WellFormed
  <2> QED
    BY <1>6, <2>1, <2>2, <2>3, <2>4, <2>5, IdleType DEF RefundCommit, Done, TypeOK, WellFormed, outside
<1> QED
  BY <1>1, <1>2, <1>3, <1>4, <1>5, <1>6

LEMMA CreatePoolTypeInv == ASSUME TypeInv, NEW s \in Sessions, CreatePool(s) PROVE TypeInv'
<1>1. pool' \in [Pools -> Row]
  BY ConstantsAssumption DEF CreatePool, TypeInv, TypeOK, Row, PoolStatuses
<1> QED
  BY <1>1, IdleType DEF CreatePool, Done, TypeInv, TypeOK, WellFormed, outside

LEMMA FailureTypeInv == ASSUME TypeInv, (\E s \in Sessions : Fail(s)) \/ Crash \/ WorkerCrash PROVE TypeInv'
BY IdleType DEF Fail, Crash, WorkerCrash, Done, TypeInv, TypeOK, WellFormed, database, outside

LEMMA DecayTypeInv == ASSUME TypeInv, DecayList \/ \E p \in Pools : DecayWrite(p) PROVE TypeInv'
BY DEF DecayList, DecayWrite, TypeInv, TypeOK, WellFormed, database, Row, PoolStatuses

\* How Next splits, for the step lemmas of every invariant.
LEMMA NextCases ==
  ASSUME Next
  PROVE  \/ \E s \in Sessions :
               \/ Send(s) \/ CreatePool(s) \/ ReadSteps(s) \/ WriteSteps(s) \/ Fail(s)
               \/ TxReadRemaining(s) \/ TxLookupAndPay(s) \/ TxUpdatePool(s) \/ TxCommitContribution(s)
               \/ RefundUpdatePool(s) \/ RefundCommit(s)
         \/ DecayList \/ (\E p \in Pools : DecayWrite(p)) \/ Crash \/ WorkerCrash
BY DEF Next, WaitingStep, FreeStep, ReadSteps, WriteSteps

LEMMA StutterTypeInv == TypeInv /\ UNCHANGED vars => TypeInv'
BY DEF TypeInv, TypeOK, WellFormed, vars

LEMMA TypeStep == TypeInv /\ [Next]_vars => TypeInv'
BY SendTypeInv, CreatePoolTypeInv, ReadTypeInv, WriteTypeInv, TxTypeInv, FailureTypeInv, DecayTypeInv,
   StutterTypeInv, NextCases

\* Every variable of the handlers, the worker and the database keeps its type in every reachable state.
THEOREM TypeCorrect == Spec => []TypeOK
<1>1. Init => TypeInv
  BY InitTypeInv
<1>2. TypeInv /\ [Next]_vars => TypeInv'
  BY TypeStep
<1>3. TypeInv => TypeOK
  BY DEF TypeInv
<1> QED
  BY <1>1, <1>2, <1>3, PTL DEF Spec

(***************************************************************************)
(* The overselling guard.  A row is overwritten with values computed from  *)
(* an older read of it, so the invariant is about the reads in flight: the *)
(* guard each request passed still holds of the row it carries.            *)
(***************************************************************************)
GuardHeld(r) ==
  /\ r.op = "createContribution" /\ r.at \in {"lookup", "update", "commit"} => r.kzt <= r.row.remaining
  /\ r.op = "deleteContribution" /\ r.at \in {"update", "commit"} => r.row.remaining >= 0
  /\ r.op = "updatePool" /\ r.at = "write" => r.row.total <= r.kzt

GuardInv == RemainingNonNegative /\ \A s \in Sessions : GuardHeld(req[s])

LEMMA IdleGuard == \A b \in {"other", "refused"} : GuardHeld(Idle(b))
BY DEF GuardHeld, Idle

LEMMA RequestGuard == \A r \in ClientRequests : GuardHeld(r)
BY DEF GuardHeld, ClientRequests, Request

LEMMA ReadGuard == ASSUME TypeInv, GuardInv, NEW s \in Sessions, ReadSteps(s) PROVE GuardInv'
<1>1. PICK next \in Steps : Reads(s, next)
  BY ReadEffect
<1>2. req[s].pool \in Pools /\ pool[req[s].pool] \in Row /\ pool' = pool
  BY <1>1 DEF Reads, TypeInv, TypeOK, WellFormed, database
<1>3. CASE Refuse(s) \/ Done(s)
  BY <1>2, <1>3, IdleGuard DEF Refuse, Done, GuardInv, RemainingNonNegative, TypeInv, TypeOK
<1>4. CASE ReadContribution(s) /\ ~(Refuse(s) \/ Done(s))
  <2>1. Goto(s, "readPool") /\ req[s].op = "deleteContribution" /\ req \in [Sessions -> RequestState]
    BY <1>4 DEF ReadContribution, At, TypeInv, TypeOK
  <2> QED
    BY <1>2, <2>1, GotoEffect DEF Steps, SameRequest, GuardInv, GuardHeld, RemainingNonNegative
<1>5. CASE ~ReadContribution(s) /\ ~(Refuse(s) \/ Done(s))
  <2>1. PICK step \in Steps : GotoWith(s, step, pool[req[s].pool]) /\ Reads(s, step)
    BY <1>1, <1>5 DEF Reads
  <2>2. GuardHeld(req'[s])
    <3>1. req'[s].at = step /\ req'[s].row = pool[req[s].pool] /\ SameRequest(req'[s], req[s])
      BY <1>2, <2>1, GotoWithEffect DEF TypeInv, TypeOK
    <3>2. CASE ReadForUpdatePool(s)
      BY <1>2, <1>5, <3>1, <3>2 DEF ReadForUpdatePool, ReadPool, MayRetarget, At, GuardHeld, SameRequest
    <3>3. CASE ReadPoolForContribution(s)
      <4>1. GotoWith(s, "txRead", pool[req[s].pool]) /\ req[s].op = "createContribution"
        BY <1>5, <3>3 DEF ReadPoolForContribution, ReadPool, At
      <4>2. req'[s].at = "txRead"
        BY <1>2, <4>1, GotoWithEffect DEF TypeInv, TypeOK, Steps
      <4> QED
        BY <3>1, <4>1, <4>2 DEF GuardHeld, SameRequest
    <3>4. CASE ReadPoolOfContribution(s)
      BY <1>2, <3>1, <3>4 DEF ReadPoolOfContribution, At, GuardHeld, SameRequest, GuardInv, RemainingNonNegative
    <3>5. CASE ReadForStatus(s) \/ ReadForPurchase(s) \/ ReadForDelivery(s) \/ ReadForDeletePool(s)
      BY <3>1, <3>5 DEF ReadForStatus, ReadForPurchase, ReadForDelivery, ReadForDeletePool, ReadPool, At,
         GuardHeld, SameRequest
    <3> QED
      BY <1>5, <3>2, <3>3, <3>4, <3>5 DEF ReadSteps
  <2>3. \A t \in Sessions \ {s} : req'[t] = req[t]
    BY <1>2, <2>1, GotoWithEffect DEF TypeInv, TypeOK
  <2> QED
    BY <1>2, <2>2, <2>3 DEF GuardInv, RemainingNonNegative
<1> QED
  BY <1>3, <1>5, <1>4

LEMMA WriteGuard == ASSUME TypeInv, GuardInv, NEW s \in Sessions, WriteSteps(s) PROVE GuardInv'
<1>1. \A t \in Sessions : GuardHeld(req'[t])
  BY WriteEffect, IdleGuard DEF Done, GuardInv, TypeInv, TypeOK
<1>2. RemainingNonNegative'
  <2>1. req[s].pool \in Pools /\ pool \in [Pools -> Row] /\ req[s] \in RequestState
    BY DEF WriteSteps, WriteUpdatePool, WriteStatus, WritePurchase, WriteDelivery, WriteDeletePool, WriteRow, At,
       TypeInv, TypeOK, WellFormed
  <2>2. CASE WriteUpdatePool(s)
    <3>1. Retargeted(pool[req[s].pool], req[s].row, req[s].kzt).remaining >= 0
      BY <2>1, <2>2 DEF WriteUpdatePool, WriteRow, At, Retargeted, GuardInv, GuardHeld, RequestState, Row
    <3> QED
      BY <2>1, <2>2, <3>1 DEF WriteUpdatePool, WriteRow, GuardInv, RemainingNonNegative
  <2>3. CASE WriteStatus(s) \/ WritePurchase(s) \/ WriteDelivery(s)
    <3>1. WithStatus(s).remaining = pool[req[s].pool].remaining
      BY <2>1 DEF WithStatus, Row
    <3> QED
      BY <2>1, <2>3, <3>1 DEF WriteStatus, WritePurchase, WriteDelivery, WriteRow, GuardInv, RemainingNonNegative
  <2>4. CASE WriteDeletePool(s)
    BY <2>1, <2>4 DEF WriteDeletePool, DeletedRow, GuardInv, RemainingNonNegative
  <2> QED
    BY <2>2, <2>3, <2>4 DEF WriteSteps
<1> QED
  BY <1>1, <1>2 DEF GuardInv

LEMMA TxGuard == ASSUME TypeInv, GuardInv, NEW s \in Sessions,
                        \/ TxReadRemaining(s) \/ TxLookupAndPay(s) \/ TxUpdatePool(s)
                        \/ TxCommitContribution(s) \/ RefundUpdatePool(s) \/ RefundCommit(s)
                 PROVE GuardInv'
<1>0. req \in [Sessions -> RequestState] /\ pool \in [Pools -> Row]
  BY DEF TypeInv, TypeOK
<1>1. CASE TxReadRemaining(s)
  <2>1. req[s].pool \in Pools /\ pool[req[s].pool] \in Row /\ pool' = pool /\ req[s].op = "createContribution"
    BY <1>1 DEF TxReadRemaining, At, TypeInv, TypeOK, WellFormed, database
  <2>2. CASE Done(s) \/ Refuse(s)
    BY <1>0, <2>1, <2>2, IdleGuard DEF Done, Refuse, GuardInv, RemainingNonNegative
  <2>3. CASE ~(Done(s) \/ Refuse(s))
    <3>1. GotoWith(s, "lookup", pool[req[s].pool]) /\ req[s].kzt <= pool[req[s].pool].remaining
      BY <1>1, <2>3 DEF TxReadRemaining, Fits
    <3> QED
      BY <1>0, <2>1, <3>1, GotoWithEffect DEF Steps, SameRequest, GuardInv, GuardHeld, RemainingNonNegative
  <2> QED
    BY <2>2, <2>3
<1>2. CASE TxLookupAndPay(s)
  <2>1. pool' = pool /\ At(s, "createContribution", "lookup")
    BY <1>2 DEF TxLookupAndPay, database
  <2>2. CASE Goto(s, "update")
    BY <1>0, <2>1, <2>2, GotoEffect DEF At, Steps, SameRequest, GuardInv, GuardHeld, RemainingNonNegative
  <2>3. CASE Done(s)
    BY <1>0, <2>1, <2>3, IdleGuard DEF Done, GuardInv, RemainingNonNegative
  <2> QED
    BY <1>2, <2>2, <2>3 DEF TxLookupAndPay
<1>3. CASE TxUpdatePool(s) \/ RefundUpdatePool(s)
  <2>1. pool' = pool /\ (At(s, "createContribution", "update") \/ At(s, "deleteContribution", "update"))
    BY <1>3 DEF TxUpdatePool, RefundUpdatePool
  <2>2. CASE Goto(s, "commit")
    BY <1>0, <2>1, <2>2, GotoEffect DEF At, Steps, SameRequest, GuardInv, GuardHeld, RemainingNonNegative
  <2>3. CASE Done(s)
    BY <1>0, <2>1, <2>3, IdleGuard DEF Done, GuardInv, RemainingNonNegative
  <2> QED
    BY <1>3, <2>2, <2>3 DEF TxUpdatePool, RefundUpdatePool, LockRow
<1>4. CASE TxCommitContribution(s)
  <2>1. req[s].row \in Row /\ req[s].kzt \in Nat /\ req[s].kzt <= req[s].row.remaining
    BY <1>0, <1>4 DEF TxCommitContribution, At, RequestState, GuardInv, GuardHeld
  <2>2. Funded(pool[req[s].pool], req[s].row, req[s].kzt).remaining >= 0
    BY <2>1 DEF Funded, Row
  <2>3. RemainingNonNegative'
    BY <1>0, <1>4, <2>2 DEF TxCommitContribution, GuardInv, RemainingNonNegative
  <2> QED
    BY <1>0, <1>4, <2>3, IdleGuard DEF TxCommitContribution, Done, Refuse, GuardInv
<1>5. CASE RefundCommit(s)
  <2>1. /\ req[s].row \in Row /\ req[s].row.remaining >= 0
        /\ contrib[req[s].key].kzt \in Nat
    BY <1>0, <1>5 DEF RefundCommit, At, RequestState, GuardInv, GuardHeld, TypeInv, TypeOK, WellFormed, Contribution
  <2>2. Refunded(pool[req[s].pool], req[s].row, contrib[req[s].key].kzt).remaining >= 0
    BY <2>1 DEF Refunded, Row
  <2>3. RemainingNonNegative'
    BY <1>0, <1>5, <2>2 DEF RefundCommit, GuardInv, RemainingNonNegative
  <2> QED
    BY <1>0, <1>5, <2>3, IdleGuard DEF RefundCommit, Done, GuardInv
<1> QED
  BY <1>1, <1>2, <1>3, <1>4, <1>5

LEMMA OtherGuard == ASSUME TypeInv, GuardInv,
                           \/ \E s \in Sessions : Send(s) \/ CreatePool(s) \/ Fail(s)
                           \/ DecayList \/ (\E p \in Pools : DecayWrite(p)) \/ Crash \/ WorkerCrash
                    PROVE GuardInv'
<1> USE DEF GuardInv
<1>0. req \in [Sessions -> RequestState] /\ pool \in [Pools -> Row]
  BY DEF TypeInv, TypeOK
<1>1. CASE \E s \in Sessions : Send(s)
  BY <1>0, <1>1, RequestGuard DEF Send, RemainingNonNegative, database
<1>2. CASE \E s \in Sessions : CreatePool(s)
  <2>1. RemainingNonNegative'
    BY <1>0, <1>2, ConstantsAssumption DEF CreatePool, RemainingNonNegative
  <2> QED
    BY <1>0, <1>2, <2>1, IdleGuard DEF CreatePool, Done
<1>3. CASE (\E s \in Sessions : Fail(s)) \/ Crash
  BY <1>0, <1>3, IdleGuard DEF Fail, Crash, Done, RemainingNonNegative
<1>4. CASE DecayList \/ WorkerCrash
  BY <1>4 DEF DecayList, WorkerCrash, RemainingNonNegative, database
<1>5. CASE \E p \in Pools : DecayWrite(p)
  <2>1. RemainingNonNegative'
    BY <1>0, <1>5 DEF DecayWrite, RemainingNonNegative, Row
  <2> QED
    BY <1>5, <2>1 DEF DecayWrite
<1> QED
  BY <1>1, <1>2, <1>3, <1>4, <1>5

LEMMA GuardStep == TypeInv /\ GuardInv /\ [Next]_vars => GuardInv'
<1>1. ASSUME TypeInv, GuardInv, Next PROVE GuardInv'
  BY <1>1, NextCases, ReadGuard, WriteGuard, TxGuard, OtherGuard
<1>2. ASSUME GuardInv, UNCHANGED vars PROVE GuardInv'
  BY <1>2 DEF GuardInv, RemainingNonNegative, vars
<1> QED
  BY <1>1, <1>2

\* No interleaving of contributions, refunds, target changes, failures and restarts leaves a pool with
\* a negative remaining target: createContribution's guard is never undone by a stale write.
THEOREM NeverNegative == Spec => []RemainingNonNegative
<1>1. Init => TypeInv /\ GuardInv
  BY InitTypeInv, IdleGuard DEF Init, GuardInv, RemainingNonNegative, NoRow
<1>2. TypeInv /\ GuardInv /\ [Next]_vars => TypeInv' /\ GuardInv'
  BY TypeStep, GuardStep
<1>3. GuardInv => RemainingNonNegative
  BY DEF GuardInv
<1> QED
  BY <1>1, <1>2, <1>3, PTL DEF Spec

(***************************************************************************)
(* What each kind of step can come to, for the invariants below.           *)
(***************************************************************************)
Ends(s) == req'[s].at = "idle" /\ req'[s].op = "none"
Resumes(s, step) == req'[s].at = step /\ SameRequest(req'[s], req[s])
Others(s) == \A t \in Sessions \ {s} : req'[t] = req[t]

LEMMA EndsEffect == ASSUME req \in [Sessions -> RequestState], NEW s \in Sessions, Done(s) \/ Refuse(s)
                    PROVE  Ends(s) /\ Others(s)
BY IdleType DEF Done, Refuse, Ends, Others

LEMMA RunningType ==
  ASSUME TypeInv, NEW s \in Sessions, req[s].at # "idle"
  PROVE  /\ req[s].pool \in Pools /\ pool[req[s].pool] \in Row
         /\ req[s].row \in Row /\ req[s].kzt \in Nat
         /\ req[s].op \in {"createContribution", "deleteContribution"} =>
              req[s].key \in Keys /\ contrib[req[s].key] \in Contribution
BY DEF TypeInv, TypeOK, WellFormed, RequestState

\* A read ends the request or goes on: a refund first with its contribution, then every handler with the
\* row of the moment, checked.
PicksGift(s) ==
  LET r == req[s] IN
  /\ r.op = "deleteContribution" /\ contrib[r.key].status = "COMPLETED"
  /\ Resumes(s, "readPool") /\ req'[s].row = r.row

ReadGoesOn(s) ==
  LET r == req[s] IN
  /\ Exists(r.pool) /\ req'[s].row = pool[r.pool]
  /\ \/ r.op = "createContribution" /\ r.kzt > 0 /\ Resumes(s, "txRead")
     \/ r.op = "deleteContribution" /\ r.at = "readPool" /\ Resumes(s, "update")
     \/ r.op = "updatePool" /\ MayRetarget(pool[r.pool], r.kzt) /\ Resumes(s, "write")
     \/ r.op \in {"updatePoolStatus", "purchasePool", "deliverPool", "deletePool"} /\ Resumes(s, "write")

LEMMA ReadOutcome ==
  ASSUME TypeInv, NEW s \in Sessions, ReadSteps(s)
  PROVE  /\ Others(s) /\ UNCHANGED <<pool, contrib, rates, lock, paid, charges, stale>>
         /\ req[s].at \in {"read", "readPool"}
         /\ Ends(s) \/ PicksGift(s) \/ ReadGoesOn(s)
<1> DEFINE row == pool[req[s].pool]
<1>1. PICK step \in Steps : Reads(s, step)
  BY ReadEffect
<1>2. req[s].at \in {"read", "readPool"} /\ UNCHANGED <<pool, contrib, rates, lock, paid, charges, stale>>
  BY <1>1 DEF Reads, database, outside
<1>3. req \in [Sessions -> RequestState] /\ row \in Row
  BY <1>2, RunningType DEF TypeInv, TypeOK
<1>4. CASE Refuse(s) \/ Done(s)
  BY <1>2, <1>3, <1>4, EndsEffect
<1>5. ASSUME NEW next \in Steps, GotoWith(s, next, row)
      PROVE  Others(s) /\ Resumes(s, next) /\ req'[s].row = row
  BY <1>3, <1>5, GotoWithEffect DEF Others, Resumes
<1>6. CASE ~(Refuse(s) \/ Done(s))
  <2>1. CASE ReadPoolForContribution(s)
    <3>1. /\ GotoWith(s, "txRead", row) /\ Exists(req[s].pool) /\ req[s].kzt > 0
          /\ req[s].op = "createContribution"
      BY <1>6, <2>1 DEF ReadPoolForContribution, ReadPool, At
    <3> QED
      BY <1>2, <1>5, <3>1 DEF ReadGoesOn, Steps
  <2>2. CASE ReadContribution(s)
    <3>1. Goto(s, "readPool") /\ contrib[req[s].key].status = "COMPLETED" /\ req[s].op = "deleteContribution"
      BY <1>6, <2>2 DEF ReadContribution, At
    <3> QED
      BY <1>2, <1>3, <3>1, GotoEffect DEF PicksGift, Others, Resumes, Steps
  <2>3. CASE ReadForUpdatePool(s)
    <3>1. /\ GotoWith(s, "write", row) /\ Exists(req[s].pool) /\ MayRetarget(row, req[s].kzt)
          /\ req[s].op = "updatePool"
      BY <1>6, <2>3 DEF ReadForUpdatePool, ReadPool, At
    <3> QED
      BY <1>2, <1>5, <3>1 DEF ReadGoesOn, Steps
  <2>4. CASE ReadForStatus(s) \/ ReadForPurchase(s) \/ ReadForDelivery(s) \/ ReadForDeletePool(s)
    <3>1. /\ GotoWith(s, "write", row) /\ Exists(req[s].pool)
          /\ req[s].op \in {"updatePoolStatus", "purchasePool", "deliverPool", "deletePool"}
      BY <1>6, <2>4 DEF ReadForStatus, ReadForPurchase, ReadForDelivery, ReadForDeletePool, ReadPool, At
    <3> QED
      BY <1>2, <1>5, <3>1 DEF ReadGoesOn, Steps
  <2>5. CASE ReadPoolOfContribution(s)
    <3>1. /\ GotoWith(s, "update", row) /\ Exists(req[s].pool)
          /\ req[s].op = "deleteContribution" /\ req[s].at = "readPool"
      BY <1>6, <2>5 DEF ReadPoolOfContribution, At
    <3> QED
      BY <1>2, <1>5, <3>1 DEF ReadGoesOn, Steps
  <2> QED
    BY <2>1, <2>2, <2>3, <2>4, <2>5 DEF ReadSteps
<1> QED
  BY <1>4, <1>6

LEMMA TxReadOutcome ==
  ASSUME TypeInv, NEW s \in Sessions, TxReadRemaining(s)
  PROVE  /\ Others(s) /\ UNCHANGED <<pool, contrib, rates, lock, paid, charges, stale>>
         /\ At(s, "createContribution", "txRead")
         /\ \/ Ends(s)
            \/ /\ Exists(req[s].pool) /\ req[s].kzt <= pool[req[s].pool].remaining
               /\ Resumes(s, "lookup") /\ req'[s].row = pool[req[s].pool]
<1>1. /\ req \in [Sessions -> RequestState] /\ pool[req[s].pool] \in Row
      /\ At(s, "createContribution", "txRead") /\ UNCHANGED <<pool, contrib, rates, lock, paid, charges, stale>>
  BY RunningType DEF TxReadRemaining, At, TypeInv, TypeOK, database, outside
<1>2. CASE Done(s) \/ Refuse(s)
  BY <1>1, <1>2, EndsEffect
<1>3. CASE ~(Done(s) \/ Refuse(s))
  <2>1. /\ GotoWith(s, "lookup", pool[req[s].pool]) /\ Exists(req[s].pool)
        /\ req[s].kzt <= pool[req[s].pool].remaining
    BY <1>3 DEF TxReadRemaining, Fits
  <2> QED
    BY <1>1, <2>1, GotoWithEffect DEF Others, Resumes, Steps
<1> QED
  BY <1>2, <1>3

LEMMA PayOutcome ==
  ASSUME TypeInv, NEW s \in Sessions, TxLookupAndPay(s)
  PROVE  /\ Others(s) /\ UNCHANGED <<pool, contrib, rates, lock, stale>>
         /\ At(s, "createContribution", "lookup")
         /\ \/ Ends(s) /\ UNCHANGED <<paid, charges>>
            \/ /\ Resumes(s, "update") /\ req'[s].row = req[s].row
               /\ contrib[req[s].key].status = "NONE" /\ ProcessPayment(req[s].key)
<1>1. /\ req \in [Sessions -> RequestState] /\ At(s, "createContribution", "lookup")
      /\ UNCHANGED <<pool, contrib, rates, lock, stale>>
  BY DEF TxLookupAndPay, TypeInv, TypeOK, database
<1>2. CASE contrib[req[s].key].status # "NONE"
  BY <1>1, <1>2, EndsEffect DEF TxLookupAndPay
<1>3. CASE contrib[req[s].key].status = "NONE"
  BY <1>1, <1>3, GotoEffect DEF TxLookupAndPay, Others, Resumes, Steps
<1> QED
  BY <1>2, <1>3

LEMMA LockOutcome ==
  ASSUME TypeInv, NEW s \in Sessions, TxUpdatePool(s) \/ RefundUpdatePool(s)
  PROVE  /\ Others(s) /\ UNCHANGED <<pool, contrib, paid, charges, stale>>
         /\ lock[req[s].pool] = None
         /\ \/ At(s, "createContribution", "update")
            \/ At(s, "deleteContribution", "update") /\ UNCHANGED rates
         /\ \/ Ends(s) /\ UNCHANGED <<lock, rates>>
            \/ /\ Exists(req[s].pool) /\ Resumes(s, "commit") /\ req'[s].row = req[s].row
               /\ lock' = [lock EXCEPT ![req[s].pool] = s]
               /\ req[s].op = "createContribution" => RecordRate(req[s].key)
<1>1. /\ req \in [Sessions -> RequestState] /\ UNCHANGED <<pool, contrib, paid, charges, stale>>
      /\ lock[req[s].pool] = None
      /\ \/ At(s, "createContribution", "update")
         \/ At(s, "deleteContribution", "update") /\ UNCHANGED rates
  BY DEF TxUpdatePool, RefundUpdatePool, LockRow, TypeInv, TypeOK, outside
<1>2. CASE Exists(req[s].pool)
  <2>1. Goto(s, "commit") /\ lock' = [lock EXCEPT ![req[s].pool] = s]
    BY <1>2 DEF TxUpdatePool, RefundUpdatePool, LockRow
  <2>2. req[s].op = "createContribution" => RecordRate(req[s].key)
    BY <1>2 DEF TxUpdatePool, RefundUpdatePool, At
  <2> QED
    BY <1>1, <1>2, <2>1, <2>2, GotoEffect DEF Others, Resumes, Steps
<1>3. CASE ~Exists(req[s].pool)
  <2>1. Done(s) /\ UNCHANGED <<lock, rates>>
    BY <1>3 DEF TxUpdatePool, RefundUpdatePool, LockRow
  <2> QED
    BY <1>1, <2>1, EndsEffect
<1> QED
  BY <1>2, <1>3

\* What a row holds, column by column.
HasRow(row, status, target, total, remaining) ==
  row.status = status /\ row.target = target /\ row.total = total /\ row.remaining = remaining

HasGift(gift, status, p, n) == gift.status = status /\ gift.pool = p /\ gift.kzt = n

\* Only one row of pool, or of contrib, may change.
OnlyPool(p) == \A q \in Pools \ {p} : pool'[q] = pool[q]
OnlyKey(k) == \A j \in Keys \ {k} : contrib'[j] = contrib[j]

LEMMA CommitOutcome ==
  ASSUME TypeInv, NEW s \in Sessions, TxCommitContribution(s)
  PROVE  LET r == req[s] IN
         /\ Ends(s) /\ Others(s) /\ UNCHANGED <<rates, paid, charges, stale>>
         /\ At(s, "createContribution", "commit") /\ lock' = [lock EXCEPT ![r.pool] = None]
         /\ \/ UNCHANGED <<pool, contrib>>
            \/ /\ OnlyKey(r.key) /\ OnlyPool(r.pool)
               /\ contrib[r.key].status = "NONE"
               /\ HasGift(contrib'[r.key], "COMPLETED", r.pool, r.kzt)
               /\ HasRow(pool'[r.pool], IF r.row.remaining = r.kzt THEN "FUNDED" ELSE "FUNDING",
                         pool[r.pool].target, r.row.total + r.kzt, r.row.remaining - r.kzt)
<1>1. /\ Ends(s) /\ Others(s) /\ UNCHANGED <<rates, paid, charges, stale>>
      /\ At(s, "createContribution", "commit") /\ lock' = [lock EXCEPT ![req[s].pool] = None]
  BY EndsEffect DEF TxCommitContribution, Release, TypeInv, TypeOK, outside
<1>2. req[s].pool \in Pools /\ req[s].key \in Keys
  BY <1>1, RunningType DEF At
<1> QED
  BY <1>1, <1>2 DEF TxCommitContribution, Duplicate, Funded, HasGift, HasRow, OnlyKey, OnlyPool, TypeInv, TypeOK

LEMMA RefundOutcome ==
  ASSUME TypeInv, NEW s \in Sessions, RefundCommit(s)
  PROVE  LET r == req[s] IN
         /\ Ends(s) /\ Others(s) /\ UNCHANGED <<rates, paid, charges, stale>>
         /\ At(s, "deleteContribution", "commit") /\ lock' = [lock EXCEPT ![r.pool] = None]
         /\ OnlyKey(r.key) /\ OnlyPool(r.pool)
         /\ contrib[r.key].status # "NONE" /\ contrib[r.key].pool = r.pool
         /\ HasGift(contrib'[r.key], "REFUNDED", r.pool, contrib[r.key].kzt)
         /\ HasRow(pool'[r.pool], "FUNDING", pool[r.pool].target, r.row.total - contrib[r.key].kzt,
                   r.row.remaining + contrib[r.key].kzt)
<1>1. /\ Ends(s) /\ Others(s) /\ UNCHANGED <<rates, paid, charges, stale>>
      /\ At(s, "deleteContribution", "commit") /\ lock' = [lock EXCEPT ![req[s].pool] = None]
  BY EndsEffect DEF RefundCommit, Release, TypeInv, TypeOK, outside
<1>2. /\ req[s].pool \in Pools /\ req[s].key \in Keys /\ contrib[req[s].key] \in Contribution
      /\ contrib[req[s].key].status # "NONE" /\ contrib[req[s].key].pool = req[s].pool
  BY <1>1, RunningType DEF At, TypeInv, WellFormed
<1>3. [contrib[req[s].key] EXCEPT !.status = "REFUNDED"] =
        [status |-> "REFUNDED", pool |-> req[s].pool, kzt |-> contrib[req[s].key].kzt]
  BY <1>2 DEF Contribution
<1> QED
  BY <1>1, <1>2, <1>3 DEF RefundCommit, Refunded, HasGift, HasRow, OnlyKey, OnlyPool, TypeInv, TypeOK

\* A row that differs from another in its status only.
SameMoney(row, old) == row.target = old.target /\ row.total = old.total /\ row.remaining = old.remaining

\* A write outside a transaction finds its row free, and touches no other.
Writes(s) ==
  LET p == req[s].pool IN
  \/ UNCHANGED pool
  \/ /\ Exists(p) /\ OnlyPool(p)
     /\ \/ req[s].op = "updatePool" /\ HasRow(pool'[p], pool[p].status, req[s].kzt, pool[p].total,
                                                req[s].kzt - req[s].row.total)
        \/ /\ req[s].op \in {"updatePoolStatus", "purchasePool", "deliverPool"}
           /\ pool'[p].status = req[s].status /\ SameMoney(pool'[p], pool[p])
        \/ req[s].op = "deletePool" /\ InPool(p) = {} /\ HasRow(pool'[p], "DELETED", 0, 0, 0)

LEMMA WriteOutcome ==
  ASSUME TypeInv, NEW s \in Sessions, WriteSteps(s)
  PROVE  /\ Ends(s) /\ Others(s) /\ UNCHANGED <<contrib, rates, lock, paid, charges, stale>>
         /\ req[s].at = "write" /\ lock[req[s].pool] = None
         /\ Writes(s)
<1>1. Ends(s) /\ Others(s) /\ UNCHANGED <<contrib, rates, lock, paid, charges, stale>>
  BY WriteEffect, EndsEffect DEF TypeInv, TypeOK, outside
<1>2. req[s].at = "write" /\ lock[req[s].pool] = None
  BY DEF WriteSteps, WriteUpdatePool, WriteStatus, WritePurchase, WriteDelivery, WriteRow, WriteDeletePool, At
<1>3. req[s].pool \in Pools /\ pool \in [Pools -> Row] /\ pool[req[s].pool] \in Row
  BY <1>2, RunningType DEF TypeInv, TypeOK
<1>4. Writes(s)
  <2>1. CASE WriteUpdatePool(s)
    BY <1>3, <2>1 DEF WriteUpdatePool, WriteRow, Retargeted, HasRow, At, Writes, OnlyPool
  <2>2. CASE WriteStatus(s) \/ WritePurchase(s) \/ WriteDelivery(s)
    <3>1. WithStatus(s).status = req[s].status /\ SameMoney(WithStatus(s), pool[req[s].pool])
      BY <1>3 DEF WithStatus, SameMoney, Row
    <3> QED
      BY <1>3, <2>2, <3>1 DEF WriteStatus, WritePurchase, WriteDelivery, WriteRow, At, Writes, OnlyPool
  <2>3. CASE WriteDeletePool(s)
    BY <1>3, <2>3 DEF WriteDeletePool, Restricted, DeletedRow, HasRow, At, Writes, OnlyPool
  <2> QED
    BY <2>1, <2>2, <2>3 DEF WriteSteps
<1> QED
  BY <1>1, <1>2, <1>4

LEMMA SendOutcome ==
  ASSUME TypeInv, NEW s \in Sessions, Send(s)
  PROVE  /\ Others(s) /\ UNCHANGED <<pool, contrib, rates, lock, paid, charges, stale>>
         /\ req[s].at = "idle" /\ req'[s].at = "read"
         /\ req'[s].op \in Operations /\ req'[s] \in ClientRequests
BY DEF Send, ClientRequests, Request, Others, TypeInv, TypeOK, database, outside

LEMMA CreatePoolOutcome ==
  ASSUME TypeInv, NEW s \in Sessions, CreatePool(s)
  PROVE  /\ Ends(s) /\ Others(s) /\ UNCHANGED <<contrib, rates, lock, paid, charges, stale>>
         /\ req[s].at = "idle"
         /\ \E p \in Pools, t \in Targets :
              /\ pool[p].status = "NONE" /\ t > 0 /\ OnlyPool(p)
              /\ HasRow(pool'[p], "PENDING", t, 0, t)
BY EndsEffect DEF CreatePool, HasRow, OnlyPool, TypeInv, TypeOK, outside

LEMMA FailOutcome ==
  ASSUME TypeInv, NEW s \in Sessions, Fail(s)
  PROVE  /\ Ends(s) /\ Others(s) /\ UNCHANGED <<pool, contrib, rates, paid, charges, stale>>
         /\ lock' = [p \in Pools |-> IF lock[p] = s THEN None ELSE lock[p]]
BY EndsEffect DEF Fail, TypeInv, TypeOK, outside

LEMMA CrashOutcome ==
  ASSUME TypeInv, Crash
  PROVE  /\ \A s \in Sessions : Ends(s)
         /\ UNCHANGED <<pool, contrib, rates, charges, stale>> /\ paid' = {}
         /\ lock' = [p \in Pools |-> None]
BY IdleType DEF Crash, Ends

\* The worker changes the status of an existing pool, if anything.
LEMMA WorkerOutcome ==
  ASSUME TypeInv, DecayList \/ (\E p \in Pools : DecayWrite(p)) \/ WorkerCrash
  PROVE  /\ UNCHANGED <<contrib, rates, lock, paid, charges, req>>
         /\ \/ UNCHANGED pool
            \/ \E p \in Pools : /\ Exists(p) /\ OnlyPool(p)
                                /\ pool'[p].status = "PENDING" /\ SameMoney(pool'[p], pool[p])
<1>1. CASE DecayList \/ WorkerCrash
  BY <1>1 DEF DecayList, WorkerCrash, database
<1>2. CASE \E p \in Pools : DecayWrite(p)
  <2>1. PICK p \in Pools : DecayWrite(p)
    BY <1>2
  <2>2. pool \in [Pools -> Row] /\ pool[p] \in Row
    BY DEF TypeInv, TypeOK
  <2>3. /\ [pool[p] EXCEPT !.status = "PENDING"].status = "PENDING"
        /\ SameMoney([pool[p] EXCEPT !.status = "PENDING"], pool[p])
    BY <2>2 DEF SameMoney, Row
  <2> QED
    BY <2>1, <2>2, <2>3 DEF DecayWrite, OnlyPool, SameMoney
<1> QED
  BY <1>1, <1>2

(***************************************************************************)
(* A running request carries what its client sent.                         *)
(***************************************************************************)
AsSent(r) ==
  r.at # "idle" =>
    /\ r.op \in Operations
    /\ r.op = "createContribution" => r.kzt \in Amounts
    /\ r.op = "updatePool" => r.kzt \in Targets
    /\ r.op \in {"updatePoolStatus", "purchasePool", "deliverPool"} => r.status \in PoolStatuses
    /\ r.op = "purchasePool" => r.status = "PURCHASED"
    /\ r.op = "deliverPool" => r.status = "DELIVERED"
    /\ r.op = "createContribution" /\ r.at # "read" => r.kzt > 0

Sent == \A s \in Sessions : AsSent(req[s])

LEMMA RequestSent == \A r \in ClientRequests : r.op \in Operations => AsSent(r)
BY DEF AsSent, ClientRequests, Request, PoolStatuses

LEMMA EndsSent == ASSUME Sent, NEW s \in Sessions, Others(s), Ends(s) PROVE Sent'
BY DEF Sent, AsSent, Others, Ends

LEMMA ResumesSent ==
  ASSUME Sent, NEW s \in Sessions, req[s].at # "idle", Others(s), NEW step \in Steps, Resumes(s, step),
         req[s].op = "createContribution" /\ req[s].at = "read" => req[s].kzt > 0
  PROVE  Sent'
<1>1. AsSent(req'[s])
  BY DEF Sent, AsSent, Resumes, SameRequest
<1> QED
  BY <1>1 DEF Sent, Others

LEMMA SentStep == TypeInv /\ Sent /\ [Next]_vars => Sent'
<1> SUFFICES ASSUME TypeInv, Sent, Next PROVE Sent'
  BY DEF Sent, vars
<1>1. ASSUME NEW s \in Sessions, Send(s) PROVE Sent'
  BY <1>1, SendOutcome, RequestSent DEF Sent, Others
<1>2. ASSUME NEW s \in Sessions, CreatePool(s) \/ WriteSteps(s) \/ Fail(s) \/ TxCommitContribution(s) \/ RefundCommit(s)
      PROVE Sent'
  BY <1>2, CreatePoolOutcome, WriteOutcome, FailOutcome, CommitOutcome, RefundOutcome, EndsSent
<1>3. ASSUME NEW s \in Sessions, ReadSteps(s) PROVE Sent'
  BY <1>3, ReadOutcome, EndsSent, ResumesSent DEF PicksGift, ReadGoesOn, Steps
<1>4. ASSUME NEW s \in Sessions, TxReadRemaining(s) PROVE Sent'
  BY <1>4, TxReadOutcome, EndsSent, ResumesSent DEF At, Steps
<1>5. ASSUME NEW s \in Sessions, TxLookupAndPay(s) PROVE Sent'
  BY <1>5, PayOutcome, EndsSent, ResumesSent DEF At, Steps
<1>6. ASSUME NEW s \in Sessions, TxUpdatePool(s) \/ RefundUpdatePool(s) PROVE Sent'
  BY <1>6, LockOutcome, EndsSent, ResumesSent DEF At, Steps
<1>7. ASSUME Crash PROVE Sent'
  BY <1>7, CrashOutcome DEF Sent, AsSent, Ends
<1>8. ASSUME DecayList \/ (\E p \in Pools : DecayWrite(p)) \/ WorkerCrash PROVE Sent'
  BY <1>8, WorkerOutcome DEF Sent
<1> QED
  BY NextCases, <1>1, <1>2, <1>3, <1>4, <1>5, <1>6, <1>7, <1>8

LEMMA InitSent == Init => Sent
BY DEF Init, Sent, AsSent, Idle

(***************************************************************************)
(* No contribution without its pool.  The row lock is what keeps a pool    *)
(* from being deleted between a transaction's UPDATE and its COMMIT, so    *)
(* the invariant says who holds it.                                        *)
(***************************************************************************)
HoldsRow(s) == req[s].at = "commit" => lock[req[s].pool] = s /\ Exists(req[s].pool)

LockInv == NoOrphanContribution /\ \A s \in Sessions : HoldsRow(s)

LEMMA LockFrame ==
  ASSUME LockInv, NEW s \in Sessions, Others(s), req'[s].at # "commit", UNCHANGED <<pool, contrib, lock>>
  PROVE  LockInv'
BY DEF LockInv, NoOrphanContribution, HoldsRow, Others, Exists

LEMMA LockLock ==
  ASSUME TypeInv, LockInv, NEW s \in Sessions, TxUpdatePool(s) \/ RefundUpdatePool(s)
  PROVE  LockInv'
<1>1. CASE Ends(s) /\ UNCHANGED lock
  BY <1>1, LockOutcome, LockFrame DEF Ends
<1>2. CASE ~(Ends(s) /\ UNCHANGED lock)
  <2>1. /\ Others(s) /\ UNCHANGED <<pool, contrib>> /\ lock[req[s].pool] = None
        /\ Exists(req[s].pool) /\ Resumes(s, "commit") /\ lock' = [lock EXCEPT ![req[s].pool] = s]
    BY <1>2, LockOutcome
  <2>2. req[s].pool \in Pools /\ lock \in [Pools -> Sessions \cup {None}]
    BY LockOutcome, RunningType DEF At, TypeInv, TypeOK
  <2>3. HoldsRow(s)'
    BY <2>1, <2>2 DEF HoldsRow, Resumes, SameRequest, Exists
  <2>4. ASSUME NEW t \in Sessions, t # s PROVE HoldsRow(t)'
    <3>1. req'[t] = req[t] /\ HoldsRow(t)
      BY <2>1, <2>4 DEF Others, LockInv
    <3>2. CASE req[t].at = "commit"
      <4>1. req[t].pool # req[s].pool
        BY <2>1, <2>4, <3>1, <3>2, ConstantsAssumption DEF HoldsRow
      <4> QED
        BY <2>1, <2>2, <3>1, <3>2, <4>1 DEF HoldsRow, Exists
    <3>3. CASE req[t].at # "commit"
      BY <3>1, <3>3 DEF HoldsRow
    <3> QED
      BY <3>2, <3>3
  <2> QED
    BY <2>1, <2>3, <2>4 DEF LockInv, NoOrphanContribution, Exists
<1> QED
  BY <1>1, <1>2

LEMMA LockCommit ==
  ASSUME TypeInv, LockInv, NEW s \in Sessions, TxCommitContribution(s) \/ RefundCommit(s)
  PROVE  LockInv'
<1> DEFINE p == req[s].pool
           k == req[s].key
<1>1. /\ p \in Pools /\ k \in Keys /\ req[s].at = "commit" /\ lock' = [lock EXCEPT ![p] = None]
      /\ Ends(s) /\ Others(s) /\ lock \in [Pools -> Sessions \cup {None}] /\ Exists(p)
  BY CommitOutcome, RefundOutcome, RunningType DEF At, TypeInv, TypeOK, LockInv, HoldsRow
<1>2. \A q \in Pools : Exists(q) => Exists(q)'
  <2>1. CASE TxCommitContribution(s)
    <3>1. UNCHANGED pool \/ /\ \A q \in Pools \ {p} : pool'[q] = pool[q]
                            /\ pool'[p].status = IF req[s].row.remaining = req[s].kzt THEN "FUNDED" ELSE "FUNDING"
      BY <2>1, CommitOutcome DEF HasRow, OnlyPool
    <3> QED
      BY <3>1 DEF Exists, PoolStatuses
  <2>2. CASE RefundCommit(s)
    <3>1. OnlyPool(p) /\ pool'[p].status = "FUNDING"
      BY <2>2, RefundOutcome DEF HasRow, OnlyPool
    <3> QED
      BY <3>1 DEF OnlyPool, Exists, PoolStatuses
  <2> QED
    BY <2>1, <2>2
<1>3. \A j \in Keys : contrib'[j].status # "NONE" =>
        \/ contrib[j].status # "NONE" /\ contrib'[j].pool = contrib[j].pool
        \/ contrib'[j].pool = p
  <2>1. CASE TxCommitContribution(s)
    BY <2>1, CommitOutcome DEF OnlyKey, HasGift
  <2>2. CASE RefundCommit(s)
    BY <2>2, RefundOutcome DEF OnlyKey, HasGift
  <2> QED
    BY <2>1, <2>2
<1>4. NoOrphanContribution'
  BY <1>1, <1>2, <1>3 DEF NoOrphanContribution, LockInv, TypeInv, WellFormed
<1>5. ASSUME NEW t \in Sessions PROVE HoldsRow(t)'
  <2>1. CASE t = s
    BY <1>1, <2>1 DEF Ends, HoldsRow
  <2>2. CASE t # s /\ req[t].at = "commit"
    <3>1. req'[t] = req[t] /\ lock[req[t].pool] = t /\ Exists(req[t].pool) /\ req[t].pool \in Pools
      BY <1>1, <2>2, RunningType DEF Others, LockInv, HoldsRow
    <3>2. lock[p] = s
      BY <1>1 DEF LockInv, HoldsRow
    <3> QED
      BY <1>1, <1>2, <2>2, <3>1, <3>2 DEF HoldsRow
  <2>3. CASE t # s /\ req[t].at # "commit"
    BY <1>1, <2>3 DEF Others, HoldsRow
  <2> QED
    BY <2>1, <2>2, <2>3
<1> QED
  BY <1>4, <1>5 DEF LockInv

LEMMA LockWrite == ASSUME TypeInv, Sent, LockInv, NEW s \in Sessions, WriteSteps(s) PROVE LockInv'
<1> DEFINE p == req[s].pool
<1>1. /\ Ends(s) /\ Others(s) /\ UNCHANGED <<contrib, lock>> /\ lock[p] = None /\ p \in Pools
      /\ Writes(s) /\ AsSent(req[s]) /\ req[s].at = "write"
  BY WriteOutcome, RunningType DEF Sent
<1>2. \A q \in Pools : Exists(q) => Exists(q)' \/ (q = p /\ InPool(p) = {})
  <2>1. UNCHANGED pool \/ \A q \in Pools \ {p} : pool'[q] = pool[q]
    BY <1>1 DEF Writes, OnlyPool
  <2>2. InPool(p) # {} => UNCHANGED pool \/ pool'[p].status \in PoolStatuses
    BY <1>1 DEF Writes, HasRow, AsSent, Exists
  <2> QED
    BY <2>1, <2>2 DEF Exists
<1>3. ASSUME NEW t \in Sessions PROVE HoldsRow(t)'
  <2>1. CASE t = s
    BY <1>1, <2>1 DEF Ends, HoldsRow
  <2>2. CASE t # s /\ req[t].at = "commit"
    <3>1. req'[t] = req[t] /\ lock[req[t].pool] = t /\ Exists(req[t].pool) /\ req[t].pool \in Pools
      BY <1>1, <2>2, RunningType DEF Others, LockInv, HoldsRow
    <3>2. req[t].pool # p
      BY <1>1, <3>1, ConstantsAssumption
    <3> QED
      BY <1>1, <1>2, <2>2, <3>1, <3>2 DEF HoldsRow
  <2>3. CASE t # s /\ req[t].at # "commit"
    BY <1>1, <2>3 DEF Others, HoldsRow
  <2> QED
    BY <2>1, <2>2, <2>3
<1> QED
  BY <1>1, <1>2, <1>3 DEF LockInv, NoOrphanContribution, InPool, TypeInv, WellFormed

LEMMA LockOther ==
  ASSUME TypeInv, LockInv,
         \/ \E s \in Sessions : CreatePool(s) \/ Fail(s)
         \/ DecayList \/ (\E p \in Pools : DecayWrite(p)) \/ WorkerCrash \/ Crash
  PROVE  LockInv'
<1>1. CASE \E s \in Sessions : CreatePool(s)
  <2>1. PICK s \in Sessions : CreatePool(s)
    BY <1>1
  <2>2. \A q \in Pools : Exists(q) => Exists(q)'
    BY <2>1, CreatePoolOutcome DEF Exists, OnlyPool, PoolStatuses
  <2>3. Ends(s) /\ Others(s) /\ UNCHANGED <<contrib, lock>>
    BY <2>1, CreatePoolOutcome
  <2>4. \A t \in Sessions : HoldsRow(t)'
    BY <2>2, <2>3, RunningType DEF LockInv, HoldsRow, Ends, Others
  <2> QED
    BY <2>2, <2>3, <2>4 DEF LockInv, NoOrphanContribution, TypeInv, WellFormed
<1>2. CASE \E s \in Sessions : Fail(s)
  <2>1. PICK s \in Sessions : Fail(s)
    BY <1>2
  <2>2. /\ Ends(s) /\ Others(s) /\ UNCHANGED <<pool, contrib>>
        /\ lock' = [p \in Pools |-> IF lock[p] = s THEN None ELSE lock[p]]
    BY <2>1, FailOutcome
  <2>3. \A t \in Sessions : HoldsRow(t)'
    BY <2>2, RunningType DEF LockInv, HoldsRow, Ends, Others, Exists
  <2> QED
    BY <2>2, <2>3 DEF LockInv, NoOrphanContribution, Exists
<1>3. CASE Crash
  BY <1>3, CrashOutcome DEF LockInv, NoOrphanContribution, HoldsRow, Ends, Exists
<1>4. CASE DecayList \/ (\E p \in Pools : DecayWrite(p)) \/ WorkerCrash
  <2>1. \A q \in Pools : Exists(q) => Exists(q)'
    <3>1. UNCHANGED pool \/ \E p \in Pools : OnlyPool(p) /\ pool'[p].status = "PENDING"
      BY <1>4, WorkerOutcome DEF OnlyPool
    <3> QED
      BY <3>1 DEF Exists, OnlyPool, PoolStatuses
  <2>2. \A t \in Sessions : HoldsRow(t)'
    BY <1>4, <2>1, WorkerOutcome, RunningType DEF LockInv, HoldsRow
  <2> QED
    BY <1>4, <2>1, <2>2, WorkerOutcome DEF LockInv, NoOrphanContribution, TypeInv, WellFormed
<1> QED
  BY <1>1, <1>2, <1>3, <1>4

LEMMA InitLockInv == Init => LockInv
BY DEF Init, LockInv, NoOrphanContribution, HoldsRow, NoContribution, Idle

LEMMA LockStep == TypeInv /\ Sent /\ LockInv /\ [Next]_vars => LockInv'
<1>1. ASSUME LockInv, UNCHANGED vars PROVE LockInv'
  BY <1>1 DEF LockInv, NoOrphanContribution, HoldsRow, Exists, vars
<1>2. ASSUME TypeInv, Sent, LockInv, NEW s \in Sessions,
             Send(s) \/ ReadSteps(s) \/ TxReadRemaining(s) \/ TxLookupAndPay(s)
      PROVE  LockInv'
  BY <1>2, SendOutcome, ReadOutcome, TxReadOutcome, PayOutcome, LockFrame
     DEF Ends, Resumes, PicksGift, ReadGoesOn
<1> QED
  BY <1>1, <1>2, NextCases, LockLock, LockCommit, LockWrite, LockOther

\* In every interleaving of payments, refunds, deletions, failures and restarts, a stored contribution has
\* its pool: the row lock and the foreign key together keep deletePool from taking it away.
THEOREM NoOrphans == Spec => []NoOrphanContribution
<1>1. Init => TypeInv /\ Sent /\ LockInv
  BY InitTypeInv, InitSent, InitLockInv
<1>2. TypeInv /\ Sent /\ LockInv /\ [Next]_vars => TypeInv' /\ Sent' /\ LockInv'
  BY TypeStep, SentStep, LockStep
<1>3. LockInv => NoOrphanContribution
  BY DEF LockInv
<1> QED
  BY <1>1, <1>2, <1>3, PTL DEF Spec

(***************************************************************************)
(* What was paid and recorded before a contribution is stored.             *)
(***************************************************************************)
PaidFor(r) ==
  /\ r.op = "createContribution" /\ r.at \in {"update", "commit"} => charges[r.key] > 0
  /\ r.op = "createContribution" /\ r.at = "commit" /\ r.key \in ForeignKeys => r.key \in rates

PayInv == /\ BackedByPayment
          /\ \A k \in paid : charges[k] > 0
          /\ \A s \in Sessions : PaidFor(req[s])

LEMMA PayFrame ==
  ASSUME PayInv, NEW s \in Sessions, Others(s), UNCHANGED <<contrib, rates, paid, charges>>,
         \/ req'[s].at \notin {"update", "commit"}
         \/ req'[s].op # "createContribution"
  PROVE  PayInv'
<1>1. PaidFor(req[s])'
  BY DEF PaidFor
<1>2. \A t \in Sessions \ {s} : PaidFor(req[t])'
  BY DEF PayInv, PaidFor, Others
<1> QED
  BY <1>1, <1>2 DEF PayInv, BackedByPayment

LEMMA PayPay == ASSUME TypeInv, PayInv, NEW s \in Sessions, TxLookupAndPay(s) PROVE PayInv'
<1>1. CASE Ends(s) /\ UNCHANGED <<paid, charges>>
  BY <1>1, PayOutcome, PayFrame DEF Ends
<1>2. CASE ~(Ends(s) /\ UNCHANGED <<paid, charges>>)
  <2> DEFINE k == req[s].key
  <2>1. /\ Others(s) /\ UNCHANGED <<contrib, rates>> /\ Resumes(s, "update") /\ ProcessPayment(k)
        /\ At(s, "createContribution", "lookup")
    BY <1>2, PayOutcome
  <2>2. k \in Keys /\ charges \in [Keys -> 0..2] /\ paid \subseteq Keys
    BY <2>1, RunningType DEF At, TypeInv, TypeOK
  <2>3. charges'[k] > 0 /\ \A j \in Keys : charges[j] > 0 => charges'[j] > 0
    <3>1. k \in paid => charges[k] > 0
      BY DEF PayInv
    <3>2. charges[k] \in 0..2
      BY <2>2
    <3>3. CASE k \in paid \/ charges[k] = 2
      BY <2>1, <3>1, <3>3 DEF ProcessPayment
    <3>4. CASE ~(k \in paid \/ charges[k] = 2)
      BY <2>1, <2>2, <3>2, <3>4 DEF ProcessPayment
    <3> QED
      BY <3>3, <3>4
  <2>4. paid' = paid \cup {k}
    BY <2>1 DEF ProcessPayment
  <2>5. PaidFor(req[s])'
    BY <2>1, <2>3 DEF PaidFor, Resumes, SameRequest
  <2>6. \A t \in Sessions \ {s} : PaidFor(req[t])'
    BY <2>1, <2>3 DEF PayInv, PaidFor, Others, TypeInv, WellFormed
  <2> QED
    BY <2>1, <2>2, <2>3, <2>4, <2>5, <2>6 DEF PayInv, BackedByPayment
<1> QED
  BY <1>1, <1>2

LEMMA PayLock == ASSUME TypeInv, PayInv, NEW s \in Sessions, TxUpdatePool(s) PROVE PayInv'
<1>1. CASE Ends(s) /\ UNCHANGED <<lock, rates>>
  BY <1>1, LockOutcome, PayFrame DEF Ends
<1>2. CASE ~(Ends(s) /\ UNCHANGED <<lock, rates>>)
  <2>1. /\ Others(s) /\ UNCHANGED <<contrib, paid, charges>> /\ Resumes(s, "commit") /\ RecordRate(req[s].key)
        /\ At(s, "createContribution", "update")
    BY <1>2, LockOutcome DEF TxUpdatePool, At
  <2>2. rates \subseteq rates' /\ (req[s].key \in ForeignKeys => req[s].key \in rates')
    BY <2>1 DEF RecordRate
  <2>3. PaidFor(req[s])'
    BY <2>1, <2>2 DEF At, PayInv, PaidFor, Resumes, SameRequest
  <2>4. \A t \in Sessions \ {s} : PaidFor(req[t])'
    BY <2>1, <2>2 DEF PayInv, PaidFor, Others
  <2> QED
    BY <2>1, <2>2, <2>3, <2>4 DEF PayInv, BackedByPayment
<1> QED
  BY <1>1, <1>2

LEMMA PayCommit ==
  ASSUME TypeInv, PayInv, NEW s \in Sessions, TxCommitContribution(s) \/ RefundCommit(s)
  PROVE  PayInv'
<1> DEFINE k == req[s].key
<1>1. k \in Keys /\ Ends(s) /\ Others(s) /\ UNCHANGED <<rates, paid, charges>>
  BY CommitOutcome, RefundOutcome, RunningType DEF At
<1>2. \A j \in Keys \ {k} : contrib'[j] = contrib[j]
  BY CommitOutcome, RefundOutcome DEF OnlyKey
<1>3. contrib'[k].status # "NONE" => charges[k] > 0 /\ (k \in ForeignKeys => k \in rates)
  <2>1. CASE TxCommitContribution(s)
    BY <1>1, <2>1, CommitOutcome DEF At, PayInv, PaidFor
  <2>2. CASE RefundCommit(s)
    BY <1>1, <2>2, RefundOutcome DEF PayInv, BackedByPayment
  <2> QED
    BY <2>1, <2>2
<1>4. \A t \in Sessions : PaidFor(req[t])'
  BY <1>1 DEF PayInv, PaidFor, Ends, Others
<1> QED
  BY <1>1, <1>2, <1>3, <1>4 DEF PayInv, BackedByPayment

LEMMA PayStep == TypeInv /\ PayInv /\ [Next]_vars => PayInv'
<1>1. ASSUME PayInv, UNCHANGED vars PROVE PayInv'
  BY <1>1 DEF PayInv, BackedByPayment, PaidFor, vars
<1>2. ASSUME TypeInv, PayInv, NEW s \in Sessions, Send(s) \/ CreatePool(s) \/ WriteSteps(s) \/ Fail(s)
      PROVE  PayInv'
  BY <1>2, SendOutcome, CreatePoolOutcome, WriteOutcome, FailOutcome, PayFrame DEF Ends
<1>3. ASSUME TypeInv, PayInv, NEW s \in Sessions, ReadSteps(s) \/ TxReadRemaining(s) PROVE PayInv'
  BY <1>3, ReadOutcome, TxReadOutcome, PayFrame DEF PicksGift, ReadGoesOn, Ends, Resumes, SameRequest
<1>4. ASSUME TypeInv, PayInv, NEW s \in Sessions, RefundUpdatePool(s) PROVE PayInv'
  <2>1. At(s, "deleteContribution", "update") /\ UNCHANGED rates
    BY <1>4 DEF RefundUpdatePool
  <2> QED
    BY <1>4, <2>1, LockOutcome, PayFrame DEF At, Ends, Resumes, SameRequest
<1>5. ASSUME TypeInv, PayInv, Crash PROVE PayInv'
  BY <1>5, CrashOutcome DEF PayInv, BackedByPayment, PaidFor, Ends
<1>6. ASSUME TypeInv, PayInv, DecayList \/ (\E p \in Pools : DecayWrite(p)) \/ WorkerCrash PROVE PayInv'
  BY <1>6, WorkerOutcome DEF PayInv, BackedByPayment, PaidFor
<1> QED
  BY <1>1, <1>2, <1>3, <1>4, <1>5, <1>6, NextCases, PayPay, PayLock, PayCommit

\* Every stored contribution was charged, and a foreign one has its exchange rate on record: the process
\* may forget its payments at any moment and a transaction may roll back, yet nothing is stored unpaid.
THEOREM AlwaysPaid == Spec => []BackedByPayment
<1>1. Init => TypeInv /\ PayInv
  BY InitTypeInv DEF Init, PayInv, BackedByPayment, PaidFor, NoContribution, Idle
<1>2. TypeInv /\ PayInv /\ [Next]_vars => TypeInv' /\ PayInv'
  BY TypeStep, PayStep
<1>3. PayInv => BackedByPayment
  BY DEF PayInv
<1> QED
  BY <1>1, <1>2, <1>3, PTL DEF Spec

(***************************************************************************)
(* The life of a contributions row.                                        *)
(***************************************************************************)
LEMMA RefundsOnlyCompleted ==
  ASSUME TypeInv, NEW s \in Sessions, RefundCommit(s), NEW k \in Keys, contrib[k].status # "NONE"
  PROVE  \/ contrib'[k] = contrib[k]
         \/ contrib[k].status = "COMPLETED" /\ contrib'[k] = [contrib[k] EXCEPT !.status = "REFUNDED"]
<1>1. contrib \in [Keys -> Contribution] /\ contrib[k] \in Contribution
  BY DEF TypeInv, TypeOK
<1>2. CASE k # req[s].key \/ contrib[k].status = "COMPLETED"
  BY <1>1, <1>2 DEF RefundCommit
<1>3. CASE k = req[s].key /\ contrib[k].status = "REFUNDED"
  <2>1. [contrib[k] EXCEPT !.status = "REFUNDED"] = contrib[k]
    BY <1>1, <1>3 DEF Contribution
  <2> QED
    BY <1>1, <1>3, <2>1 DEF RefundCommit
<1> QED
  BY <1>1, <1>2, <1>3 DEF Contribution

LEMMA LifecycleStep ==
  ASSUME TypeInv, [Next]_vars, NEW k \in Keys, contrib[k].status # "NONE"
  PROVE  \/ contrib'[k] = contrib[k]
         \/ contrib[k].status = "COMPLETED" /\ contrib'[k] = [contrib[k] EXCEPT !.status = "REFUNDED"]
<1>1. CASE \E s \in Sessions : RefundCommit(s)
  BY <1>1, RefundsOnlyCompleted
<1>2. CASE \E s \in Sessions : TxCommitContribution(s)
  <2>1. PICK s \in Sessions : TxCommitContribution(s)
    BY <1>2
  <2>2. UNCHANGED contrib \/ (contrib[req[s].key].status = "NONE" /\ OnlyKey(req[s].key))
    BY <2>1, CommitOutcome DEF OnlyKey
  <2> QED
    BY <2>2 DEF OnlyKey
<1>3. CASE ~((\E s \in Sessions : RefundCommit(s)) \/ (\E s \in Sessions : TxCommitContribution(s)))
  <2>1. CASE UNCHANGED vars
    BY <2>1 DEF vars
  <2>2. CASE Next
    <3>1. CASE \E s \in Sessions : Send(s) \/ CreatePool(s) \/ ReadSteps(s) \/ WriteSteps(s) \/ Fail(s)
      BY <3>1, SendOutcome, CreatePoolOutcome, ReadOutcome, WriteOutcome, FailOutcome
    <3>2. CASE \E s \in Sessions : TxReadRemaining(s) \/ TxLookupAndPay(s) \/ TxUpdatePool(s) \/ RefundUpdatePool(s)
      BY <3>2, TxReadOutcome, PayOutcome, LockOutcome
    <3>3. CASE DecayList \/ (\E p \in Pools : DecayWrite(p)) \/ WorkerCrash \/ Crash
      BY <3>3, WorkerOutcome, CrashOutcome
    <3> QED
      BY <1>3, <2>2, <3>1, <3>2, <3>3, NextCases
  <2> QED
    BY <2>1, <2>2
<1> QED
  BY <1>1, <1>2, <1>3

\* A stored contribution keeps its pool and amount for ever, and is refunded at most once: two refunds in
\* flight, a retry of the key or a rollback never rewrite it.
THEOREM LifecycleKept == Spec => ContributionLifecycle
<1>1. Init => TypeInv
  BY InitTypeInv
<1>2. TypeInv /\ [Next]_vars => TypeInv'
  BY TypeStep
<1>3. TypeInv /\ [Next]_vars =>
        [\A k \in Keys : contrib[k].status # "NONE" =>
           \/ contrib'[k] = contrib[k]
           \/ contrib[k].status = "COMPLETED" /\ contrib'[k] = [contrib[k] EXCEPT !.status = "REFUNDED"]]_vars
  BY LifecycleStep
<1> QED
  BY <1>1, <1>2, <1>3, PTL DEF Spec, ContributionLifecycle

(***************************************************************************)
(* One contribution, one amount.  What a pool shows is rewritten from      *)
(* values read earlier, so the invariant relates the row each request      *)
(* carries to the contributions stored now: a contribution about to be     *)
(* stored in an empty pool starts from nothing, and a refund of a pool's   *)
(* only contribution starts from that contribution at most: from less when *)
(* another refund of it committed after this one had read it COMPLETED.    *)
(***************************************************************************)
Contributing(r) == r.op = "createContribution" /\ r.at \in {"lookup", "update", "commit"}
Refunding(r) == r.op = "deleteContribution" /\ r.at \in {"update", "commit"}

NoGifts(p) == \A k \in Keys : contrib[k].pool # p
OnlyGift(k, p) == contrib[k].pool = p /\ \A j \in Keys \ {k} : contrib[j].pool # p

StartsRight(r) ==
  /\ Contributing(r) /\ NoGifts(r.pool) => r.row.total = 0
  /\ Refunding(r) /\ OnlyGift(r.key, r.pool) => r.row.total <= contrib[r.key].kzt

ShowsTheGift(p) ==
  /\ NoGifts(p) => pool[p].total = 0
  /\ \A k \in Keys : OnlyGift(k, p) =>
       IF contrib[k].status = "COMPLETED" THEN pool[p].total = contrib[k].kzt ELSE pool[p].total <= 0

SingleInv ==
  /\ \A p \in Pools : Exists(p) => ShowsTheGift(p)
  /\ \A k \in Keys : contrib[k].status = "NONE" => contrib[k].pool = None
  /\ \A s \in Sessions : StartsRight(req[s])

LEMMA SingleMeans == SingleInv => DoubleSubmitSafe
<1> SUFFICES ASSUME SingleInv, NEW p \in Pools, Exists(p)
             PROVE  /\ InPool(p) = {} => pool[p].total = 0
                    /\ \A k \in Keys : InPool(p) = {k} =>
                         IF contrib[k].status = "COMPLETED" THEN pool[p].total = contrib[k].kzt
                                                            ELSE pool[p].total <= 0
  BY DEF DoubleSubmitSafe
<1>1. InPool(p) = {} => NoGifts(p)
  BY DEF InPool, NoGifts
<1>2. \A k \in Keys : InPool(p) = {k} => OnlyGift(k, p)
  BY DEF InPool, OnlyGift
<1> QED
  BY <1>1, <1>2 DEF SingleInv, ShowsTheGift

LEMMA SingleFrame ==
  ASSUME SingleInv, UNCHANGED contrib, NEW s \in Sessions, Others(s),
         \A p \in Pools : Exists(p)' => Exists(p) /\ pool'[p].total = pool[p].total,
         StartsRight(req[s])'
  PROVE  SingleInv'
<1>1. \A p \in Pools : Exists(p)' => ShowsTheGift(p)'
  BY DEF SingleInv, ShowsTheGift, NoGifts, OnlyGift
<1>2. \A t \in Sessions \ {s} : StartsRight(req[t])'
  BY DEF SingleInv, StartsRight, Others, NoGifts, OnlyGift
<1> QED
  BY <1>1, <1>2 DEF SingleInv

LEMMA SingleEnds ==
  ASSUME SingleInv, UNCHANGED contrib, NEW s \in Sessions, Others(s), Ends(s),
         \A p \in Pools : Exists(p)' => Exists(p) /\ pool'[p].total = pool[p].total
  PROVE  SingleInv'
<1>1. StartsRight(req[s])'
  BY DEF Ends, StartsRight, Contributing, Refunding
<1> QED
  BY <1>1, SingleFrame

LEMMA SingleRead == ASSUME TypeInv, SingleInv, NEW s \in Sessions, ReadSteps(s) \/ TxReadRemaining(s)
                    PROVE SingleInv'
<1>1. UNCHANGED <<pool, contrib>> /\ Others(s)
  BY ReadOutcome, TxReadOutcome
<1>2. \A p \in Pools : Exists(p)' => Exists(p) /\ pool'[p].total = pool[p].total
  BY <1>1 DEF Exists
<1>3. StartsRight(req[s])'
  <2>1. CASE Ends(s)
    BY <2>1 DEF Ends, StartsRight, Contributing, Refunding
  <2>2. CASE ReadSteps(s) /\ ~Ends(s)
    <3>1. (PicksGift(s) \/ ReadGoesOn(s)) /\ req[s].pool \in Pools /\ pool[req[s].pool] \in Row
      BY <2>2, ReadOutcome, RunningType
    <3>2. CASE ReadGoesOn(s) /\ req[s].op = "deleteContribution"
      <4>1. /\ Exists(req[s].pool) /\ req'[s].row = pool[req[s].pool] /\ Resumes(s, "update")
            /\ req[s].key \in Keys /\ contrib[req[s].key] \in Contribution
        BY <2>2, <3>2, ReadOutcome, RunningType DEF ReadGoesOn
      <4>2. OnlyGift(req[s].key, req[s].pool) => pool[req[s].pool].total <= contrib[req[s].key].kzt
        BY <3>1, <4>1 DEF SingleInv, ShowsTheGift, Row, Contribution
      <4> QED
        BY <1>1, <3>2, <4>1, <4>2 DEF StartsRight, Contributing, Refunding, Resumes, SameRequest, OnlyGift
    <3>3. CASE ReadGoesOn(s) /\ req[s].op # "deleteContribution"
      BY <3>3 DEF ReadGoesOn, Resumes, SameRequest, StartsRight, Contributing, Refunding
    <3>4. CASE PicksGift(s)
      BY <3>4 DEF PicksGift, Resumes, SameRequest, StartsRight, Contributing, Refunding
    <3> QED
      BY <3>1, <3>2, <3>3, <3>4
  <2>3. CASE TxReadRemaining(s) /\ ~Ends(s)
    <3>1. /\ Exists(req[s].pool) /\ Resumes(s, "lookup") /\ req'[s].row = pool[req[s].pool]
          /\ req[s].op = "createContribution" /\ req[s].pool \in Pools
      BY <2>3, TxReadOutcome, RunningType DEF At
    <3>2. NoGifts(req[s].pool) => pool[req[s].pool].total = 0
      BY <3>1 DEF SingleInv, ShowsTheGift
    <3> QED
      BY <1>1, <3>1, <3>2 DEF StartsRight, Contributing, Refunding, Resumes, SameRequest, NoGifts
  <2> QED
    BY <2>1, <2>2, <2>3
<1> QED
  BY <1>1, <1>2, <1>3, SingleFrame

LEMMA SingleGoesOn ==
  ASSUME TypeInv, SingleInv, NEW s \in Sessions, TxLookupAndPay(s) \/ TxUpdatePool(s) \/ RefundUpdatePool(s)
  PROVE  SingleInv'
<1>1. UNCHANGED <<pool, contrib>> /\ Others(s)
  BY PayOutcome, LockOutcome
<1>2. \A p \in Pools : Exists(p)' => Exists(p) /\ pool'[p].total = pool[p].total
  BY <1>1 DEF Exists
<1>3. CASE Ends(s)
  BY <1>1, <1>2, <1>3, SingleEnds
<1>4. CASE ~Ends(s)
  <2>1. \/ req[s].op = "createContribution" /\ req[s].at \in {"lookup", "update"}
        \/ req[s].op = "deleteContribution" /\ req[s].at = "update"
    BY PayOutcome, LockOutcome DEF At
  <2>2. SameRequest(req'[s], req[s]) /\ req'[s].row = req[s].row /\ req'[s].at \in {"update", "commit"}
    BY <1>4, PayOutcome, LockOutcome DEF Resumes
  <2>3. StartsRight(req[s])
    BY DEF SingleInv
  <2>4. StartsRight(req[s])'
    BY <1>1, <2>1, <2>2, <2>3 DEF StartsRight, Contributing, Refunding, SameRequest, NoGifts, OnlyGift
  <2> QED
    BY <1>1, <1>2, <2>4, SingleFrame
<1> QED
  BY <1>3, <1>4

LEMMA SingleCommit == ASSUME TypeInv, SingleInv, NEW s \in Sessions, TxCommitContribution(s) PROVE SingleInv'
<1>0. req[s].pool \in Pools /\ req[s].key \in Keys
  BY CommitOutcome, RunningType DEF At
<1> PICK p \in Pools, k \in Keys : p = req[s].pool /\ k = req[s].key
  BY <1>0
<1>1. p # None /\ Ends(s) /\ Others(s) /\ req[s].row \in Row /\ Contributing(req[s])
  BY CommitOutcome, RunningType, ConstantsAssumption DEF At, Contributing
<1>2. CASE UNCHANGED <<pool, contrib>>
  BY <1>1, <1>2, SingleEnds DEF Exists
<1>3. CASE ~(UNCHANGED <<pool, contrib>>)
  <2>1. /\ \A j \in Keys \ {k} : contrib'[j] = contrib[j]
        /\ \A q \in Pools \ {p} : pool'[q] = pool[q]
        /\ contrib[k].status = "NONE" /\ contrib'[k].status = "COMPLETED" /\ contrib'[k].pool = p
        /\ contrib'[k].kzt = req[s].kzt /\ pool'[p].total = req[s].row.total + req[s].kzt
    BY <1>3, CommitOutcome DEF OnlyKey, OnlyPool, HasGift, HasRow
  <2>2. contrib[k].pool = None /\ req[s].kzt \in Nat
    BY <1>1, <2>1, RunningType DEF SingleInv, Contributing
  <2>3. ~NoGifts(p)' /\ \A j \in Keys : OnlyGift(j, p)' => j = k /\ NoGifts(p)
    <3>1. ~NoGifts(p)'
      BY <1>1, <2>1 DEF NoGifts
    <3>2. ASSUME NEW j \in Keys, OnlyGift(j, p)' PROVE j = k /\ NoGifts(p)
      <4>1. j = k
        BY <1>1, <2>1, <3>2 DEF OnlyGift
      <4> QED
        BY <1>1, <2>1, <2>2, <3>2, <4>1 DEF OnlyGift, NoGifts
    <3> QED
      BY <3>1, <3>2
  <2>4. \A q \in Pools \ {p} : /\ NoGifts(q)' => NoGifts(q)
                              /\ \A j \in Keys : OnlyGift(j, q)' => j # k /\ OnlyGift(j, q)
    BY <1>1, <2>1, <2>2, ConstantsAssumption DEF NoGifts, OnlyGift
  <2>5. NoGifts(p) => pool'[p].total = req[s].kzt
    BY <1>1, <2>1, <2>2 DEF SingleInv, StartsRight, Row
  <2>6. ASSUME NEW q \in Pools, Exists(q)' PROVE ShowsTheGift(q)'
    <3>1. CASE q = p
      <4>1. \A j \in Keys : OnlyGift(j, q)' =>
              contrib'[j].status = "COMPLETED" /\ pool'[q].total = contrib'[j].kzt
        BY <2>1, <2>3, <2>5, <3>1
      <4> QED
        BY <2>3, <3>1, <4>1 DEF ShowsTheGift
    <3>2. CASE q # p
      <4>1. pool'[q] = pool[q] /\ ShowsTheGift(q)
        BY <2>1, <2>6, <3>2 DEF Exists, SingleInv
      <4> QED
        BY <2>1, <2>4, <3>2, <4>1 DEF ShowsTheGift
    <3> QED
      BY <3>1, <3>2
  <2>7. ASSUME NEW t \in Sessions PROVE StartsRight(req[t])'
    <3>1. CASE t = s
      BY <1>1, <3>1 DEF Ends, StartsRight, Contributing, Refunding
    <3>2. CASE t # s
      <4>1. req'[t] = req[t] /\ StartsRight(req[t])
        BY <1>1, <3>2 DEF Others, SingleInv
      <4>2. /\ Contributing(req[t]) /\ NoGifts(req[t].pool)' => NoGifts(req[t].pool)
            /\ Refunding(req[t]) /\ OnlyGift(req[t].key, req[t].pool)' => OnlyGift(req[t].key, req[t].pool)
        <5>1. Contributing(req[t]) /\ NoGifts(req[t].pool)' => NoGifts(req[t].pool)
          BY <1>1, <2>1, <2>2, <4>1, RunningType, ConstantsAssumption DEF NoGifts, Contributing
        <5>2. Refunding(req[t]) => req[t].key \in Keys /\ req[t].key # k /\ contrib[req[t].key].pool = req[t].pool
          BY <2>1, RunningType DEF Refunding, TypeInv, WellFormed
        <5>3. Refunding(req[t]) => req[t].pool # None
          BY RunningType, ConstantsAssumption DEF Refunding
        <5> QED
          BY <1>1, <2>1, <2>2, <4>1, <5>1, <5>2, <5>3 DEF OnlyGift
      <4>3. Refunding(req[t]) => contrib'[req[t].key].kzt = contrib[req[t].key].kzt
        BY <2>1, RunningType DEF Refunding, TypeInv, WellFormed
      <4> QED
        BY <4>1, <4>2, <4>3 DEF StartsRight, NoGifts, OnlyGift
    <3> QED
      BY <3>1, <3>2
  <2>8. \A j \in Keys : contrib'[j].status = "NONE" => contrib'[j].pool = None
    BY <2>1 DEF SingleInv
  <2> QED
    BY <2>6, <2>7, <2>8 DEF SingleInv
<1> QED
  BY <1>2, <1>3

LEMMA SingleRefund == ASSUME TypeInv, SingleInv, NEW s \in Sessions, RefundCommit(s) PROVE SingleInv'
<1> DEFINE k == req[s].key
           p == req[s].pool
<1>1. /\ p \in Pools /\ k \in Keys /\ Ends(s) /\ Others(s) /\ req[s].row \in Row /\ Refunding(req[s])
      /\ contrib[k] \in Contribution
  BY RefundOutcome, RunningType DEF At, Refunding
<1>2. /\ \A j \in Keys \ {k} : contrib'[j] = contrib[j]
      /\ \A q \in Pools \ {p} : pool'[q] = pool[q]
      /\ contrib[k].pool = p /\ contrib'[k].status = "REFUNDED" /\ contrib'[k].pool = p
      /\ contrib'[k].kzt = contrib[k].kzt /\ pool'[p].total = req[s].row.total - contrib[k].kzt
  BY RefundOutcome DEF OnlyKey, OnlyPool, HasGift, HasRow
<1>3. \A q \in Pools : /\ NoGifts(q)' <=> NoGifts(q)
                       /\ \A j \in Keys : OnlyGift(j, q)' <=> OnlyGift(j, q)
  BY <1>1, <1>2 DEF NoGifts, OnlyGift
<1>4. ~NoGifts(p) /\ (OnlyGift(k, p) => pool'[p].total <= 0) /\ \A j \in Keys : OnlyGift(j, p) => j = k
  BY <1>1, <1>2 DEF SingleInv, StartsRight, Row, Contribution, NoGifts, OnlyGift
<1>5. ASSUME NEW q \in Pools, Exists(q)' PROVE ShowsTheGift(q)'
  <2>1. CASE q = p
    BY <1>1, <1>2, <1>3, <1>4, <2>1 DEF ShowsTheGift
  <2>2. CASE q # p
    <3>1. pool'[q] = pool[q] /\ ShowsTheGift(q) /\ ~OnlyGift(k, q)
      BY <1>2, <1>5, <2>2 DEF Exists, SingleInv, OnlyGift
    <3> QED
      BY <1>2, <1>3, <3>1 DEF ShowsTheGift
  <2> QED
    BY <2>1, <2>2
<1>6. ASSUME NEW t \in Sessions PROVE StartsRight(req[t])'
  <2>1. CASE t = s
    BY <1>1, <2>1 DEF Ends, StartsRight, Contributing, Refunding
  <2>2. CASE t # s
    <3>1. req'[t] = req[t] /\ StartsRight(req[t])
      BY <1>1, <2>2 DEF Others, SingleInv
    <3>2. Refunding(req[t]) => req[t].key \in Keys
      BY RunningType DEF Refunding
    <3>3. \A j \in Keys : contrib'[j].kzt = contrib[j].kzt /\ contrib'[j].pool = contrib[j].pool
      BY <1>2
    <3> QED
      BY <3>1, <3>2, <3>3 DEF StartsRight, NoGifts, OnlyGift
  <2> QED
    BY <2>1, <2>2
<1>7. \A j \in Keys : contrib'[j].status = "NONE" => contrib'[j].pool = None
  BY <1>2 DEF SingleInv
<1> QED
  BY <1>5, <1>6, <1>7 DEF SingleInv

LEMMA SingleCreatePool ==
  ASSUME TypeInv, LockInv, SingleInv, NEW s \in Sessions, CreatePool(s)
  PROVE  SingleInv'
<1>1. PICK p \in Pools : /\ pool[p].status = "NONE" /\ pool'[p].total = 0
                         /\ \A q \in Pools \ {p} : pool'[q] = pool[q]
  BY CreatePoolOutcome DEF HasRow, OnlyPool
<1>2. Ends(s) /\ Others(s) /\ UNCHANGED contrib
  BY CreatePoolOutcome
<1>3. NoGifts(p)
  BY <1>1, ConstantsAssumption DEF NoGifts, Exists, PoolStatuses, LockInv, NoOrphanContribution, SingleInv
<1>4. \A q \in Pools : Exists(q)' => ShowsTheGift(q)'
  BY <1>1, <1>2, <1>3 DEF SingleInv, ShowsTheGift, NoGifts, OnlyGift, Exists
<1>5. \A t \in Sessions : StartsRight(req[t])'
  BY <1>2 DEF SingleInv, StartsRight, Contributing, Refunding, Ends, Others, NoGifts, OnlyGift
<1> QED
  BY <1>2, <1>4, <1>5 DEF SingleInv

LEMMA InitSingleInv == Init => SingleInv
BY DEF Init, SingleInv, Exists, PoolStatuses, NoRow, NoContribution, StartsRight, Contributing, Refunding, Idle

LEMMA SingleStep == TypeInv /\ LockInv /\ SingleInv /\ [Next]_vars => SingleInv'
<1>1. ASSUME SingleInv, UNCHANGED vars PROVE SingleInv'
  BY <1>1 DEF SingleInv, ShowsTheGift, StartsRight, NoGifts, OnlyGift, Exists, vars
<1>2. ASSUME TypeInv, SingleInv, NEW s \in Sessions, Send(s) PROVE SingleInv'
  <2>1. StartsRight(req[s])' /\ UNCHANGED <<pool, contrib>> /\ Others(s)
    BY <1>2, SendOutcome DEF StartsRight, Contributing, Refunding
  <2> QED
    BY <1>2, <2>1, SingleFrame DEF Exists
<1>3. ASSUME TypeInv, SingleInv, NEW s \in Sessions, WriteSteps(s) PROVE SingleInv'
  <2>1. \A p \in Pools : Exists(p)' => Exists(p) /\ pool'[p].total = pool[p].total
    BY <1>3, WriteOutcome DEF Writes, OnlyPool, HasRow, SameMoney, Exists, PoolStatuses
  <2> QED
    BY <1>3, <2>1, WriteOutcome, SingleEnds
<1>4. ASSUME TypeInv, SingleInv, NEW s \in Sessions, Fail(s) PROVE SingleInv'
  BY <1>4, FailOutcome, SingleEnds DEF Exists
<1>5. ASSUME TypeInv, SingleInv, Crash PROVE SingleInv'
  BY <1>5, CrashOutcome
     DEF SingleInv, ShowsTheGift, StartsRight, Contributing, Refunding, Ends, NoGifts, OnlyGift, Exists
<1>6. ASSUME TypeInv, SingleInv, DecayList \/ (\E p \in Pools : DecayWrite(p)) \/ WorkerCrash PROVE SingleInv'
  <2>1. \A p \in Pools : Exists(p)' => Exists(p) /\ pool'[p].total = pool[p].total
    BY <1>6, WorkerOutcome DEF OnlyPool, SameMoney, Exists
  <2> QED
    BY <1>6, <2>1, WorkerOutcome DEF SingleInv, ShowsTheGift, StartsRight, NoGifts, OnlyGift
<1> QED
  BY <1>1, <1>2, <1>3, <1>4, <1>5, <1>6, NextCases, SingleRead, SingleGoesOn, SingleCommit, SingleRefund,
     SingleCreatePool

\* However often a submission is sent, at any speed and mixed with refunds, rollbacks and restarts: a pool
\* with no contribution row shows nothing, one with a single row shows exactly that contribution until it
\* is refunded and nothing of it afterwards.
THEOREM DoubleSubmit == Spec => []DoubleSubmitSafe
<1>1. Init => TypeInv /\ Sent /\ LockInv /\ SingleInv
  BY InitTypeInv, InitSent, InitLockInv, InitSingleInv
<1>2. TypeInv /\ Sent /\ LockInv /\ SingleInv /\ [Next]_vars => TypeInv' /\ Sent' /\ LockInv' /\ SingleInv'
  BY TypeStep, SentStep, LockStep, SingleStep
<1>3. SingleInv => DoubleSubmitSafe
  BY SingleMeans
<1> QED
  BY <1>1, <1>2, <1>3, PTL DEF Spec

(***************************************************************************)
(* totalFunded + remainingTarget = the target, as long as no client moves  *)
(* the target: a lost update loses both halves of the sum, so the row a    *)
(* request carries adds up to the target of the pool it will overwrite.    *)
(***************************************************************************)
Balanced(r) ==
  Contributing(r) \/ Refunding(r) =>
    /\ pool[r.pool].status # "NONE"
    /\ Exists(r.pool) => r.row.total + r.row.remaining = pool[r.pool].target

BalanceInv == PoolBalance /\ \A s \in Sessions : Balanced(req[s])

\* Rows keep their money, and a row that was there leaves at least its id behind.
KeepsMoney ==
  \A p \in Pools : /\ Exists(p)' => Exists(p) /\ SameMoney(pool'[p], pool[p])
                   /\ pool[p].status # "NONE" => pool'[p].status # "NONE"

LEMMA UnchangedKeepsMoney == UNCHANGED pool => KeepsMoney
BY DEF KeepsMoney, SameMoney, Exists

LEMMA BalanceFrame ==
  ASSUME TypeInv, BalanceInv, KeepsMoney, NEW s \in Sessions, Others(s), Balanced(req[s])'
  PROVE  BalanceInv'
<1>1. PoolBalance'
  BY DEF BalanceInv, PoolBalance, KeepsMoney, SameMoney
<1>2. ASSUME NEW t \in Sessions, t # s PROVE Balanced(req[t])'
  <2>1. req'[t] = req[t] /\ Balanced(req[t])
    BY <1>2 DEF BalanceInv, Others
  <2>2. Contributing(req[t]) \/ Refunding(req[t]) => req[t].pool \in Pools
    BY RunningType DEF Contributing, Refunding
  <2> QED
    BY <2>1, <2>2 DEF Balanced, Contributing, Refunding, KeepsMoney, SameMoney
<1> QED
  BY <1>1, <1>2 DEF BalanceInv

LEMMA EndsBalanced == ASSUME NEW s \in Sessions, Ends(s) \/ req'[s].at = "read" PROVE Balanced(req[s])'
BY DEF Ends, Balanced, Contributing, Refunding

LEMMA BalanceRead ==
  ASSUME TypeInv, BalanceInv, NEW s \in Sessions, ReadSteps(s) \/ TxReadRemaining(s)
  PROVE  BalanceInv'
<1>1. UNCHANGED pool /\ Others(s) /\ req[s].pool \in Pools
  BY ReadOutcome, TxReadOutcome, RunningType DEF At
<1>2. Balanced(req[s])'
  <2>1. CASE Ends(s)
    BY <2>1, EndsBalanced
  <2>2. CASE PicksGift(s)
    BY <2>2 DEF PicksGift, Resumes, SameRequest, Balanced, Contributing, Refunding
  <2>3. CASE ~(Ends(s) \/ PicksGift(s))
    <3>1. Exists(req[s].pool) /\ req'[s].row = pool[req[s].pool] /\ req'[s].pool = req[s].pool
      BY <2>3, ReadOutcome, TxReadOutcome DEF ReadGoesOn, Resumes, SameRequest
    <3> QED
      BY <1>1, <3>1 DEF Balanced, BalanceInv, PoolBalance, Exists, PoolStatuses
  <2> QED
    BY <2>1, <2>2, <2>3
<1> QED
  BY <1>1, <1>2, BalanceFrame, UnchangedKeepsMoney

LEMMA BalanceGoesOn ==
  ASSUME TypeInv, BalanceInv, NEW s \in Sessions, TxLookupAndPay(s) \/ TxUpdatePool(s) \/ RefundUpdatePool(s)
  PROVE  BalanceInv'
<1>1. UNCHANGED pool /\ Others(s)
  BY PayOutcome, LockOutcome
<1>2. Balanced(req[s])'
  <2>1. CASE Ends(s)
    BY <2>1, EndsBalanced
  <2>2. CASE ~Ends(s)
    <3>1. Contributing(req[s]) \/ Refunding(req[s])
      BY PayOutcome, LockOutcome DEF At, Contributing, Refunding
    <3>2. SameRequest(req'[s], req[s]) /\ req'[s].row = req[s].row
      BY <2>2, PayOutcome, LockOutcome DEF Resumes
    <3>3. Balanced(req[s])
      BY DEF BalanceInv
    <3> QED
      BY <1>1, <3>1, <3>2, <3>3 DEF Balanced, SameRequest, Exists
  <2> QED
    BY <2>1, <2>2
<1> QED
  BY <1>1, <1>2, BalanceFrame, UnchangedKeepsMoney

LEMMA BalanceCommit ==
  ASSUME TypeInv, LockInv, BalanceInv, NEW s \in Sessions, TxCommitContribution(s) \/ RefundCommit(s)
  PROVE  BalanceInv'
<1>1. CASE UNCHANGED pool
  BY <1>1, CommitOutcome, RefundOutcome, EndsBalanced, BalanceFrame, UnchangedKeepsMoney
<1>2. CASE ~(UNCHANGED pool)
  <2>0. req[s].pool \in Pools
    BY CommitOutcome, RefundOutcome, RunningType DEF At
  <2> PICK p \in Pools : p = req[s].pool
    BY <2>0
  <2>1. Ends(s) /\ Others(s) /\ (\A q \in Pools \ {p} : pool'[q] = pool[q]) /\ req[s].row \in Row
    BY <1>2, CommitOutcome, RefundOutcome, RunningType DEF OnlyPool, At
  <2>2. Exists(p) /\ Balanced(req[s]) /\ (Contributing(req[s]) \/ Refunding(req[s]))
    BY CommitOutcome, RefundOutcome DEF At, LockInv, HoldsRow, BalanceInv, Contributing, Refunding
  <2>3. /\ pool'[p].target = pool[p].target /\ pool'[p].status # "NONE"
        /\ pool'[p].total + pool'[p].remaining = req[s].row.total + req[s].row.remaining
    <3>1. CASE TxCommitContribution(s)
      <4>1. /\ pool'[p].status = IF req[s].row.remaining = req[s].kzt THEN "FUNDED" ELSE "FUNDING"
            /\ pool'[p].target = pool[p].target
            /\ pool'[p].total = req[s].row.total + req[s].kzt /\ pool'[p].remaining = req[s].row.remaining - req[s].kzt
        BY <1>2, <3>1, CommitOutcome DEF HasRow
      <4>2. req[s].kzt \in Nat
        BY <3>1, CommitOutcome, RunningType DEF At
      <4> QED
        BY <2>1, <4>1, <4>2 DEF Row
    <3>2. CASE RefundCommit(s)
      <4>1. /\ pool'[p].status = "FUNDING" /\ pool'[p].target = pool[p].target
            /\ pool'[p].total = req[s].row.total - contrib[req[s].key].kzt
            /\ pool'[p].remaining = req[s].row.remaining + contrib[req[s].key].kzt
        BY <3>2, RefundOutcome DEF HasRow
      <4>2. contrib[req[s].key].kzt \in Nat
        BY <3>2, RefundOutcome, RunningType DEF At, Contribution
      <4> QED
        BY <2>1, <4>1, <4>2 DEF Row
    <3> QED
      BY <3>1, <3>2
  <2>4. PoolBalance'
    BY <2>1, <2>2, <2>3 DEF PoolBalance, BalanceInv, Balanced, Exists
  <2>5. ASSUME NEW t \in Sessions PROVE Balanced(req[t])'
    <3>1. CASE t = s
      BY <2>1, <3>1, EndsBalanced
    <3>2. CASE t # s
      <4>1. req'[t] = req[t] /\ Balanced(req[t])
        BY <2>1, <3>2 DEF Others, BalanceInv
      <4>2. Contributing(req[t]) \/ Refunding(req[t]) => req[t].pool \in Pools
        BY RunningType DEF Contributing, Refunding
      <4> QED
        BY <2>1, <2>2, <2>3, <4>1, <4>2 DEF Balanced, Contributing, Refunding, Exists
    <3> QED
      BY <3>1, <3>2
  <2> QED
    BY <2>4, <2>5 DEF BalanceInv
<1> QED
  BY <1>1, <1>2

LEMMA BalanceWrite ==
  ASSUME "updatePool" \notin Operations, TypeInv, Sent, BalanceInv, NEW s \in Sessions, WriteSteps(s)
  PROVE  BalanceInv'
<1>1. /\ Ends(s) /\ Others(s) /\ Writes(s) /\ AsSent(req[s]) /\ req[s].at = "write" /\ req[s].pool \in Pools
  BY WriteOutcome, RunningType DEF Sent
<1>2. req[s].op # "updatePool"
  BY <1>1 DEF AsSent
<1>3. KeepsMoney
  BY <1>1, <1>2 DEF KeepsMoney, Writes, OnlyPool, HasRow, SameMoney, Exists, AsSent, PoolStatuses
<1> QED
  BY <1>1, <1>3, EndsBalanced, BalanceFrame

LEMMA BalanceCreatePool ==
  ASSUME TypeInv, BalanceInv, NEW s \in Sessions, CreatePool(s)
  PROVE  BalanceInv'
<1>1. PICK p \in Pools, t \in Targets :
        /\ pool[p].status = "NONE" /\ \A q \in Pools \ {p} : pool'[q] = pool[q]
        /\ pool'[p].status = "PENDING" /\ pool'[p].target = t /\ pool'[p].total = 0 /\ pool'[p].remaining = t
  BY CreatePoolOutcome DEF HasRow, OnlyPool
<1>2. Ends(s) /\ Others(s) /\ t \in Nat
  BY CreatePoolOutcome, ConstantsAssumption
<1>3. PoolBalance'
  BY <1>1, <1>2 DEF PoolBalance, BalanceInv, Exists
<1>4. ASSUME NEW u \in Sessions PROVE Balanced(req[u])'
  <2>1. CASE u = s
    BY <1>2, <2>1, EndsBalanced
  <2>2. CASE u # s
    <3>1. req'[u] = req[u] /\ Balanced(req[u])
      BY <1>2, <2>2 DEF Others, BalanceInv
    <3>2. Contributing(req[u]) \/ Refunding(req[u]) => req[u].pool \in Pools \ {p}
      BY <1>1, <3>1, RunningType DEF Balanced, Contributing, Refunding
    <3> QED
      BY <1>1, <3>1, <3>2 DEF Balanced, Contributing, Refunding, Exists
  <2> QED
    BY <2>1, <2>2
<1> QED
  BY <1>3, <1>4 DEF BalanceInv

LEMMA BalanceStep ==
  ASSUME "updatePool" \notin Operations
  PROVE  TypeInv /\ Sent /\ LockInv /\ BalanceInv /\ [Next]_vars => BalanceInv'
<1>1. ASSUME BalanceInv, UNCHANGED vars PROVE BalanceInv'
  BY <1>1 DEF BalanceInv, PoolBalance, Balanced, Contributing, Refunding, Exists, vars
<1>2. ASSUME TypeInv, BalanceInv, NEW s \in Sessions, Send(s) \/ Fail(s) PROVE BalanceInv'
  BY <1>2, SendOutcome, FailOutcome, EndsBalanced, BalanceFrame, UnchangedKeepsMoney
<1>3. ASSUME TypeInv, BalanceInv, Crash PROVE BalanceInv'
  BY <1>3, CrashOutcome DEF BalanceInv, PoolBalance, Balanced, Contributing, Refunding, Ends, Exists
<1>4. ASSUME TypeInv, BalanceInv, DecayList \/ (\E p \in Pools : DecayWrite(p)) \/ WorkerCrash PROVE BalanceInv'
  <2>1. KeepsMoney /\ UNCHANGED req
    BY <1>4, WorkerOutcome DEF KeepsMoney, OnlyPool, SameMoney, Exists
  <2>2. PoolBalance'
    BY <1>4, <2>1 DEF BalanceInv, PoolBalance, KeepsMoney, SameMoney
  <2>3. ASSUME NEW t \in Sessions PROVE Balanced(req[t])'
    BY <1>4, <2>1, RunningType DEF BalanceInv, Balanced, Contributing, Refunding, KeepsMoney, SameMoney
  <2> QED
    BY <2>2, <2>3 DEF BalanceInv
<1> QED
  BY <1>1, <1>2, <1>3, <1>4, NextCases, BalanceRead, BalanceGoesOn, BalanceCommit, BalanceWrite, BalanceCreatePool

\* While no client moves a target, every pool's totalFunded and remainingTarget add up to it, whatever
\* contributions and refunds overwrite each other.  With updatePool they need not: its write keeps the
\* totalFunded of the moment and computes remainingTarget from an older one.
THEOREM BalanceKept == ASSUME "updatePool" \notin Operations PROVE Spec => []PoolBalance
<1>1. Init => TypeInv /\ Sent /\ LockInv /\ BalanceInv
  <2>1. Init => BalanceInv
    BY DEF Init, BalanceInv, PoolBalance, Exists, PoolStatuses, NoRow, Balanced, Contributing, Refunding, Idle
  <2> QED
    BY <2>1, InitTypeInv, InitSent, InitLockInv
<1>2. TypeInv /\ Sent /\ LockInv /\ BalanceInv /\ [Next]_vars => TypeInv' /\ Sent' /\ LockInv' /\ BalanceInv'
  BY TypeStep, SentStep, LockStep, BalanceStep
<1>3. BalanceInv => PoolBalance
  BY DEF BalanceInv
<1> QED
  BY <1>1, <1>2, <1>3, PTL DEF Spec

(***************************************************************************)
(* FUNDED means full.                                                      *)
(***************************************************************************)
LEMMA FullStep ==
  ASSUME "updatePool" \notin Operations, "updatePoolStatus" \notin Operations
  PROVE  TypeInv /\ Sent /\ FundedMeansFull /\ [Next]_vars => FundedMeansFull'
<1>1. ASSUME FundedMeansFull, UNCHANGED pool PROVE FundedMeansFull'
  BY <1>1 DEF FundedMeansFull
<1>2. ASSUME TypeInv, FundedMeansFull, NEW s \in Sessions, TxCommitContribution(s) PROVE FundedMeansFull'
  <2>1. UNCHANGED pool \/ (/\ \A q \in Pools \ {req[s].pool} : pool'[q] = pool[q]
                           /\ pool'[req[s].pool].remaining = req[s].row.remaining - req[s].kzt
                           /\ pool'[req[s].pool].status =
                                IF req[s].row.remaining = req[s].kzt THEN "FUNDED" ELSE "FUNDING")
    BY <1>2, CommitOutcome DEF OnlyPool, HasRow
  <2>2. req[s].kzt \in Nat
    BY <1>2, CommitOutcome, RunningType DEF At
  <2> QED
    BY <1>2, <2>1, <2>2 DEF FundedMeansFull
<1>3. ASSUME TypeInv, FundedMeansFull, NEW s \in Sessions, RefundCommit(s) PROVE FundedMeansFull'
  <2>1. (\A q \in Pools \ {req[s].pool} : pool'[q] = pool[q]) /\ pool'[req[s].pool].status = "FUNDING"
    BY <1>3, RefundOutcome DEF OnlyPool, HasRow
  <2> QED
    BY <1>3, <2>1 DEF FundedMeansFull
<1>4. ASSUME TypeInv, Sent, FundedMeansFull, NEW s \in Sessions, WriteSteps(s) PROVE FundedMeansFull'
  <2>1. Writes(s) /\ AsSent(req[s]) /\ req[s].at = "write"
    BY <1>4, WriteOutcome DEF Sent
  <2>2. \/ UNCHANGED pool
        \/ /\ \A q \in Pools \ {req[s].pool} : pool'[q] = pool[q]
           /\ pool'[req[s].pool].status \in {"PURCHASED", "DELIVERED", "DELETED"}
    BY <2>1 DEF Writes, AsSent, OnlyPool, HasRow
  <2> QED
    BY <1>4, <2>2 DEF FundedMeansFull
<1>5. ASSUME TypeInv, FundedMeansFull, NEW s \in Sessions, CreatePool(s) PROVE FundedMeansFull'
  BY <1>5, CreatePoolOutcome DEF FundedMeansFull, OnlyPool, HasRow
<1>6. ASSUME TypeInv, FundedMeansFull, DecayList \/ (\E p \in Pools : DecayWrite(p)) \/ WorkerCrash
      PROVE  FundedMeansFull'
  BY <1>6, WorkerOutcome DEF FundedMeansFull, OnlyPool
<1>7. ASSUME TypeInv, NEW s \in Sessions,
             \/ Send(s) \/ ReadSteps(s) \/ TxReadRemaining(s) \/ TxLookupAndPay(s) \/ TxUpdatePool(s)
             \/ RefundUpdatePool(s) \/ Fail(s)
      PROVE  UNCHANGED pool
  BY <1>7, SendOutcome, ReadOutcome, TxReadOutcome, PayOutcome, LockOutcome, FailOutcome
<1> QED
  BY <1>1, <1>2, <1>3, <1>4, <1>5, <1>6, <1>7, NextCases, CrashOutcome DEF vars

\* While no client moves a target or sets a status by hand, a pool says FUNDED only when nothing remains.
THEOREM FundedIsFull ==
  ASSUME "updatePool" \notin Operations, "updatePoolStatus" \notin Operations
  PROVE  Spec => []FundedMeansFull
<1>1. Init => TypeInv /\ Sent /\ FundedMeansFull
  BY InitTypeInv, InitSent DEF Init, FundedMeansFull, NoRow
<1>2. TypeInv /\ Sent /\ FundedMeansFull /\ [Next]_vars => TypeInv' /\ Sent' /\ FundedMeansFull'
  BY TypeStep, SentStep, FullStep
<1> QED
  BY <1>1, <1>2, PTL DEF Spec

(***************************************************************************)
(* One request after the other: the handlers implement the escrow ledger.  *)
(* With a single session nobody but the worker touches a row between a     *)
(* request's read and its write, so the row carried is the row stored, up  *)
(* to its status.                                                          *)
(***************************************************************************)
Sequential == \E s : Sessions = {s}

Retargeting(r) == r.op = "updatePool" /\ r.at = "write"

UpToDate(r) ==
  /\ Contributing(r) \/ Refunding(r) \/ Retargeting(r) => SameMoney(r.row, pool[r.pool])
  /\ r.op = "deleteContribution" /\ r.at \in {"readPool", "update", "commit"} =>
       contrib[r.key].status = "COMPLETED"
  /\ Retargeting(r) => r.kzt > 0

SeqInv ==
  /\ PoolBalance
  /\ \A p \in Pools : pool[p].status = "NONE" => pool[p].total = 0
  /\ \A s \in Sessions : UpToDate(req[s])

LEMMA EndsUpToDate == ASSUME NEW s \in Sessions, Ends(s) \/ req'[s].at = "read" PROVE UpToDate(req[s])'
BY DEF Ends, UpToDate, Contributing, Refunding, Retargeting

LEMMA SeqFrame ==
  ASSUME Sequential, SeqInv, UNCHANGED pool, NEW s \in Sessions, UpToDate(req[s])'
  PROVE  SeqInv'
BY DEF Sequential, SeqInv, PoolBalance, Exists

LEMMA SeqRead ==
  ASSUME Sequential, TypeInv, SeqInv, NEW s \in Sessions, ReadSteps(s) \/ TxReadRemaining(s)
  PROVE  SeqInv'
<1>1. UNCHANGED <<pool, contrib>> /\ req[s].pool \in Pools
  BY ReadOutcome, TxReadOutcome, RunningType DEF At
<1>2. UpToDate(req[s])'
  <2>1. CASE Ends(s)
    BY <2>1, EndsUpToDate
  <2>2. CASE PicksGift(s)
    BY <1>1, <2>2 DEF PicksGift, Resumes, SameRequest, UpToDate, Contributing, Refunding, Retargeting
  <2>3. CASE ~(Ends(s) \/ PicksGift(s))
    <3>1. req'[s].row = pool[req[s].pool] /\ SameRequest(req'[s], req[s])
      BY <2>3, ReadOutcome, TxReadOutcome DEF ReadGoesOn, Resumes
    <3>2. req[s].op = "deleteContribution" => contrib[req[s].key].status = "COMPLETED"
      BY <2>3, ReadOutcome, TxReadOutcome DEF ReadGoesOn, SeqInv, UpToDate, At
    <3>3. Retargeting(req'[s]) => req[s].kzt > 0
      BY <2>3, ReadOutcome, TxReadOutcome DEF ReadGoesOn, MayRetarget, Retargeting, Resumes, SameRequest, At
    <3> QED
      BY <1>1, <3>1, <3>2, <3>3 DEF UpToDate, SameMoney, SameRequest, Contributing, Refunding, Retargeting
  <2> QED
    BY <2>1, <2>2, <2>3
<1> QED
  BY <1>1, <1>2, SeqFrame

LEMMA SeqGoesOn ==
  ASSUME Sequential, TypeInv, SeqInv, NEW s \in Sessions, TxLookupAndPay(s) \/ TxUpdatePool(s) \/ RefundUpdatePool(s)
  PROVE  SeqInv'
<1>1. UNCHANGED <<pool, contrib>>
  BY PayOutcome, LockOutcome
<1>2. UpToDate(req[s])'
  <2>1. CASE Ends(s)
    BY <2>1, EndsUpToDate
  <2>2. CASE ~Ends(s)
    <3>1. \/ Contributing(req[s]) /\ req[s].op = "createContribution"
          \/ Refunding(req[s]) /\ req[s].op = "deleteContribution"
      BY PayOutcome, LockOutcome DEF At, Contributing, Refunding
    <3>2. SameRequest(req'[s], req[s]) /\ req'[s].row = req[s].row
      BY <2>2, PayOutcome, LockOutcome DEF Resumes
    <3>3. UpToDate(req[s])
      BY DEF SeqInv
    <3> QED
      BY <1>1, <3>1, <3>2, <3>3 DEF UpToDate, SameMoney, SameRequest, Contributing, Refunding, Retargeting
  <2> QED
    BY <2>1, <2>2
<1> QED
  BY <1>1, <1>2, SeqFrame

\* What a contribution, a refund and a target change do to the pool, when nothing comes in between.
LEMMA SeqCommit ==
  ASSUME TypeInv, LockInv, SeqInv, NEW s \in Sessions, TxCommitContribution(s), ~UNCHANGED <<pool, contrib>>,
         NEW p \in Pools, p = req[s].pool
  PROVE  /\ Exists(p) /\ pool[p].total + pool[p].remaining = pool[p].target
         /\ \A q \in Pools \ {p} : pool'[q] = pool[q]
         /\ pool'[p].status # "NONE" /\ pool'[p].target = pool[p].target
         /\ pool'[p].total = pool[p].total + req[s].kzt /\ pool'[p].remaining = pool[p].remaining - req[s].kzt
<1>1. At(s, "createContribution", "commit")
  BY CommitOutcome
<1>2. SameMoney(req[s].row, pool[p]) /\ Exists(p)
  BY <1>1 DEF At, SeqInv, UpToDate, Contributing, LockInv, HoldsRow
<1>3. pool[p].total + pool[p].remaining = pool[p].target
  BY <1>2 DEF SeqInv, PoolBalance
<1>4. /\ \A q \in Pools \ {p} : pool'[q] = pool[q]
      /\ pool'[p].status = (IF req[s].row.remaining = req[s].kzt THEN "FUNDED" ELSE "FUNDING")
      /\ pool'[p].target = pool[p].target
      /\ pool'[p].total = req[s].row.total + req[s].kzt /\ pool'[p].remaining = req[s].row.remaining - req[s].kzt
  BY CommitOutcome DEF OnlyPool, HasRow
<1> QED
  BY <1>2, <1>3, <1>4 DEF SameMoney

LEMMA SeqRefund ==
  ASSUME TypeInv, LockInv, SeqInv, NEW s \in Sessions, RefundCommit(s), NEW p \in Pools, p = req[s].pool
  PROVE  /\ Exists(p) /\ pool[p].total + pool[p].remaining = pool[p].target
         /\ \A q \in Pools \ {p} : pool'[q] = pool[q]
         /\ pool'[p].status # "NONE" /\ pool'[p].target = pool[p].target
         /\ pool'[p].total = pool[p].total - contrib[req[s].key].kzt
         /\ pool'[p].remaining = pool[p].remaining + contrib[req[s].key].kzt
         /\ contrib[req[s].key].status = "COMPLETED" /\ contrib[req[s].key].pool = p
<1>1. At(s, "deleteContribution", "commit") /\ contrib[req[s].key].pool = p
  BY RefundOutcome
<1>2. SameMoney(req[s].row, pool[p]) /\ Exists(p) /\ contrib[req[s].key].status = "COMPLETED"
  BY <1>1 DEF At, SeqInv, UpToDate, Refunding, LockInv, HoldsRow
<1>3. pool[p].total + pool[p].remaining = pool[p].target
  BY <1>2 DEF SeqInv, PoolBalance
<1>4. /\ \A q \in Pools \ {p} : pool'[q] = pool[q]
      /\ pool'[p].status = "FUNDING" /\ pool'[p].target = pool[p].target
      /\ pool'[p].total = req[s].row.total - contrib[req[s].key].kzt
      /\ pool'[p].remaining = req[s].row.remaining + contrib[req[s].key].kzt
  BY RefundOutcome DEF OnlyPool, HasRow
<1> QED
  BY <1>1, <1>2, <1>3, <1>4 DEF SameMoney

LEMMA SeqCommits ==
  ASSUME Sequential, TypeInv, LockInv, SeqInv, NEW s \in Sessions, TxCommitContribution(s) \/ RefundCommit(s)
  PROVE  SeqInv'
<1>1. Ends(s) /\ req[s].pool \in Pools
  BY CommitOutcome, RefundOutcome, RunningType DEF At
<1>2. UpToDate(req[s])'
  BY <1>1, EndsUpToDate
<1>3. CASE UNCHANGED <<pool, contrib>>
  BY <1>2, <1>3, SeqFrame
<1>4. CASE ~(UNCHANGED <<pool, contrib>>)
  <2> PICK p \in Pools : p = req[s].pool
    BY <1>1
  <2>0. pool[p] \in Row
    BY DEF TypeInv, TypeOK
  <2>1. /\ Exists(p) /\ pool[p].total + pool[p].remaining = pool[p].target
        /\ \A q \in Pools \ {p} : pool'[q] = pool[q]
        /\ pool'[p].status # "NONE" /\ pool'[p].target = pool[p].target
        /\ \E n \in Int : pool'[p].total = pool[p].total + n /\ pool'[p].remaining = pool[p].remaining - n
    <3>1. CASE TxCommitContribution(s)
      <4>1. req[s].kzt \in Int
        BY <3>1, CommitOutcome, RunningType DEF At
      <4> QED
        BY <1>4, <3>1, <4>1, SeqCommit
    <3>2. CASE RefundCommit(s)
      <4> DEFINE n == 0 - contrib[req[s].key].kzt
      <4>1. contrib[req[s].key].kzt \in Nat
        BY <3>2, RefundOutcome, RunningType DEF At, Contribution
      <4>2. n \in Int /\ pool'[p].total = pool[p].total + n /\ pool'[p].remaining = pool[p].remaining - n
        BY <2>0, <3>2, <4>1, SeqRefund DEF Row
      <4> QED
        BY <3>2, <4>2, SeqRefund
    <3> QED
      BY <3>1, <3>2
  <2>2. pool'[p].total + pool'[p].remaining = pool'[p].target
    BY <2>0, <2>1 DEF Row
  <2>3. PoolBalance'
    BY <2>1, <2>2 DEF PoolBalance, SeqInv, Exists
  <2> QED
    BY <1>2, <2>1, <2>3 DEF Sequential, SeqInv
<1> QED
  BY <1>3, <1>4

LEMMA SeqRetarget ==
  ASSUME SeqInv, NEW s \in Sessions, Retargeting(req[s]), NEW p \in Pools, p = req[s].pool,
         HasRow(pool'[p], pool[p].status, req[s].kzt, pool[p].total, req[s].kzt - req[s].row.total)
  PROVE  /\ req[s].kzt > 0 /\ pool'[p].status = pool[p].status /\ pool'[p].target = req[s].kzt
         /\ pool'[p].total = pool[p].total /\ pool'[p].remaining = req[s].kzt - pool[p].total
BY DEF SeqInv, UpToDate, SameMoney, HasRow

LEMMA SeqWrite ==
  ASSUME Sequential, TypeInv, Sent, SeqInv, NEW s \in Sessions, WriteSteps(s)
  PROVE  SeqInv'
<1>1. /\ Ends(s) /\ Writes(s) /\ AsSent(req[s]) /\ req[s].at = "write" /\ req[s].pool \in Pools
      /\ req[s].kzt \in Nat
  BY WriteOutcome, RunningType DEF Sent
<1>2. UpToDate(req[s])'
  BY <1>1, EndsUpToDate
<1>3. CASE UNCHANGED pool
  BY <1>2, <1>3, SeqFrame
<1>4. CASE ~(UNCHANGED pool)
  <2> PICK p \in Pools : p = req[s].pool
    BY <1>1
  <2>1. Exists(p) /\ (\A q \in Pools \ {p} : pool'[q] = pool[q]) /\ pool[p] \in Row
    BY <1>1, <1>4 DEF Writes, OnlyPool, TypeInv, TypeOK
  <2>2. pool'[p].status # "NONE" /\ (Exists(p)' => pool'[p].total + pool'[p].remaining = pool'[p].target)
    <3>1. CASE req[s].op = "updatePool"
      <4>1. HasRow(pool'[p], pool[p].status, req[s].kzt, pool[p].total, req[s].kzt - req[s].row.total)
        BY <1>1, <1>4, <3>1 DEF Writes, HasRow
      <4>2. /\ pool'[p].status = pool[p].status /\ pool'[p].target = req[s].kzt
            /\ pool'[p].total = pool[p].total /\ pool'[p].remaining = req[s].kzt - pool[p].total
        BY <1>1, <3>1, <4>1, SeqRetarget DEF Retargeting
      <4> QED
        BY <1>1, <2>1, <4>2 DEF Exists, PoolStatuses, Row
    <3>2. CASE req[s].op \in {"updatePoolStatus", "purchasePool", "deliverPool"}
      <4>1. pool'[p].status = req[s].status /\ SameMoney(pool'[p], pool[p])
        BY <1>1, <1>4, <3>2 DEF Writes, SameMoney
      <4> QED
        BY <1>1, <2>1, <3>2, <4>1 DEF AsSent, PoolStatuses, SameMoney, SeqInv, PoolBalance
    <3>3. CASE req[s].op = "deletePool"
      <4>1. pool'[p].status = "DELETED"
        BY <1>1, <1>4, <3>3 DEF Writes, HasRow
      <4> QED
        BY <4>1 DEF Exists, PoolStatuses
    <3> QED
      BY <1>1, <1>4, <3>1, <3>2, <3>3 DEF Writes
  <2>3. PoolBalance'
    BY <2>1, <2>2 DEF PoolBalance, SeqInv, Exists
  <2> QED
    BY <1>2, <2>1, <2>2, <2>3 DEF Sequential, SeqInv
<1> QED
  BY <1>3, <1>4

LEMMA SeqCreatePool == ASSUME Sequential, TypeInv, SeqInv, NEW s \in Sessions, CreatePool(s) PROVE SeqInv'
<1>1. PICK p \in Pools, t \in Targets :
        /\ \A q \in Pools \ {p} : pool'[q] = pool[q]
        /\ pool'[p].status = "PENDING" /\ pool'[p].target = t /\ pool'[p].total = 0 /\ pool'[p].remaining = t
  BY CreatePoolOutcome DEF HasRow, OnlyPool
<1>2. UpToDate(req[s])' /\ t \in Nat
  BY CreatePoolOutcome, EndsUpToDate, ConstantsAssumption
<1>3. PoolBalance'
  BY <1>1, <1>2 DEF PoolBalance, SeqInv, Exists
<1> QED
  BY <1>1, <1>2, <1>3 DEF Sequential, SeqInv

LEMMA SeqStep == ASSUME Sequential PROVE TypeInv /\ Sent /\ LockInv /\ SeqInv /\ [Next]_vars => SeqInv'
<1>1. ASSUME SeqInv, UNCHANGED vars PROVE SeqInv'
  BY <1>1 DEF SeqInv, PoolBalance, UpToDate, Exists, SameMoney, vars
<1>2. ASSUME TypeInv, SeqInv, NEW s \in Sessions, Send(s) \/ Fail(s) PROVE SeqInv'
  BY <1>2, SendOutcome, FailOutcome, EndsUpToDate, SeqFrame
<1>3. ASSUME TypeInv, SeqInv, Crash PROVE SeqInv'
  BY <1>3, CrashOutcome, EndsUpToDate DEF SeqInv, PoolBalance, Exists
<1>4. ASSUME TypeInv, SeqInv, DecayList \/ (\E p \in Pools : DecayWrite(p)) \/ WorkerCrash PROVE SeqInv'
  <2>1. /\ UNCHANGED <<contrib, req>>
        /\ \A p \in Pools : /\ SameMoney(pool'[p], pool[p])
                            /\ Exists(p)' => Exists(p)
                            /\ pool'[p].status = "NONE" => pool[p].status = "NONE"
    BY <1>4, WorkerOutcome DEF OnlyPool, SameMoney, Exists
  <2>2. ASSUME NEW s \in Sessions PROVE UpToDate(req[s])'
    <3>1. Contributing(req[s]) \/ Refunding(req[s]) \/ Retargeting(req[s]) => req[s].pool \in Pools
      BY <1>4, RunningType DEF Contributing, Refunding, Retargeting
    <3> QED
      BY <1>4, <2>1, <3>1 DEF SeqInv, UpToDate, SameMoney
  <2> QED
    BY <1>4, <2>1, <2>2 DEF SeqInv, PoolBalance, SameMoney
<1> QED
  BY <1>1, <1>2, <1>3, <1>4, NextCases, SeqRead, SeqGoesOn, SeqCommits, SeqWrite, SeqCreatePool

\* The ledger's two functions of the pools.
LEMMA LedgerFunctions ==
  ASSUME NEW p \in Pools, \A q \in Pools \ {p} : pool'[q] = pool[q], NEW t, NEW n,
         pool'[p].target = t, pool'[p].total = n
  PROVE  /\ [q \in Pools |-> pool[q].target]' = [[q \in Pools |-> pool[q].target] EXCEPT ![p] = t]
         /\ [q \in Pools |-> pool[q].total]' = [[q \in Pools |-> pool[q].total] EXCEPT ![p] = n]
OBVIOUS

LEMMA SameLedger ==
  ASSUME UNCHANGED contrib, \A q \in Pools : pool'[q].target = pool[q].target /\ pool'[q].total = pool[q].total
  PROVE  UNCHANGED Ledger!ledgerVars
BY DEF Ledger!ledgerVars

LEMMA LedgerCommit ==
  ASSUME TypeInv, Sent, LockInv, GuardInv, SeqInv, NEW s \in Sessions, TxCommitContribution(s)
  PROVE  Ledger!LedgerNext \/ UNCHANGED Ledger!ledgerVars
<1>0. At(s, "createContribution", "commit") /\ req[s].pool \in Pools /\ req[s].key \in Keys
  BY CommitOutcome, RunningType DEF At
<1> PICK p \in Pools, k \in Keys : p = req[s].pool /\ k = req[s].key
  BY <1>0
<1>1. CASE UNCHANGED <<pool, contrib>>
  BY <1>1, SameLedger
<1>2. CASE ~UNCHANGED <<pool, contrib>>
  <2>0. req[s].kzt \in Amounts /\ req[s].kzt > 0
    BY <1>0 DEF Sent, AsSent, At
  <2> PICK a \in Amounts : a = req[s].kzt
    BY <2>0
  <2>1. /\ \A q \in Pools \ {p} : pool'[q] = pool[q]
        /\ pool'[p].target = pool[p].target /\ pool'[p].total = pool[p].total + a
        /\ pool[p].total + pool[p].remaining = pool[p].target
    BY <1>2, SeqCommit
  <2>2. a \in Amounts /\ a > 0 /\ a \in Nat
    BY <2>0, ConstantsAssumption
  <2>3. a <= pool[p].remaining
    BY <1>0 DEF At, GuardInv, GuardHeld, SeqInv, UpToDate, Contributing, SameMoney
  <2>4. pool[p].total + a <= pool[p].target
    <3>1. pool[p] \in Row
      BY DEF TypeInv, TypeOK
    <3> QED
      BY <2>1, <2>2, <2>3, <3>1 DEF Row
  <2>5. /\ contrib[k].status = "NONE"
        /\ contrib' = [contrib EXCEPT ![k] = [status |-> "COMPLETED", pool |-> p, kzt |-> a]]
    BY <1>2 DEF TxCommitContribution, Duplicate
  <2>6. /\ [q \in Pools |-> pool[q].target]' = [[q \in Pools |-> pool[q].target] EXCEPT ![p] = pool[p].target]
        /\ [q \in Pools |-> pool[q].total]' = [[q \in Pools |-> pool[q].total] EXCEPT ![p] = pool[p].total + a]
    BY <2>1, LedgerFunctions
  <2>7. Ledger!Accept(k, p, a)
    BY <2>2, <2>4, <2>5, <2>6 DEF Ledger!Accept
  <2> QED
    BY <2>2, <2>7 DEF Ledger!LedgerNext
<1> QED
  BY <1>1, <1>2

LEMMA LedgerRefund ==
  ASSUME TypeInv, LockInv, SeqInv, NEW s \in Sessions, RefundCommit(s)
  PROVE  Ledger!LedgerNext
<1>0. req[s].pool \in Pools /\ req[s].key \in Keys
  BY RefundOutcome, RunningType DEF At
<1> PICK p \in Pools, k \in Keys : p = req[s].pool /\ k = req[s].key
  BY <1>0
<1>1. /\ \A q \in Pools \ {p} : pool'[q] = pool[q]
      /\ pool'[p].target = pool[p].target /\ pool'[p].total = pool[p].total - contrib[k].kzt
      /\ contrib[k].status = "COMPLETED" /\ contrib[k].pool = p
  BY SeqRefund
<1>2. contrib' = [contrib EXCEPT ![k].status = "REFUNDED"]
  BY DEF RefundCommit
<1>3. /\ [q \in Pools |-> pool[q].target]' = [[q \in Pools |-> pool[q].target] EXCEPT ![p] = pool[p].target]
      /\ [q \in Pools |-> pool[q].total]' =
           [[q \in Pools |-> pool[q].total] EXCEPT ![p] = pool[p].total - contrib[k].kzt]
  BY <1>1, LedgerFunctions
<1>4. Ledger!GiveBack(k)
  BY <1>1, <1>2, <1>3 DEF Ledger!GiveBack
<1> QED
  BY <1>4 DEF Ledger!LedgerNext

LEMMA LedgerWrite ==
  ASSUME TypeInv, Sent, GuardInv, SingleInv, SeqInv, NEW s \in Sessions, WriteSteps(s)
  PROVE  Ledger!LedgerNext \/ UNCHANGED Ledger!ledgerVars
<1>0. Writes(s) /\ req[s].at = "write" /\ UNCHANGED contrib /\ req[s].pool \in Pools /\ AsSent(req[s])
  BY WriteOutcome, RunningType DEF Sent
<1> PICK p \in Pools : p = req[s].pool
  BY <1>0
<1>1. CASE UNCHANGED pool
  BY <1>0, <1>1, SameLedger
<1>2. CASE ~UNCHANGED pool
  <2>0. Exists(p) /\ (\A q \in Pools \ {p} : pool'[q] = pool[q]) /\ pool[p] \in Row
    BY <1>0, <1>2 DEF Writes, OnlyPool, TypeInv, TypeOK
  <2>1. CASE req[s].op = "updatePool"
    <3>0. req[s].kzt \in Targets
      BY <1>0, <2>1 DEF AsSent
    <3> PICK t \in Targets : t = req[s].kzt
      BY <3>0
    <3>1. HasRow(pool'[p], pool[p].status, t, pool[p].total, t - req[s].row.total)
      BY <1>0, <1>2, <2>1 DEF Writes, HasRow
    <3>2. t > 0 /\ pool'[p].target = t /\ pool'[p].total = pool[p].total
      BY <1>0, <2>1, <3>1, SeqRetarget DEF Retargeting
    <3>3. pool[p].total <= t
      BY <1>0, <2>1 DEF GuardInv, GuardHeld, SeqInv, UpToDate, Retargeting, SameMoney
    <3>4. /\ [q \in Pools |-> pool[q].target]' = [[q \in Pools |-> pool[q].target] EXCEPT ![p] = t]
          /\ UNCHANGED [q \in Pools |-> pool[q].total]
      BY <2>0, <3>2, LedgerFunctions
    <3>5. Ledger!SetGoal(p, t)
      BY <1>0, <3>2, <3>3, <3>4 DEF Ledger!SetGoal
    <3> QED
      BY <3>5 DEF Ledger!LedgerNext
  <2>2. CASE req[s].op \in {"updatePoolStatus", "purchasePool", "deliverPool"}
    <3>1. SameMoney(pool'[p], pool[p])
      BY <1>0, <1>2, <2>2 DEF Writes, SameMoney
    <3> QED
      BY <1>0, <2>0, <3>1, SameLedger DEF SameMoney
  <2>3. CASE req[s].op = "deletePool"
    <3>1. InPool(p) = {} /\ pool'[p].target = 0 /\ pool'[p].total = 0
      BY <1>0, <1>2, <2>3 DEF Writes, HasRow
    <3>2. pool[p].total = 0
      BY <2>0, <3>1, SingleMeans DEF DoubleSubmitSafe
    <3>3. /\ [q \in Pools |-> pool[q].target]' = [[q \in Pools |-> pool[q].target] EXCEPT ![p] = 0]
          /\ UNCHANGED [q \in Pools |-> pool[q].total]
      BY <2>0, <3>1, <3>2, LedgerFunctions
    <3>4. \A k \in Keys : contrib[k].pool # p
      BY <3>1 DEF InPool
    <3>5. Ledger!Withdraw(p)
      BY <1>0, <3>3, <3>4 DEF Ledger!Withdraw
    <3> QED
      BY <3>5 DEF Ledger!LedgerNext
  <2> QED
    BY <1>0, <1>2, <2>1, <2>2, <2>3 DEF Writes
<1> QED
  BY <1>1, <1>2

LEMMA LedgerCreatePool ==
  ASSUME TypeInv, SeqInv, NEW s \in Sessions, CreatePool(s)
  PROVE  Ledger!LedgerNext
<1>1. PICK p \in Pools, t \in Targets :
        /\ pool[p].status = "NONE" /\ t > 0 /\ \A q \in Pools \ {p} : pool'[q] = pool[q]
        /\ pool'[p].target = t /\ pool'[p].total = 0
  BY CreatePoolOutcome DEF HasRow, OnlyPool
<1>2. pool[p].total = 0 /\ UNCHANGED contrib /\ t \in Nat
  BY <1>1, CreatePoolOutcome, ConstantsAssumption DEF SeqInv
<1>3. /\ [q \in Pools |-> pool[q].target]' = [[q \in Pools |-> pool[q].target] EXCEPT ![p] = t]
      /\ UNCHANGED [q \in Pools |-> pool[q].total]
  <2>1. [q \in Pools |-> pool[q].target]' = [[q \in Pools |-> pool[q].target] EXCEPT ![p] = t]
    BY <1>1, LedgerFunctions
  <2>2. \A q \in Pools : pool'[q].total = pool[q].total
    BY <1>1, <1>2
  <2> QED
    BY <2>1, <2>2
<1>4. Ledger!SetGoal(p, t)
  BY <1>1, <1>2, <1>3 DEF Ledger!SetGoal
<1> QED
  BY <1>4 DEF Ledger!LedgerNext

LEMMA LedgerStep ==
  ASSUME TypeInv, Sent, LockInv, GuardInv, SingleInv, SeqInv, [Next]_vars
  PROVE  [Ledger!LedgerNext]_(Ledger!ledgerVars)
<1>1. CASE UNCHANGED vars
  BY <1>1, SameLedger DEF vars
<1>2. ASSUME NEW s \in Sessions,
             \/ Send(s) \/ ReadSteps(s) \/ TxReadRemaining(s) \/ TxLookupAndPay(s) \/ TxUpdatePool(s)
             \/ RefundUpdatePool(s) \/ Fail(s)
      PROVE  UNCHANGED Ledger!ledgerVars
  BY <1>2, SendOutcome, ReadOutcome, TxReadOutcome, PayOutcome, LockOutcome, FailOutcome, SameLedger
<1>3. ASSUME DecayList \/ (\E p \in Pools : DecayWrite(p)) \/ WorkerCrash PROVE UNCHANGED Ledger!ledgerVars
  BY <1>3, WorkerOutcome, SameLedger DEF OnlyPool, SameMoney
<1>4. ASSUME Crash PROVE UNCHANGED Ledger!ledgerVars
  BY <1>4, CrashOutcome, SameLedger
<1> QED
  BY <1>1, <1>2, <1>3, <1>4, NextCases, LedgerCommit, LedgerRefund, LedgerWrite, LedgerCreatePool

\* One request after the other, with the worker, failures and restarts in between, the handlers implement
\* the escrow ledger: what a pool shows as funded moves only with the gift it accepts or gives back, and no
\* gift is accepted beyond the goal.  (With two sessions it fails: see the concurrent runs.)
THEOREM LedgerImplemented == ASSUME Sequential PROVE Spec => ImplementsLedger
<1> DEFINE Inv == TypeInv /\ Sent /\ LockInv /\ GuardInv /\ SingleInv /\ SeqInv
<1>1. Init => Inv
  <2> SUFFICES ASSUME Init PROVE GuardInv /\ SingleInv /\ SeqInv
    BY InitTypeInv, InitSent, InitLockInv
  <2>1. GuardInv
    BY IdleGuard DEF Init, GuardInv, RemainingNonNegative, NoRow
  <2>2. SingleInv
    BY InitSingleInv
  <2>3. SeqInv
    BY DEF Init, SeqInv, PoolBalance, Exists, PoolStatuses, NoRow, UpToDate, Contributing, Refunding, Retargeting, Idle
  <2> QED
    BY <2>1, <2>2, <2>3
<1>2. Inv /\ [Next]_vars => Inv'
  BY TypeStep, SentStep, LockStep, GuardStep, SingleStep, SeqStep
<1>3. Init => Ledger!LedgerInit
  BY DEF Init, NoRow, NoContribution, Ledger!LedgerInit, Ledger!NoGift
<1>4. Inv /\ [Next]_vars => [Ledger!LedgerNext]_(Ledger!ledgerVars)
  BY LedgerStep
<1> QED
  BY <1>1, <1>2, <1>3, <1>4, PTL DEF Spec, ImplementsLedger, Ledger!LedgerSpec

(***************************************************************************)
(* The ledger keeps its promise: what a pool shows is what its gifts come  *)
(* to, counted tenge by tenge.                                             *)
(***************************************************************************)
Coins(k, n) == {k} \X (1..n)

TengeOf(g, p) ==
  UNION {Coins(k, g[k].kzt) : k \in {j \in Keys : g[j].status = "COMPLETED" /\ g[j].pool = p}}

LEMMA TengeOfGifts == \A p : Ledger!Tenge(p) = TengeOf(contrib, p)
BY DEF Ledger!Tenge, Ledger!KeptBy, TengeOf, Coins

\* A gift of n tenge has n of them.
LEMMA TengeOfOne ==
  ASSUME NEW k, NEW n \in Nat
  PROVE  IsFiniteSet(Coins(k, n)) /\ Cardinality(Coins(k, n)) = n
<1>1. IsFiniteSet({k}) /\ Cardinality({k}) = 1
  BY FS_Singleton
<1>2. IsFiniteSet(1..n) /\ Cardinality(1..n) = n
  BY FS_Interval
<1>3. IsFiniteSet(Coins(k, n)) /\ Cardinality(Coins(k, n)) = Cardinality({k}) * Cardinality(1..n)
  BY <1>1, <1>2, FS_Product DEF Coins
<1> QED
  BY <1>1, <1>2, <1>3

\* The tenge of a set of gifts with one gift more.
LEMMA TengeJoined ==
  ASSUME NEW S, IsFiniteSet(S), NEW k, NEW n \in Nat, \A i : <<k, i>> \notin S
  PROVE  IsFiniteSet(S \cup Coins(k, n)) /\ Cardinality(S \cup Coins(k, n)) = Cardinality(S) + n
<1> DEFINE T == Coins(k, n)
<1>1. IsFiniteSet(T) /\ Cardinality(T) = n
  BY TengeOfOne
<1>2. S \cap T = {}
  BY DEF Coins
<1>3. IsFiniteSet(S \cup T) /\ Cardinality(S \cup T) = Cardinality(S) + Cardinality(T) - Cardinality(S \cap T)
  BY <1>1, FS_Union
<1>4. Cardinality(S \cap T) = 0 /\ Cardinality(S) \in Nat
  BY <1>2, FS_EmptySet, FS_CardinalityType
<1> HIDE DEF T
<1> QED
  BY <1>1, <1>3, <1>4 DEF T

\* A pool that gets gift k of a tenge, and one that does not.
LEMMA TengeAfterGift ==
  ASSUME NEW g, NEW h, NEW k \in Keys, NEW p, NEW a \in Nat,
         g[k].status # "COMPLETED", h[k].status = "COMPLETED", h[k].pool = p, h[k].kzt = a,
         \A j \in Keys \ {k} : h[j] = g[j]
  PROVE  /\ TengeOf(h, p) = TengeOf(g, p) \cup Coins(k, a)
         /\ \A i : <<k, i>> \notin TengeOf(g, p)
         /\ \A q : q # p => TengeOf(h, q) = TengeOf(g, q)
BY DEF TengeOf, Coins

\* Gift k given back.
LEMMA TengeAfterRefund ==
  ASSUME NEW g, NEW h, NEW k \in Keys,
         g[k].status = "COMPLETED", h[k].status # "COMPLETED",
         \A j \in Keys \ {k} : h[j] = g[j]
  PROVE  /\ TengeOf(g, g[k].pool) = TengeOf(h, g[k].pool) \cup Coins(k, g[k].kzt)
         /\ \A i : <<k, i>> \notin TengeOf(h, g[k].pool)
         /\ TengeOf(h, g[k].pool) \subseteq TengeOf(g, g[k].pool)
         /\ \A q : q # g[k].pool => TengeOf(h, q) = TengeOf(g, q)
BY DEF TengeOf, Coins

\* What a pool shows is what its gifts come to, and they are finitely many tenge.
CountInv ==
  \A p \in Pools : /\ IsFiniteSet(TengeOf(contrib, p))
                   /\ pool[p].total = Cardinality(TengeOf(contrib, p))
                   /\ pool[p].total <= pool[p].target

\* The amounts of a pool, as the ledger's functions show them after a step.
LEMMA LedgerShows ==
  ASSUME NEW f, NEW g
  PROVE  /\ [p \in Pools |-> pool[p].target]' = f => \A p \in Pools : pool'[p].target = f[p]
         /\ [p \in Pools |-> pool[p].total]' = g => \A p \in Pools : pool'[p].total = g[p]
<1>1. ASSUME [p \in Pools |-> pool[p].target]' = f, NEW p \in Pools PROVE pool'[p].target = f[p]
  <2>1. [q \in Pools |-> pool'[q].target][p] = f[p]
    BY <1>1
  <2> QED
    BY <2>1
<1>2. ASSUME [p \in Pools |-> pool[p].total]' = g, NEW p \in Pools PROVE pool'[p].total = g[p]
  <2>1. [q \in Pools |-> pool'[q].total][p] = g[p]
    BY <1>2
  <2> QED
    BY <2>1
<1> QED
  BY <1>1, <1>2

LEMMA CountGoal ==
  ASSUME TypeInv, CountInv, NEW p \in Pools, NEW t \in Nat, Ledger!SetGoal(p, t)
  PROVE  CountInv'
<1>1. /\ \A q \in Pools : pool'[q].total = pool[q].total
      /\ \A q \in Pools : pool'[q].target = (IF q = p THEN t ELSE pool[q].target)
      /\ pool[p].total <= t /\ UNCHANGED contrib
  BY LedgerShows DEF Ledger!SetGoal
<1> QED
  BY <1>1 DEF CountInv

LEMMA CountWithdraw ==
  ASSUME TypeInv, CountInv, NEW p \in Pools, Ledger!Withdraw(p)
  PROVE  CountInv'
<1>1. /\ \A q \in Pools : pool'[q].total = pool[q].total
      /\ \A q \in Pools : pool'[q].target = (IF q = p THEN 0 ELSE pool[q].target)
      /\ (\A k \in Keys : contrib[k].pool # p) /\ UNCHANGED contrib
  BY LedgerShows DEF Ledger!Withdraw
<1>2. TengeOf(contrib, p) = {}
  BY <1>1 DEF TengeOf
<1>3. pool[p].total = 0
  BY <1>2, FS_EmptySet DEF CountInv
<1> QED
  BY <1>1, <1>3 DEF CountInv

LEMMA CountAccept ==
  ASSUME TypeInv, CountInv, NEW k \in Keys, NEW p \in Pools, NEW a \in Amounts, Ledger!Accept(k, p, a)
  PROVE  CountInv'
<1>1. /\ \A q \in Pools : pool'[q].total = (IF q = p THEN pool[p].total + a ELSE pool[q].total)
      /\ \A q \in Pools : pool'[q].target = pool[q].target
      /\ pool[p].total + a <= pool[p].target
  BY LedgerShows DEF Ledger!Accept
<1>2. /\ contrib[k].status = "NONE" /\ DOMAIN contrib = Keys
      /\ contrib' = [contrib EXCEPT ![k] = [status |-> "COMPLETED", pool |-> p, kzt |-> a]]
  BY DEF Ledger!Accept, TypeInv, TypeOK
<1>3. PICK g, h : g = contrib /\ h = contrib'
  OBVIOUS
<1>4. /\ g[k].status # "COMPLETED" /\ h[k].status = "COMPLETED" /\ h[k].pool = p /\ h[k].kzt = a
      /\ \A j \in Keys \ {k} : h[j] = g[j]
  BY <1>2, <1>3
<1>5. a \in Nat
  BY ConstantsAssumption
<1>6. /\ TengeOf(h, p) = TengeOf(g, p) \cup Coins(k, a)
      /\ \A i : <<k, i>> \notin TengeOf(g, p)
      /\ \A q : q # p => TengeOf(h, q) = TengeOf(g, q)
  BY <1>4, <1>5, TengeAfterGift
<1>7. IsFiniteSet(TengeOf(g, p)) /\ pool[p].total = Cardinality(TengeOf(g, p))
  BY <1>3 DEF CountInv
<1>8. IsFiniteSet(TengeOf(h, p)) /\ Cardinality(TengeOf(h, p)) = Cardinality(TengeOf(g, p)) + a
  BY <1>5, <1>6, <1>7, TengeJoined
<1>9. ASSUME NEW q \in Pools
      PROVE  /\ IsFiniteSet(TengeOf(h, q))
             /\ pool'[q].total = Cardinality(TengeOf(h, q))
             /\ pool'[q].total <= pool'[q].target
  <2>1. CASE q = p
    BY <1>1, <1>7, <1>8, <2>1
  <2>2. CASE q # p
    BY <1>1, <1>3, <1>6, <2>2 DEF CountInv
  <2> QED
    BY <2>1, <2>2
<1> QED
  BY <1>3, <1>9 DEF CountInv

LEMMA CountGiveBack ==
  ASSUME TypeInv, CountInv, NEW k \in Keys, contrib[k].pool \in Pools, Ledger!GiveBack(k)
  PROVE  CountInv'
<1>0. PICK p \in Pools, a \in Nat : p = contrib[k].pool /\ a = contrib[k].kzt
  BY DEF TypeInv, TypeOK, Contribution
<1>1. /\ \A q \in Pools : pool'[q].total = (IF q = p THEN pool[p].total - a ELSE pool[q].total)
      /\ \A q \in Pools : pool'[q].target = pool[q].target
  BY <1>0, LedgerShows DEF Ledger!GiveBack
<1>2. /\ contrib[k].status = "COMPLETED"
      /\ contrib' = [contrib EXCEPT ![k].status = "REFUNDED"] /\ contrib \in [Keys -> Contribution]
  BY DEF Ledger!GiveBack, TypeInv, TypeOK
<1>3. PICK g, h : g = contrib /\ h = contrib'
  OBVIOUS
<1>4. /\ g[k].status = "COMPLETED" /\ h[k].status # "COMPLETED" /\ g[k].pool = p /\ g[k].kzt = a
      /\ \A j \in Keys \ {k} : h[j] = g[j]
  BY <1>0, <1>2, <1>3 DEF Contribution
<1>6. /\ TengeOf(g, p) = TengeOf(h, p) \cup Coins(k, a)
      /\ \A i : <<k, i>> \notin TengeOf(h, p)
      /\ TengeOf(h, p) \subseteq TengeOf(g, p)
      /\ \A q : q # p => TengeOf(h, q) = TengeOf(g, q)
  BY <1>4, TengeAfterRefund
<1>7. IsFiniteSet(TengeOf(g, p)) /\ pool[p].total = Cardinality(TengeOf(g, p)) /\ pool[p].total <= pool[p].target
  BY <1>3 DEF CountInv
<1>8. IsFiniteSet(TengeOf(h, p)) /\ Cardinality(TengeOf(h, p)) \in Nat
  BY <1>6, <1>7, FS_Subset, FS_CardinalityType
<1>9. Cardinality(TengeOf(g, p)) = Cardinality(TengeOf(h, p)) + a
  BY <1>6, <1>8, TengeJoined
<1>10. pool[p] \in Row
  BY DEF TypeInv, TypeOK
<1>11. ASSUME NEW q \in Pools
      PROVE  /\ IsFiniteSet(TengeOf(h, q))
             /\ pool'[q].total = Cardinality(TengeOf(h, q))
             /\ pool'[q].total <= pool'[q].target
  <2>1. CASE q = p
    <3>1. pool'[p].total = Cardinality(TengeOf(h, p)) /\ pool'[p].total <= pool[p].target
      BY <1>1, <1>7, <1>8, <1>9, <1>10 DEF Row
    <3> QED
      BY <1>1, <1>8, <2>1, <3>1
  <2>2. CASE q # p
    BY <1>1, <1>3, <1>6, <2>2 DEF CountInv
  <2> QED
    BY <2>1, <2>2
<1> QED
  BY <1>3, <1>11 DEF CountInv

\* Each step of the ledger keeps the count.
LEMMA CountStep ==
  ASSUME TypeInv, CountInv, [Ledger!LedgerNext]_(Ledger!ledgerVars)
  PROVE  CountInv'
<1>1. CASE UNCHANGED Ledger!ledgerVars
  <2>1. UNCHANGED contrib /\ \A p \in Pools : pool'[p].total = pool[p].total /\ pool'[p].target = pool[p].target
    BY <1>1, LedgerShows DEF Ledger!ledgerVars
  <2> QED
    BY <2>1 DEF CountInv
<1>2. ASSUME NEW p \in Pools, Ledger!Withdraw(p) PROVE CountInv'
  BY <1>2, CountWithdraw
<1>3. ASSUME NEW p \in Pools, NEW t \in Targets, Ledger!SetGoal(p, t) PROVE CountInv'
  BY <1>3, CountGoal, ConstantsAssumption
<1>4. ASSUME NEW k \in Keys, Ledger!GiveBack(k) PROVE CountInv'
  <2>1. contrib[k].pool \in Pools
    BY <1>4 DEF Ledger!GiveBack, TypeInv, WellFormed
  <2> QED
    BY <1>4, <2>1, CountGiveBack
<1>5. ASSUME NEW k \in Keys, NEW p \in Pools, NEW a \in Amounts, Ledger!Accept(k, p, a) PROVE CountInv'
  BY <1>5, CountAccept
<1> QED
  BY <1>1, <1>2, <1>3, <1>4, <1>5 DEF Ledger!LedgerNext

\* One request after the other, totalFunded is what the COMPLETED contributions come to, and never more than
\* the target.
THEOREM CountedExactly == ASSUME Sequential PROVE Spec => []LedgerExact
<1>1. Init => CountInv
  <2> SUFFICES ASSUME Init, NEW p \in Pools
               PROVE  /\ IsFiniteSet(TengeOf(contrib, p))
                      /\ pool[p].total = Cardinality(TengeOf(contrib, p))
                      /\ pool[p].total <= pool[p].target
    BY DEF CountInv
  <2>1. TengeOf(contrib, p) = {}
    BY DEF Init, NoContribution, TengeOf
  <2>2. pool[p].total = 0 /\ pool[p].target = 0
    BY DEF Init, NoRow
  <2> QED
    BY <2>1, <2>2, FS_EmptySet
<1>2. TypeInv /\ CountInv /\ [Ledger!LedgerNext]_(Ledger!ledgerVars) => CountInv'
  BY CountStep
<1>3. CountInv => LedgerExact
  <2> SUFFICES ASSUME CountInv, NEW p \in Pools
               PROVE  pool[p].total = Ledger!Kept(p) /\ Ledger!Kept(p) <= pool[p].target
    BY DEF LedgerExact, Ledger!Exact
  <2>1. Ledger!Kept(p) = Cardinality(TengeOf(contrib, p))
    <3>1. \A S : Ledger!Cardinality(S) = Cardinality(S)
      BY DEF Ledger!Cardinality, Cardinality
    <3> QED
      BY <3>1, TengeOfGifts DEF Ledger!Kept
  <2> QED
    BY <2>1 DEF CountInv
<1>4. Spec => ImplementsLedger
  BY LedgerImplemented
<1>5. Spec => []TypeInv
  BY InitTypeInv, TypeStep, PTL DEF Spec
<1>6. Spec => Init
  BY DEF Spec
<1> QED
  BY <1>1, <1>2, <1>3, <1>4, <1>5, <1>6, PTL DEF ImplementsLedger, Ledger!LedgerSpec
=============================================================================
