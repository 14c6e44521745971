---------------------------- MODULE PoolFunding ----------------------------
(***************************************************************************)
(* Gift pools and the money in them: every handler that writes a           *)
(* gift_pools or contributions row (contributionController.js,             *)
(* poolController.js) and the worker's dead-stock decay.                   *)
(*                                                                         *)
(* A handler is split at its awaits: other requests run between two of     *)
(* its steps, and req[s] is what it carries over them.  The database is    *)
(* PostgreSQL at READ COMMITTED: a statement reads what is committed, an   *)
(* UPDATE waits for the transaction that holds the row and then overwrites *)
(* it with the values the handler computed earlier, and what a transaction *)
(* wrote is applied when it commits.                                       *)
(***************************************************************************)
EXTENDS Integers, FiniteSets

CONSTANTS
  Pools,       \* gift pool ids
  Keys,        \* idempotency keys (paymentIntentId, unique)
  ForeignKeys, \* keys whose contribution is in another currency than KZT
  Sessions,    \* clients; each has one request in flight at most
  Amounts,     \* contribution amounts, converted and rounded to KZT
  Targets,     \* pool targets, in KZT
  Operations,  \* the operations in use, a subset of AllOperations
  None         \* no pool, no key, no session

AllOperations == {"createContribution", "deleteContribution", "createPool", "updatePool",
                  "updatePoolStatus", "purchasePool", "deliverPool", "deletePool", "deadStockDecay"}

ASSUME ConstantsAssumption ==
  /\ ForeignKeys \subseteq Keys
  /\ Amounts \subseteq Nat /\ Targets \subseteq Nat
  /\ Operations \subseteq AllOperations
  /\ None \notin Pools \cup Keys \cup Sessions

VARIABLES
  pool,     \* pool[p]: the gift_pools row
  contrib,  \* contrib[k]: the contributions row with payment_intent_id k
  rates,    \* keys whose request left a row in exchange_rate_snapshots
  paid,     \* keys in paymentService's idempotencyStore, lost with the process
  charges,  \* charges[k]: payments made for k (0, 1, or 2 for more than one)
  stale,    \* pools the decay job has listed and not yet written
  lock,     \* lock[p]: the session whose open transaction updated row p
  req       \* req[s]: the request of session s and its handler's local state

vars == <<pool, contrib, rates, paid, charges, stale, lock, req>>

PoolStatuses == {"PENDING", "FUNDING", "FUNDED", "PURCHASED", "DELIVERED"}
NoRow == [status |-> "NONE", target |-> 0, total |-> 0, remaining |-> 0]
DeletedRow == [status |-> "DELETED", target |-> 0, total |-> 0, remaining |-> 0]
NoContribution == [status |-> "NONE", pool |-> None, kzt |-> 0]
Steps == {"read", "readPool", "txRead", "lookup", "update", "commit", "write"}

ValidTransitions ==
  {<<"PENDING", "FUNDING">>, <<"FUNDING", "FUNDED">>, <<"FUNDED", "PURCHASED">>, <<"PURCHASED", "DELIVERED">>}

Exists(p) == pool[p].status \in PoolStatuses
Open(status) == status \in {"PENDING", "FUNDING"}
InPool(p) == {k \in Keys : contrib[k].pool = p}

(***************************************************************************)
(* Requests.                                                               *)
(***************************************************************************)
Request(op, p, k, n, status) ==
  [at |-> "read", op |-> op, pool |-> p, key |-> k, kzt |-> n, status |-> status,
   row |-> NoRow, answer |-> "other"]

\* Between requests a client knows only whether its last request was refused (4xx).
Idle(answer) ==
  [at |-> "idle", op |-> "none", pool |-> None, key |-> None, kzt |-> 0, status |-> "NONE",
   row |-> NoRow, answer |-> answer]

\* A refund names a contribution the admin has seen; its pool_id never changes.
ClientRequests ==
  {Request("createContribution", p, k, a, "NONE") : p \in Pools, k \in Keys, a \in Amounts}
  \cup {Request("deleteContribution", contrib[k].pool, k, 0, "NONE") :
          k \in {j \in Keys : contrib[j].status # "NONE"}}
  \cup {Request("updatePool", p, None, t, "NONE") : p \in Pools, t \in Targets}
  \cup {Request("updatePoolStatus", p, None, 0, st) : p \in Pools, st \in PoolStatuses}
  \cup {Request("purchasePool", p, None, 0, "PURCHASED") : p \in Pools}
  \cup {Request("deliverPool", p, None, 0, "DELIVERED") : p \in Pools}
  \cup {Request("deletePool", p, None, 0, "NONE") : p \in Pools}

Init == /\ pool = [p \in Pools |-> NoRow]
        /\ contrib = [k \in Keys |-> NoContribution]
        /\ rates = {} /\ paid = {} /\ stale = {}
        /\ charges = [k \in Keys |-> 0]
        /\ lock = [p \in Pools |-> None]
        /\ req = [s \in Sessions |-> Idle("other")]

database == <<pool, contrib, rates, lock>>
outside == <<paid, charges, stale>>

At(s, op, step) == req[s].op = op /\ req[s].at = step
Goto(s, step) == req' = [req EXCEPT ![s].at = step]
Carrying(r, step, row) == [r EXCEPT !.at = step, !.row = row]
GotoWith(s, step, row) == req' = [req EXCEPT ![s] = Carrying(@, step, row)]
Done(s) == req' = [req EXCEPT ![s] = Idle("other")]
Refuse(s) == req' = [req EXCEPT ![s] = Idle("refused")]

Send(s) == /\ req[s].at = "idle"
           /\ \E r \in ClientRequests : r.op \in Operations /\ req' = [req EXCEPT ![s] = r]
           /\ UNCHANGED <<database, outside>>

\* A read of row p: go on with what was read when the checks hold, else answer 4xx.
ReadPool(s, op, checks, next) ==
  /\ At(s, op, "read")
  /\ IF Exists(req[s].pool) /\ checks
     THEN GotoWith(s, next, pool[req[s].pool])
     ELSE Refuse(s)
  /\ UNCHANGED <<database, outside>>

\* A transaction's UPDATE of row p: it waits for the row, and a missing row is an error.
LockRow(s) ==
  LET p == req[s].pool IN
  /\ lock[p] = None
  /\ IF Exists(p) THEN /\ lock' = [lock EXCEPT ![p] = s]
                       /\ Goto(s, "commit")
                  ELSE Done(s) /\ UNCHANGED lock

\* COMMIT and ROLLBACK let go of the row.
LeftOpen(p) == lock        \* mutated: the transaction is never closed
Release(p) == [lock EXCEPT ![p] = None]

\* A single-statement write of row p, outside any transaction.
WriteRow(s, op, row) ==
  LET p == req[s].pool IN
  /\ At(s, op, "write")
  /\ lock[p] = None
  /\ IF Exists(p) THEN pool' = [pool EXCEPT ![p] = row] ELSE UNCHANGED pool
  /\ Done(s)
  /\ UNCHANGED <<contrib, rates, lock, outside>>

(***************************************************************************)
(* createContribution.                                                     *)
(***************************************************************************)
ReadPoolForContribution(s) ==
  ReadPool(s, "createContribution", Open(pool[req[s].pool].status) /\ req[s].kzt > 0, "txRead")

FitsByOne(row, n) == n <= row.remaining + 1        \* mutated: off by one
Fits(row, n) == n <= row.remaining

TxReadRemaining(s) ==
  /\ At(s, "createContribution", "txRead")
  /\ LET row == pool[req[s].pool] IN
     IF ~Exists(req[s].pool) THEN Done(s)
     ELSE IF Fits(row, req[s].kzt) THEN GotoWith(s, "lookup", row)
     ELSE Refuse(s)
  /\ UNCHANGED <<database, outside>>

\* processPayment: a key it has seen in this process is not paid again.
ProcessPayment(k) ==
  /\ paid' = paid \cup {k}
  /\ charges' = IF k \in paid \/ charges[k] = 2 THEN charges ELSE [charges EXCEPT ![k] = @ + 1]

\* The existing contribution is returned, or the payment is made.
TxLookupAndPay(s) ==
  /\ At(s, "createContribution", "lookup")
  /\ IF contrib[req[s].key].status # "NONE"
     THEN Done(s) /\ UNCHANGED <<paid, charges>>
     ELSE Goto(s, "update") /\ ProcessPayment(req[s].key)
  /\ UNCHANGED <<database, stale>>

\* recordExchangeRateSnapshot uses the global client: its row survives a rollback.
RecordNoRate(k) == UNCHANGED rates        \* mutated: the snapshot is forgotten
RecordRate(k) == rates' = IF k \in ForeignKeys THEN rates \cup {k} ELSE rates

TxUpdatePool(s) ==
  /\ At(s, "createContribution", "update")
  /\ LockRow(s)
  /\ IF Exists(req[s].pool) THEN RecordRate(req[s].key) ELSE UNCHANGED rates
  /\ UNCHANGED <<pool, contrib, outside>>

\* mutated: totalFunded as an atomic increment, remainingTarget still absolute
FundedByIncrement(current, read, n) ==
  [status |-> IF read.remaining = n THEN "FUNDED" ELSE "FUNDING", target |-> current.target,
   total |-> current.total + n, remaining |-> read.remaining - n]

\* The columns a contribution of n writes, from the row read in the transaction.
Funded(current, read, n) ==
  [status |-> IF read.remaining = n THEN "FUNDED" ELSE "FUNDING", target |-> current.target,
   total |-> read.total + n, remaining |-> read.remaining - n]

NeverDuplicate(k) == FALSE        \* mutated: payment_intent_id without its unique index
Duplicate(k) == contrib[k].status # "NONE"

\* The INSERT, and the COMMIT; a key taken meanwhile (P2002) rolls everything back.
TxCommitContribution(s) ==
  LET r == req[s] IN
  /\ At(s, "createContribution", "commit")
  /\ lock' = Release(r.pool)
  /\ IF Duplicate(r.key)
     THEN Refuse(s) /\ UNCHANGED <<pool, contrib>>
     ELSE /\ contrib' = [contrib EXCEPT ![r.key] = [status |-> "COMPLETED", pool |-> r.pool, kzt |-> r.kzt]]
          /\ pool' = [pool EXCEPT ![r.pool] = Funded(@, r.row, r.kzt)]
          /\ Done(s)
  /\ UNCHANGED <<rates, outside>>

(***************************************************************************)
(* deleteContribution: the refund.                                         *)
(***************************************************************************)
\* findUnique with include is two SELECTs: the contribution, then its pool.  Whatever commits between them
\* is in the second and not in the first; a contribution without its pool would be an error of Prisma's.
ReadContribution(s) ==
  /\ At(s, "deleteContribution", "read")
  /\ IF contrib[req[s].key].status = "COMPLETED" THEN Goto(s, "readPool") ELSE Refuse(s)
  /\ UNCHANGED <<database, outside>>

ReadPoolOfContribution(s) ==
  /\ At(s, "deleteContribution", "readPool")
  /\ IF Exists(req[s].pool) THEN GotoWith(s, "update", pool[req[s].pool]) ELSE Done(s)
  /\ UNCHANGED <<database, outside>>

RefundUpdatePool(s) ==
  /\ At(s, "deleteContribution", "update")
  /\ LockRow(s)
  /\ UNCHANGED <<pool, contrib, rates, outside>>

\* mutated: the pool keeps its status
RefundedKeepingStatus(current, read, n) ==
  [status |-> current.status, target |-> current.target, total |-> read.total - n, remaining |-> read.remaining + n]

\* mutated: the contribution's status is written to the pool
RefundedWrongStatus(current, read, n) ==
  [status |-> "REFUNDED", target |-> current.target, total |-> read.total - n, remaining |-> read.remaining + n]

\* mutated: totalFunded is left as it was
RefundedKeepingTotal(current, read, n) ==
  [status |-> "FUNDING", target |-> current.target, total |-> current.total, remaining |-> read.remaining + n]

Refunded(current, read, n) ==
  [status |-> "FUNDING", target |-> current.target, total |-> read.total - n, remaining |-> read.remaining + n]

RefundCommit(s) ==
  LET r == req[s] IN
  /\ At(s, "deleteContribution", "commit")
  /\ lock' = Release(r.pool)
  /\ contrib' = [contrib EXCEPT ![r.key].status = "REFUNDED"]
  /\ pool' = [pool EXCEPT ![r.pool] = Refunded(@, r.row, contrib[r.key].kzt)]
  /\ Done(s)
  /\ UNCHANGED <<rates, outside>>

(***************************************************************************)
(* The pool handlers.                                                      *)
(***************************************************************************)
\* One INSERT; autoincrement gives an id never used before.
CreatePool(s) ==
  /\ "createPool" \in Operations /\ req[s].at = "idle"
  /\ \E p \in Pools, t \in Targets :
        /\ pool[p].status = "NONE" /\ t > 0
        /\ pool' = [pool EXCEPT ![p] = [status |-> "PENDING", target |-> t, total |-> 0, remaining |-> t]]
  /\ Done(s)
  /\ UNCHANGED <<contrib, rates, lock, outside>>

MayRetarget(row, t) == Open(row.status) /\ t > 0 /\ t >= row.total

ReadForUpdatePool(s) == ReadPool(s, "updatePool", MayRetarget(pool[req[s].pool], req[s].kzt), "write")

\* mutated: the new target remains in full
RetargetedFully(current, read, t) ==
  [status |-> current.status, target |-> t, total |-> current.total, remaining |-> t]

Retargeted(current, read, t) ==
  [status |-> current.status, target |-> t, total |-> current.total, remaining |-> t - read.total]

WriteUpdatePool(s) ==
  WriteRow(s, "updatePool", Retargeted(pool[req[s].pool], req[s].row, req[s].kzt))

WithStatus(s) == [pool[req[s].pool] EXCEPT !.status = req[s].status]

ReadForStatus(s) ==
  ReadPool(s, "updatePoolStatus", <<pool[req[s].pool].status, req[s].status>> \in ValidTransitions, "write")
WriteStatus(s) == WriteRow(s, "updatePoolStatus", WithStatus(s))

ReadForPurchase(s) == ReadPool(s, "purchasePool", pool[req[s].pool].status = "FUNDED", "write")
WritePurchase(s) == WriteRow(s, "purchasePool", WithStatus(s))

ReadForDelivery(s) == ReadPool(s, "deliverPool", pool[req[s].pool].status = "PURCHASED", "write")
WriteDelivery(s) == WriteRow(s, "deliverPool", WithStatus(s))

ReadForDeletePool(s) == ReadPool(s, "deletePool", InPool(req[s].pool) = {}, "write")

\* contributions.pool_id is ON DELETE RESTRICT.
Unrestricted(p) == FALSE        \* mutated: no foreign key
Restricted(p) == InPool(p) # {}

WriteDeletePool(s) ==
  LET p == req[s].pool IN
  /\ At(s, "deletePool", "write")
  /\ lock[p] = None
  /\ IF Exists(p) /\ ~Restricted(p)
     THEN pool' = [pool EXCEPT ![p] = DeletedRow]
     ELSE UNCHANGED pool
  /\ Done(s)
  /\ UNCHANGED <<contrib, rates, lock, outside>>

(***************************************************************************)
(* The worker's handleDeadStockDecay: findMany, then one UPDATE per pool.  *)
(* Which of the candidates have rested for 30 days is left open.           *)
(***************************************************************************)
DecayList ==
  /\ "deadStockDecay" \in Operations /\ stale = {}
  /\ stale' \in SUBSET {p \in Pools : pool[p].status = "FUNDING" /\ pool[p].total = 0}
  /\ stale' # {}
  /\ UNCHANGED <<database, paid, charges, req>>

DecayWrite(p) ==
  /\ p \in stale /\ lock[p] = None
  /\ IF Exists(p) THEN /\ pool' = [pool EXCEPT ![p].status = "PENDING"]
                       /\ stale' = stale \ {p}
                  ELSE stale' = {} /\ UNCHANGED pool
  /\ UNCHANGED <<contrib, rates, lock, paid, charges, req>>

(***************************************************************************)
(* Failures.  A request may fail at any await (database gone, no exchange  *)
(* rate, Prisma's transaction timeout): its transaction rolls back.  The   *)
(* API process may die with all requests, and the worker with its job.     *)
(***************************************************************************)
Fail(s) ==
  /\ req[s].at # "idle"
  /\ lock' = [p \in Pools |-> IF lock[p] = s THEN None ELSE lock[p]]
  /\ Done(s)
  /\ UNCHANGED <<pool, contrib, rates, outside>>

Crash ==
  /\ lock' = [p \in Pools |-> None]
  /\ req' = [s \in Sessions |-> Idle("other")]
  /\ paid' = {}
  /\ UNCHANGED <<pool, contrib, rates, charges, stale>>

WorkerCrash == stale # {} /\ stale' = {} /\ UNCHANGED <<database, paid, charges, req>>

(***************************************************************************)
(* The specification.                                                      *)
(***************************************************************************)
\* The steps that may wait for a row, and those that never wait.
WaitingStep(s) ==
  \/ TxUpdatePool(s) \/ RefundUpdatePool(s)
  \/ WriteUpdatePool(s) \/ WriteStatus(s) \/ WritePurchase(s) \/ WriteDelivery(s) \/ WriteDeletePool(s)

FreeStep(s) ==
  \/ ReadPoolForContribution(s) \/ TxReadRemaining(s) \/ TxLookupAndPay(s) \/ TxCommitContribution(s)
  \/ ReadContribution(s) \/ ReadPoolOfContribution(s) \/ RefundCommit(s)
  \/ ReadForUpdatePool(s) \/ ReadForStatus(s) \/ ReadForPurchase(s) \/ ReadForDelivery(s) \/ ReadForDeletePool(s)

Next == \/ \E s \in Sessions : Send(s) \/ CreatePool(s) \/ WaitingStep(s) \/ FreeStep(s) \/ Fail(s)
        \/ DecayList \/ \E p \in Pools : DecayWrite(p)
        \/ Crash \/ WorkerCrash

Spec == Init /\ [][Next]_vars

\* A handler goes on while its process lives; PostgreSQL queues the waiters of a row.
Fairness == \A s \in Sessions : WF_vars(FreeStep(s)) /\ SF_vars(WaitingStep(s))

FairSpec == Spec /\ Fairness

(***************************************************************************)
(* Properties.                                                             *)
(***************************************************************************)
Row == [status : PoolStatuses \cup {"NONE", "DELETED"}, target : Nat, total : Int, remaining : Int]
Contribution == [status : {"NONE", "COMPLETED", "REFUNDED"}, pool : Pools \cup {None}, kzt : Nat]
RequestState ==
  [at : Steps \cup {"idle"}, op : AllOperations \cup {"none"}, pool : Pools \cup {None},
   key : Keys \cup {None}, kzt : Nat, status : PoolStatuses \cup {"NONE"}, row : Row, answer : {"other", "refused"}]

\* Every variable holds what its column, Map or local variable may hold; a refund may take totalFunded
\* below zero, so it is an integer.
TypeOK ==
  /\ pool \in [Pools -> Row]
  /\ contrib \in [Keys -> Contribution]
  /\ rates \subseteq Keys /\ paid \subseteq Keys /\ stale \subseteq Pools
  /\ charges \in [Keys -> 0..2]
  /\ lock \in [Pools -> Sessions \cup {None}]
  /\ req \in [Sessions -> RequestState]

\* The guard "amount > remainingTarget" is evaluated on a row another request may overwrite before this
\* one writes; whatever the interleaving, no pool is ever left with a negative remaining target.
RemainingNonNegative == \A p \in Pools : pool[p].remaining >= 0

\* Contributions and refunds write totalFunded and remainingTarget as absolute values computed from one
\* read: a lost update loses both halves together, so they still add up to the target.  (Stated for
\* clients that change no target.)
PoolBalance == \A p \in Pools : Exists(p) => pool[p].total + pool[p].remaining = pool[p].target

\* A pool says FUNDED only when nothing remains, though status and remainingTarget are written by
\* handlers that race.  (Stated for clients that set no status and no target by hand.)
FundedMeansFull == \A p \in Pools : pool[p].status = "FUNDED" => pool[p].remaining = 0

\* Duplicates of one submission, in any number, at any speed and mixed with refunds, rollbacks and
\* restarts: a pool without contribution rows shows nothing; one with a single row shows exactly that
\* contribution until it is refunded, and nothing of it afterwards.  (Overlapping refunds may subtract it
\* more than once: see RefundedOnce.)
DoubleSubmitSafe ==
  \A p \in Pools : Exists(p) =>
    /\ InPool(p) = {} => pool[p].total = 0
    /\ \A k \in Keys : InPool(p) = {k} =>
         IF contrib[k].status = "COMPLETED" THEN pool[p].total = contrib[k].kzt ELSE pool[p].total <= 0

\* "Refunds the contribution amount to the pool": a pool whose only contribution was refunded is back at
\* nothing collected, however many refunds of it were asked for.
RefundedOnce ==
  \A p \in Pools, k \in Keys :
    Exists(p) /\ InPool(p) = {k} /\ contrib[k].status = "REFUNDED" => pool[p].total = 0

\* A stored contribution never changes its pool or amount, and its status moves only from COMPLETED to
\* REFUNDED, once: neither a retry of its key nor a refund racing it rewrites it.
ContributionLifecycle ==
  [][\A k \in Keys : contrib[k].status # "NONE" =>
       \/ contrib'[k] = contrib[k]
       \/ contrib[k].status = "COMPLETED" /\ contrib'[k] = [contrib[k] EXCEPT !.status = "REFUNDED"]]_vars

\* Every stored contribution was paid, and the rate of a foreign one was recorded, even when the process
\* died and forgot its payments between an attempt and the retry that stored it.
BackedByPayment ==
  \A k \in Keys : contrib[k].status # "NONE" => charges[k] > 0 /\ (k \in ForeignKeys => k \in rates)

\* deletePool counts the contributions, then deletes: no interleaving with a contribution being made
\* leaves a contribution without its pool.
NoOrphanContribution == \A k \in Keys : contrib[k].status # "NONE" => Exists(contrib[k].pool)

\* Every request is answered, whatever rows it must wait for.
EveryRequestAnswered == \A s \in Sessions : req[s].at # "idle" ~> req[s].at = "idle"

(***************************************************************************)
(* The promise of an escrow pool, kept when requests do not overlap.       *)
(***************************************************************************)
Ledger == INSTANCE EscrowLedger WITH
            goal <- [p \in Pools |-> pool[p].target],
            held <- [p \in Pools |-> pool[p].total],
            gifts <- contrib

\* One request after the other, with the worker, failures and restarts in between, the handlers implement
\* the escrow ledger: totals move only with the gifts, and no gift exceeds what its pool lacks.
ImplementsLedger == Ledger!LedgerSpec

\* totalFunded is the sum of the COMPLETED contributions, and never more than the target.
LedgerExact == Ledger!Exact

\* "Overselling guard (amount <= remainingTarget)": the contributions a pool keeps fit its target.
NoOverselling == \A p \in Pools : Exists(p) => Ledger!Kept(p) <= pool[p].target

\* "Idempotency key support for safe retries": a client that sends a COMPLETED contribution again gets it
\* back and is not refused.
RetryReturnsContribution ==
  [][\A s \in Sessions :
       /\ req[s].op = "createContribution" /\ contrib[req[s].key].status = "COMPLETED"
       /\ req'[s].at = "idle"
       => req'[s].answer # "refused"]_vars

\* "should not allow DELIVERED to transition anywhere".
DeliveredIsFinal == [][\A p \in Pools : pool[p].status = "DELIVERED" => pool'[p].status = "DELIVERED"]_vars

\* The decay job returns only pools without money to PENDING.
DecaySparesFundedPools ==
  [][\A p \in Pools : pool[p].status # "PENDING" /\ pool'[p].status = "PENDING" => pool'[p].total = 0]_vars
=============================================================================
