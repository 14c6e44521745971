---------------------------- MODULE EscrowLedger ----------------------------
(***************************************************************************)
(* What an escrow-style gift pool promises, whatever the code does to keep *)
(* the promise: the amount a pool shows as funded changes only together    *)
(* with the gift it accepts or gives back, a key is used for one gift, and *)
(* a gift is accepted only when the pool still has room for it.            *)
(***************************************************************************)
EXTENDS Integers, FiniteSets

CONSTANTS
  Pools, Keys, None,
  Amounts,  \* the amounts a gift may have
  Targets   \* the goals a pool may have

VARIABLES
  goal,    \* goal[p]: what pool p collects for, 0 when there is no pool p
  held,    \* held[p]: what pool p shows as funded
  gifts    \* gifts[k]: the gift made under idempotency key k

ledgerVars == <<goal, held, gifts>>

NoGift == [status |-> "NONE", pool |-> None, kzt |-> 0]

LedgerInit == /\ goal = [p \in Pools |-> 0]
              /\ held = [p \in Pools |-> 0]
              /\ gifts = [k \in Keys |-> NoGift]

\* A pool is opened, or an open pool gets another goal that covers what it holds.
SetGoal(p, t) == /\ t > 0 /\ held[p] <= t
                 /\ goal' = [goal EXCEPT ![p] = t]
                 /\ UNCHANGED <<held, gifts>>

\* A pool that never took a gift is withdrawn.
Withdraw(p) == /\ \A k \in Keys : gifts[k].pool # p
               /\ goal' = [goal EXCEPT ![p] = 0]
               /\ UNCHANGED <<held, gifts>>

Accept(k, p, a) == /\ gifts[k].status = "NONE"
                   /\ a > 0 /\ held[p] + a <= goal[p]
                   /\ gifts' = [gifts EXCEPT ![k] = [status |-> "COMPLETED", pool |-> p, kzt |-> a]]
                   /\ held' = [held EXCEPT ![p] = @ + a]
                   /\ UNCHANGED goal

GiveBack(k) == /\ gifts[k].status = "COMPLETED"
               /\ gifts' = [gifts EXCEPT ![k].status = "REFUNDED"]
               /\ held' = [held EXCEPT ![gifts[k].pool] = @ - gifts[k].kzt]
               /\ UNCHANGED goal

LedgerNext == \/ \E p \in Pools : Withdraw(p) \/ \E t \in Targets : SetGoal(p, t)
              \/ \E k \in Keys : GiveBack(k) \/ \E p \in Pools, a \in Amounts : Accept(k, p, a)

LedgerSpec == LedgerInit /\ [][LedgerNext]_ledgerVars

\* The gifts pool p keeps.
KeptBy(p) == {k \in Keys : gifts[k].status = "COMPLETED" /\ gifts[k].pool = p}

\* What they come to, counted tenge by tenge.
Tenge(p) == UNION {{k} \X (1..gifts[k].kzt) : k \in KeptBy(p)}
Kept(p) == Cardinality(Tenge(p))

\* What the ledger is for: a pool shows exactly the gifts it keeps, and they fit its goal.
Exact == \A p \in Pools : held[p] = Kept(p) /\ Kept(p) <= goal[p]
=============================================================================
