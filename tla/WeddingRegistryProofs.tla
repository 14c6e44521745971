----------------------- MODULE WeddingRegistryProofs -------------------------
(***************************************************************************)
(* Proofs about WeddingRegistry, for any numbers of users, weddings,       *)
(* contributors and requests, and any number of bounded events.            *)
(*                                                                         *)
(* The inductive invariant is Shape /\ CreateInv:                          *)
(*   Shape      what the rows hold, and that none refers to one that is    *)
(*              gone;                                                      *)
(*   CreateInv  how far each createWedding has come: one request makes a   *)
(*              wedding, the gifts it still has to make have no pool, and  *)
(*              those before them have one or had it deleted.              *)
(***************************************************************************)
EXTENDS WeddingRegistry, SequenceTheorems, TLAPS

(***************************************************************************)
(* The shape of the state.                                                 *)
(***************************************************************************)
Request == [step : Steps, user : Users \cup {None}, of : Weddings \cup {None}, left : Seq(Gifts)]
Member == [of : Weddings, member : Users, ancestor : Users \cup {None}]

\* No row refers to one that is gone.
WeddingRows == weddings \in [Weddings -> users \cup {None}]
RegistryRows == registries \subseteq Weddings /\ \A w \in registries : weddings[w] # None
PoolRows ==
  \A p \in DOMAIN pools : /\ p \in Weddings \X Gifts /\ weddings[p[1]] # None
                          /\ pools[p] \in Levels
GivenRows == /\ given \in [Contributors -> SUBSET DOMAIN pools]
             /\ \A g \in Contributors : given[g] # {} => g \in users
             /\ \A x \in refunded : x[1] \in Contributors /\ x[2] \in given[x[1]]
FamilyRows == /\ family \subseteq Member
              /\ \A f \in family : /\ weddings[f.of] # None /\ f.member \in users
                                   /\ f.ancestor \in users \cup {None}

\* A request is about a wedding, and the gifts are made of one that has its registry.
Concerns(r) == /\ requests[r].step \notin {"idle", "audit"} => requests[r].of \in Weddings
               /\ requests[r].step \in {"gifts", "answer"} => requests[r].of \in registries
RequestRows == requests \in [Requests -> Request] /\ \A r \in Requests : Concerns(r)

Shape ==
  /\ users \subseteq Users /\ audited \subseteq users /\ events \in 0..MaxEvents
  /\ RequestRows
  /\ WeddingRows /\ RegistryRows /\ PoolRows /\ GivenRows /\ FamilyRows

(***************************************************************************)
(* The ways a step changes requests.                                       *)
(***************************************************************************)
Others(r) == requests' \in [Requests -> Request] /\ \A s \in Requests \ {r} : requests'[s] = requests[s]
Moves(r, step) == /\ requests'[r].step = step /\ requests'[r].of = requests[r].of
                  /\ requests'[r].user = requests[r].user /\ requests'[r].left = requests[r].left
Starts(r, step, u, w) == requests'[r].step = step /\ requests'[r].user = u /\ requests'[r].of = w

LEMMA RequestEffect ==
  ASSUME requests \in [Requests -> Request], NEW r \in Requests
  PROVE  /\ \A step \in Steps : Goto(r, step) => Others(r) /\ Moves(r, step)
         /\ Done(r) => Others(r) /\ requests'[r].step = "idle"
         /\ requests[r] = Idle => requests[r].step = "idle"
<1>1. ASSUME NEW step \in Steps, Goto(r, step) PROVE Others(r) /\ Moves(r, step)
  BY <1>1 DEF Goto, Others, Moves, Request
<1>2. Idle \in Request
  BY DEF Idle, Request, Steps
<1>3. ASSUME Done(r) PROVE Others(r) /\ requests'[r].step = "idle"
  BY <1>2, <1>3 DEF Done, Others, Idle
<1> QED
  BY <1>1, <1>3 DEF Idle

LEMMA DefaultGifts ==
  /\ DEFAULT_REGISTRY_GIFTS \in Seq(Gifts) /\ Len(DEFAULT_REGISTRY_GIFTS) = 3
  /\ DOMAIN DEFAULT_REGISTRY_GIFTS = 1..3
  /\ \A k \in 1..3 : DEFAULT_REGISTRY_GIFTS[k] \in Gifts \ {"own"}
  /\ \A j, k \in 1..3 : DEFAULT_REGISTRY_GIFTS[j] = DEFAULT_REGISTRY_GIFTS[k] => j = k
BY DEF DEFAULT_REGISTRY_GIFTS, Gifts

LEMMA StartEffect ==
  ASSUME requests \in [Requests -> Request], NEW r \in Requests, NEW u \in Users, NEW w \in Weddings
  PROVE  /\ requests' = [requests EXCEPT ![r] = [step |-> "create", user |-> u, of |-> w, left |-> DEFAULT_REGISTRY_GIFTS]]
            => Others(r) /\ Starts(r, "create", u, w) /\ requests'[r].left = DEFAULT_REGISTRY_GIFTS
         /\ requests' = [requests EXCEPT ![r] = [Idle EXCEPT !.step = "audit", !.user = u]]
            => Others(r) /\ Starts(r, "audit", u, None)
         /\ requests' = [requests EXCEPT ![r] = [Idle EXCEPT !.step = "delete", !.user = u, !.of = w]]
            => Others(r) /\ Starts(r, "delete", u, w)
         /\ \A gift \in Gifts :
              requests' = [requests EXCEPT ![r] = [step |-> "contribute", user |-> u, of |-> w, left |-> <<gift>>]]
              => Others(r) /\ Starts(r, "contribute", u, w)
<1>1. [step |-> "create", user |-> u, of |-> w, left |-> DEFAULT_REGISTRY_GIFTS] \in Request
  BY DefaultGifts DEF Request, Steps
<1>2. ASSUME requests' = [requests EXCEPT ![r] = [step |-> "create", user |-> u, of |-> w, left |-> DEFAULT_REGISTRY_GIFTS]]
      PROVE  Others(r) /\ Starts(r, "create", u, w) /\ requests'[r].left = DEFAULT_REGISTRY_GIFTS
  BY <1>1, <1>2 DEF Others, Starts
<1>3. Idle \in Request /\ Idle.of = None
  BY DEF Idle, Request, Steps
<1>4. ASSUME requests' = [requests EXCEPT ![r] = [Idle EXCEPT !.step = "audit", !.user = u]]
      PROVE  Others(r) /\ Starts(r, "audit", u, None)
  BY <1>3, <1>4 DEF Request, Steps, Others, Starts
<1>5. ASSUME requests' = [requests EXCEPT ![r] = [Idle EXCEPT !.step = "delete", !.user = u, !.of = w]]
      PROVE  Others(r) /\ Starts(r, "delete", u, w)
  BY <1>3, <1>5 DEF Request, Steps, Others, Starts
<1>6. ASSUME NEW gift \in Gifts,
             requests' = [requests EXCEPT ![r] = [step |-> "contribute", user |-> u, of |-> w, left |-> <<gift>>]]
      PROVE  Others(r) /\ Starts(r, "contribute", u, w)
  <2>1. [step |-> "contribute", user |-> u, of |-> w, left |-> <<gift>>] \in Request
    BY DEF Request, Steps
  <2> QED
    BY <1>6, <2>1 DEF Others, Starts
<1> QED
  BY <1>2, <1>4, <1>5, <1>6

LEMMA ShapeInit == Init => Shape
<1> SUFFICES ASSUME Init PROVE Shape
  OBVIOUS
<1>1. RequestRows
  BY DEF Init, Idle, Request, Steps, RequestRows, Concerns
<1>2. WeddingRows /\ RegistryRows /\ PoolRows /\ GivenRows /\ FamilyRows
  BY DEF Init, WeddingRows, RegistryRows, PoolRows, GivenRows, FamilyRows
<1> QED
  BY <1>1, <1>2, ConstantsAssumption DEF Init, Shape

(***************************************************************************)
(* The shape is kept.                                                      *)
(***************************************************************************)
LEMMA RowsKept ==
  ASSUME Shape
  PROVE  /\ UNCHANGED <<users, weddings>> => WeddingRows'
         /\ UNCHANGED <<weddings, registries>> => RegistryRows'
         /\ UNCHANGED <<weddings, pools>> => PoolRows'
         /\ UNCHANGED <<users, given, refunded>> /\ DOMAIN pools \subseteq DOMAIN pools' => GivenRows'
         /\ UNCHANGED <<users, weddings, family>> => FamilyRows'
         /\ registries \subseteq registries' =>
              \A r \in Requests : Others(r) /\ Concerns(r)' => RequestRows'
<1>0. /\ WeddingRows /\ RegistryRows /\ PoolRows /\ GivenRows /\ FamilyRows
  BY DEF Shape
<1>1. ASSUME UNCHANGED <<users, weddings>> PROVE WeddingRows'
  BY <1>0, <1>1 DEF WeddingRows
<1>2. ASSUME UNCHANGED <<weddings, registries>> PROVE RegistryRows'
  BY <1>0, <1>2 DEF RegistryRows
<1>3. ASSUME UNCHANGED <<weddings, pools>> PROVE PoolRows'
  BY <1>0, <1>3 DEF PoolRows
<1>4. ASSUME UNCHANGED <<users, given, refunded>>, DOMAIN pools \subseteq DOMAIN pools' PROVE GivenRows'
  BY <1>0, <1>4 DEF GivenRows
<1>5. ASSUME UNCHANGED <<users, weddings, family>> PROVE FamilyRows'
  BY <1>0, <1>5 DEF FamilyRows
<1>6. ASSUME registries \subseteq registries', NEW r \in Requests, Others(r), Concerns(r)' PROVE RequestRows'
  BY <1>6 DEF Shape, RequestRows, Others, Concerns
<1> QED
  BY <1>1, <1>2, <1>3, <1>4, <1>5, <1>6

LEMMA ShapeStep == Shape /\ [Next]_vars => Shape'
<1> SUFFICES ASSUME Shape, [Next]_vars PROVE Shape'
  OBVIOUS
<1>0. /\ users \subseteq Users /\ audited \subseteq users /\ requests \in [Requests -> Request] /\ RequestRows
      /\ events \in Nat /\ events \in 0..MaxEvents /\ MaxEvents \in Nat /\ events <= events
      /\ WeddingRows /\ RegistryRows /\ PoolRows /\ GivenRows /\ FamilyRows
      /\ None \notin Users /\ None \notin Weddings /\ Contributors \subseteq Users
      /\ \A r \in Requests : Concerns(r)
  BY ConstantsAssumption DEF Shape, RequestRows
<1>1. Event => events' \in Nat /\ events' \in 0..MaxEvents /\ events' = events + 1 /\ events <= events'
  BY <1>0 DEF Event
\* A step that changes no row but audit rows.
<1>2. ASSUME RequestRows', UNCHANGED <<users, weddings, registries, pools, given, refunded, family>>,
             audited' \subseteq users, Event \/ UNCHANGED events
      PROVE  Shape'
  BY <1>0, <1>1, <1>2, RowsKept DEF Shape
\* A step of no request that changes no wedding.
<1>3. UNCHANGED <<requests, registries>> => RequestRows'
  BY <1>0 DEF RequestRows, Concerns
<1>4. ASSUME NEW r \in Requests, NEW step \in Steps, Goto(r, step), registries \subseteq registries'
      PROVE  /\ step \notin {"gifts", "answer"} /\ requests[r].step \notin {"idle", "audit"} => RequestRows'
             /\ requests[r].of \in registries' /\ requests[r].step \notin {"idle", "audit"} => RequestRows'
             /\ step = "audit" => RequestRows'
  <2>1. Others(r) /\ Moves(r, step)
    BY <1>0, <1>4, RequestEffect
  <2>2. Concerns(r)' => RequestRows'
    BY <1>4, <2>1, RowsKept
  <2> QED
    BY <1>0, <2>1, <2>2 DEF Concerns, Moves
<1>5. ASSUME NEW r \in Requests, Done(r), registries \subseteq registries' PROVE RequestRows'
  <2>1. Others(r) /\ requests'[r].step = "idle"
    BY <1>0, <1>5, RequestEffect
  <2>2. Concerns(r)'
    BY <2>1 DEF Concerns
  <2> QED
    BY <1>5, <2>1, <2>2, RowsKept
<1>6. ASSUME NEW r \in Requests, Fail(r) \/ Crash(r) PROVE Shape'
  BY <1>0, <1>2, <1>5, <1>6 DEF Fail, Crash, rows
<1>7. ASSUME NEW r \in Requests, LogCreation(r) PROVE Shape'
  <2>1. CASE Fail(r)
    BY <1>6, <2>1
  <2>2. CASE ~Fail(r)
    <3>1. Goto(r, "registry") /\ requests[r].step = "create" /\ UNCHANGED registries
      BY <1>7, <2>2 DEF LogCreation
    <3>2. RequestRows'
      BY <1>4, <3>1 DEF Steps
    <3> QED
      BY <1>0, <1>2, <1>7, <2>2, <3>2 DEF LogCreation
  <2> QED
    BY <2>1, <2>2
<1>8. ASSUME NEW r \in Requests, CreateRegistry(r) PROVE Shape'
  <2>1. CASE Fail(r)
    BY <1>6, <2>1
  <2>2. CASE ~Fail(r)
    <3>1. PICK w \in Weddings : w = requests[r].of
      BY <1>0, <1>8 DEF CreateRegistry, Concerns
    <3>2. /\ requests[r].step = "registry" /\ weddings[w] # None /\ registries' = registries \cup {w} /\ Goto(r, "gifts")
          /\ UNCHANGED <<users, weddings, pools, given, refunded, family, audited, events>>
      BY <1>8, <2>2, <3>1 DEF CreateRegistry, Exists, history
    <3>3. RequestRows'
      BY <1>4, <3>1, <3>2 DEF Steps
    <3>4. RegistryRows'
      BY <1>0, <3>2 DEF RegistryRows
    <3> QED
      BY <1>0, <3>2, <3>3, <3>4, RowsKept DEF Shape
  <2> QED
    BY <2>1, <2>2
\* A pool that appears or changes.
<1>9. ASSUME NEW p \in Weddings \X Gifts, weddings[p[1]] # None, NEW q \in Levels,
             DOMAIN pools' = DOMAIN pools \cup {p}, pools'[p] = q,
             \A x \in DOMAIN pools \ {p} : pools'[x] = pools[x],
             UNCHANGED <<users, weddings, registries, given, refunded, family>>,
             audited' \subseteq users, Event \/ UNCHANGED events, RequestRows'
      PROVE  Shape'
  <2>1. PoolRows'
    <3>1. ASSUME NEW x \in DOMAIN pools'
          PROVE  x \in Weddings \X Gifts /\ weddings[x[1]] # None /\ pools'[x] \in Levels
      BY <1>0, <1>9, <3>1 DEF PoolRows
    <3> QED
      BY <1>9, <3>1 DEF PoolRows
  <2> QED
    BY <1>0, <1>1, <1>9, <2>1, RowsKept DEF Shape
<1>10. ASSUME NEW r \in Requests, CreateGift(r) PROVE Shape'
  <2>0. /\ requests[r].step = "gifts" /\ UNCHANGED <<users, weddings, registries, given, refunded, family, audited, events>>
        /\ requests[r] \in Request
    BY <1>0, <1>10 DEF CreateGift
  <2>1. PICK w \in Weddings : w = requests[r].of /\ w \in registries /\ weddings[w] # None
    BY <1>0, <2>0 DEF Concerns, RegistryRows
  <2>2. CASE requests[r].left # <<>>
    <3>1. Head(requests[r].left) \in Gifts /\ Tail(requests[r].left) \in Seq(Gifts)
      BY <2>0, <2>2, HeadTailProperties DEF Request
    <3> PICK gift \in Gifts : gift = Head(requests[r].left)
      BY <3>1
    <3> PICK rest \in Seq(Gifts) : rest = Tail(requests[r].left)
      BY <3>1
    <3>2. pools' = WithPool(<<w, gift>>, "PUBLIC") /\ requests' = [requests EXCEPT ![r].left = rest]
      BY <1>10, <2>1, <2>2 DEF CreateGift, MoreGifts
    <3>3. Others(r) /\ requests'[r].step = "gifts" /\ requests'[r].of = w
      BY <1>0, <2>0, <2>1, <3>2 DEF Others, Request
    <3>4. RequestRows'
      BY <2>0, <2>1, <3>3, RowsKept DEF Concerns
    <3>5. "PUBLIC" \in Levels
      BY DEF Levels
    <3> DEFINE p == <<w, gift>>
    <3>6. /\ p \in Weddings \X Gifts /\ weddings[p[1]] # None /\ DOMAIN pools' = DOMAIN pools \cup {p}
          /\ pools'[p] = "PUBLIC" /\ \A x \in DOMAIN pools \ {p} : pools'[x] = pools[x]
      BY <2>1, <3>2 DEF WithPool
    <3> HIDE DEF p
    <3> QED
      BY <1>0, <1>9, <2>0, <3>4, <3>5, <3>6
  <2>3. CASE requests[r].left = <<>>
    <3>1. Goto(r, "answer") /\ UNCHANGED pools
      BY <1>10, <2>3 DEF CreateGift, MoreGifts
    <3>2. RequestRows'
      BY <1>4, <2>0, <2>1, <3>1 DEF Steps
    <3> QED
      BY <1>0, <1>2, <2>0, <3>1, <3>2
  <2> QED
    BY <2>2, <2>3
<1>11. ASSUME NEW r \in Requests, AnswerCreation(r) PROVE Shape'
  BY <1>0, <1>2, <1>5, <1>11 DEF AnswerCreation, rows
<1>12. ASSUME NEW r \in Requests, Log(r) PROVE Shape'
  BY <1>0, <1>2, <1>5, <1>12 DEF Log
<1>13. ASSUME NEW r \in Requests, RemoveWedding(r) PROVE Shape'
  <2>1. CASE Fail(r)
    BY <1>6, <2>1
  <2>2. CASE ~Fail(r)
    <3>1. PICK w \in Weddings : w = requests[r].of
      BY <1>0, <1>13 DEF RemoveWedding, Concerns
    <3>2. /\ requests[r].step = "delete" /\ ~Referred(w) /\ weddings' = [weddings EXCEPT ![w] = None] /\ Goto(r, "audit")
          /\ UNCHANGED <<users, registries, pools, given, refunded, family, audited, events>>
      BY <1>13, <2>2, <3>1 DEF RemoveWedding, history
    <3>3. WeddingRows' /\ \A v \in Weddings \ {w} : weddings'[v] = weddings[v]
      BY <1>0, <3>2 DEF WeddingRows
    <3>4. RegistryRows'
      BY <1>0, <3>2, <3>3 DEF RegistryRows, Referred
    <3>5. PoolRows'
      <4>1. ASSUME NEW p \in DOMAIN pools PROVE weddings'[p[1]] # None
        <5>1. p[1] \in Weddings /\ p[1] # w /\ weddings[p[1]] # None
          BY <1>0, <3>2 DEF PoolRows, Referred, Of
        <5> QED
          BY <3>3, <5>1
      <4> QED
        BY <1>0, <3>2, <4>1 DEF PoolRows
    <3>6. FamilyRows'
      <4>1. ASSUME NEW f \in family PROVE weddings'[f.of] # None
        <5>1. f.of \in Weddings /\ f.of # w /\ weddings[f.of] # None
          BY <1>0, <3>2 DEF FamilyRows, Member, Referred
        <5> QED
          BY <3>3, <5>1
      <4> QED
        BY <1>0, <3>2, <4>1 DEF FamilyRows
    <3>7. RequestRows'
      BY <1>4, <3>2 DEF Steps
    <3> QED
      BY <1>0, <3>2, <3>3, <3>4, <3>5, <3>6, <3>7, RowsKept DEF Shape
  <2> QED
    BY <2>1, <2>2
<1>14. ASSUME NEW r \in Requests, NEW u \in Users, NEW w \in Weddings, CreateWedding(r, u, w) PROVE Shape'
  <2>1. /\ Event /\ requests[r] = Idle /\ u \in users /\ weddings' = [weddings EXCEPT ![w] = u]
        /\ requests' = [requests EXCEPT ![r] = [step |-> "create", user |-> u, of |-> w, left |-> DEFAULT_REGISTRY_GIFTS]]
        /\ UNCHANGED <<users, registries, pools, given, refunded, family, audited>>
    BY <1>14 DEF CreateWedding
  <2>2. WeddingRows' /\ \A v \in Weddings : v = w \/ weddings'[v] = weddings[v]
    BY <1>0, <2>1 DEF WeddingRows
  <2>3. \A v \in Weddings : weddings[v] # None => weddings'[v] # None
    BY <1>0, <2>1 DEF WeddingRows
  <2>4. RegistryRows' /\ FamilyRows'
    BY <1>0, <2>1, <2>3 DEF RegistryRows, FamilyRows, Member
  <2>5. PoolRows'
    <3>1. ASSUME NEW p \in DOMAIN pools PROVE weddings'[p[1]] # None
      <4>1. p[1] \in Weddings /\ weddings[p[1]] # None
        BY <1>0 DEF PoolRows
      <4> QED
        BY <2>3, <4>1
    <3> QED
      BY <1>0, <2>1, <3>1 DEF PoolRows
  <2>6. RequestRows'
    <3>1. Others(r) /\ Starts(r, "create", u, w)
      BY <1>0, <2>1, StartEffect
    <3>2. Concerns(r)'
      BY <3>1 DEF Concerns, Starts
    <3> QED
      BY <2>1, <3>1, <3>2, RowsKept
  <2> QED
    BY <1>0, <1>1, <2>1, <2>2, <2>4, <2>5, <2>6, RowsKept DEF Shape
<1>15. ASSUME NEW r \in Requests, NEW u \in Users, NEW w \in Weddings, UpdateWedding(r, u, w) \/ DeleteWedding(r, u, w)
       PROVE  Shape'
  <2>1. /\ Event /\ UNCHANGED rows
        /\ \/ requests' = [requests EXCEPT ![r] = [Idle EXCEPT !.step = "audit", !.user = u]]
           \/ requests' = [requests EXCEPT ![r] = [Idle EXCEPT !.step = "delete", !.user = u, !.of = w]]
    BY <1>15 DEF UpdateWedding, DeleteWedding
  <2>2. Others(r) /\ (Starts(r, "audit", u, None) \/ Starts(r, "delete", u, w))
    BY <1>0, <2>1, StartEffect
  <2>3. Concerns(r)'
    BY <2>2 DEF Concerns, Starts
  <2>4. RequestRows'
    BY <2>1, <2>2, <2>3, RowsKept DEF rows
  <2> QED
    BY <1>0, <1>2, <2>1, <2>4 DEF rows
<1>16. ASSUME NEW u \in Users, NEW w \in Weddings, NEW level \in Levels, CreatePool(u, w, level) PROVE Shape'
  <2> DEFINE p == <<w, "own">>
  <2>1. /\ Event /\ u \in users /\ weddings[w] # None /\ audited' = audited \cup {u}
        /\ UNCHANGED <<users, weddings, registries, given, refunded, family, requests>>
    BY <1>16 DEF CreatePool, MayEdit, Exists
  <2>2. /\ p \in Weddings \X Gifts /\ weddings[p[1]] # None /\ DOMAIN pools' = DOMAIN pools \cup {p}
        /\ pools'[p] = level /\ \A x \in DOMAIN pools \ {p} : pools'[x] = pools[x]
    BY <1>16, <2>1 DEF CreatePool, WithPool, Gifts
  <2> HIDE DEF p
  <2> QED
    BY <1>0, <1>3, <1>9, <2>1, <2>2
<1>17. ASSUME NEW u \in Users, NEW p \in DOMAIN pools, NEW level \in Levels, UpdatePool(u, p, level) PROVE Shape'
  <2>1. /\ Event /\ u \in users /\ audited' = audited \cup {u} /\ pools' = [pools EXCEPT ![p] = level]
        /\ UNCHANGED <<users, weddings, registries, given, refunded, family, requests>>
    BY <1>17 DEF UpdatePool
  <2>2. p \in Weddings \X Gifts /\ weddings[p[1]] # None
    BY <1>0 DEF PoolRows
  <2>3. /\ DOMAIN pools' = DOMAIN pools \cup {p} /\ \A x \in DOMAIN pools \ {p} : pools'[x] = pools[x]
        /\ pools'[p] = level
    BY <2>1
  <2> QED
    BY <1>0, <1>3, <1>9, <2>1, <2>2, <2>3
<1>18. ASSUME NEW u \in Users, NEW p \in DOMAIN pools, DeletePool(u, p) PROVE Shape'
  <2>1. /\ Event /\ u \in users /\ audited' = audited \cup {u} /\ Givers(p) = {}
        /\ DOMAIN pools' = DOMAIN pools \ {p} /\ \A x \in DOMAIN pools' : pools'[x] = pools[x]
        /\ UNCHANGED <<users, weddings, registries, given, refunded, family, requests>>
    BY <1>18 DEF DeletePool
  <2>2. GivenRows'
    BY <1>0, <2>1 DEF GivenRows, Givers
  <2>3. PoolRows'
    BY <1>0, <2>1 DEF PoolRows
  <2> QED
    BY <1>0, <1>1, <1>3, <2>1, <2>2, <2>3, RowsKept DEF Shape
<1>19. ASSUME NEW r \in Requests, NEW g \in Contributors, NEW p \in DOMAIN pools, BeginContribution(r, g, p) PROVE Shape'
  <2>1. Event /\ UNCHANGED rows /\ g \in Users /\ p[1] \in Weddings /\ p[2] \in Gifts
    BY <1>0, <1>19 DEF BeginContribution, PoolRows
  <2> PICK w \in Weddings, gift \in Gifts : w = p[1] /\ gift = p[2]
    BY <2>1
  <2>2. requests' = [requests EXCEPT ![r] = [step |-> "contribute", user |-> g, of |-> w, left |-> <<gift>>]]
    BY <1>19 DEF BeginContribution
  <2>3. Others(r) /\ Starts(r, "contribute", g, w)
    BY <1>0, <2>1, <2>2, StartEffect
  <2>4. Concerns(r)'
    BY <2>3 DEF Concerns, Starts
  <2>5. RequestRows'
    BY <2>1, <2>3, <2>4, RowsKept DEF rows
  <2> QED
    BY <1>0, <1>2, <2>1, <2>5 DEF rows
<1>c. ASSUME NEW r \in Requests, InsertContribution(r) PROVE Shape'
  <2>1. CASE Fail(r)
    BY <1>6, <2>1
  <2>2. CASE ~Fail(r)
    <3> DEFINE p == <<requests[r].of, Head(requests[r].left)>>
               g == requests[r].user
    <3>1. /\ p \in DOMAIN pools /\ g \in users /\ given' = [given EXCEPT ![g] = @ \cup {p}] /\ Done(r)
          /\ UNCHANGED <<users, weddings, registries, pools, refunded, family, audited, events>>
      BY <1>c, <2>2 DEF InsertContribution
    <3>2. RequestRows'
      BY <1>5, <3>1
    <3> PICK q \in DOMAIN pools, u \in users : q = p /\ u = g
      BY <3>1
    <3>3. given' = [given EXCEPT ![u] = @ \cup {q}]
      BY <3>1
    <3> HIDE DEF p, g
    <3>4. given' \in [Contributors -> SUBSET DOMAIN pools] /\ \A h \in Contributors : given[h] \subseteq given'[h]
      BY <1>0, <3>3 DEF GivenRows
    <3>5. \A h \in Contributors : given'[h] # {} => h \in users
      BY <1>0, <3>3 DEF GivenRows
    <3>6. GivenRows'
      BY <1>0, <3>1, <3>4, <3>5 DEF GivenRows
    <3> QED
      BY <1>0, <3>1, <3>2, <3>6, RowsKept DEF Shape
  <2> QED
    BY <2>1, <2>2
<1>r. ASSUME NEW a \in Users, NEW g \in Contributors, NEW p \in DOMAIN pools, Refund(a, g, p) PROVE Shape'
  <2>1. /\ Event /\ a \in users /\ p \in given[g] /\ refunded' = refunded \cup {<<g, p>>} /\ audited' = audited \cup {a}
        /\ UNCHANGED <<users, weddings, registries, pools, given, family, requests>>
    BY <1>r DEF Refund
  <2>2. GivenRows'
    BY <1>0, <2>1 DEF GivenRows
  <2> QED
    BY <1>0, <1>1, <1>3, <2>1, <2>2, RowsKept DEF Shape
<1>20. ASSUME NEW u \in Users, NEW w \in Weddings, NEW m \in Relatives, NEW a \in Relatives \cup {None},
              AddFamilyMember(u, w, m, a)
       PROVE  Shape'
  <2>1. /\ Event /\ u \in users /\ weddings[w] # None /\ m \in users /\ audited' = audited \cup {u}
        /\ a # None => \E f \in family : f.member = a
        /\ family' = family \cup {[of |-> w, member |-> m, ancestor |-> a]}
        /\ UNCHANGED <<users, weddings, registries, pools, given, refunded, requests>>
    BY <1>20 DEF AddFamilyMember, MayEdit, Exists
  <2>2. a \in users \cup {None}
    BY <1>0, <2>1 DEF FamilyRows
  <2>3. [of |-> w, member |-> m, ancestor |-> a] \in Member
    BY <1>0, <2>1, <2>2 DEF Member
  <2>4. FamilyRows'
    BY <1>0, <2>1, <2>2, <2>3 DEF FamilyRows
  <2> QED
    BY <1>0, <1>1, <1>3, <2>1, <2>4, RowsKept DEF Shape
<1>21. ASSUME NEW a \in Users, NEW u \in Users, DeleteUser(a, u) PROVE Shape'
  <2>0. /\ Event /\ a \in users /\ a # u /\ UNCHANGED <<weddings, registries, pools, requests>>
    BY <1>21 DEF DeleteUser
  <2>1. /\ users' = users \ {u} /\ audited' = audited \cup {a}
        /\ given' = [g \in Contributors |-> IF g = u THEN {} ELSE given[g]]
        /\ refunded' = {x \in refunded : x[1] # u}
        /\ family' = {f \in family : u \notin {f.member, f.ancestor}}
        /\ u \notin audited /\ \A w \in Weddings : weddings[w] # u
    BY <1>21 DEF DeleteUser, ClearGiven, Blocking
  <2>2. WeddingRows'
    BY <1>0, <2>0, <2>1 DEF WeddingRows
  <2>3. GivenRows'
    BY <1>0, <2>0, <2>1 DEF GivenRows
  <2>4. FamilyRows'
    BY <1>0, <2>0, <2>1 DEF FamilyRows
  <2> QED
    BY <1>0, <1>1, <1>3, <2>0, <2>1, <2>2, <2>3, <2>4, RowsKept DEF Shape
<1>22. CASE UNCHANGED vars
  BY <1>0, <1>2, <1>3, <1>22 DEF vars, rows
<1> QED
  BY <1>6, <1>7, <1>8, <1>10, <1>11, <1>12, <1>13, <1>14, <1>15, <1>16, <1>17, <1>18, <1>19, <1>c, <1>r,
     <1>20, <1>21, <1>22 DEF Next, Handle

(***************************************************************************)
(* How far a createWedding has come.                                       *)
(***************************************************************************)
Gift(k) == DEFAULT_REGISTRY_GIFTS[k]
Has(w, k) == <<w, Gift(k)>> \in DOMAIN pools \cup dropped
Lacks(w, k) == <<w, Gift(k)>> \notin DOMAIN pools

Making(r) == requests[r].step \in {"create", "registry", "gifts", "answer"}
Round(r) == 3 - Len(requests[r].left)

\* The gifts still to make are the last of the default ones, and the pools of those done
\* are there, or were deleted by the couple.
Progress(r) ==
  /\ Round(r) \in 0..3
  /\ \A k \in 1..Len(requests[r].left) : requests[r].left[k] = Gift(Round(r) + k)
  /\ requests[r].step \in {"create", "registry"} => Round(r) = 0
  /\ requests[r].step = "answer" => Round(r) = 3
  /\ \A k \in 1..3 : IF k <= Round(r) THEN Has(requests[r].of, k) ELSE Lacks(requests[r].of, k)

\* One request at a time makes a wedding.
OneMaker == \A r, s \in Requests : Making(r) /\ Making(s) /\ requests[r].of = requests[s].of => r = s
Answered == answered \subseteq registries /\ \A w \in answered, k \in 1..3 : Has(w, k)

CreateInv == (\A r \in Requests : Making(r) => Progress(r)) /\ OneMaker /\ Answered

LEMMA CreateInit == Init => CreateInv
<1> SUFFICES ASSUME Init PROVE CreateInv
  OBVIOUS
<1>1. \A r \in Requests : ~Making(r)
  BY DEF Init, Idle, Making
<1> QED
  BY <1>1 DEF Init, CreateInv, OneMaker, Answered

\* Pools come, and go into the history of those deleted; default gifts come otherwise.
PoolsKept ==
  /\ \A w \in Weddings, k \in 1..3 : Has(w, k) => Has(w, k)'
  /\ \A w \in Weddings, k \in 1..3 : Lacks(w, k) => Lacks(w, k)'

\* A step of a request that makes no default gift.
LEMMA CreateKept ==
  ASSUME Shape, CreateInv, NEW r \in Requests, Others(r), PoolsKept, registries \subseteq registries',
         Making(r)' => Making(r) /\ requests'[r].of = requests[r].of /\ Progress(r)',
         \A w \in answered' \ answered : w \in registries /\ w \in Weddings /\ \A k \in 1..3 : Has(w, k)
  PROVE  CreateInv'
<1>0. /\ \A s \in Requests \ {r} : requests'[s] = requests[s]
      /\ \A s \in Requests : Making(s) => requests[s].of \in Weddings
      /\ answered \subseteq Weddings
  BY DEF Others, Shape, RequestRows, Concerns, Making, CreateInv, Answered, RegistryRows
<1>1. ASSUME NEW s \in Requests \ {r}, Making(s)' PROVE Progress(s)'
  <2>1. Making(s) /\ Progress(s) /\ requests'[s] = requests[s] /\ requests[s].of \in Weddings
    BY <1>0, <1>1 DEF CreateInv, Making
  <2> PICK w \in Weddings : w = requests[s].of
    BY <2>1
  <2>2. \A k \in 1..3 : IF k <= Round(s) THEN Has(w, k)' ELSE Lacks(w, k)'
    BY <2>1 DEF Progress, PoolsKept
  <2>3. Round(s)' = Round(s) /\ requests'[s].of = w
    BY <2>1 DEF Round
  <2> QED
    BY <2>1, <2>2, <2>3 DEF Progress, Has, Lacks
<1>2. OneMaker'
  BY <1>0 DEF CreateInv, OneMaker, Making
<1>3. Answered'
  <2>1. answered' \subseteq registries'
    BY DEF CreateInv, Answered
  <2>2. ASSUME NEW w \in answered', NEW k \in 1..3 PROVE Has(w, k)'
    <3>1. w \in Weddings /\ Has(w, k)
      BY <1>0 DEF CreateInv, Answered
    <3> QED
      BY <3>1 DEF PoolsKept
  <2> QED
    BY <2>1, <2>2 DEF Answered
<1> QED
  BY <1>1, <1>2, <1>3 DEF CreateInv

\* A step of no request.
LEMMA CreateUntouched ==
  ASSUME Shape, CreateInv, UNCHANGED <<requests, answered>>, PoolsKept, registries \subseteq registries'
  PROVE  CreateInv'
<1>0. /\ \A s \in Requests : Making(s) => requests[s].of \in Weddings
      /\ answered \subseteq Weddings
  BY DEF Shape, RequestRows, Concerns, Making, CreateInv, Answered, RegistryRows
<1>1. ASSUME NEW s \in Requests, Making(s)' PROVE Progress(s)'
  <2>1. Making(s) /\ Progress(s) /\ requests[s].of \in Weddings
    BY <1>0, <1>1 DEF CreateInv, Making
  <2> PICK w \in Weddings : w = requests[s].of
    BY <2>1
  <2>2. \A k \in 1..3 : IF k <= Round(s) THEN Has(w, k)' ELSE Lacks(w, k)'
    BY <2>1 DEF Progress, PoolsKept
  <2>3. Round(s)' = Round(s) /\ requests'[s].of = w
    BY <2>1 DEF Round
  <2> QED
    BY <2>1, <2>2, <2>3 DEF Progress, Has, Lacks
<1>2. OneMaker' /\ Answered'
  BY <1>0 DEF CreateInv, OneMaker, Making, Answered, PoolsKept
<1> QED
  BY <1>1, <1>2 DEF CreateInv

LEMMA CreateStep == Shape /\ CreateInv /\ [Next]_vars => CreateInv'
<1> SUFFICES ASSUME Shape, CreateInv, [Next]_vars PROVE CreateInv'
  OBVIOUS
<1>0. /\ requests \in [Requests -> Request] /\ \A r \in Requests : Concerns(r)
      /\ PoolRows /\ \A r \in Requests : Making(r) => Progress(r)
  BY DEF Shape, RequestRows, CreateInv
<1>1. UNCHANGED <<pools, dropped>> => PoolsKept
  BY DEF PoolsKept, Has, Lacks
\* A step of a request that is over, or makes no wedding.
<1>2. ASSUME NEW r \in Requests, Others(r), requests'[r].step \in {"idle", "audit", "delete", "contribute"},
             UNCHANGED <<registries, pools, history>>
      PROVE  CreateInv'
  BY <1>1, <1>2, CreateKept DEF Making, history
<1>3. ASSUME NEW r \in Requests, Fail(r) \/ Crash(r) \/ Log(r) PROVE CreateInv'
  <2>1. Others(r) /\ requests'[r].step = "idle"
    BY <1>0, <1>3, RequestEffect DEF Fail, Crash, Log
  <2> QED
    BY <1>2, <1>3, <2>1 DEF Fail, Crash, Log, rows
\* A step to the next statement.
<1>4. ASSUME NEW r \in Requests, NEW step \in {"registry", "gifts", "answer"}, Goto(r, step), Making(r),
             requests[r].step \in {"create", "registry"} \/ requests[r].left = <<>>,
             step = "answer" => requests[r].left = <<>>, step = "registry" => Round(r) = 0,
             UNCHANGED <<pools, history>>, registries \subseteq registries'
      PROVE  CreateInv'
  <2>1. Others(r) /\ Moves(r, step)
    BY <1>0, <1>4, RequestEffect DEF Steps
  <2>2. Progress(r) /\ requests[r].left \in Seq(Gifts)
    BY <1>0, <1>4 DEF Request
  <2>3. Round(r)' = Round(r) /\ (step = "answer" => Round(r) = 3)
    BY <1>4, <2>1 DEF Moves, Round
  <2>4. Progress(r)'
    BY <1>4, <2>1, <2>2, <2>3 DEF Progress, Moves, Has, Lacks, history
  <2> QED
    BY <1>1, <1>4, <2>1, <2>4, CreateKept DEF Moves, history
<1>5. ASSUME NEW r \in Requests, LogCreation(r) PROVE CreateInv'
  <2>1. CASE Fail(r)
    BY <1>3, <2>1
  <2>2. CASE ~Fail(r)
    <3>1. Making(r) /\ Round(r) = 0 /\ requests[r].step = "create"
      BY <1>0, <1>5 DEF LogCreation, Making, Progress
    <3> QED
      BY <1>4, <1>5, <2>2, <3>1 DEF LogCreation
  <2> QED
    BY <2>1, <2>2
<1>6. ASSUME NEW r \in Requests, CreateRegistry(r) PROVE CreateInv'
  <2>1. CASE Fail(r)
    BY <1>3, <2>1
  <2>2. CASE ~Fail(r)
    <3>1. Making(r) /\ requests[r].step = "registry"
      BY <1>6 DEF CreateRegistry, Making
    <3> QED
      BY <1>4, <1>6, <2>2, <3>1 DEF CreateRegistry
  <2> QED
    BY <2>1, <2>2
<1>7. ASSUME NEW r \in Requests, CreateGift(r) PROVE CreateInv'
  <2>0. /\ requests[r].step = "gifts" /\ UNCHANGED <<registries, history>>
        /\ requests[r] \in Request /\ Making(r) /\ Progress(r)
    BY <1>0, <1>7 DEF CreateGift, Making
  <2>1. CASE requests[r].left = <<>>
    BY <1>4, <1>7, <2>0, <2>1 DEF CreateGift, MoreGifts
  <2>2. CASE requests[r].left # <<>>
    <3> PICK left \in Seq(Gifts) : left = requests[r].left
      BY <2>0 DEF Request
    <3> PICK w \in Weddings : w = requests[r].of
      BY <1>0, <2>0 DEF Concerns
    <3>1. /\ Head(left) = left[1] /\ Tail(left) \in Seq(Gifts) /\ Len(Tail(left)) = Len(left) - 1
          /\ \A k \in 1..Len(Tail(left)) : Tail(left)[k] = left[k + 1]
          /\ Len(left) \in Nat \ {0}
      BY <2>2, HeadTailProperties, EmptySeq
    <3>0. Round(r) \in 0..3 /\ Round(r) \in Nat
      BY <2>0 DEF Progress
    <3> PICK n \in Nat : n = Round(r)
      BY <3>0
    <3>10. n \in 0..3 /\ Len(left) = 3 - n
      <4>1. n = 3 - Len(left)
        BY DEF Round
      <4> QED
        BY <3>0, <3>1, <4>1
    <3>2. n \in 0..2 /\ n + 1 \in 1..3 /\ left[1] = Gift(n + 1)
      <4>1. 1 \in 1..Len(left) /\ n \in 0..2
        BY <3>1, <3>10
      <4> QED
        BY <2>0, <4>1 DEF Progress
    <3> PICK rest \in Seq(Gifts) : rest = Tail(left)
      BY <3>1
    <3>3. /\ pools' = WithPool(<<w, Gift(n + 1)>>, "PUBLIC")
          /\ requests' = [requests EXCEPT ![r].left = rest]
      BY <1>7, <2>2, <3>1, <3>2 DEF CreateGift, MoreGifts
    <3>4. DOMAIN pools' = DOMAIN pools \cup {<<w, Gift(n + 1)>>} /\ UNCHANGED dropped
      BY <2>0, <3>3 DEF WithPool, history
    <3>5. /\ Others(r) /\ requests'[r].step = "gifts" /\ requests'[r].of = w /\ requests'[r].left = rest
      BY <1>0, <2>0, <3>3 DEF Others, Request
    <3>6. Progress(r)'
      <4>1. Round(r)' = n + 1 /\ Len(rest) = 2 - n
        BY <3>1, <3>5 DEF Round
      <4>2. \A k \in 1..Len(rest) : rest[k] = Gift(n + 1 + k)
        <5>1. ASSUME NEW k \in 1..Len(rest) PROVE rest[k] = Gift(n + 1 + k)
          <6>1. rest[k] = left[k + 1] /\ k + 1 \in 1..Len(left)
            BY <3>1
          <6>2. left[k + 1] = Gift(n + (k + 1))
            BY <2>0, <6>1 DEF Progress
          <6>3. n + (k + 1) = n + 1 + k
            BY <3>1
          <6> QED
            BY <6>1, <6>2, <6>3
        <5> QED
          BY <5>1
      <4>3. \A k \in 1..3 : IF k <= n + 1 THEN <<w, Gift(k)>> \in DOMAIN pools' \cup dropped'
                                          ELSE <<w, Gift(k)>> \notin DOMAIN pools'
        <5>1. ASSUME NEW k \in 1..3, k # n + 1 PROVE Gift(k) # Gift(n + 1)
          BY <3>2, <5>1, DefaultGifts DEF Gift
        <5>2. \A k \in 1..3 : IF k <= n THEN Has(w, k) ELSE Lacks(w, k)
          BY <2>0 DEF Progress
        <5>3. ASSUME NEW k \in 1..3, k <= n + 1 PROVE <<w, Gift(k)>> \in DOMAIN pools' \cup dropped'
          <6>1. CASE k = n + 1
            BY <3>4, <6>1
          <6>2. CASE k # n + 1
            <7>1. k <= n
              BY <5>3, <6>2
            <7>2. <<w, Gift(k)>> \in DOMAIN pools \cup dropped
              BY <5>2, <7>1 DEF Has
            <7> QED
              BY <3>4, <7>2
          <6> QED
            BY <6>1, <6>2
        <5>4. ASSUME NEW k \in 1..3, ~(k <= n + 1) PROVE <<w, Gift(k)>> \notin DOMAIN pools'
          <6>1. k # n + 1 /\ ~(k <= n)
            BY <5>4
          <6>2. <<w, Gift(k)>> \notin DOMAIN pools /\ Gift(k) # Gift(n + 1)
            BY <3>0, <5>1, <5>2, <6>1 DEF Lacks
          <6> QED
            BY <3>4, <6>2
        <5> QED
          BY <5>3, <5>4
      <4> QED
        BY <3>2, <3>5, <4>1, <4>2, <4>3 DEF Progress, Has, Lacks
    <3>7. ASSUME NEW s \in Requests \ {r}, Making(s)' PROVE Progress(s)'
      <4>1. Making(s) /\ requests'[s] = requests[s]
        BY <3>5, <3>7 DEF Others, Making
      <4>2. PICK v \in Weddings : v = requests[s].of
        BY <1>0, <4>1 DEF Concerns, Making
      <4>3. v # w
        BY <2>0, <4>1, <4>2 DEF CreateInv, OneMaker
      <4>4. \A k \in 1..3 : IF k <= Round(s) THEN <<v, Gift(k)>> \in DOMAIN pools' \cup dropped'
                                             ELSE <<v, Gift(k)>> \notin DOMAIN pools'
        BY <1>0, <3>4, <4>1, <4>2, <4>3 DEF Progress, Has, Lacks
      <4>5. Progress(s) /\ Round(s)' = Round(s)
        BY <1>0, <4>1 DEF Round
      <4> QED
        BY <4>1, <4>2, <4>4, <4>5 DEF Progress, Has, Lacks
    <3>8. OneMaker'
      BY <2>0, <3>5 DEF CreateInv, OneMaker, Making, Others
    <3>9. Answered'
      BY <2>0, <3>4 DEF CreateInv, Answered, Has, history
    <3> QED
      BY <3>6, <3>7, <3>8, <3>9 DEF CreateInv
  <2> QED
    BY <2>1, <2>2
<1>8. ASSUME NEW r \in Requests, AnswerCreation(r) PROVE CreateInv'
  <2>1. /\ requests[r].step = "answer" /\ answered' = answered \cup {requests[r].of}
        /\ UNCHANGED <<registries, pools, dropped>> /\ Others(r) /\ requests'[r].step = "idle"
    BY <1>0, <1>8, RequestEffect DEF AnswerCreation, rows
  <2>2. /\ requests[r].of \in registries /\ requests[r].of \in Weddings
        /\ \A k \in 1..3 : Has(requests[r].of, k)
    BY <1>0, <2>1 DEF Concerns, Making, Progress
  <2> QED
    BY <1>1, <2>1, <2>2, CreateKept DEF Making
<1>9. ASSUME NEW r \in Requests, RemoveWedding(r) PROVE CreateInv'
  <2>1. CASE Fail(r)
    BY <1>3, <2>1
  <2>2. CASE ~Fail(r)
    <3>1. Goto(r, "audit") /\ UNCHANGED <<registries, pools, history>>
      BY <1>9, <2>2 DEF RemoveWedding
    <3>2. Others(r) /\ requests'[r].step = "audit"
      BY <1>0, <3>1, RequestEffect DEF Moves, Steps
    <3> QED
      BY <1>2, <3>1, <3>2
  <2> QED
    BY <2>1, <2>2
<1>10. ASSUME NEW r \in Requests, NEW u \in Users, NEW w \in Weddings, CreateWedding(r, u, w) PROVE CreateInv'
  <2>1. /\ requests' = [requests EXCEPT ![r] = [step |-> "create", user |-> u, of |-> w, left |-> DEFAULT_REGISTRY_GIFTS]]
        /\ weddings[w] = None /\ \A s \in Requests : requests[s].of # w
        /\ UNCHANGED <<registries, pools, history>>
    BY <1>10 DEF CreateWedding, Exists
  <2>2. Others(r) /\ Starts(r, "create", u, w) /\ requests'[r].left = DEFAULT_REGISTRY_GIFTS
    BY <1>0, <2>1, StartEffect
  <2>3. Progress(r)'
    <3>1. \A k \in 1..3 : <<w, Gift(k)>> \notin DOMAIN pools
      <4>1. ASSUME NEW k \in 1..3, <<w, Gift(k)>> \in DOMAIN pools PROVE FALSE
        <5> DEFINE p == <<w, Gift(k)>>
        <5>1. weddings[p[1]] # None
          BY <1>0, <4>1 DEF PoolRows
        <5> QED
          BY <2>1, <5>1
      <4> QED
        BY <4>1
    <3>2. Len(requests'[r].left) = 3 /\ Round(r)' = 0
      BY <2>2, DefaultGifts DEF Round
    <3>3. \A k \in 1..3 : requests'[r].left[k] = Gift(k)
      BY <2>2 DEF Gift
    <3> QED
      BY <2>1, <2>2, <3>1, <3>2, <3>3 DEF Progress, Starts, Has, Lacks
  <2>4. ASSUME NEW s \in Requests \ {r}, Making(s)' PROVE Progress(s)'
    <3>1. Making(s) /\ Progress(s) /\ requests'[s] = requests[s]
      BY <1>0, <2>2, <2>4 DEF Others, Making
    <3> QED
      BY <2>1, <3>1 DEF Progress, Round, Has, Lacks, history
  <2>5. OneMaker'
    BY <2>1, <2>2 DEF CreateInv, OneMaker, Making, Others, Starts
  <2>6. Answered'
    BY <2>1 DEF CreateInv, Answered, Has, history
  <2> QED
    BY <2>3, <2>4, <2>5, <2>6 DEF CreateInv
<1>11. ASSUME NEW r \in Requests, NEW u \in Users, NEW w \in Weddings, UpdateWedding(r, u, w) \/ DeleteWedding(r, u, w)
       PROVE  CreateInv'
  <2>1. /\ UNCHANGED <<rows, history>>
        /\ \/ requests' = [requests EXCEPT ![r] = [Idle EXCEPT !.step = "audit", !.user = u]]
           \/ requests' = [requests EXCEPT ![r] = [Idle EXCEPT !.step = "delete", !.user = u, !.of = w]]
    BY <1>11 DEF UpdateWedding, DeleteWedding
  <2>2. Others(r) /\ (Starts(r, "audit", u, None) \/ Starts(r, "delete", u, w))
    BY <1>0, <2>1, StartEffect
  <2> QED
    BY <1>2, <2>1, <2>2 DEF Starts, rows
<1>12. ASSUME NEW u \in Users, NEW w \in Weddings, NEW level \in Levels, CreatePool(u, w, level) PROVE CreateInv'
  <2>1. /\ DOMAIN pools' = DOMAIN pools \cup {<<w, "own">>} /\ UNCHANGED <<registries, requests, dropped, answered>>
    BY <1>12 DEF CreatePool, WithPool, history
  <2>2. PoolsKept
    BY <2>1, DefaultGifts DEF PoolsKept, Has, Lacks, Gift
  <2> QED
    BY <2>1, <2>2, CreateUntouched
<1>13. ASSUME NEW u \in Users, NEW p \in DOMAIN pools, NEW level \in Levels, UpdatePool(u, p, level) PROVE CreateInv'
  <2>1. DOMAIN pools' = DOMAIN pools /\ UNCHANGED <<registries, requests, dropped, answered>>
    BY <1>13 DEF UpdatePool, history
  <2>2. PoolsKept
    BY <2>1 DEF PoolsKept, Has, Lacks
  <2> QED
    BY <2>1, <2>2, CreateUntouched
<1>14. ASSUME NEW u \in Users, NEW p \in DOMAIN pools, DeletePool(u, p) PROVE CreateInv'
  <2>1. /\ DOMAIN pools' = DOMAIN pools \ {p} /\ dropped' = dropped \cup {p}
        /\ UNCHANGED <<registries, requests, answered>>
    BY <1>14 DEF DeletePool
  <2>2. PoolsKept
    BY <2>1 DEF PoolsKept, Has, Lacks
  <2> QED
    BY <2>1, <2>2, CreateUntouched
<1>15. ASSUME NEW r \in Requests, InsertContribution(r) PROVE CreateInv'
  <2>1. Others(r) /\ requests'[r].step = "idle" /\ UNCHANGED <<registries, pools, history>>
    BY <1>0, <1>15, RequestEffect DEF InsertContribution, Fail, rows
  <2> QED
    BY <1>2, <2>1
<1>b. ASSUME NEW r \in Requests, NEW g \in Contributors, NEW p \in DOMAIN pools, BeginContribution(r, g, p)
      PROVE  CreateInv'
  <2>1. /\ UNCHANGED <<registries, pools, history>> /\ g \in Users /\ p[1] \in Weddings /\ p[2] \in Gifts
    BY <1>0, <1>b, ConstantsAssumption DEF BeginContribution, PoolRows, rows
  <2> PICK w \in Weddings, gift \in Gifts : w = p[1] /\ gift = p[2]
    BY <2>1
  <2>2. requests' = [requests EXCEPT ![r] = [step |-> "contribute", user |-> g, of |-> w, left |-> <<gift>>]]
    BY <1>b DEF BeginContribution
  <2>3. Others(r) /\ Starts(r, "contribute", g, w)
    BY <1>0, <2>1, <2>2, StartEffect
  <2> QED
    BY <1>2, <2>1, <2>3 DEF Starts
<1>16. ASSUME UNCHANGED <<requests, registries, pools, dropped, answered>> PROVE CreateInv'
  BY <1>1, <1>16, CreateUntouched
<1>17. CASE \/ \E u \in Users, w \in Weddings, m \in Relatives, a \in Relatives \cup {None} : AddFamilyMember(u, w, m, a)
            \/ \E a \in Users, g \in Contributors, p \in DOMAIN pools : Refund(a, g, p)
            \/ \E a, u \in Users : DeleteUser(a, u)
            \/ UNCHANGED vars
  BY <1>16, <1>17 DEF AddFamilyMember, Refund, DeleteUser, vars, rows, history
<1> QED
  BY <1>3, <1>5, <1>6, <1>7, <1>8, <1>9, <1>10, <1>11, <1>12, <1>13, <1>14, <1>15, <1>b, <1>17
     DEF Next, Handle

(***************************************************************************)
(* Theorems.                                                               *)
(***************************************************************************)
LEMMA Invariance == Spec => [](Shape /\ CreateInv)
BY ShapeInit, ShapeStep, CreateInit, CreateStep, PTL DEF Spec

\* No row refers to one that is gone, in every reachable state: the checks before a
\* deletion are old when it runs, and the foreign keys refuse what they let through.
THEOREM TypeCorrect == Spec => []TypeOK
<1>1. Shape => TypeOK
  <2> SUFFICES ASSUME Shape PROVE TypeOK
    OBVIOUS
  <2>1. /\ weddings \in [Weddings -> users \cup {None}]
        /\ \A w \in registries : w \in Weddings /\ weddings[w] # None
    BY DEF Shape, WeddingRows, RegistryRows
  <2>2. ASSUME NEW p \in DOMAIN pools
        PROVE  p \in Weddings \X Gifts /\ weddings[p[1]] # None /\ pools[p] \in Levels
    BY DEF Shape, PoolRows
  <2>3. \A g \in Contributors : given[g] \subseteq DOMAIN pools /\ (given[g] # {} => g \in users)
    BY DEF Shape, GivenRows
  <2>4. /\ \A x \in refunded : x[2] \in given[x[1]]
        /\ \A f \in family : weddings[f.of] # None /\ f.member \in users /\ f.ancestor \in users \cup {None}
    BY DEF Shape, GivenRows, FamilyRows
  <2>5. /\ requests \in [Requests -> Request] /\ users \subseteq Users /\ audited \subseteq users /\ events \in 0..MaxEvents
    BY DEF Shape, RequestRows
  <2> QED
    BY <2>1, <2>2, <2>3, <2>4, <2>5 DEF TypeOK, Exists, Request
<1> QED
  BY <1>1, Invariance, PTL

\* A couple that was answered has its registry and the default gifts it did not delete,
\* whatever ran beside the inserts of createWedding, which no transaction holds together.
THEOREM RegistriesComplete == Spec => []RegistryComplete
<1>1. CreateInv => RegistryComplete
  BY DefaultGifts DEF CreateInv, Answered, Has, Gift, RegistryComplete
<1> QED
  BY <1>1, Invariance, PTL

\* The list of a wedding's page and the guard of its links agree for every role, owner and level:
\* two tables of privacyGuard.js say the same, but for the moderator.
THEOREM ListsOpen == Spec => []ListedOpens
<1>1. Shape => ListedOpens
  <2> SUFFICES ASSUME Shape, NEW u \in Users, NEW w \in Weddings
               PROVE  LET opens == {p \in Of(w) : CanAccess(u, p)}
                      IN IF Role[u] = "MODERATOR" THEN opens \subseteq Listed(u, w) ELSE opens = Listed(u, w)
    BY DEF ListedOpens
  <2>0. Role[u] \in {"GUEST", "FAMILY_MEMBER", "COUPLE", "MODERATOR", "SUPER_ADMIN"}
    BY ConstantsAssumption DEF Roles
  <2>1. \A p \in Of(w) : p[1] = w /\ pools[p] \in {"PUBLIC", "FAMILY_ONLY", "PRIVATE"}
    BY DEF Shape, PoolRows, Of, Levels
  <2>2. ASSUME NEW p \in Of(w)
        PROVE  CanAccess(u, p) <=>
                 \/ pools[p] = "PUBLIC"
                 \/ pools[p] = "FAMILY_ONLY" /\ Role[u] # "GUEST" /\ (Role[u] = "COUPLE" => weddings[w] = u)
                 \/ pools[p] = "PRIVATE" /\ (Role[u] = "SUPER_ADMIN" \/ (Role[u] = "COUPLE" /\ weddings[w] = u))
    <3>1. p[1] = w /\ pools[p] \in {"PUBLIC", "FAMILY_ONLY", "PRIVATE"}
      BY <2>1, <2>2
    <3>2. CASE pools[p] = "PUBLIC"
      BY <2>0, <3>1, <3>2 DEF CanAccess, PRIVACY_ACCESS, Roles
    <3>3. CASE pools[p] = "FAMILY_ONLY"
      BY <2>0, <3>1, <3>3 DEF CanAccess, PRIVACY_ACCESS, Roles
    <3>4. CASE pools[p] = "PRIVATE"
      BY <2>0, <3>1, <3>4 DEF CanAccess, PRIVACY_ACCESS, Roles
    <3> QED
      BY <3>1, <3>2, <3>3, <3>4
  <2>3. CASE Role[u] = "SUPER_ADMIN"
    BY <2>1, <2>2, <2>3 DEF Listed
  <2>4. CASE Role[u] = "MODERATOR"
    BY <2>1, <2>2, <2>4 DEF Listed
  <2>5. CASE Role[u] = "COUPLE"
    BY <2>1, <2>2, <2>5 DEF Listed
  <2>6. CASE Role[u] = "FAMILY_MEMBER"
    BY <2>1, <2>2, <2>6 DEF Listed
  <2>7. CASE Role[u] = "GUEST"
    BY <2>1, <2>2, <2>7 DEF Listed
  <2> QED
    BY <2>0, <2>3, <2>4, <2>5, <2>6, <2>7
<1> QED
  BY <1>1, Invariance, PTL
=============================================================================
