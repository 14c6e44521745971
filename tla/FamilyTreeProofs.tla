-------------------------- MODULE FamilyTreeProofs --------------------------
(***************************************************************************)
(* Proofs about FamilyTree, for any number of weddings, users, sessions    *)
(* and rows.                                                               *)
(*                                                                         *)
(* The walks over the tree are least sets closed under going to the        *)
(* ancestor, so that what is known of them is monotonicity.  The inductive *)
(* invariant is TypeInv /\ GrowthInv: an ancestor's row is older than its  *)
(* child's, the columns of each row are those of its line, and what an     *)
(* addition carries from its walk stays true while the tree grows.         *)
(***************************************************************************)
EXTENDS FamilyTree, FiniteSetTheorems, TLAPS

(***************************************************************************)
(* The rows of one wedding, as a value of its own.                         *)
(***************************************************************************)
FamilyRow == [id : 0..MaxId, ancestor : Users \cup {None}, rank : Ranks, distance : 0..Cardinality(Users)]

In(r) == {u \in Users : r[u].id # 0}
Shut(r, S) == \A m \in S : r[m].ancestor \in In(r) => r[m].ancestor \in S
LineIn(r, u) ==
  {m \in In(r) : u \in In(r) /\ \A S \in SUBSET In(r) : u \in S /\ Shut(r, S) => m \in S}

\* How many generations a member is below its root.
Generation(r, u) == IF r[u].ancestor = None THEN 0 ELSE Cardinality(LineIn(r, r[u].ancestor))

LevelIn(r, u, n) ==
  \E path \in [0..n -> In(r)] :
    /\ r[path[0]].ancestor = None
    /\ \A i \in 1..n : r[path[i]].ancestor = path[i - 1]
    /\ path[n] = u

\* An ancestor is a member, and was one first.
Older(r) ==
  \A u \in In(r) : \/ r[u].ancestor = None
                   \/ r[u].ancestor \in In(r) /\ r[r[u].ancestor].id < r[u].id

LEMMA LineHolds ==
  ASSUME NEW r, NEW u \in In(r)
  PROVE  u \in LineIn(r, u) /\ Shut(r, LineIn(r, u)) /\ LineIn(r, u) \subseteq In(r)
BY DEF LineIn, Shut

LEMMA LineLeast ==
  ASSUME NEW r, NEW u, NEW S \in SUBSET In(r), u \in S, Shut(r, S)
  PROVE  LineIn(r, u) \subseteq S
BY DEF LineIn

LEMMA NoLine ==
  ASSUME NEW r, NEW u, u \notin In(r)
  PROVE  LineIn(r, u) = {}
BY DEF LineIn

LEMMA LineFinite ==
  ASSUME NEW r, NEW u
  PROVE  IsFiniteSet(LineIn(r, u)) /\ Cardinality(LineIn(r, u)) \in 0..Cardinality(Users) /\ Cardinality(Users) \in Nat
<1>1. LineIn(r, u) \subseteq Users /\ IsFiniteSet(Users)
  BY FamilyAssumption DEF LineIn, In
<1>2. /\ Cardinality(Users) \in Nat /\ IsFiniteSet(LineIn(r, u)) /\ Cardinality(LineIn(r, u)) \in Nat
      /\ Cardinality(LineIn(r, u)) <= Cardinality(Users)
  BY <1>1, FS_Subset, FS_CardinalityType
<1> QED
  BY <1>2

\* Nobody is in the line of its own ancestor: that line is of rows no younger than it.
LEMMA NotOwnAncestor ==
  ASSUME NEW r \in [Users -> FamilyRow], Older(r), NEW u \in In(r)
  PROVE  u \notin LineIn(r, r[u].ancestor)
<1>1. CASE r[u].ancestor = None
  <2>1. None \notin In(r)
    BY FamilyAssumption DEF In
  <2> QED
    BY <1>1, <2>1, NoLine
<1>2. CASE r[u].ancestor # None
  <2> DEFINE a == r[u].ancestor
             S == {m \in In(r) : r[m].id <= r[a].id}
  <2>0. \A m \in In(r) : r[m].id \in Nat
    BY DEF In, FamilyRow
  <2>1. a \in In(r) /\ r[a].id < r[u].id
    BY <1>2 DEF Older
  <2>2. a \in S /\ S \in SUBSET In(r)
    BY <2>0, <2>1
  <2>3. Shut(r, S)
    <3> SUFFICES ASSUME NEW m \in S, r[m].ancestor \in In(r) PROVE r[m].ancestor \in S
      BY DEF Shut
    <3>1. r[r[m].ancestor].id < r[m].id
      BY FamilyAssumption DEF Older, In
    <3> QED
      BY <2>0, <2>1, <3>1
  <2>4. LineIn(r, a) \subseteq S
    BY <2>2, <2>3, LineLeast
  <2>5. u \notin S
    BY <2>0, <2>1
  <2> QED
    BY <2>4, <2>5
<1> QED
  BY <1>1, <1>2

\* The line of a member is the member and the line of its ancestor.
LEMMA LineUp ==
  ASSUME NEW r \in [Users -> FamilyRow], Older(r), NEW u \in In(r)
  PROVE  LineIn(r, u) = {u} \cup LineIn(r, r[u].ancestor)
<1> DEFINE a == r[u].ancestor
           S == {u} \cup LineIn(r, a)
<1>n. None \notin In(r)
  BY FamilyAssumption DEF In
<1>1. LineIn(r, a) \subseteq In(r) /\ Shut(r, LineIn(r, a))
  BY LineHolds, NoLine DEF Shut
<1>2. a \in In(r) => a \in LineIn(r, a)
  BY LineHolds
<1>3. Shut(r, S)
  BY <1>1, <1>2 DEF Shut
<1>4. LineIn(r, u) \subseteq S
  BY <1>1, <1>3, LineLeast
<1>5. u \in LineIn(r, u) /\ Shut(r, LineIn(r, u)) /\ LineIn(r, u) \subseteq In(r)
  BY LineHolds
<1>6. LineIn(r, a) \subseteq LineIn(r, u)
  <2>1. CASE a \in In(r)
    BY <1>5, <2>1, LineLeast DEF Shut
  <2>2. CASE a \notin In(r)
    BY <2>2, NoLine
  <2> QED
    BY <2>1, <2>2
<1> QED
  BY <1>4, <1>5, <1>6

\* A new row is in nobody else's line.
LEMMA LineAfterInsert ==
  ASSUME NEW r \in [Users -> FamilyRow], Older(r), NEW u \in Users, u \notin In(r),
         NEW q \in [Users -> FamilyRow], q[u].id # 0, \A x \in Users \ {u} : q[x] = r[x],
         NEW x \in In(r)
  PROVE  LineIn(q, x) = LineIn(r, x)
<1>0. In(q) = In(r) \cup {u} /\ x # u
  BY DEF In
<1>1. x \in LineIn(r, x) /\ Shut(r, LineIn(r, x)) /\ LineIn(r, x) \subseteq In(r)
  BY LineHolds
<1>2. x \in LineIn(q, x) /\ Shut(q, LineIn(q, x)) /\ LineIn(q, x) \subseteq In(q)
  BY <1>0, LineHolds
<1>3. LineIn(q, x) \subseteq LineIn(r, x)
  <2>1. Shut(q, LineIn(r, x))
    <3> SUFFICES ASSUME NEW m \in LineIn(r, x), q[m].ancestor \in In(q) PROVE q[m].ancestor \in LineIn(r, x)
      BY DEF Shut
    <3>1. m \in In(r) /\ q[m] = r[m]
      BY <1>0, <1>1 DEF In
    <3>2. r[m].ancestor \in In(r)
      BY <3>1, FamilyAssumption DEF Older, In
    <3> QED
      BY <1>1, <3>1, <3>2 DEF Shut
  <2> QED
    BY <1>0, <1>1, <2>1, LineLeast
<1>4. LineIn(r, x) \subseteq LineIn(q, x)
  <2> DEFINE S == LineIn(q, x) \ {u}
  <2>1. x \in S /\ S \in SUBSET In(r)
    BY <1>0, <1>2
  <2>2. Shut(r, S)
    <3> SUFFICES ASSUME NEW m \in S, r[m].ancestor \in In(r) PROVE r[m].ancestor \in S
      BY DEF Shut
    <3>1. q[m] = r[m] /\ r[m].ancestor \in In(q) /\ r[m].ancestor # u
      BY <1>0, <2>1 DEF In
    <3> QED
      BY <1>2, <3>1 DEF Shut
  <2>3. LineIn(r, x) \subseteq S
    BY <2>1, <2>2, LineLeast
  <2> QED
    BY <2>3
<1> QED
  BY <1>3, <1>4

\* Rows without children are in nobody else's line.
LEMMA LineAfterDelete ==
  ASSUME NEW r \in [Users -> FamilyRow], NEW D \in SUBSET Users, \A m \in In(r) : r[m].ancestor \notin D,
         NEW q \in [Users -> FamilyRow], \A x \in D : q[x].id = 0, \A x \in Users \ D : q[x] = r[x],
         NEW x \in In(q)
  PROVE  LineIn(q, x) = LineIn(r, x)
<1>0. In(q) = In(r) \ D /\ x \notin D /\ x \in In(r)
  BY DEF In
<1>1. x \in LineIn(r, x) /\ Shut(r, LineIn(r, x)) /\ LineIn(r, x) \subseteq In(r)
  BY <1>0, LineHolds
<1>2. x \in LineIn(q, x) /\ Shut(q, LineIn(q, x)) /\ LineIn(q, x) \subseteq In(q)
  BY LineHolds
<1>3. LineIn(r, x) \cap D = {}
  <2> DEFINE S == LineIn(r, x) \ D
  <2>1. x \in S /\ S \in SUBSET In(r) /\ Shut(r, S)
    BY <1>0, <1>1 DEF Shut
  <2>2. LineIn(r, x) \subseteq S
    BY <2>1, LineLeast
  <2> QED
    BY <2>2
<1>4. LineIn(q, x) \subseteq LineIn(r, x)
  <2>1. Shut(q, LineIn(r, x))
    <3> SUFFICES ASSUME NEW m \in LineIn(r, x), q[m].ancestor \in In(q) PROVE q[m].ancestor \in LineIn(r, x)
      BY DEF Shut
    <3>1. m \in Users /\ m \notin D /\ q[m] = r[m]
      BY <1>1, <1>3 DEF In
    <3> QED
      BY <1>0, <1>1, <3>1 DEF Shut
  <2> QED
    BY <1>0, <1>1, <1>3, <2>1, LineLeast
<1>5. LineIn(r, x) \subseteq LineIn(q, x)
  <2>1. Shut(r, LineIn(q, x))
    <3> SUFFICES ASSUME NEW m \in LineIn(q, x), r[m].ancestor \in In(r) PROVE r[m].ancestor \in LineIn(q, x)
      BY DEF Shut
    <3>1. m \in In(r) /\ m \notin D
      BY <1>0, <1>2
    <3>2. q[m] = r[m] /\ r[m].ancestor \notin D
      BY <3>1 DEF In
    <3> QED
      BY <1>0, <1>2, <3>2 DEF Shut
  <2> QED
    BY <1>0, <1>2, <2>1, LineLeast
<1> QED
  BY <1>4, <1>5

(***************************************************************************)
(* What the columns of one wedding's rows say, and how it survives an      *)
(* insertion and a removal.                                                *)
(***************************************************************************)
RowTrue(r, u) ==
  /\ r[u].distance = Generation(r, u)
  /\ LevelIn(r, u, Generation(r, u))

Grown(r) == Older(r) /\ \A u \in In(r) : RowTrue(r, u)

\* A line is one longer than that of the ancestor.
LEMMA LineLength ==
  ASSUME NEW r \in [Users -> FamilyRow], Older(r), NEW u \in In(r)
  PROVE  /\ Cardinality(LineIn(r, u)) = Generation(r, u) + 1
         /\ Generation(r, u) = Cardinality(LineIn(r, r[u].ancestor))
         /\ Generation(r, u) \in Nat
<1> DEFINE L == LineIn(r, r[u].ancestor)
<1>1. IsFiniteSet(L) /\ Cardinality(L) \in Nat
  BY LineFinite
<1>2. LineIn(r, u) = L \cup {u} /\ u \notin L
  BY LineUp, NotOwnAncestor
<1>3. Cardinality(LineIn(r, u)) = Cardinality(L) + 1
  BY <1>1, <1>2, FS_AddElement
<1>4. Generation(r, u) = Cardinality(L)
  <2>1. CASE r[u].ancestor = None
    <3>1. L = {}
      BY <2>1, NoLine, FamilyAssumption DEF In
    <3> QED
      BY <2>1, <3>1, FS_EmptySet DEF Generation
  <2>2. CASE r[u].ancestor # None
    BY <2>2 DEF Generation
  <2> QED
    BY <2>1, <2>2
<1> QED
  BY <1>1, <1>3, <1>4

\* A path stays a path while its rows are what they were.
LEMMA LevelKept ==
  ASSUME NEW r, NEW q, NEW u, NEW n \in Nat,
         NEW path \in [0..n -> In(r)],
         r[path[0]].ancestor = None, \A i \in 1..n : r[path[i]].ancestor = path[i - 1], path[n] = u,
         \A i \in 0..n : path[i] \in In(q) /\ q[path[i]] = r[path[i]]
  PROVE  LevelIn(q, u, n)
<1>1. path \in [0..n -> In(q)]
  OBVIOUS
<1>2. q[path[0]].ancestor = None
  OBVIOUS
<1>3. \A i \in 1..n : q[path[i]].ancestor = path[i - 1]
  OBVIOUS
<1> QED
  BY <1>1, <1>2, <1>3 DEF LevelIn

\* A child is one level below its ancestor.
LEMMA LevelBelow ==
  ASSUME NEW r, NEW u \in In(r), NEW n \in Nat, LevelIn(r, r[u].ancestor, n)
  PROVE  LevelIn(r, u, n + 1)
<1>1. PICK path \in [0..n -> In(r)] :
        /\ r[path[0]].ancestor = None
        /\ \A i \in 1..n : r[path[i]].ancestor = path[i - 1]
        /\ path[n] = r[u].ancestor
  BY DEF LevelIn
<1> DEFINE longer == [i \in 0..(n + 1) |-> IF i <= n THEN path[i] ELSE u]
<1>2. longer \in [0..(n + 1) -> In(r)]
  OBVIOUS
<1>3. r[longer[0]].ancestor = None
  BY <1>1
<1>4. \A i \in 1..(n + 1) : r[longer[i]].ancestor = longer[i - 1]
  <2> TAKE i \in 1..(n + 1)
  <2>1. CASE i <= n
    <3>1. longer[i] = path[i] /\ longer[i - 1] = path[i - 1] /\ i \in 1..n
      BY <2>1
    <3> QED
      BY <1>1, <3>1
  <2>2. CASE ~(i <= n)
    <3>1. longer[i] = u /\ longer[i - 1] = path[n]
      BY <2>2
    <3> QED
      BY <1>1, <3>1
  <2> QED
    BY <2>1, <2>2
<1>5. longer[n + 1] = u
  OBVIOUS
<1> QED
  BY <1>2, <1>3, <1>4, <1>5 DEF LevelIn

\* The row that addFamilyMember inserts.
LEMMA GrownAfterInsert ==
  ASSUME NEW r \in [Users -> FamilyRow], Grown(r), NEW u \in Users, u \notin In(r),
         NEW q \in [Users -> FamilyRow], q[u].id # 0, \A x \in Users \ {u} : q[x] = r[x],
         \A x \in In(r) : r[x].id < q[u].id,
         \/ q[u].ancestor = None /\ q[u].distance = 0
         \/ /\ q[u].ancestor \in In(r)
            /\ q[u].distance = Cardinality(LineIn(r, q[u].ancestor))
  PROVE  Grown(q)
<1>0. In(q) = In(r) \cup {u} /\ (\A x \in In(r) : q[x] = r[x] /\ x # u) /\ None \notin Users /\ In(r) \subseteq Users
  BY FamilyAssumption DEF In
<1>1. Older(q)
  BY <1>0 DEF Grown, Older
<1>2. \A x \in In(r) : LineIn(q, x) = LineIn(r, x)
  BY LineAfterInsert DEF Grown
<1>3. \A x \in In(r) : Generation(q, x) = Generation(r, x) /\ Generation(r, x) \in Nat
  <2> TAKE x \in In(r)
  <2>1. Generation(r, x) \in Nat
    BY LineLength DEF Grown
  <2>2. q[x].ancestor = r[x].ancestor /\ (r[x].ancestor # None => r[x].ancestor \in In(r))
    BY <1>0 DEF Grown, Older
  <2> QED
    BY <1>2, <2>1, <2>2 DEF Generation
<1>4. \A x \in In(r) : LevelIn(q, x, Generation(r, x))
  <2> TAKE x \in In(r)
  <2>1. PICK n \in Nat : n = Generation(r, x)
    BY <1>3
  <2>2. LevelIn(r, x, n)
    BY <2>1 DEF Grown, RowTrue
  <2>3. PICK path \in [0..n -> In(r)] :
          /\ r[path[0]].ancestor = None
          /\ \A i \in 1..n : r[path[i]].ancestor = path[i - 1]
          /\ path[n] = x
    BY <2>2 DEF LevelIn
  <2>4. \A i \in 0..n : path[i] \in In(q) /\ q[path[i]] = r[path[i]]
    BY <1>0
  <2>5. LevelIn(q, x, n)
    BY <2>3, <2>4, LevelKept
  <2> QED
    BY <2>1, <2>5
<1>5. \A x \in In(r) : RowTrue(q, x)
  BY <1>0, <1>3, <1>4 DEF Grown, RowTrue
<1>6. RowTrue(q, u)
  <2>1. CASE q[u].ancestor = None /\ q[u].distance = 0
    <3> DEFINE path == [i \in 0..0 |-> u]
    <3>1. Generation(q, u) = 0
      BY <2>1 DEF Generation
    <3>2. path \in [0..0 -> In(q)] /\ path[0] = u
      BY <1>0
    <3>3. \A i \in 1..0 : q[path[i]].ancestor = path[i - 1]
      OBVIOUS
    <3> HIDE DEF path
    <3>4. LevelIn(q, u, 0)
      BY <2>1, <3>2, <3>3 DEF LevelIn
    <3> QED
      BY <2>1, <3>1, <3>4 DEF RowTrue
  <2>2. CASE /\ q[u].ancestor \in In(r)
             /\ q[u].distance = Cardinality(LineIn(r, q[u].ancestor))
    <3>0. PICK a \in In(r) : a = q[u].ancestor
      BY <2>2
    <3>1. Cardinality(LineIn(r, a)) = Generation(r, a) + 1 /\ Generation(r, a) \in Nat
      BY LineLength DEF Grown
    <3>2. q[u].ancestor # None /\ LineIn(q, a) = LineIn(r, a)
      BY <1>0, <1>2, <2>2
    <3>3. Generation(q, u) = Cardinality(LineIn(r, a))
      BY <3>0, <3>2 DEF Generation
    <3>4. PICK n \in Nat : n = Generation(r, a)
      BY <3>1
    <3>5. LevelIn(q, q[u].ancestor, n)
      BY <1>4, <3>0, <3>4
    <3>6. LevelIn(q, u, n + 1)
      BY <1>0, <3>5, LevelBelow
    <3>7. Generation(q, u) = n + 1
      BY <3>1, <3>3, <3>4
    <3> QED
      BY <2>2, <3>0, <3>3, <3>6, <3>7 DEF RowTrue
  <2> QED
    BY <2>1, <2>2
<1> QED
  BY <1>0, <1>1, <1>5, <1>6 DEF Grown

\* Rows that are deleted, of members nobody descends from.
LEMMA GrownAfterDelete ==
  ASSUME NEW r \in [Users -> FamilyRow], Grown(r), NEW D \in SUBSET Users, \A m \in In(r) : r[m].ancestor \notin D,
         NEW q \in [Users -> FamilyRow], \A x \in D : q[x].id = 0, \A x \in Users \ D : q[x] = r[x]
  PROVE  Grown(q)
<1>0. In(q) = In(r) \ D /\ (\A x \in In(q) : q[x] = r[x]) /\ None \notin Users /\ In(r) \subseteq Users
  BY FamilyAssumption DEF In
<1>1. Older(q)
  BY <1>0 DEF Grown, Older
<1>2. \A x \in In(q) : LineIn(q, x) = LineIn(r, x)
  BY LineAfterDelete
<1> SUFFICES ASSUME NEW x \in In(q) PROVE RowTrue(q, x)
  BY <1>1 DEF Grown
<1>3. x \in In(r) /\ x \notin D /\ q[x] = r[x] /\ RowTrue(r, x)
  BY <1>0 DEF Grown
<1>4. Generation(q, x) = Generation(r, x)
  <2>1. r[x].ancestor = None \/ r[x].ancestor \in In(q)
    BY <1>0, <1>3 DEF Grown, Older
  <2> QED
    BY <1>2, <1>3, <2>1 DEF Generation
<1>5. PICK n \in Nat : n = Generation(r, x)
  BY <1>3, LineLength DEF Grown
<1>6. PICK path \in [0..n -> In(r)] :
        /\ r[path[0]].ancestor = None
        /\ \A i \in 1..n : r[path[i]].ancestor = path[i - 1]
        /\ path[n] = x
  BY <1>3, <1>5 DEF RowTrue, LevelIn
<1>7. \A i \in 0..n : path[i] \notin D
  <2> TAKE i \in 0..n
  <2>1. CASE i = n
    BY <1>3, <1>6, <2>1
  <2>2. CASE i # n
    <3>1. i + 1 \in 1..n /\ i + 1 \in 0..n
      BY <2>2
    <3>2. PICK j \in 0..n : j = i + 1
      BY <3>1
    <3>3. path[j] \in In(r) /\ r[path[j]].ancestor = path[j - 1] /\ j - 1 = i
      BY <1>6, <3>1, <3>2
    <3> QED
      BY <3>3
  <2> QED
    BY <2>1, <2>2
<1>8. \A i \in 0..n : path[i] \in In(q) /\ q[path[i]] = r[path[i]]
  BY <1>0, <1>7
<1>9. LevelIn(q, x, n)
  BY ONLY <1>6, <1>8, LevelKept
<1> QED
  BY <1>3, <1>4, <1>5, <1>9 DEF RowTrue

\* What is said of rows is said of the members' rows.
LEMMA GrownAlike ==
  ASSUME NEW r \in [Users -> FamilyRow], NEW q \in [Users -> FamilyRow], Grown(r),
         In(q) = In(r), \A m \in In(q) : q[m] = r[m]
  PROVE  Grown(q)
<1>2. \A x \in In(q) : LineIn(q, x) = LineIn(r, x)
  BY DEF LineIn, Shut
<1>3. Older(q)
  BY FamilyAssumption DEF Grown, Older, In
<1>4. ASSUME NEW x \in In(q) PROVE RowTrue(q, x)
  <2>0. x \in In(r) /\ q[x] = r[x] /\ RowTrue(r, x) /\ (r[x].ancestor = None \/ r[x].ancestor \in In(q))
    BY DEF Grown, Older
  <2>1. Generation(q, x) = Generation(r, x)
    BY <1>2, <2>0 DEF Generation
  <2>2. PICK n \in Nat : n = Generation(r, x)
    BY LineLength DEF Grown
  <2>4. PICK path \in [0..n -> In(r)] :
          /\ r[path[0]].ancestor = None
          /\ \A i \in 1..n : r[path[i]].ancestor = path[i - 1]
          /\ path[n] = x
    BY <2>0, <2>2 DEF RowTrue, LevelIn
  <2>5. \A i \in 0..n : path[i] \in In(q) /\ q[path[i]] = r[path[i]]
    OBVIOUS
  <2>3. LevelIn(q, x, n)
    BY ONLY <2>4, <2>5, LevelKept
  <2> QED
    BY <2>0, <2>1, <2>2, <2>3 DEF RowTrue
<1> QED
  BY <1>3, <1>4 DEF Grown

(***************************************************************************)
(* The types.                                                              *)
(***************************************************************************)
Steps == {"idle", "read", "ancestor", "walk", "insert", "descendant", "delete"}

RequestRow ==
  [at : Steps, op : {"none", "add", "remove"}, wedding : Weddings, member : Users \cup {None},
   ancestor : Users \cup {None}, rank : Ranks \cup {"NONE"}, distance : 0..Cardinality(Users), id : 0..MaxId]

RequestOK(x) ==
  /\ x \in RequestRow
  /\ x.op = "none" <=> x.at = "idle"
  /\ x.op # "none" => x.member \in Users
  /\ x.at = "insert" => x.rank \in Ranks

TypeInv ==
  /\ users \subseteq Users
  /\ tree \in [Weddings -> [Users -> FamilyRow]]
  /\ nextId \in 1..(MaxId + 1)
  /\ DOMAIN req = Sessions /\ req = [s \in Sessions |-> req[s]]
  /\ \A s \in Sessions : RequestOK(req[s])

LEMMA UsersFinite == Cardinality(Users) \in Nat /\ (Users # {} => 1 <= Cardinality(Users))
<1>1. Cardinality(Users) \in Nat
  BY FamilyAssumption, FS_CardinalityType
<1>2. Users # {} => Cardinality(Users) # 0
  BY FamilyAssumption, FS_EmptySet
<1> QED
  BY <1>1, <1>2

LEMMA NoRowTyped == NoRow \in FamilyRow /\ NoRow.id = 0
BY FamilyAssumption, UsersFinite DEF NoRow, FamilyRow, Ranks

LEMMA IdleOK == RequestOK(Idle) /\ Idle.at = "idle" /\ Idle.op = "none"
<1>1. (CHOOSE w \in Weddings : TRUE) \in Weddings
  BY FamilyAssumption
<1> QED
  BY <1>1, FamilyAssumption, UsersFinite DEF Idle, RequestOK, RequestRow, Steps

\* The walk of the code is the line of its rows.
LEMMA LineOfTree ==
  ASSUME NEW w
  PROVE  /\ Members(w) = In(tree[w])
         /\ \A u : Line(w, u) = LineIn(tree[w], u)
BY DEF Members, In, Line, LineIn, Closed, Shut

LEMMA DistanceTyped ==
  ASSUME NEW w, NEW a, Users # {}
  PROVE  Distance(w, a) \in 0..Cardinality(Users) /\ RankFor(Distance(w, a)) \in Ranks
<1>1. Cardinality(LineIn(tree[w], a)) \in 0..Cardinality(Users)
  BY LineFinite
<1>2. Line(w, a) = LineIn(tree[w], a)
  BY LineOfTree
<1> QED
  BY <1>1, <1>2, UsersFinite DEF Distance, RankFor, Ranks

(***************************************************************************)
(* What each kind of step does.                                            *)
(***************************************************************************)
\* Session s moves on to x; the others stay.
Moves(s, x) == req' = [req EXCEPT ![s] = x]

\* A step of the request alone.
Sent(s) ==
  \E x : /\ Moves(s, x) /\ UNCHANGED <<tree, nextId>> /\ req[s].at = "idle"
         /\ \/ x \in Adds /\ (RemovalsAlone => \A t \in Sessions : req[t].op # "remove")
            \/ x \in Removals /\ (RemovalsAlone => \A t \in Sessions : req[t].at = "idle")

Proceeds(s) ==
  \E x : /\ Moves(s, x) /\ UNCHANGED <<tree, nextId>>
         /\ x.op = req[s].op /\ x.wedding = req[s].wedding /\ x.member = req[s].member
         /\ x.ancestor = req[s].ancestor
         /\ RequestOK(req[s]) => RequestOK(x)
         /\ \/ /\ req[s].op = "add" /\ req[s].at = "read" /\ x.at = "insert" /\ x.distance = req[s].distance
               /\ req[s].rank # "NONE" \/ x.ancestor = None
            \/ /\ req[s].op = "add" /\ x.at = "ancestor"
            \/ /\ req[s].op = "add" /\ x.at = "walk" /\ x.ancestor \in In(tree[x.wedding])
            \/ /\ req[s].op = "add" /\ req[s].at = "walk" /\ x.at = "insert"
               /\ x.distance = Distance(x.wedding, x.ancestor)
            \/ /\ req[s].op = "remove" /\ x.at = "descendant"
            \/ /\ req[s].op = "remove" /\ x.at = "delete" /\ ChildrenOf(x.wedding, x.member) = {}

Ends(s) == Moves(s, Idle) /\ UNCHANGED <<tree, nextId>>

Inserts(s) ==
  \E w \in Weddings, u \in Users :
    /\ Moves(s, Idle) /\ req[s].op = "add" /\ req[s].at = "insert"
    /\ w = req[s].wedding /\ u = req[s].member /\ tree[w][u].id = 0
    /\ nextId <= MaxId /\ nextId' = nextId + 1
    /\ \E row \in FamilyRow :
         /\ row.id = nextId /\ row.ancestor = req[s].ancestor /\ row.rank = req[s].rank
         /\ row.distance = req[s].distance
         /\ tree' = [tree EXCEPT ![w] = [tree[w] EXCEPT ![u] = row]]

Deletes(s) ==
  \E w \in Weddings, u \in Users :
    /\ Moves(s, Idle) /\ req[s].op = "remove" /\ req[s].at = "delete"
    /\ w = req[s].wedding /\ u = req[s].member
    /\ UNCHANGED nextId
    /\ tree' = [tree EXCEPT ![w] = [tree[w] EXCEPT ![u] = NoRow]]

LEMMA SendOutcome ==
  ASSUME NEW s \in Sessions, SendAdd(s) \/ SendRemoval(s)
  PROVE  Sent(s)
BY DEF SendAdd, SendRemoval, Busy, Sent, Moves

LEMMA ReadMemberOutcome ==
  ASSUME TypeInv, NEW s \in Sessions, ReadMember(s)
  PROVE  Ends(s) \/ Proceeds(s)
<1> DEFINE r == req[s]
           taken == r.member \notin users \/ (\E w \in Weddings : r.member \in Members(w))
<1>0. RequestOK(r) /\ r.op = "add" /\ r.at = "read" /\ UNCHANGED <<tree, nextId>>
  BY DEF ReadMember, At, TypeInv
<1>1. CASE taken
  BY <1>0, <1>1 DEF ReadMember, Answer, Ends, Moves
<1>2. CASE ~taken /\ r.rank # "NONE"
  <2> DEFINE x == [r EXCEPT !.at = "insert"]
  <2>1. Moves(s, x)
    BY <1>2 DEF ReadMember, Moves
  <2>2. x.at = "insert" /\ x.op = r.op /\ x.wedding = r.wedding /\ x.member = r.member /\ x.ancestor = r.ancestor
        /\ x.distance = r.distance /\ x.rank = r.rank /\ RequestOK(x)
    BY <1>0, <1>2 DEF RequestOK, RequestRow, Steps
  <2> HIDE DEF x
  <2> QED
    BY <1>0, <1>2, <2>1, <2>2 DEF Proceeds
<1>3. CASE ~taken /\ r.rank = "NONE" /\ r.ancestor = None
  <2> DEFINE x == [r EXCEPT !.at = "insert", !.rank = "SHAKYRT"]
  <2>1. Moves(s, x)
    BY <1>3 DEF ReadMember, Moves
  <2>2. x.at = "insert" /\ x.op = r.op /\ x.wedding = r.wedding /\ x.member = r.member /\ x.ancestor = r.ancestor
        /\ x.distance = r.distance /\ RequestOK(x)
    BY <1>0, <1>3 DEF RequestOK, RequestRow, Steps, Ranks
  <2> HIDE DEF x
  <2> QED
    BY <1>0, <1>3, <2>1, <2>2 DEF Proceeds
<1>4. CASE ~taken /\ r.rank = "NONE" /\ r.ancestor # None
  <2> DEFINE x == [r EXCEPT !.at = "ancestor"]
  <2>1. Moves(s, x)
    BY <1>4 DEF ReadMember, Moves
  <2>2. x.at = "ancestor" /\ x.op = r.op /\ x.wedding = r.wedding /\ x.member = r.member /\ x.ancestor = r.ancestor
        /\ RequestOK(x)
    BY <1>0, <1>4 DEF RequestOK, RequestRow, Steps
  <2> HIDE DEF x
  <2> QED
    BY <1>0, <2>1, <2>2 DEF Proceeds
<1> QED
  BY <1>1, <1>2, <1>3, <1>4

LEMMA ReadAncestorOutcome ==
  ASSUME TypeInv, NEW s \in Sessions, ReadAncestor(s)
  PROVE  Ends(s) \/ Proceeds(s)
<1> DEFINE r == req[s]
           x == [r EXCEPT !.at = "walk"]
<1>0. RequestOK(r) /\ r.op = "add" /\ r.at = "ancestor" /\ UNCHANGED <<tree, nextId>>
  BY DEF ReadAncestor, At, TypeInv
<1>1. CASE r.ancestor \notin Members(r.wedding)
  BY <1>0, <1>1 DEF ReadAncestor, AncestorFound, Answer, Ends, Moves
<1>2. CASE r.ancestor \in Members(r.wedding)
  <2>1. Moves(s, x)
    BY <1>2 DEF ReadAncestor, AncestorFound, Moves
  <2>2. x.at = "walk" /\ x.op = r.op /\ x.wedding = r.wedding /\ x.member = r.member /\ x.ancestor = r.ancestor
        /\ RequestOK(x)
    BY <1>0 DEF RequestOK, RequestRow, Steps
  <2>3. r.ancestor \in In(tree[r.wedding])
    BY <1>2, LineOfTree
  <2> HIDE DEF x
  <2> QED
    BY <1>0, <2>1, <2>2, <2>3 DEF Proceeds
<1> QED
  BY <1>1, <1>2

LEMMA WalkUpOutcome ==
  ASSUME TypeInv, NEW s \in Sessions, WalkUp(s)
  PROVE  Proceeds(s)
<1> DEFINE r == req[s]
<1>0. RequestOK(r) /\ r.op = "add" /\ r.at = "walk" /\ UNCHANGED <<tree, nextId>>
  BY DEF WalkUp, At, TypeInv
<1>1. PICK d : d = Distance(r.wedding, r.ancestor)
  OBVIOUS
<1>2. d \in 0..Cardinality(Users) /\ RankFor(d) \in Ranks
  BY <1>0, <1>1, DistanceTyped DEF RequestOK
<1> DEFINE x == [r EXCEPT !.at = "insert", !.distance = d, !.rank = RankFor(d)]
<1>3. Moves(s, x)
  BY <1>1 DEF WalkUp, Moves
<1>4. x.at = "insert" /\ x.op = r.op /\ x.wedding = r.wedding /\ x.member = r.member /\ x.ancestor = r.ancestor
      /\ x.distance = d /\ x.rank = RankFor(d) /\ RequestOK(x)
  BY <1>0, <1>2 DEF RequestOK, RequestRow, Steps
<1> HIDE DEF x
<1>5. x.distance = Distance(x.wedding, x.ancestor)
  BY <1>1, <1>4
<1> QED
  BY <1>0, <1>3, <1>4, <1>5 DEF Proceeds

LEMMA InsertOutcome ==
  ASSUME TypeInv, NEW s \in Sessions, InsertMember(s)
  PROVE  Ends(s) \/ Inserts(s)
<1> DEFINE r == req[s]
           row == [id |-> nextId, ancestor |-> r.ancestor, rank |-> r.rank, distance |-> r.distance]
<1>0. RequestOK(r) /\ r.op = "add" /\ r.at = "insert" /\ Moves(s, Idle) /\ nextId <= MaxId
  BY DEF InsertMember, At, TypeInv, Answer, Moves
<1>1. CASE ~Insertable(r)
  BY <1>0, <1>1 DEF InsertMember, Ends
<1>2. CASE Insertable(r)
  <2>1. r.wedding \in Weddings /\ r.member \in Users /\ tree[r.wedding][r.member].id = 0
    BY <1>0, <1>2 DEF RequestOK, RequestRow, Insertable
  <2>2. row \in FamilyRow /\ row.id = nextId /\ row.ancestor = r.ancestor /\ row.rank = r.rank /\ row.distance = r.distance
    BY <1>0, FamilyAssumption DEF RequestOK, RequestRow, FamilyRow, TypeInv
  <2>3. tree' = [tree EXCEPT ![r.wedding] = [tree[r.wedding] EXCEPT ![r.member] = row]] /\ nextId' = nextId + 1
    BY <1>2, <2>1 DEF InsertMember, TypeInv
  <2> HIDE DEF row
  <2> QED
    BY <1>0, <2>1, <2>2, <2>3 DEF Inserts
<1> QED
  BY <1>1, <1>2

LEMMA ReadForRemovalOutcome ==
  ASSUME TypeInv, NEW s \in Sessions, ReadForRemoval(s)
  PROVE  Ends(s) \/ Proceeds(s)
<1> DEFINE r == req[s]
<1>0. RequestOK(r) /\ r.op = "remove" /\ r.at = "read" /\ UNCHANGED <<tree, nextId>>
  BY DEF ReadForRemoval, At, TypeInv
<1>1. CASE Row(s).id = 0
  BY <1>0, <1>1 DEF ReadForRemoval, Answer, Ends, Moves
<1>2. CASE Row(s).id # 0
  <2>1. PICK i : i = Row(s).id
    OBVIOUS
  <2>2. i \in 0..MaxId
    BY <1>0, <2>1 DEF Row, TypeInv, RequestOK, RequestRow, FamilyRow
  <2> DEFINE x == [r EXCEPT !.at = "descendant", !.id = i]
  <2>3. Moves(s, x)
    BY <1>2, <2>1 DEF ReadForRemoval, Moves
  <2>4. x.at = "descendant" /\ x.op = r.op /\ x.wedding = r.wedding /\ x.member = r.member /\ x.ancestor = r.ancestor
        /\ RequestOK(x)
    BY <1>0, <2>2 DEF RequestOK, RequestRow, Steps
  <2> HIDE DEF x
  <2> QED
    BY <1>0, <2>3, <2>4 DEF Proceeds
<1> QED
  BY <1>1, <1>2

LEMMA ReadDescendantOutcome ==
  ASSUME TypeInv, NEW s \in Sessions, ReadDescendant(s)
  PROVE  Ends(s) \/ Proceeds(s)
<1> DEFINE r == req[s]
           x == [r EXCEPT !.at = "delete"]
<1>0. RequestOK(r) /\ r.op = "remove" /\ r.at = "descendant" /\ UNCHANGED <<tree, nextId>>
  BY DEF ReadDescendant, At, TypeInv
<1>1. CASE ~Childless(r.wedding, r.member)
  BY <1>0, <1>1 DEF ReadDescendant, Answer, Ends, Moves
<1>2. CASE Childless(r.wedding, r.member)
  <2>1. Moves(s, x)
    BY <1>2 DEF ReadDescendant, Moves
  <2>2. x.at = "delete" /\ x.op = r.op /\ x.wedding = r.wedding /\ x.member = r.member /\ x.ancestor = r.ancestor
        /\ RequestOK(x)
    BY <1>0 DEF RequestOK, RequestRow, Steps
  <2> HIDE DEF x
  <2> QED
    BY <1>0, <1>2, <2>1, <2>2 DEF Proceeds, Childless
<1> QED
  BY <1>1, <1>2

LEMMA DeleteOutcome ==
  ASSUME TypeInv, NEW s \in Sessions, DeleteMember(s)
  PROVE  Ends(s) \/ Deletes(s)
<1> DEFINE r == req[s]
<1>0. RequestOK(r) /\ r.op = "remove" /\ r.at = "delete" /\ Moves(s, Idle) /\ UNCHANGED nextId
  BY DEF DeleteMember, At, TypeInv, Answer, Moves
<1>1. r.wedding \in Weddings /\ r.member \in Users
  BY <1>0 DEF RequestOK, RequestRow
<1>2. CASE Row(s).id = req[s].id
  <2>1. tree' = [tree EXCEPT ![r.wedding] = [tree[r.wedding] EXCEPT ![r.member] = NoRow]]
    BY <1>1, <1>2 DEF DeleteMember, TypeInv
  <2> QED
    BY <1>0, <1>1, <2>1 DEF Deletes
<1>3. CASE Row(s).id # req[s].id
  BY <1>0, <1>3 DEF DeleteMember, Ends
<1> QED
  BY <1>2, <1>3

\* Every step is of one of these kinds, or deletes a user.
Kinds(s) == Sent(s) \/ Proceeds(s) \/ Ends(s) \/ Inserts(s) \/ Deletes(s)

LEMMA StepOutcome ==
  ASSUME TypeInv, Next
  PROVE  (\E s \in Sessions : Kinds(s) /\ UNCHANGED users) \/ (\E u \in Users : DeleteUser(u))
<1> SUFFICES ASSUME ~(\E u \in Users : DeleteUser(u)) PROVE \E s \in Sessions : Kinds(s) /\ UNCHANGED users
  OBVIOUS
<1> USE DEF Kinds
<1>1. PICK s \in Sessions : SendAdd(s) \/ ReadMember(s) \/ ReadAncestor(s) \/ WalkUp(s) \/ InsertMember(s)
                            \/ SendRemoval(s) \/ ReadForRemoval(s) \/ ReadDescendant(s) \/ DeleteMember(s) \/ Fail(s)
  BY DEF Next
<1>0. UNCHANGED users
  BY <1>1 DEF SendAdd, ReadMember, ReadAncestor, WalkUp, InsertMember, SendRemoval, ReadForRemoval, ReadDescendant,
              DeleteMember, Fail
<1>2. CASE SendAdd(s) \/ SendRemoval(s)
  BY <1>0, <1>2, SendOutcome
<1>3. CASE ReadMember(s) \/ ReadAncestor(s) \/ WalkUp(s)
  BY <1>0, <1>3, ReadMemberOutcome, ReadAncestorOutcome, WalkUpOutcome
<1>4. CASE InsertMember(s) \/ DeleteMember(s)
  BY <1>0, <1>4, InsertOutcome, DeleteOutcome
<1>5. CASE ReadForRemoval(s) \/ ReadDescendant(s)
  BY <1>0, <1>5, ReadForRemovalOutcome, ReadDescendantOutcome
<1>6. CASE Fail(s)
  BY <1>0, <1>6 DEF Fail, Answer, Ends, Moves
<1> QED
  BY <1>1, <1>2, <1>3, <1>4, <1>5, <1>6

\* A step leaves the requests of the other sessions as they are.
LEMMA OthersStay ==
  ASSUME TypeInv, NEW s \in Sessions, NEW x, Moves(s, x)
  PROVE  req'[s] = x /\ DOMAIN req' = Sessions /\ req' = [t \in Sessions |-> req'[t]]
         /\ \A t \in Sessions : t # s => req'[t] = req[t]
BY DEF Moves, TypeInv

LEMMA RequestsOK ==
  ASSUME NEW x \in Adds \cup Removals
  PROVE  RequestOK(x) /\ x.at = "read" /\ x.op \in {"add", "remove"} /\ x.distance = 0
         /\ (x \in Adds => x.op = "add" /\ x.rank \in GivenRanks \cup {"NONE"})
         /\ (x \in Removals => x.op = "remove")
BY FamilyAssumption, UsersFinite DEF Adds, Removals, Request, RequestOK, RequestRow, Steps

LEMMA TypeInit == Init => TypeInv
BY NoRowTyped, IdleOK, FamilyAssumption DEF Init, TypeInv

\* What deleteUser leaves of each wedding's rows.
LEMMA DeleteUserTyped ==
  ASSUME TypeInv, NEW u \in Users, DeleteUser(u)
  PROVE  /\ TypeInv'
         /\ \A w \in Weddings : /\ \A m \in RemovedWith(w, u) \cap Users : tree'[w][m].id = 0
                                /\ \A m \in Users \ RemovedWith(w, u) : tree'[w][m] = tree[w][m]
<1>1. tree' \in [Weddings -> [Users -> FamilyRow]] /\ users' \subseteq Users
  BY NoRowTyped DEF DeleteUser, TypeInv
<1>2. TypeInv'
  BY <1>1 DEF DeleteUser, TypeInv
<1> QED
  BY <1>2, NoRowTyped DEF DeleteUser

LEMMA TypeStep ==
  ASSUME TypeInv, [Next]_vars
  PROVE  TypeInv'
<1>1. CASE UNCHANGED vars
  BY <1>1 DEF vars, TypeInv
<1>2. CASE Next
  <2> SUFFICES ASSUME NEW s \in Sessions, Kinds(s), UNCHANGED users PROVE TypeInv'
    BY <1>2, StepOutcome, DeleteUserTyped
  <2>2. ASSUME NEW x, Moves(s, x), RequestOK(x)
        PROVE  DOMAIN req' = Sessions /\ req' = [t \in Sessions |-> req'[t]] /\ \A t \in Sessions : RequestOK(req'[t])
    BY <2>2, OthersStay DEF TypeInv
  <2>3. CASE Sent(s)
    BY <2>2, <2>3, RequestsOK DEF Sent, TypeInv
  <2>4. CASE Proceeds(s)
    <3>1. RequestOK(req[s])
      BY DEF TypeInv
    <3> QED
      BY <2>2, <2>4, <3>1 DEF Proceeds, TypeInv
  <2>5. CASE Ends(s)
    BY <2>2, <2>5, IdleOK DEF Ends, TypeInv
  <2>6. CASE Inserts(s)
    <3>1. tree' \in [Weddings -> [Users -> FamilyRow]]
      BY <2>6 DEF Inserts, TypeInv
    <3>2. nextId' \in 1..(MaxId + 1)
      BY <2>6, FamilyAssumption DEF Inserts, TypeInv
    <3>3. Moves(s, Idle)
      BY <2>6 DEF Inserts
    <3> QED
      BY <2>2, <3>1, <3>2, <3>3, IdleOK DEF TypeInv
  <2>7. CASE Deletes(s)
    <3>1. tree' \in [Weddings -> [Users -> FamilyRow]] /\ nextId' = nextId /\ Moves(s, Idle)
      BY <2>7, NoRowTyped DEF Deletes, TypeInv
    <3> QED
      BY <2>2, <3>1, IdleOK DEF TypeInv
  <2> QED
    BY <2>3, <2>4, <2>5, <2>6, <2>7 DEF Kinds
<1> QED
  BY <1>1, <1>2

LEMMA TypeInvHolds == Spec => []TypeInv
BY TypeInit, TypeStep, PTL DEF Spec

\* Rows and requests hold what they may hold, whatever clients send.
THEOREM TypeCorrect == Spec => []TypeOK
<1>1. TypeInv => TypeOK
  BY DEF TypeInv, TypeOK, FamilyRow, RequestOK, RequestRow, Steps
<1> QED
  BY <1>1, TypeInvHolds, PTL

(***************************************************************************)
(* The invariant, for clients that send no rank, removals while nothing    *)
(* else is in flight, and deleted users without grandchildren.             *)
(***************************************************************************)
TreeInv ==
  \A w \in Weddings : Grown(tree[w]) /\ \A u \in In(tree[w]) : tree[w][u].id < nextId

\* What an addition carries is true of the tree as it is now.
AddOK(x) ==
  x.op = "add" =>
    /\ x.at = "read" => x.distance = 0 /\ x.rank = "NONE"
    /\ x.at = "walk" => x.ancestor \in In(tree[x.wedding])
    /\ x.at = "insert" =>
         \/ x.ancestor = None /\ x.distance = 0
         \/ /\ x.ancestor \in In(tree[x.wedding])
            /\ x.distance = Cardinality(LineIn(tree[x.wedding], x.ancestor))

\* A removal is alone, and who is about to go has no descendant.
RemoveInv ==
  \A s \in Sessions :
    req[s].op = "remove" =>
      /\ \A t \in Sessions : t # s => req[t].at = "idle"
      /\ req[s].at = "delete" => ChildrenOf(req[s].wedding, req[s].member) = {}

GrowthInv == TreeInv /\ (\A s \in Sessions : AddOK(req[s])) /\ RemoveInv

\* Clients send no rank, removals wait, and no grandchildren are detached.
Orderly == GivenRanks = {} /\ RemovalsAlone /\ ~Detaching

LEMMA GrowthInit == Init => GrowthInv
<1> SUFFICES ASSUME Init PROVE GrowthInv
  OBVIOUS
<1>1. \A w \in Weddings : In(tree[w]) = {}
  BY DEF Init, In, NoRow
<1>2. TreeInv
  BY <1>1 DEF TreeInv, Grown, Older
<1>3. \A s \in Sessions : req[s].op = "none"
  BY IdleOK DEF Init
<1> QED
  BY <1>2, <1>3 DEF GrowthInv, AddOK, RemoveInv

LEMMA GrowthSent ==
  ASSUME Orderly, TypeInv, GrowthInv, NEW s \in Sessions, Sent(s)
  PROVE  GrowthInv'
<1>1. PICK x : /\ Moves(s, x) /\ UNCHANGED <<tree, nextId>> /\ req[s].at = "idle"
               /\ \/ x \in Adds /\ (RemovalsAlone => \A t \in Sessions : req[t].op # "remove")
                  \/ x \in Removals /\ (RemovalsAlone => \A t \in Sessions : req[t].at = "idle")
  BY DEF Sent
<1>2. x.at = "read" /\ (x \in Adds => x.op = "add" /\ x.rank = "NONE" /\ x.distance = 0)
      /\ (x \in Removals => x.op = "remove")
  BY <1>1, RequestsOK DEF Orderly
<1>3. req'[s] = x /\ \A t \in Sessions : t # s => req'[t] = req[t]
  BY <1>1, OthersStay
<1>4. TreeInv'
  BY <1>1 DEF GrowthInv, TreeInv
<1>5. \A t \in Sessions : AddOK(req[t])'
  <2> TAKE t \in Sessions
  <2>1. CASE t = s
    BY <1>1, <1>2, <1>3, <2>1 DEF AddOK
  <2>2. CASE t # s
    BY <1>1, <1>3, <2>2 DEF AddOK, GrowthInv
  <2> QED
    BY <2>1, <2>2
<1>6. RemoveInv'
  <2> SUFFICES ASSUME NEW t \in Sessions, req'[t].op = "remove"
               PROVE  /\ \A o \in Sessions : o # t => req'[o].at = "idle"
                      /\ (req[t].at = "delete" => ChildrenOf(req[t].wedding, req[t].member) = {})'
    BY DEF RemoveInv
  <2>1. CASE x \in Adds
    BY <1>1, <1>2, <1>3, <2>1 DEF Orderly
  <2>2. CASE x \in Removals
    <3>1. \A o \in Sessions : req[o].at = "idle" /\ req[o].op = "none"
      BY <1>1, <2>2, <1>2, RequestsOK DEF Orderly, TypeInv, RequestOK
    <3> QED
      BY <1>2, <1>3, <3>1
  <2> QED
    BY <1>1, <2>1, <2>2
<1> QED
  BY <1>4, <1>5, <1>6 DEF GrowthInv

LEMMA GrowthProceeds ==
  ASSUME TypeInv, GrowthInv, NEW s \in Sessions, Proceeds(s)
  PROVE  GrowthInv'
<1>1. PICK x :
         /\ Moves(s, x) /\ UNCHANGED <<tree, nextId>>
         /\ x.op = req[s].op /\ x.wedding = req[s].wedding /\ x.member = req[s].member
         /\ x.ancestor = req[s].ancestor
         /\ RequestOK(req[s]) => RequestOK(x)
         /\ \/ /\ req[s].op = "add" /\ req[s].at = "read" /\ x.at = "insert" /\ x.distance = req[s].distance
               /\ req[s].rank # "NONE" \/ x.ancestor = None
            \/ /\ req[s].op = "add" /\ x.at = "ancestor"
            \/ /\ req[s].op = "add" /\ x.at = "walk" /\ x.ancestor \in In(tree[x.wedding])
            \/ /\ req[s].op = "add" /\ req[s].at = "walk" /\ x.at = "insert"
               /\ x.distance = Distance(x.wedding, x.ancestor)
            \/ /\ req[s].op = "remove" /\ x.at = "descendant"
            \/ /\ req[s].op = "remove" /\ x.at = "delete" /\ ChildrenOf(x.wedding, x.member) = {}
  BY DEF Proceeds
<1>2. req'[s] = x /\ \A t \in Sessions : t # s => req'[t] = req[t]
  BY <1>1, OthersStay
<1>3. TreeInv'
  BY <1>1 DEF GrowthInv, TreeInv
<1>4. AddOK(req[s]) /\ RequestOK(req[s])
  BY DEF GrowthInv, TypeInv
<1>5. AddOK(x)
  <2>1. CASE x.op # "add"
    BY <2>1 DEF AddOK
  <2>2. CASE x.op = "add" /\ x.at = "insert" /\ req[s].at = "read"
    BY <1>1, <1>4, <2>2 DEF AddOK
  <2>3. CASE x.op = "add" /\ x.at = "insert" /\ req[s].at = "walk"
    <3>1. PICK w, a : w = x.wedding /\ a = x.ancestor
      OBVIOUS
    <3>2. a \in In(tree[w])
      BY <1>1, <1>4, <2>3, <3>1 DEF AddOK
    <3>3. a \in LineIn(tree[w], a) /\ Line(w, a) = LineIn(tree[w], a)
      BY <3>2, LineHolds, LineOfTree
    <3>4. Distance(w, a) = Cardinality(LineIn(tree[w], a))
      BY <3>3 DEF Distance
    <3>5. x.distance = Distance(w, a)
      BY <1>1, <2>3, <3>1
    <3> QED
      BY <2>3, <3>1, <3>2, <3>4, <3>5 DEF AddOK
  <2>4. CASE x.op = "add" /\ x.at = "ancestor"
    BY <2>4 DEF AddOK
  <2>5. CASE x.op = "add" /\ x.at = "walk" /\ x.ancestor \in In(tree[x.wedding])
    BY <2>5 DEF AddOK
  <2> QED
    BY <1>1, <2>1, <2>2, <2>3, <2>4, <2>5
<1>6. \A t \in Sessions : AddOK(req[t])'
  <2> TAKE t \in Sessions
  <2>1. CASE t = s
    BY <1>1, <1>2, <1>5, <2>1 DEF AddOK
  <2>2. CASE t # s
    BY <1>1, <1>2, <2>2 DEF AddOK, GrowthInv
  <2> QED
    BY <2>1, <2>2
<1>7. RemoveInv'
  <2> SUFFICES ASSUME NEW t \in Sessions, req'[t].op = "remove"
               PROVE  /\ \A o \in Sessions : o # t => req'[o].at = "idle"
                      /\ (req[t].at = "delete" => ChildrenOf(req[t].wedding, req[t].member) = {})'
    BY DEF RemoveInv
  <2>1. t = s
    <3>1. req[s].op # "none"
      BY <1>1
    <3>2. req[s].at # "idle"
      BY <1>4, <3>1 DEF RequestOK
    <3> QED
      BY <1>2, <3>2 DEF GrowthInv, RemoveInv
  <2>2. \A o \in Sessions : o # t => req'[o].at = "idle"
    BY <1>1, <1>2, <2>1 DEF GrowthInv, RemoveInv
  <2>3. req'[t].at = "delete" => ChildrenOf(x.wedding, x.member) = {}
    BY <1>1, <1>2, <2>1
  <2>4. (req[t].at = "delete" => ChildrenOf(req[t].wedding, req[t].member) = {})'
    BY <1>1, <1>2, <2>1, <2>3 DEF ChildrenOf, Members
  <2> QED
    BY <2>2, <2>4
<1> QED
  BY <1>3, <1>6, <1>7 DEF GrowthInv

LEMMA GrowthEnds ==
  ASSUME TypeInv, GrowthInv, NEW s \in Sessions, Ends(s)
  PROVE  GrowthInv'
<1>1. req'[s] = Idle /\ (\A t \in Sessions : t # s => req'[t] = req[t]) /\ UNCHANGED <<tree, nextId>>
  BY OthersStay DEF Ends
<1>2. TreeInv'
  BY <1>1 DEF GrowthInv, TreeInv
<1>3. \A t \in Sessions : AddOK(req[t])'
  BY <1>1, IdleOK DEF AddOK, GrowthInv
<1>4. RemoveInv'
  BY <1>1, IdleOK DEF RemoveInv, GrowthInv, ChildrenOf, Members
<1> QED
  BY <1>2, <1>3, <1>4 DEF GrowthInv

\* Only the tree of wedding w changes, in the row of u.
LEMMA OneRow ==
  ASSUME TypeInv, NEW w \in Weddings, NEW u \in Users, NEW row \in FamilyRow,
         tree' = [tree EXCEPT ![w] = [tree[w] EXCEPT ![u] = row]]
  PROVE  /\ tree'[w] \in [Users -> FamilyRow] /\ tree[w] \in [Users -> FamilyRow]
         /\ tree'[w][u] = row /\ \A x \in Users \ {u} : tree'[w][x] = tree[w][x]
         /\ \A v \in Weddings : v # w => tree'[v] = tree[v]
BY DEF TypeInv

LEMMA GrowthInserts ==
  ASSUME TypeInv, GrowthInv, NEW s \in Sessions, Inserts(s)
  PROVE  GrowthInv'
<1>1. PICK w \in Weddings, u \in Users :
         /\ Moves(s, Idle) /\ req[s].op = "add" /\ req[s].at = "insert"
         /\ w = req[s].wedding /\ u = req[s].member /\ tree[w][u].id = 0
         /\ nextId <= MaxId /\ nextId' = nextId + 1
         /\ \E row \in FamilyRow :
              /\ row.id = nextId /\ row.ancestor = req[s].ancestor /\ row.rank = req[s].rank
              /\ row.distance = req[s].distance
              /\ tree' = [tree EXCEPT ![w] = [tree[w] EXCEPT ![u] = row]]
  BY DEF Inserts
<1>2. PICK row \in FamilyRow :
              /\ row.id = nextId /\ row.ancestor = req[s].ancestor /\ row.rank = req[s].rank
              /\ row.distance = req[s].distance
              /\ tree' = [tree EXCEPT ![w] = [tree[w] EXCEPT ![u] = row]]
  BY <1>1
<1>3. PICK r \in [Users -> FamilyRow], q \in [Users -> FamilyRow] :
         r = tree[w] /\ q = tree'[w] /\ q[u] = row /\ (\A x \in Users \ {u} : q[x] = r[x])
  <2>1. /\ tree'[w] \in [Users -> FamilyRow] /\ tree[w] \in [Users -> FamilyRow]
        /\ tree'[w][u] = row /\ \A x \in Users \ {u} : tree'[w][x] = tree[w][x]
    BY <1>2, OneRow
  <2> QED
    BY <2>1
<1>4. \A v \in Weddings : v # w => tree'[v] = tree[v]
  BY <1>2, OneRow
<1>5. req'[s] = Idle /\ \A t \in Sessions : t # s => req'[t] = req[t]
  BY <1>1, OthersStay
<1>6. nextId \in Nat \ {0} /\ nextId' = nextId + 1
  BY <1>1, FamilyAssumption DEF TypeInv
<1>7. Grown(r) /\ (\A x \in In(r) : r[x].id < nextId) /\ u \notin In(r) /\ q[u].id # 0 /\ q[u].id = nextId
  BY <1>1, <1>2, <1>3, <1>6 DEF GrowthInv, TreeInv, In
<1>8. AddOK(req[s])
  BY DEF GrowthInv
<1>9. \/ q[u].ancestor = None /\ q[u].distance = 0
      \/ /\ q[u].ancestor \in In(r)
         /\ q[u].distance = Cardinality(LineIn(r, q[u].ancestor))
  BY <1>1, <1>2, <1>3, <1>8 DEF AddOK
<1>10. Grown(q)
  BY <1>3, <1>7, <1>9, GrownAfterInsert
<1>11. In(q) = In(r) \cup {u}
  BY <1>3, <1>7 DEF In
<1>12. TreeInv'
  <2>1. \A x \in In(q) : q[x].id < nextId + 1
    <3> TAKE x \in In(q)
    <3>1. x = u \/ (x \in In(r) /\ x # u /\ x \in Users)
      BY <1>11, <1>7 DEF In
    <3>2. CASE x = u
      BY <1>6, <1>7, <3>2
    <3>3. CASE x \in In(r) /\ x # u /\ x \in Users
      <4>1. q[x] = r[x] /\ r[x].id \in Nat /\ r[x].id < nextId
        BY <1>3, <1>7, <3>3 DEF FamilyRow
      <4> QED
        BY <1>6, <4>1
    <3> QED
      BY <3>1, <3>2, <3>3
  <2>2. ASSUME NEW v \in Weddings, v # w
        PROVE  Grown(tree'[v]) /\ \A x \in In(tree'[v]) : tree'[v][x].id < nextId + 1
    <3>1. PICK z \in [Users -> FamilyRow] : z = tree[v]
      BY DEF TypeInv
    <3>2. Grown(z) /\ \A x \in In(z) : z[x].id < nextId
      BY <3>1 DEF GrowthInv, TreeInv
    <3>3. \A x \in In(z) : z[x].id < nextId + 1
      BY <1>6, <3>2 DEF In, FamilyRow
    <3> QED
      BY <1>4, <2>2, <3>1, <3>2, <3>3
  <2>3. \A v \in Weddings : Grown(tree'[v]) /\ \A x \in In(tree'[v]) : tree'[v][x].id < nextId'
    BY <1>3, <1>6, <1>10, <2>1, <2>2
  <2> QED
    BY <2>3 DEF TreeInv
<1>13. \A t \in Sessions : AddOK(req[t])'
  <2> TAKE t \in Sessions
  <2>1. CASE t = s
    BY <1>5, <2>1, IdleOK DEF AddOK
  <2>2. CASE t # s
    <3>1. PICK x : x = req[t]
      OBVIOUS
    <3>2. AddOK(x) /\ req'[t] = x /\ x.wedding \in Weddings
      BY <1>5, <2>2, <3>1 DEF GrowthInv, TypeInv, RequestOK, RequestRow
    <3>3. \A a \in In(tree[x.wedding]) : a \in In(tree'[x.wedding])
                                         /\ LineIn(tree'[x.wedding], a) = LineIn(tree[x.wedding], a)
      <4>1. CASE x.wedding = w
        <5>1. \A a \in In(r) : a \in In(q) /\ LineIn(q, a) = LineIn(r, a)
          BY <1>3, <1>7, <1>11, LineAfterInsert DEF Grown
        <5> QED
          BY <1>3, <4>1, <5>1
      <4>2. CASE x.wedding # w
        BY <1>4, <3>2, <4>2
      <4> QED
        BY <4>1, <4>2
    <3>4. AddOK(x)'
      BY <3>2, <3>3 DEF AddOK
    <3> QED
      BY <3>2, <3>4 DEF AddOK
  <2> QED
    BY <2>1, <2>2
<1>14. RemoveInv'
  <2>1. req[s].at # "idle"
    BY <1>1
  <2>2. \A t \in Sessions : req'[t].op # "remove"
    BY <1>1, <1>5, <2>1, IdleOK DEF GrowthInv, RemoveInv
  <2> QED
    BY <2>2 DEF RemoveInv
<1> QED
  BY <1>12, <1>13, <1>14 DEF GrowthInv

LEMMA GrowthDeletes ==
  ASSUME TypeInv, GrowthInv, NEW s \in Sessions, Deletes(s)
  PROVE  GrowthInv'
<1>1. PICK w \in Weddings, u \in Users :
         /\ Moves(s, Idle) /\ req[s].op = "remove" /\ req[s].at = "delete"
         /\ w = req[s].wedding /\ u = req[s].member
         /\ UNCHANGED nextId
         /\ tree' = [tree EXCEPT ![w] = [tree[w] EXCEPT ![u] = NoRow]]
  BY DEF Deletes
<1>2. PICK r \in [Users -> FamilyRow], q \in [Users -> FamilyRow] :
         r = tree[w] /\ q = tree'[w] /\ q[u].id = 0 /\ (\A x \in Users \ {u} : q[x] = r[x])
  <2>0. PICK row \in FamilyRow : row = NoRow
    BY NoRowTyped
  <2>1. /\ tree'[w] \in [Users -> FamilyRow] /\ tree[w] \in [Users -> FamilyRow]
        /\ tree'[w][u] = row /\ \A x \in Users \ {u} : tree'[w][x] = tree[w][x]
    <3>1. tree' = [tree EXCEPT ![w] = [tree[w] EXCEPT ![u] = row]]
      BY <1>1, <2>0
    <3> QED
      BY <3>1 DEF TypeInv
  <2> QED
    BY <2>0, <2>1, NoRowTyped
<1>3. \A v \in Weddings : v # w => tree'[v] = tree[v]
  BY <1>1, OneRow, NoRowTyped
<1>4. req'[s] = Idle /\ \A t \in Sessions : t # s => req'[t] = req[t]
  BY <1>1, OthersStay
<1>5. (\A t \in Sessions : t # s => req[t].at = "idle" /\ req[t].op = "none") /\ ChildrenOf(w, u) = {}
  BY <1>1 DEF GrowthInv, RemoveInv, TypeInv, RequestOK
<1>6. \A t \in Sessions : req'[t].op = "none"
  BY <1>4, <1>5, IdleOK
<1>7. \A m \in In(r) : r[m].ancestor \notin {u}
  BY <1>2, <1>5 DEF ChildrenOf, Members, In
<1>8. Grown(r) /\ \A x \in In(r) : r[x].id < nextId
  BY <1>2 DEF GrowthInv, TreeInv
<1>9. Grown(q)
  <2>1. {u} \in SUBSET Users /\ (\A x \in {u} : q[x].id = 0) /\ \A x \in Users \ {u} : q[x] = r[x]
    BY <1>2
  <2> QED
    BY <1>7, <1>8, <2>1, GrownAfterDelete
<1>10. \A x \in In(q) : q[x].id < nextId
  BY <1>2, <1>8 DEF In
<1>11. TreeInv'
  <2>1. \A v \in Weddings : Grown(tree'[v]) /\ \A x \in In(tree'[v]) : tree'[v][x].id < nextId'
    BY <1>1, <1>2, <1>3, <1>9, <1>10 DEF GrowthInv, TreeInv
  <2> QED
    BY <2>1 DEF TreeInv
<1> QED
  BY <1>6, <1>11 DEF GrowthInv, AddOK, RemoveInv

\* deleteUser, of a user without grandchildren: first the children's rows go, then the user's own.
LEMMA GrowthDeleteUser ==
  ASSUME Orderly, TypeInv, GrowthInv, NEW u \in Users, DeleteUser(u)
  PROVE  GrowthInv'
<1>1. /\ \A s \in Sessions : req[s].at = "idle" /\ req[s].op = "none"
      /\ req' = req /\ nextId' = nextId
  BY DEF Orderly, DeleteUser, Busy, TypeInv, RequestOK
<1>2. ASSUME NEW w \in Weddings
      PROVE  Grown(tree'[w]) /\ \A x \in In(tree'[w]) : tree'[w][x].id < nextId
  <2>1. PICK r \in [Users -> FamilyRow], q \in [Users -> FamilyRow] : r = tree[w] /\ q = tree'[w]
    BY DeleteUserTyped DEF TypeInv
  <2> DEFINE C == {m \in In(r) : r[m].ancestor = u}
  <2>2. ChildrenOf(w, u) = C /\ RemovedWith(w, u) = {u} \cup C /\ C \subseteq Users
    BY <2>1 DEF ChildrenOf, RemovedWith, Members, In
  <2>3. (\A m \in {u} \cup C : q[m].id = 0) /\ \A m \in Users \ ({u} \cup C) : q[m] = r[m]
    BY <2>1, <2>2, DeleteUserTyped
  <2>4. \A m \in In(r) : r[m].ancestor \notin C
    BY <2>1, <2>2 DEF Orderly, DeleteUser, HasGrandchildren, ChildrenOf, Members, In
  <2>5. Grown(r) /\ \A x \in In(r) : r[x].id < nextId
    BY <2>1 DEF GrowthInv, TreeInv
  <2>6. PICK z \in [Users -> FamilyRow] : (\A m \in C : z[m].id = 0) /\ \A m \in Users \ C : z[m] = r[m]
    <3> DEFINE zero == [m \in Users |-> IF m \in C THEN NoRow ELSE r[m]]
    <3>1. zero \in [Users -> FamilyRow] /\ (\A m \in C : zero[m].id = 0) /\ \A m \in Users \ C : zero[m] = r[m]
      BY <2>2, NoRowTyped
    <3> HIDE DEF zero
    <3> QED
      BY <3>1
  <2> HIDE DEF C
  <2>7. Grown(z)
    BY <2>2, <2>4, <2>5, <2>6, GrownAfterDelete
  <2>8. \A m \in In(z) : z[m].ancestor \notin {u}
    BY <2>2, <2>6 DEF In, C
  <2>9. (\A m \in {u} : q[m].id = 0) /\ {u} \in SUBSET Users
    BY <2>3
  <2>10. PICK y \in [Users -> FamilyRow] : (\A m \in {u} : y[m].id = 0) /\ \A m \in Users \ {u} : y[m] = z[m]
    <3> DEFINE zero == [m \in Users |-> IF m = u THEN NoRow ELSE z[m]]
    <3>1. zero \in [Users -> FamilyRow] /\ (\A m \in {u} : zero[m].id = 0) /\ \A m \in Users \ {u} : zero[m] = z[m]
      BY NoRowTyped
    <3> HIDE DEF zero
    <3> QED
      BY <3>1
  <2>11. Grown(y)
    BY <2>7, <2>8, <2>9, <2>10, GrownAfterDelete
  <2>12. In(q) = In(y) /\ \A m \in In(q) : q[m] = y[m] /\ q[m] = r[m] /\ m \in In(r)
    BY <2>2, <2>3, <2>6, <2>10 DEF In
  <2>13. Grown(q)
    BY <2>11, <2>12, GrownAlike
  <2> QED
    BY <2>1, <2>5, <2>12, <2>13
<1>3. TreeInv'
  BY <1>1, <1>2 DEF TreeInv
<1> QED
  BY <1>1, <1>3 DEF GrowthInv, AddOK, RemoveInv

LEMMA GrowthStep ==
  ASSUME Orderly, TypeInv, GrowthInv, [Next]_vars
  PROVE  GrowthInv'
<1>1. CASE UNCHANGED vars
  BY <1>1 DEF vars, GrowthInv, TreeInv, AddOK, RemoveInv, ChildrenOf, Members
<1>2. CASE Next
  <2>1. CASE \E s \in Sessions : Kinds(s)
    BY <2>1, GrowthSent, GrowthProceeds, GrowthEnds, GrowthInserts, GrowthDeletes DEF Kinds
  <2> QED
    BY <1>2, <2>1, StepOutcome, GrowthDeleteUser
<1> QED
  BY <1>1, <1>2

LEMMA GrowthInvHolds == ASSUME Orderly PROVE Spec => [](TypeInv /\ GrowthInv)
<1>1. TypeInv /\ GrowthInv /\ [Next]_vars => (TypeInv /\ GrowthInv)'
  BY TypeStep, GrowthStep
<1>2. Init => TypeInv /\ GrowthInv
  BY TypeInit, GrowthInit
<1> QED
  BY <1>1, <1>2, PTL DEF Spec

(***************************************************************************)
(* The properties.                                                         *)
(***************************************************************************)
\* computeDepth goes up to a root: the depth of a member is its generation.
LEMMA DepthIsGeneration ==
  ASSUME TypeInv, NEW w \in Weddings, Grown(tree[w]), NEW u \in Members(w)
  PROVE  /\ u \in In(tree[w]) /\ Depth(w, u) = Generation(tree[w], u)
         /\ Generation(tree[w], u) \in 0..Cardinality(Users)
<1>0. PICK r \in [Users -> FamilyRow] : r = tree[w]
  BY DEF TypeInv
<1>1. u \in In(r) /\ Older(r) /\ Members(w) = In(r)
  BY <1>0, LineOfTree DEF Grown
<1>2. PICK a : a = r[u].ancestor
  OBVIOUS
<1>3. LineIn(r, u) = {u} \cup LineIn(r, a) /\ u \notin LineIn(r, a)
  BY <1>1, <1>2, LineUp, NotOwnAncestor
<1>4. LineIn(r, u) \ {u} = LineIn(r, a)
  BY <1>3
<1>5. Generation(r, u) = Cardinality(LineIn(r, a)) /\ Cardinality(LineIn(r, a)) \in 0..Cardinality(Users)
      /\ Generation(r, u) \in Nat
  BY <1>1, <1>2, LineLength, LineFinite
<1>6. \A m \in LineIn(r, u) : r[m].ancestor \in In(r) \cup {None}
  BY <1>1 DEF LineIn, Older
<1>7. Line(w, u) = LineIn(r, u)
  BY <1>0, LineOfTree
<1>8. \A m \in Line(w, u) : tree[w][m].ancestor \in Members(w) \cup {None}
  BY <1>0, <1>1, <1>6, <1>7
<1>9. Depth(w, u) = Cardinality(LineIn(r, a)) + 0
  BY <1>4, <1>7, <1>8 DEF Depth
<1> QED
  BY <1>0, <1>1, <1>5, <1>9

\* No member is its own ancestor, whatever additions overlap, so the recursion over the tree returns.
THEOREM WalksEnd == ASSUME Orderly PROVE Spec => []TreeAnswers
<1>1. TypeInv /\ GrowthInv => TreeAnswers
  <2> SUFFICES ASSUME TypeInv, GrowthInv, NEW w \in Weddings, NEW u \in Members(w) PROVE ~OwnAncestor(w, u)
    BY DEF TreeAnswers
  <2>1. tree[w] \in [Users -> FamilyRow] /\ Older(tree[w]) /\ u \in In(tree[w])
    BY LineOfTree DEF TypeInv, GrowthInv, TreeInv, Grown
  <2>2. u \notin LineIn(tree[w], tree[w][u].ancestor)
    BY <2>1, NotOwnAncestor
  <2> QED
    BY <2>2, LineOfTree DEF OwnAncestor
<1> QED
  BY <1>1, GrowthInvHolds, PTL

\* Every member is in the hierarchy built down from the roots, on the level computed up from it.
THEOREM NobodyMissing == ASSUME Orderly PROVE Spec => []HierarchyComplete
<1>1. TypeInv /\ GrowthInv => HierarchyComplete
  <2> SUFFICES ASSUME TypeInv, GrowthInv, NEW w \in Weddings, NEW u \in Members(w)
               PROVE  Depth(w, u) \in 0..Cardinality(Users) /\ OnLevel(w, u, Depth(w, u))
    BY DEF HierarchyComplete
  <2>1. Grown(tree[w])
    BY DEF GrowthInv, TreeInv
  <2>2. u \in In(tree[w]) /\ Depth(w, u) = Generation(tree[w], u) /\ Depth(w, u) \in 0..Cardinality(Users)
    BY <2>1, DepthIsGeneration
  <2>3. PICK n : n = Depth(w, u)
    OBVIOUS
  <2>4. n \in Nat /\ LevelIn(tree[w], u, n)
    BY <2>1, <2>2, <2>3, UsersFinite DEF Grown, RowTrue
  <2>5. PICK path \in [0..n -> In(tree[w])] :
          /\ tree[w][path[0]].ancestor = None
          /\ \A i \in 1..n : tree[w][path[i]].ancestor = path[i - 1]
          /\ path[n] = u
    BY <2>4 DEF LevelIn
  <2>6. Members(w) = In(tree[w])
    BY LineOfTree
  <2>7. \A i \in 1..n : path[i] \in ChildrenOf(w, path[i - 1])
    BY <2>4, <2>5, <2>6 DEF ChildrenOf
  <2>8. path \in Paths(w, n)
    BY <2>5, <2>6, <2>7 DEF Paths
  <2>9. OnLevel(w, u, n)
    BY <2>5, <2>8 DEF OnLevel
  <2> QED
    BY <2>2, <2>3, <2>9
<1> QED
  BY <1>1, GrowthInvHolds, PTL

\* The stored distance is that of the tree as it is, though it changed since it was computed.
THEOREM DistancesStay == ASSUME Orderly PROVE Spec => []DistanceCurrent
<1>1. TypeInv /\ GrowthInv => DistanceCurrent
  <2> SUFFICES ASSUME TypeInv, GrowthInv, NEW w \in Weddings, NEW u \in Members(w)
               PROVE  tree[w][u].distance = Depth(w, u)
    BY DEF DistanceCurrent
  <2>1. Grown(tree[w])
    BY DEF GrowthInv, TreeInv
  <2>2. u \in In(tree[w]) /\ Depth(w, u) = Generation(tree[w], u)
    BY <2>1, DepthIsGeneration
  <2> QED
    BY <2>1, <2>2 DEF Grown, RowTrue
<1> QED
  BY <1>1, GrowthInvHolds, PTL
=============================================================================
