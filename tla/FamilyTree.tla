----------------------------- MODULE FamilyTree -----------------------------
(***************************************************************************)
(* The family tree of a wedding: addFamilyMember and removeFamilyMember of *)
(* familyController.js, deleteUser of adminController.js, and what         *)
(* getFamilyTreeRecursive and getFamilyTree compute from the rows these    *)
(* handlers leave.                                                         *)
(*                                                                         *)
(* A handler is split at its awaits; only deleteUser is a transaction.     *)
(* Weddings are taken as given (one with a tree cannot be deleted), and    *)
(* gift obligations and audit_logs are left out.                           *)
(***************************************************************************)
EXTENDS Naturals, FiniteSets

CONSTANTS
  Weddings, Users, Sessions,
  GivenRanks,     \* the kinshipRanks clients send, a subset of Ranks (with {} none does)
  RemovalsAlone,  \* whether members are removed and users deleted only while nothing else is in flight
  Detaching,      \* whether administrators also delete users who have grandchildren in a tree
  MaxId,          \* bound: rows inserted in all
  None            \* no user (null)

Ranks == {"ATA_ANA", "ZHIEN_ZHARAP", "SHAKYRT"}

ASSUME FamilyAssumption == /\ GivenRanks \subseteq Ranks
                           /\ RemovalsAlone \in BOOLEAN /\ Detaching \in BOOLEAN
                           /\ MaxId \in Nat
                           /\ None \notin Users /\ IsFiniteSet(Users) /\ Weddings # {}

VARIABLES
  users,   \* the users that were not deleted
  tree,    \* tree[w][u]: u's family_trees row in wedding w, of id 0 when there is none
  nextId,  \* the autoincrement of family_trees
  req      \* req[s]: the request of session s and its handler's local state

vars == <<users, tree, nextId, req>>

\* customDistance is 0 where the column is null.
NoRow == [id |-> 0, ancestor |-> None, rank |-> "SHAKYRT", distance |-> 0]

Members(w) == {u \in Users : tree[w][u].id # 0}
ChildrenOf(w, u) == {m \in Members(w) : tree[w][m].ancestor = u}

(***************************************************************************)
(* Walks over one wedding's rows.                                          *)
(***************************************************************************)
Closed(w, S) == \A m \in S : tree[w][m].ancestor \in Members(w) => tree[w][m].ancestor \in S

\* u and its ancestors as far as rows lead, each visited once.
Line(w, u) ==
  {m \in Members(w) : u \in Members(w) /\ \A S \in SUBSET Members(w) : u \in S /\ Closed(w, S) => m \in S}

DistanceToParent(w, a) == 1        \* mutated: the walk is not made
\* addFamilyMember's walk up from the ancestor a of a new member; distance || 1.
Distance(w, a) == IF Line(w, a) = {} THEN 1 ELSE Cardinality(Line(w, a))

RankUnset(d) == IF d = 1 THEN "ATA_ANA" ELSE IF d = 2 THEN "ZHIEN_ZHARAP" ELSE "NONE"        \* mutated: no final else
RankFor(d) == IF d = 1 THEN "ATA_ANA" ELSE IF d = 2 THEN "ZHIEN_ZHARAP" ELSE "SHAKYRT"

\* The paths getFamilyTreeRecursive takes down from the roots (asked for the whole tree), n levels deep.
Paths(w, n) ==
  {path \in [0..n -> Members(w)] : /\ tree[w][path[0]].ancestor = None
                                  /\ \A i \in 1..n : path[i] \in ChildrenOf(w, path[i - 1])}
OnLevel(w, u, n) == \E path \in Paths(w, n) : path[n] = u

\* computeDepth recurses from a member to its ancestor, and never returns from a cycle.
OwnAncestor(w, u) == u \in Line(w, tree[w][u].ancestor)
Depth(w, u) ==
  Cardinality(Line(w, u) \ {u})
  + (IF \A m \in Line(w, u) : tree[w][m].ancestor \in Members(w) \cup {None} THEN 0 ELSE 1)

(***************************************************************************)
(* Requests.                                                               *)
(***************************************************************************)
Request(op, w, u, a, rank) ==
  [at |-> "read", op |-> op, wedding |-> w, member |-> u, ancestor |-> a, rank |-> rank, distance |-> 0, id |-> 0]

Idle == [at |-> "idle", op |-> "none", wedding |-> CHOOSE w \in Weddings : TRUE, member |-> None,
         ancestor |-> None, rank |-> "NONE", distance |-> 0, id |-> 0]

Adds == {Request("add", w, u, a, rank) :
           w \in Weddings, u \in Users, a \in Users \cup {None}, rank \in GivenRanks \cup {"NONE"}}
Removals == {Request("remove", w, u, None, "NONE") : w \in Weddings, u \in Users}

Init == /\ users = Users
        /\ tree = [w \in Weddings |-> [u \in Users |-> NoRow]]
        /\ nextId = 1
        /\ req = [s \in Sessions |-> Idle]

At(s, op, step) == req[s].op = op /\ req[s].at = step
Answer(s) == req' = [req EXCEPT ![s] = Idle]
Row(s) == tree[req[s].wedding][req[s].member]

Busy(t) == req[t].at # "idle"

SendAdd(s) ==
  /\ ~Busy(s)
  /\ RemovalsAlone => \A t \in Sessions : req[t].op # "remove"
  /\ \E r \in Adds : req' = [req EXCEPT ![s] = r]
  /\ UNCHANGED <<users, tree, nextId>>

SendRemoval(s) ==
  /\ ~Busy(s)
  /\ RemovalsAlone => \A t \in Sessions : ~Busy(t)
  /\ \E r \in Removals : req' = [req EXCEPT ![s] = r]
  /\ UNCHANGED <<users, tree, nextId>>

(***************************************************************************)
(* addFamilyMember                                                         *)
(***************************************************************************)
\* Who is no user, or in any tree, is refused; a given rank, or no ancestor, needs no further read.
ReadMember(s) ==
  LET r == req[s] IN
  /\ At(s, "add", "read")
  /\ IF r.member \notin users \/ (\E w \in Weddings : r.member \in Members(w)) THEN Answer(s)
     ELSE IF r.rank # "NONE" THEN req' = [req EXCEPT ![s].at = "insert"]
     ELSE IF r.ancestor = None THEN req' = [req EXCEPT ![s].at = "insert", ![s].rank = "SHAKYRT"]
     ELSE req' = [req EXCEPT ![s].at = "ancestor"]
  /\ UNCHANGED <<users, tree, nextId>>

AnyAncestor(w, a) == TRUE        \* mutated: the ancestor is not looked up
AncestorFound(w, a) == a \in Members(w)

ReadAncestor(s) ==
  /\ At(s, "add", "ancestor")
  /\ IF AncestorFound(req[s].wedding, req[s].ancestor)
     THEN req' = [req EXCEPT ![s].at = "walk"]
     ELSE Answer(s)
  /\ UNCHANGED <<users, tree, nextId>>

\* findMany, and the walk over the rows it returned.
WalkUp(s) ==
  LET d == Distance(req[s].wedding, req[s].ancestor) IN
  /\ At(s, "add", "walk")
  /\ req' = [req EXCEPT ![s].at = "insert", ![s].distance = d, ![s].rank = RankFor(d)]
  /\ UNCHANGED <<users, tree, nextId>>

\* (wedding_id, member_id) is unique, and both ids are foreign keys: a row inserted meanwhile is P2002, a user
\* deleted meanwhile P2003.
Insertable(r) == tree[r.wedding][r.member].id = 0 /\ r.member \in users /\ r.ancestor \in users \cup {None}

InsertMember(s) ==
  LET r == req[s] IN
  /\ At(s, "add", "insert")
  /\ nextId <= MaxId
  /\ IF Insertable(r)
     THEN /\ tree' = [tree EXCEPT ![r.wedding][r.member] =
                        [id |-> nextId, ancestor |-> r.ancestor, rank |-> r.rank, distance |-> r.distance]]
          /\ nextId' = nextId + 1
     ELSE UNCHANGED <<tree, nextId>>
  /\ Answer(s)
  /\ UNCHANGED users

(***************************************************************************)
(* removeFamilyMember                                                      *)
(***************************************************************************)
ReadForRemoval(s) ==
  /\ At(s, "remove", "read")
  /\ IF Row(s).id # 0
     THEN req' = [req EXCEPT ![s].at = "descendant", ![s].id = Row(s).id]
     ELSE Answer(s)
  /\ UNCHANGED <<users, tree, nextId>>

NoDescendant(w, u) == TRUE        \* mutated: descendants are not looked for
Childless(w, u) == ChildrenOf(w, u) = {}

ReadDescendant(s) ==
  /\ At(s, "remove", "descendant")
  /\ IF Childless(req[s].wedding, req[s].member)
     THEN req' = [req EXCEPT ![s].at = "delete"]
     ELSE Answer(s)
  /\ UNCHANGED <<users, tree, nextId>>

\* By id: a row removed meanwhile is P2025.
DeleteMember(s) ==
  /\ At(s, "remove", "delete")
  /\ tree' = IF Row(s).id = req[s].id
             THEN [tree EXCEPT ![req[s].wedding][req[s].member] = NoRow]
             ELSE tree
  /\ Answer(s)
  /\ UNCHANGED <<users, nextId>>

(***************************************************************************)
(* deleteUser: the rows of the user and of the user's children, not those  *)
(* below them.                                                             *)
(***************************************************************************)
RemovedWith(w, u) == {u} \cup ChildrenOf(w, u)
HasGrandchildren(w, u) == \E m \in ChildrenOf(w, u) : ChildrenOf(w, m) # {}

DeleteUser(u) ==
  /\ u \in users /\ users' = users \ {u}
  /\ RemovalsAlone => \A s \in Sessions : ~Busy(s)
  /\ Detaching \/ \A w \in Weddings : ~HasGrandchildren(w, u)
  /\ tree' = [w \in Weddings |-> [m \in Users |-> IF m \in RemovedWith(w, u) THEN NoRow ELSE tree[w][m]]]
  /\ UNCHANGED <<nextId, req>>

\* A request fails at an await, or dies with its process.
Fail(s) == Busy(s) /\ Answer(s) /\ UNCHANGED <<users, tree, nextId>>

Next == \/ \E s \in Sessions :
              \/ SendAdd(s) \/ ReadMember(s) \/ ReadAncestor(s) \/ WalkUp(s) \/ InsertMember(s)
              \/ SendRemoval(s) \/ ReadForRemoval(s) \/ ReadDescendant(s) \/ DeleteMember(s)
              \/ Fail(s)
        \/ \E u \in Users : DeleteUser(u)

Spec == Init /\ [][Next]_vars

(***************************************************************************)
(* Properties.                                                             *)
(***************************************************************************)
\* Every row and every request holds what its columns and local variables may hold.
TypeOK ==
  /\ users \subseteq Users
  /\ \A w \in Weddings, u \in Users :
       tree[w][u] \in [id : 0..MaxId, ancestor : Users \cup {None}, rank : Ranks, distance : 0..Cardinality(Users)]
  /\ nextId \in 1..(MaxId + 1)
  /\ req \in [Sessions ->
       [at : {"idle", "read", "ancestor", "walk", "insert", "descendant", "delete"}, op : {"none", "add", "remove"},
        wedding : Weddings, member : Users \cup {None}, ancestor : Users \cup {None},
        rank : Ranks \cup {"NONE"}, distance : 0..Cardinality(Users), id : 0..MaxId]]

\* computeDepth (buildTree, buildDepthMap) recurses without a guard: it returns for every member, because no
\* member is its own ancestor, whatever adds overlap and whoever is removed with a deleted user.  (Stated for
\* clients that send no rank, removals while nothing else is in flight, and deleted users without grandchildren.)
TreeAnswers == \A w \in Weddings : \A u \in Members(w) : ~OwnAncestor(w, u)

\* The hierarchy getFamilyTreeRecursive builds down from the roots has every member, on the level that
\* getFamilyTree computes for it up from the member.
HierarchyComplete ==
  \A w \in Weddings : \A u \in Members(w) : Depth(w, u) \in 0..Cardinality(Users) /\ OnLevel(w, u, Depth(w, u))

\* The distance stored with a member stays that of the tree as it is now, though the tree changed between the
\* walk that computed it and the insert, and since.
DistanceCurrent == \A w \in Weddings : \A u \in Members(w) : tree[w][u].distance = Depth(w, u)

\* "should return ZHIEN_ZHARAP when distance is 3": the rank stored beside a distance of 3.
RankAtThree ==
  \A w \in Weddings : \A u \in Members(w) : tree[w][u].distance = 3 => tree[w][u].rank = "ZHIEN_ZHARAP"

\* "Ancestor validation": the ancestor of a member is a member of the same tree.
AncestorInTree ==
  \A w \in Weddings : \A u \in Members(w) : tree[w][u].ancestor \in Members(w) \cup {None}
=============================================================================
