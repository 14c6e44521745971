-------------------------- MODULE WeddingRegistry --------------------------
(***************************************************************************)
(* Weddings with their registry and default gift pools (weddingController, *)
(* registryService), the pools a couple adds and removes, the accounts     *)
(* deleteUser removes, and which pools a page lists and opens              *)
(* (privacyGuard).                                                         *)
(*                                                                         *)
(* createWedding is a chain of separate inserts, and every deletion runs   *)
(* into the foreign keys of the schema: a row other rows refer to stays.   *)
(* A contribution is its row here; PoolFunding has the totals.             *)
(***************************************************************************)
EXTENDS Integers, Sequences, FiniteSets

CONSTANTS
  Users,        \* accounts
  Role,         \* Role[u]: the role of an account
  Contributors, \* the accounts that contribute
  Relatives,    \* the accounts that can be in a family tree
  Weddings,     \* the weddings there can be
  Requests,     \* requests the server can be handling at once
  MaxEvents,    \* bound on requests and failures together
  None          \* no wedding, no user

Roles == {"GUEST", "FAMILY_MEMBER", "COUPLE", "MODERATOR", "SUPER_ADMIN"}
Levels == {"PUBLIC", "FAMILY_ONLY", "PRIVATE"}

ASSUME ConstantsAssumption ==
  /\ Role \in [Users -> Roles] /\ IsFiniteSet(Users)
  /\ Contributors \subseteq Users /\ Relatives \subseteq Users
  /\ IsFiniteSet(Weddings) /\ IsFiniteSet(Requests)
  /\ MaxEvents \in Nat
  /\ None \notin Users \cup Weddings

VARIABLES
  users,        \* accounts that exist
  weddings,     \* weddings[w]: the couple's account, None when there is no such row
  registries,   \* weddings that have a registry row
  pools,        \* pools[p]: the privacy of a pool <<wedding, gift>>
  given,        \* given[g]: the pools g has a contribution row in
  refunded,     \* contributions <<g, p>> whose row says REFUNDED
  family,       \* rows of family_trees: [of, member, ancestor]
  audited,      \* accounts that some audit_logs row names
  requests,     \* requests[r]: a request being handled
  answered,     \* history: weddings whose creation was answered
  dropped,      \* history: pools deletePool removed
  unbacked,     \* history: pools that lost a contribution nobody refunded to deleteUser
  events        \* requests and failures so far

rows == <<users, weddings, registries, pools, given, refunded, family, audited>>
history == <<answered, dropped, unbacked>>
vars == <<rows, requests, history, events>>

DEFAULT_REGISTRY_GIFTS == <<"SAUKELE", "SUT_AKY", "KARZHY">>
Gifts == {"SAUKELE", "SUT_AKY", "KARZHY", "own"}
Steps == {"idle", "create", "audit", "registry", "gifts", "answer", "delete", "contribute"}
Idle == [step |-> "idle", user |-> None, of |-> None, left |-> <<>>]

Init == /\ users = Users
        /\ weddings = [w \in Weddings |-> None]
        /\ registries = {}
        /\ pools = [p \in {} |-> None]
        /\ given = [g \in Contributors |-> {}]
        /\ refunded = {}
        /\ family = {}
        /\ audited = {}
        /\ requests = [r \in Requests |-> Idle]
        /\ answered = {} /\ dropped = {} /\ unbacked = {}
        /\ events = 0

Event == events < MaxEvents /\ events' = events + 1

Exists(w) == weddings[w] # None
Of(w) == {p \in DOMAIN pools : p[1] = w}
WithPool(p, q) == [x \in DOMAIN pools \cup {p} |-> IF x = p THEN q ELSE pools[x]]
Givers(p) == {g \in Contributors : p \in given[g]}

(***************************************************************************)
(* privacyGuard.js: who may open a pool, who may edit it, and which pools  *)
(* the page of a wedding lists; and the list of all pools, which listPools *)
(* gives when it is asked for no wedding.                                  *)
(***************************************************************************)
PRIVACY_ACCESS(level) ==
  CASE level = "PUBLIC" -> Roles
    [] level = "FAMILY_ONLY" -> Roles \ {"GUEST"}
    [] level = "PRIVATE" -> {"COUPLE", "SUPER_ADMIN"}

CanAccess(u, p) ==
  LET level == pools[p]
      own == weddings[p[1]] = u
  IN /\ Role[u] \in PRIVACY_ACCESS(level)
     /\ level = "PRIVATE" => (Role[u] = "SUPER_ADMIN" \/ own)
     /\ (level = "FAMILY_ONLY" /\ Role[u] = "COUPLE") => own

CanEdit(u, p) == Role[u] = "SUPER_ADMIN" \/ (Role[u] = "COUPLE" /\ weddings[p[1]] = u)

ListedForAnyCouple(u, w) ==              \* mutated: whose wedding it is does not matter
  {p \in Of(w) : Role[u] \in {"SUPER_ADMIN", "MODERATOR", "COUPLE"} \/ pools[p] = "PUBLIC"}
Listed(u, w) ==
  CASE Role[u] \in {"SUPER_ADMIN", "MODERATOR"} -> Of(w)
    [] Role[u] = "COUPLE" -> {p \in Of(w) : weddings[w] = u \/ pools[p] = "PUBLIC"}
    [] Role[u] = "FAMILY_MEMBER" -> {p \in Of(w) : pools[p] \in {"PUBLIC", "FAMILY_ONLY"}}
    [] OTHER -> {p \in Of(w) : pools[p] = "PUBLIC"}

ListedUnfiltered(u) == DOMAIN pools

(***************************************************************************)
(* createWedding: the wedding, its audit row, the registry, and one pool   *)
(* after the other.                                                        *)
(***************************************************************************)
Goto(r, step) == requests' = [requests EXCEPT ![r].step = step]
Done(r) == requests' = [requests EXCEPT ![r] = Idle]

\* A failed statement answers 500 and leaves what was written before it.
Fail(r) == Done(r) /\ UNCHANGED <<rows, history, events>>

CreateWedding(r, u, w) ==
  /\ Event /\ requests[r] = Idle /\ u \in users /\ Role[u] \in {"COUPLE", "SUPER_ADMIN"}
  /\ ~Exists(w) /\ \A s \in Requests : requests[s].of # w
  /\ weddings' = [weddings EXCEPT ![w] = u]
  /\ requests' = [requests EXCEPT ![r] = [step |-> "create", user |-> u, of |-> w,
                                          left |-> DEFAULT_REGISTRY_GIFTS]]
  /\ UNCHANGED <<users, registries, pools, given, refunded, family, audited, history>>

LogCreation(r) ==
  /\ requests[r].step = "create"
  /\ \/ /\ requests[r].user \in users
        /\ audited' = audited \cup {requests[r].user}
        /\ Goto(r, "registry")
        /\ UNCHANGED <<users, weddings, registries, pools, given, refunded, family, history, events>>
     \/ requests[r].user \notin users /\ Fail(r)

CreateRegistry(r) ==
  /\ requests[r].step = "registry"
  /\ LET w == requests[r].of
     IN \/ /\ Exists(w)
           /\ registries' = registries \cup {w}
           /\ Goto(r, "gifts")
           /\ UNCHANGED <<users, weddings, pools, given, refunded, family, audited, history, events>>
        \/ ~Exists(w) /\ Fail(r)

\* One round of the loop over the default gifts.
LastRoundSkipped(left) == Len(left) > 1           \* mutated: i < length - 1
MoreGifts(left) == left # <<>>

CreateGift(r) ==
  /\ requests[r].step = "gifts"
  /\ LET k == requests[r]
     IN \/ /\ MoreGifts(k.left)
           /\ pools' = WithPool(<<k.of, Head(k.left)>>, "PUBLIC")
           /\ requests' = [requests EXCEPT ![r].left = Tail(@)]
        \/ ~MoreGifts(k.left) /\ Goto(r, "answer") /\ UNCHANGED pools
  /\ UNCHANGED <<users, weddings, registries, given, refunded, family, audited, history, events>>

\* The confirmation mail may fail; the creation is answered all the same.
AnswerCreation(r) ==
  /\ requests[r].step = "answer"
  /\ answered' = answered \cup {requests[r].of}
  /\ Done(r)
  /\ UNCHANGED <<rows, dropped, unbacked, events>>

(***************************************************************************)
(* updateWedding writes columns nothing here depends on, and an audit row. *)
(***************************************************************************)
MayEdit(u, w) == Exists(w) /\ (weddings[w] = u \/ Role[u] = "SUPER_ADMIN")

UpdateWedding(r, u, w) ==
  /\ Event /\ requests[r] = Idle /\ u \in users /\ MayEdit(u, w)
  /\ requests' = [requests EXCEPT ![r] = [Idle EXCEPT !.step = "audit", !.user = u]]
  /\ UNCHANGED <<rows, history>>

Log(r) ==
  /\ requests[r].step = "audit"
  /\ audited' = audited \cup ({requests[r].user} \cap users)
  /\ Done(r)
  /\ UNCHANGED <<users, weddings, registries, pools, given, refunded, family, history, events>>

(***************************************************************************)
(* deleteWedding looks for pools with contributions, then deletes the      *)
(* wedding alone: its registry, pools or family tree make the delete fail. *)
(***************************************************************************)
DeleteWedding(r, u, w) ==
  /\ Event /\ requests[r] = Idle /\ u \in users /\ MayEdit(u, w)
  /\ \A p \in Of(w) : Givers(p) = {}
  /\ requests' = [requests EXCEPT ![r] = [Idle EXCEPT !.step = "delete", !.user = u, !.of = w]]
  /\ UNCHANGED <<rows, history>>

\* A row refers to the wedding.
Referred(w) == Of(w) # {} \/ w \in registries \/ \E f \in family : f.of = w

RemoveWedding(r) ==
  /\ requests[r].step = "delete"
  /\ LET w == requests[r].of
     IN \/ /\ Exists(w) /\ ~Referred(w)
           /\ weddings' = [weddings EXCEPT ![w] = None]
           /\ Goto(r, "audit")
           /\ UNCHANGED <<users, registries, pools, given, refunded, family, audited, history, events>>
        \/ (~Exists(w) \/ Referred(w)) /\ Fail(r)

(***************************************************************************)
(* Pools of the couple's own, contributions and family rows: PoolFunding   *)
(* and FamilyTree take their handlers apart.  All but a contribution leave *)
(* an audit row.                                                           *)
(***************************************************************************)
CreatePool(u, w, level) ==
  /\ Event /\ u \in users /\ Role[u] \in {"COUPLE", "SUPER_ADMIN"} /\ MayEdit(u, w)
  /\ <<w, "own">> \notin DOMAIN pools
  /\ pools' = WithPool(<<w, "own">>, level)
  /\ audited' = audited \cup {u}
  /\ UNCHANGED <<users, weddings, registries, given, refunded, family, requests, history>>

UpdatePool(u, p, level) ==
  /\ Event /\ u \in users /\ CanEdit(u, p)
  /\ pools' = [pools EXCEPT ![p] = level]
  /\ audited' = audited \cup {u}
  /\ UNCHANGED <<users, weddings, registries, given, refunded, family, requests, history>>

DeletePool(u, p) ==
  /\ Event /\ u \in users /\ CanEdit(u, p) /\ Givers(p) = {}
  /\ pools' = [x \in DOMAIN pools \ {p} |-> pools[x]]
  /\ dropped' = dropped \cup {p}
  /\ unbacked' = unbacked \ {p}
  /\ audited' = audited \cup {u}
  /\ UNCHANGED <<users, weddings, registries, given, refunded, family, requests, answered>>

\* A contribution is let in by the privacy the pool has before the payment; its row is
\* written after it.
BeginContribution(r, g, p) ==
  /\ Event /\ requests[r] = Idle /\ g \in users /\ CanAccess(g, p)
  /\ requests' = [requests EXCEPT ![r] = [step |-> "contribute", user |-> g, of |-> p[1], left |-> <<p[2]>>]]
  /\ UNCHANGED <<rows, history>>

\* Or the payment is refused, the pool is not open, or a row it refers to is gone.
InsertContribution(r) ==
  /\ requests[r].step = "contribute"
  /\ LET p == <<requests[r].of, Head(requests[r].left)>>
         g == requests[r].user
     IN \/ /\ p \in DOMAIN pools /\ g \in users /\ p \notin given[g]
           /\ given' = [given EXCEPT ![g] = @ \cup {p}]
           /\ Done(r)
           /\ UNCHANGED <<users, weddings, registries, pools, refunded, family, audited, history, events>>
        \/ Fail(r)

\* deleteContribution keeps the row.
Refund(a, g, p) ==
  /\ Event /\ a \in users /\ Role[a] = "SUPER_ADMIN"
  /\ p \in given[g] /\ <<g, p>> \notin refunded
  /\ refunded' = refunded \cup {<<g, p>>}
  /\ audited' = audited \cup {a}
  /\ UNCHANGED <<users, weddings, registries, pools, given, family, requests, history>>

AddFamilyMember(u, w, m, a) ==
  /\ Event /\ u \in users /\ MayEdit(u, w)
  /\ m \in users /\ \A f \in family : ~(f.of = w /\ f.member = m)
  /\ a # m /\ (a # None => \E f \in family : f.of = w /\ f.member = a)
  /\ family' = family \cup {[of |-> w, member |-> m, ancestor |-> a]}
  /\ audited' = audited \cup {u}
  /\ UNCHANGED <<users, weddings, registries, pools, given, refunded, requests, history>>

(***************************************************************************)
(* deleteUser, by an administrator: tree rows, contributions and the       *)
(* account in one transaction, which an audit row, a wedding or a registry *)
(* of the account rolls back.  The totals of the pools stay.               *)
(***************************************************************************)
Kept(u) == given                                  \* mutated: contributions are kept
ClearGiven(u) == [g \in Contributors |-> IF g = u THEN {} ELSE given[g]]

Blocking(u) == u \in audited \/ \E w \in Weddings : weddings[w] = u

DeleteUser(a, u) ==
  /\ Event /\ {a, u} \subseteq users /\ Role[a] = "SUPER_ADMIN" /\ a # u
  /\ ~Blocking(u)
  /\ users' = users \ {u}
  /\ given' = ClearGiven(u)
  /\ refunded' = {x \in refunded : x[1] # u}
  /\ family' = {f \in family : u \notin {f.member, f.ancestor}}
  /\ unbacked' = unbacked \cup (IF u \in Contributors THEN {p \in given[u] : <<u, p>> \notin refunded} ELSE {})
  /\ audited' = audited \cup {a}
  /\ UNCHANGED <<weddings, registries, pools, requests, answered, dropped>>

\* The process stops, or loses the database, in the middle of a request.
Crash(r) ==
  /\ Event /\ requests[r] # Idle
  /\ Done(r)
  /\ UNCHANGED <<rows, history>>

Handle(r) == \/ LogCreation(r) \/ CreateRegistry(r) \/ CreateGift(r) \/ AnswerCreation(r)
             \/ Log(r) \/ RemoveWedding(r) \/ InsertContribution(r)

Next == \/ \E r \in Requests : Handle(r) \/ Crash(r)
        \/ \E r \in Requests, u \in Users, w \in Weddings :
             CreateWedding(r, u, w) \/ UpdateWedding(r, u, w) \/ DeleteWedding(r, u, w)
        \/ \E u \in Users, w \in Weddings, level \in Levels : CreatePool(u, w, level)
        \/ \E u \in Users, p \in DOMAIN pools, level \in Levels : UpdatePool(u, p, level)
        \/ \E u \in Users, p \in DOMAIN pools : DeletePool(u, p)
        \/ \E r \in Requests, g \in Contributors, p \in DOMAIN pools : BeginContribution(r, g, p)
        \/ \E a \in Users, g \in Contributors, p \in DOMAIN pools : Refund(a, g, p)
        \/ \E u \in Users, w \in Weddings, m \in Relatives, a \in Relatives \cup {None} :
             AddFamilyMember(u, w, m, a)
        \/ \E a, u \in Users : DeleteUser(a, u)

Spec == Init /\ [][Next]_vars

(***************************************************************************)
(* Properties.                                                             *)
(***************************************************************************)
\* The state has the shape the schema gives it, and no row refers to one that is gone.
TypeOK ==
  /\ users \subseteq Users
  /\ weddings \in [Weddings -> users \cup {None}]
  /\ \A w \in registries : w \in Weddings /\ Exists(w)
  /\ \A p \in DOMAIN pools : /\ p \in Weddings \X Gifts /\ Exists(p[1])
                             /\ pools[p] \in Levels
  /\ \A g \in Contributors : /\ given[g] \subseteq DOMAIN pools
                             /\ given[g] # {} => g \in users
  /\ \A x \in refunded : x[2] \in given[x[1]]
  /\ \A f \in family : Exists(f.of) /\ f.member \in users /\ f.ancestor \in users \cup {None}
  /\ audited \subseteq users
  /\ requests \in [Requests -> [step : Steps, user : Users \cup {None},
                                of : Weddings \cup {None}, left : Seq(Gifts)]]
  /\ events \in 0..MaxEvents

\* A couple that was answered has its registry and all three gifts, less those it deleted
\* itself, whatever deletions and failures ran beside createWedding.
RegistryComplete ==
  \A w \in answered :
    /\ w \in registries
    /\ \A k \in DOMAIN DEFAULT_REGISTRY_GIFTS :
         LET p == <<w, DEFAULT_REGISTRY_GIFTS[k]>> IN p \in DOMAIN pools \cup dropped

\* What the page of a wedding lists and what its links open agree for every role but
\* MODERATOR, who is also listed the private pools he cannot open, however privacy and
\* owners change.
ListedOpens ==
  \A u \in Users, w \in Weddings :
    LET opens == {p \in Of(w) : CanAccess(u, p)}
    IN IF Role[u] = "MODERATOR" THEN opens \subseteq Listed(u, w) ELSE opens = Listed(u, w)

\* What GET /pools lists, a guest may view: README.md says of GUEST "View public pools".
\* Without a weddingId listPools filters nothing.
GuestListOpens ==
  \A u \in Users : Role[u] = "GUEST" => \A p \in ListedUnfiltered(u) : CanAccess(u, p)

\* The delete of an answered wedding without contributions deletes it: openapi.yaml has
\* only "Cannot delete wedding whose pools have contributions."  Its registry and its
\* pools refuse the delete.
EmptyWeddingDeleted ==
  [][\A r \in Requests :
       LET w == requests[r].of
       IN RemoveWedding(r) /\ w \in answered /\ (\A p \in Of(w) : Givers(p) = {}) => weddings'[w] = None]_vars

\* A pool that holds money nobody refunded is never deleted; deleteUser opens a way round
\* the check for contributions.
MoneyKeepsPool ==
  [][\A p \in DOMAIN pools : p \notin DOMAIN pools' => p \notin unbacked]_vars
=============================================================================
