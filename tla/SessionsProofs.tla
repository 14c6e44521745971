--------------------------- MODULE SessionsProofs ---------------------------
(***************************************************************************)
(* Proofs about Sessions, for any numbers of accounts, addresses, browsers *)
(* and calls, and whatever part of an address the stored hash compares.    *)
(*                                                                         *)
(* The inductive invariant is IInv:                                        *)
(*   Shape       what the rows and the staff requests hold;                *)
(*   CallInv, BrowserInv                                                   *)
(*               a token in a call or a browser names the address of its   *)
(*               account, unless that was changed or the account deleted;  *)
(*   HashInv     a hash is made of the address of its account, and an      *)
(*               account that is signed in has one.                        *)
(***************************************************************************)
EXTENDS Sessions, TLAPS

(***************************************************************************)
(* The inductive invariant.                                                *)
(***************************************************************************)
Call == [op : CallOps, step : CallSteps, from : Browsers \cup {None},
         sent : Tokens \cup {None}, new : Tokens \cup {None}, again : {0, 1}]
StaffRequest == [op : {"none", "promote", "block"}, id : Accounts \cup {None},
                 seen : Roles \cup {"blocked", "open", None}]

\* The rows, and what the history says of them.
Shape ==
  /\ users \in [Accounts -> Rows \cup {None}]
  /\ \A i \in verified \cup blocked : i \in Accounts /\ users[i] # None
  /\ staff \in [Staff -> StaffRequest]
  /\ \A s \in Staff : staff[s] # NoRequest => staff[s].id \in Accounts
  /\ past \in [out : SUBSET Accounts, renamed : SUBSET Accounts]
  /\ events \in 0..MaxEvents

\* A token names the address of its account, unless that was changed or the account deleted.
Known(t) ==
  \/ t = None
  \/ /\ t \in Tokens
     /\ t.id \notin past.renamed /\ users[t.id] # None => t.email = users[t.id].email

\* What a call carries where.
Carries(c) ==
  /\ calls[c].step \in {"rotating", "rotated", "storing", "stored"} => calls[c].new \in Tokens
  /\ calls[c].step \in {"refreshing", "leaving"} => calls[c].sent \in Tokens

CallInv == calls \in [Calls -> Call] /\ \A c \in Calls : Carries(c) /\ Known(calls[c].sent) /\ Known(calls[c].new)
BrowserInv == browser \in [Browsers -> Tokens \cup {None}] /\ \A b \in Browsers : Known(browser[b])

\* An account that is signed in has a hash, and a hash is of the account's address.
HashInv ==
  /\ \A i \in Accounts \ past.out : users[i] # None /\ users[i].hash # None
  /\ \A i \in Accounts \ past.renamed : users[i] # None => users[i].hash \in {None, users[i].email}

(***************************************************************************)
(* Calls.                                                                  *)
(***************************************************************************)
LEMMA FreeFields == Free \in Call /\ Free.step = "idle" /\ Free.sent = None /\ Free.new = None
BY DEF Free, Call, CallOps, CallSteps

\* What a step may make of a call; an abandoned call keeps what the server works on.
Sound(k) ==
  /\ k \in Call /\ Known(k.sent) /\ Known(k.new)
  /\ k.step \in {"rotating", "rotated", "storing", "stored"} => k.new \in Tokens
  /\ k.step \in {"refreshing", "leaving"} => k.sent \in Tokens

LEMMA CallsSound == CallInv => \A c \in Calls : Sound(calls[c])
BY DEF CallInv, Carries, Sound

LEMMA FreeSound == Sound(Free)
BY FreeFields DEF Sound, Known

LEMMA UnheardSound ==
  ASSUME NEW k, Sound(k)
  PROVE  Sound(Unheard(k))
<1>1. CASE k.step \in Writing
  <2> DEFINE u == [k EXCEPT !.from = None]
  <2>1. u \in Call /\ u.sent = k.sent /\ u.new = k.new /\ u.step = k.step
    BY DEF Sound, Call
  <2> QED
    BY <1>1, <2>1 DEF Unheard, Sound
<1> QED
  BY <1>1, FreeSound DEF Unheard

\* The calls after a step that makes k of call c.
LEMMA OneCall ==
  ASSUME CallInv, NEW c \in Calls, NEW k, Sound(k), calls' = [calls EXCEPT ![c] = k]
  PROVE  calls' \in [Calls -> Call] /\ \A d \in Calls : Sound(calls'[d])
BY CallsSound DEF CallInv, Sound

CallsStay == calls' \in [Calls -> Call] /\ \A d \in Calls : Sound(calls'[d])

LEMMA Finished == ASSUME CallInv, NEW c \in Calls, Finish(c) PROVE CallsStay
BY OneCall, FreeSound DEF Finish, CallsStay

\* A new step, with the tokens it needs.
\* Call c goes on at another step, with the tokens it needs there.
Moves(c, step, sent, new) ==
  /\ calls' \in [Calls -> Call] /\ \A d \in Calls \ {c} : calls'[d] = calls[d]
  /\ calls'[c].step = step /\ calls'[c].sent = sent /\ calls'[c].new = new

LEMMA Moved ==
  ASSUME CallInv, NEW c \in Calls, NEW step \in CallSteps,
         NEW sent \in Tokens \cup {None}, NEW new \in Tokens \cup {None}, Known(sent), Known(new),
         Moves(c, step, sent, new),
         step \in {"rotating", "rotated", "storing", "stored"} => new \in Tokens,
         step \in {"refreshing", "leaving"} => sent \in Tokens
  PROVE  CallsStay
<1>1. Sound(calls'[c])
  BY DEF Moves, Sound
<1>2. \A d \in Calls \ {c} : Sound(calls'[d])
  BY CallsSound DEF Moves
<1> QED
  BY <1>1, <1>2 DEF Moves, CallsStay

\* A pair signed from the row that was read.
LEMMA PairKnown ==
  ASSUME Shape, NEW i \in Accounts, users[i] # None
  PROVE  \A role \in Roles : Pair(i, role) \in Tokens /\ Known(Pair(i, role))
BY DEF Shape, Pair, Tokens, Rows, Known

LEMMA CallsStep == Shape /\ CallInv /\ BrowserInv /\ [Next]_vars => CallsStay
<1> SUFFICES ASSUME Shape, CallInv, BrowserInv, [Next]_vars PROVE CallsStay
  OBVIOUS
<1>0. /\ calls \in [Calls -> Call] /\ browser \in [Browsers -> Tokens \cup {None}]
      /\ \A c \in Calls : Sound(calls[c]) /\ Known(calls[c].sent) /\ Known(calls[c].new)
      /\ \A b \in Browsers : Known(browser[b])
  BY CallsSound DEF CallInv, BrowserInv
<1>n. Known(None)
  BY DEF Known
<1>1. ASSUME NEW c \in Calls, NEW b \in Browsers, Get(c, b) \/ Login(c, b) \/ Logout(c, b) PROVE CallsStay
  <2> PICK t \in Tokens \cup {None} : t = browser[b] /\ Known(t)
    BY <1>0
  <2>1. CASE Get(c, b)
    <3>1. Moves(c, "asked", t, None)
      BY <1>0, <2>1, FreeFields DEF Get, Moves, Call, CallOps, CallSteps
    <3> QED
      BY <1>n, <3>1, Moved DEF CallSteps
  <2>2. CASE Login(c, b)
    <3>1. Moves(c, "login", None, None)
      BY <1>0, <2>2, FreeFields DEF Login, Moves, Call, CallOps, CallSteps
    <3> QED
      BY <1>n, <3>1, Moved DEF CallSteps
  <2>3. CASE Logout(c, b)
    <3>1. Moves(c, "leaving", t, None) /\ t \in Tokens
      BY <1>0, <2>3, FreeFields DEF Logout, Moves, Call, CallOps, CallSteps
    <3> QED
      BY <1>n, <3>1, Moved DEF CallSteps
  <2> QED
    BY <1>1, <2>1, <2>2, <2>3
<1>2. ASSUME NEW c \in Calls, NEW b \in Browsers, Load(c, b) PROVE CallsStay
  <2> DEFINE k == [Free EXCEPT !.op = "load", !.step = "asked", !.from = b, !.sent = browser[b]]
  <2>1. k \in Call /\ k.step = "asked" /\ k.sent = browser[b] /\ k.new = None
    BY <1>0, FreeFields DEF Call, CallOps, CallSteps
  <2>2. Sound(k)
    BY <1>0, <1>n, <2>1 DEF Sound
  <2>3. calls' = [Abandon(b) EXCEPT ![c] = k]
    BY <1>2 DEF Load
  <2> HIDE DEF k
  <2>4. \A d \in Calls : Sound(Abandon(b)[d])
    BY <1>0, UnheardSound DEF Abandon
  <2>5. calls' = [d \in Calls |-> IF d = c THEN k ELSE Abandon(b)[d]]
    BY <2>3 DEF Abandon
  <2>6. \A d \in Calls : Sound(calls'[d])
    BY <2>2, <2>4, <2>5
  <2>7. calls' \in [Calls -> Call]
    BY <2>2, <2>4, <2>5 DEF Sound
  <2> QED
    BY <2>6, <2>7 DEF CallsStay
<1>3. ASSUME NEW c \in Calls, Authenticate(c) PROVE CallsStay
  <2>1. CASE Finish(c)
    BY <2>1, Finished
  <2>2. CASE ~Finish(c)
    <3> PICK verdict \in {"unauthorized", "forbidden"} : Moves(c, verdict, None, calls[c].new)
      BY <1>0, <1>3, <2>2 DEF Authenticate, Verdict, Moves, Call, CallSteps
    <3> QED
      BY <1>0, <1>n, Moved DEF CallSteps, Call
  <2> QED
    BY <2>1, <2>2
<1>4. ASSUME NEW c \in Calls, StartRefresh(c) PROVE CallsStay
  <2> PICK t \in Tokens : t = Held(c) /\ Known(t)
    BY <1>0, <1>4 DEF StartRefresh, Held, Call
  <2>1. calls' = [calls EXCEPT ![c].step = "refreshing", ![c].sent = t]
    BY <1>4 DEF StartRefresh
  <2>2. Moves(c, "refreshing", t, calls[c].new)
    BY <1>0, <2>1 DEF Moves, Call, CallSteps
  <2> QED
    BY <1>0, <2>2, Moved DEF CallSteps, Call
<1>5. ASSUME NEW c \in Calls, RefreshRead(c) PROVE CallsStay
  <2> DEFINE t == calls[c].sent
  <2>0. t \in Tokens
    BY <1>0, <1>5 DEF RefreshRead, At, Sound
  <2>1. CASE Moves(c, "rejected", t, calls[c].new)
    BY <1>0, <2>1, Moved DEF CallSteps, Call
  <2>2. CASE ~Moves(c, "rejected", t, calls[c].new)
    <3>1. Accepts(t) /\ calls' = [calls EXCEPT ![c].step = "rotating", ![c].new = Pair(t.id, NewRole(t))]
      BY <1>0, <1>5, <2>2 DEF RefreshRead, Moves, Move, Call, CallSteps
    <3>2. t.id \in Accounts /\ users[t.id] # None /\ NewRole(t) \in Roles
      BY <2>0, <3>1 DEF Accepts, Tokens, NewRole, Shape, Rows
    <3> PICK p \in Tokens : p = Pair(t.id, NewRole(t)) /\ Known(p)
      BY <3>2, PairKnown
    <3>3. calls' = [calls EXCEPT ![c].step = "rotating", ![c].new = p]
      BY <3>1
    <3> HIDE DEF t
    <3>4. Moves(c, "rotating", calls[c].sent, p)
      BY <1>0, <3>3 DEF Moves, Call, CallSteps
    <3> QED
      BY <1>0, <3>4, Moved DEF CallSteps, Call
  <2> QED
    BY <2>1, <2>2
<1>6. ASSUME NEW c \in Calls, RefreshStore(c) PROVE CallsStay
  <2>1. \/ Moves(c, "rejected", calls[c].sent, calls[c].new)
        \/ Moves(c, "rotated", calls[c].sent, calls[c].new) /\ calls[c].new \in Tokens
    BY <1>0, <1>6 DEF RefreshStore, At, Move, Moves, Sound, Call, CallSteps
  <2> QED
    BY <1>0, <2>1, Moved DEF CallSteps, Call
<1>7. ASSUME NEW c \in Calls, Refreshed(c) \/ LoggedIn(c) PROVE CallsStay
  <2>1. CASE calls' = [calls EXCEPT ![c] = Free]
    BY <2>1, Finished DEF Finish
  <2>2. CASE ~(calls' = [calls EXCEPT ![c] = Free])
    <3>1. Moves(c, "asked", calls[c].new, None)
      BY <1>0, <1>7, <2>2 DEF Refreshed, LoggedIn, Moves, Call, CallSteps
    <3> QED
      BY <1>0, <1>n, <3>1, Moved DEF CallSteps, Call
  <2> QED
    BY <2>1, <2>2
<1>8. ASSUME NEW c \in Calls, Finish(c) PROVE CallsStay
  BY <1>8, Finished
<1>9. ASSUME NEW c \in Calls, LoginRead(c) PROVE CallsStay
  <2> PICK i \in Accounts : users[i] # None /\ calls' = [calls EXCEPT ![c].step = "storing", ![c].new = Pair(i, users[i].role)]
    BY <1>9 DEF LoginRead
  <2>1. users[i].role \in Roles
    BY DEF Shape, Rows
  <2> PICK p \in Tokens : p = Pair(i, users[i].role) /\ Known(p)
    BY <2>1, PairKnown
  <2>2. Moves(c, "storing", calls[c].sent, p)
    BY <1>0 DEF Moves, Call, CallSteps
  <2> QED
    BY <1>0, <2>2, Moved DEF CallSteps, Call
<1>10. ASSUME NEW c \in Calls, LoginStore(c) PROVE CallsStay
  <2>1. \/ Finish(c)
        \/ Moves(c, "stored", calls[c].sent, calls[c].new) /\ calls[c].new \in Tokens
    BY <1>0, <1>10 DEF LoginStore, At, Move, Moves, Sound, Call, CallSteps
  <2> QED
    BY <1>0, <2>1, Moved, Finished DEF CallSteps, Call
<1>11. ASSUME NEW c \in Calls, LogoutStore(c) PROVE CallsStay
  <2>1. Moves(c, "left", calls[c].sent, calls[c].new)
    BY <1>0, <1>11 DEF LogoutStore, Move, Moves, Call, CallSteps
  <2> QED
    BY <1>0, <2>1, Moved DEF CallSteps, Call
<1>12. ASSUME NEW c \in Calls, Lose(c) PROVE CallsStay
  <2>1. CASE calls' = [calls EXCEPT ![c] = Unheard(@)]
    <3>1. Sound(Unheard(calls[c])) /\ calls' = [calls EXCEPT ![c] = Unheard(calls[c])]
      BY <1>0, <2>1, UnheardSound
    <3> QED
      BY <3>1, OneCall DEF CallsStay
  <2> QED
    BY <1>12, <2>1, Finished DEF Lose
<1>13. CASE UNCHANGED calls
  BY <1>0, <1>13 DEF CallsStay
<1>14. ASSUME Next PROVE \/ UNCHANGED calls
                         \/ \E c \in Calls : \/ \E b \in Browsers : Get(c, b) \/ Login(c, b) \/ Logout(c, b) \/ Load(c, b)
                                             \/ Step(c) \/ Lose(c)
  BY <1>14 DEF Next, Use, Expire, Verify, DeleteUser, Rename, ReadUser, UpdateUser
<1>15. ASSUME NEW c \in Calls, Step(c) PROVE CallsStay
  <2>1. Refused(c) \/ NotRefreshed(c) \/ LoginRefused(c) \/ LoggedOut(c) => Finish(c)
    BY DEF Refused, NotRefreshed, LoginRefused, LoggedOut
  <2> QED
    BY <1>15, <2>1, <1>3, <1>4, <1>5, <1>6, <1>7, <1>8, <1>9, <1>10, <1>11 DEF Step
<1>16. CASE UNCHANGED vars
  BY <1>13, <1>16 DEF vars
<1> QED
  BY <1>1, <1>2, <1>12, <1>13, <1>14, <1>15, <1>16

(***************************************************************************)
(* Rows.                                                                   *)
(***************************************************************************)
\* Rows keep their accounts and, but for a change that the history keeps, their addresses.
RowsKeep ==
  /\ users' \in [Accounts -> Rows \cup {None}]
  /\ past.renamed \subseteq past'.renamed
  /\ \A i \in Accounts : users'[i] # None =>
       users[i] # None /\ (users'[i].email = users[i].email \/ i \in past'.renamed)

LEMMA HashSet ==
  ASSUME Shape, NEW i \in Accounts, NEW h \in Emails \cup {None}, SetHash(i, h)
  PROVE  /\ users' \in [Accounts -> Rows \cup {None}]
         /\ \A j \in Accounts \ {i} : users'[j] = users[j]
         /\ users[i] = None => users'[i] = None
         /\ users[i] # None => /\ users'[i] \in Rows /\ users'[i].email = users[i].email
                               /\ users'[i].role = users[i].role /\ users'[i].hash = h
<1>1. CASE users[i] = None
  <2>1. users' = [users EXCEPT ![i] = None]
    BY <1>1 DEF SetHash, Shape
  <2> QED
    BY <1>1, <2>1 DEF Shape
<1>2. CASE users[i] # None
  <2> DEFINE row == [users[i] EXCEPT !.hash = h]
  <2>1. users[i] \in Rows
    BY <1>2 DEF Shape
  <2>2. row \in Rows /\ row.email = users[i].email /\ row.role = users[i].role /\ row.hash = h
    BY <2>1 DEF Rows
  <2>3. users' = [users EXCEPT ![i] = row]
    BY <1>2 DEF SetHash, Shape
  <2> HIDE DEF row
  <2> QED
    BY <1>2, <2>2, <2>3 DEF Shape
<1> QED
  BY <1>1, <1>2

LEMMA NotNone == \A row \in Rows : row # None
BY ConstantsAssumption

LEMMA RowsStep == Shape /\ CallInv /\ [Next]_vars => RowsKeep /\ Shape'
<1> SUFFICES ASSUME Shape, CallInv, [Next]_vars PROVE RowsKeep /\ Shape'
  OBVIOUS
<1>0. /\ users \in [Accounts -> Rows \cup {None}]
      /\ \A i \in Accounts : users[i] # None => users[i] \in Rows
      /\ \A i \in verified \cup blocked : i \in Accounts /\ users[i] # None
      /\ staff \in [Staff -> StaffRequest] /\ (\A s \in Staff : staff[s] # NoRequest => staff[s].id \in Accounts)
      /\ past \in [out : SUBSET Accounts, renamed : SUBSET Accounts]
      /\ events \in 0..MaxEvents /\ MaxEvents \in Nat
      /\ \A c \in Calls : Sound(calls[c])
  BY CallsSound, ConstantsAssumption DEF Shape
<1>e. events' \in 0..MaxEvents
  <2>1. UNCHANGED events \/ Event
    BY DEF Next, Step, Authenticate, StartRefresh, Refused, RefreshRead, RefreshStore, Refreshed, NotRefreshed,
           LoginRead, LoginRefused, LoginStore, LoggedIn, LogoutStore, LoggedOut, Lose, Use, Get, Load, Login, Logout,
           Expire, Verify, Rename, ReadUser, UpdateUser, DeleteUser, vars
  <2> QED
    BY <1>0, <2>1 DEF Event
<1>1. ASSUME UNCHANGED <<accounts, staff, past>> PROVE RowsKeep /\ Shape'
  BY <1>0, <1>1, <1>e DEF RowsKeep, Shape, accounts
<1>2. ASSUME NEW c \in Calls, RefreshRead(c) PROVE RowsKeep /\ Shape'
  <2>1. UNCHANGED <<accounts, staff, past>>
    BY <1>2 DEF RefreshRead, Revoke, accounts
  <2> QED
    BY <1>1, <2>1
<1>3. ASSUME NEW i \in Accounts, NEW h \in Emails \cup {None}, SetHash(i, h), UNCHANGED <<verified, blocked, staff>>,
             past' \in [out : SUBSET Accounts, renamed : SUBSET Accounts],
             past'.renamed = past.renamed
      PROVE  RowsKeep /\ Shape'
  <2>1. /\ users' \in [Accounts -> Rows \cup {None}]
        /\ \A j \in Accounts : /\ users'[j] # None => users[j] # None /\ users'[j].email = users[j].email
                               /\ users[j] # None => users'[j] # None
    BY <1>3, HashSet, NotNone
  <2> QED
    BY <1>0, <1>3, <1>e, <2>1 DEF RowsKeep, Shape
<1>4. ASSUME NEW c \in Calls, RefreshStore(c) \/ LoginStore(c) PROVE RowsKeep /\ Shape'
  <2>1. calls[c].new \in Tokens
    BY <1>0, <1>4 DEF RefreshStore, LoginStore, At, Sound
  <2> PICK i \in Accounts, e \in Emails : i = calls[c].new.id /\ e = calls[c].new.email
    BY <2>1 DEF Tokens
  <2>2. SetHash(i, e) /\ UNCHANGED <<verified, blocked, staff>>
    BY <1>4 DEF RefreshStore, LoginStore
  <2>3. /\ past' \in [out : SUBSET Accounts, renamed : SUBSET Accounts]
        /\ past'.renamed = past.renamed
    <3>1. \/ UNCHANGED past
          \/ past' = [past EXCEPT !.out = @ \ {i}]
      BY <1>4 DEF RefreshStore, LoginStore
    <3> QED
      BY <1>0, <3>1
  <2> QED
    BY <1>3, <2>2, <2>3
<1>5. ASSUME NEW c \in Calls, LogoutStore(c) PROVE RowsKeep /\ Shape'
  <2>1. calls[c].sent \in Tokens
    BY <1>0, <1>5 DEF LogoutStore, At, Sound
  <2> PICK i \in Accounts : i = calls[c].sent.id
    BY <2>1 DEF Tokens
  <2>2. SetHash(i, None) /\ UNCHANGED <<verified, blocked, staff>> /\ past' = [past EXCEPT !.out = @ \cup {i}]
    BY <1>5 DEF LogoutStore
  <2>3. /\ past' \in [out : SUBSET Accounts, renamed : SUBSET Accounts]
        /\ past'.renamed = past.renamed
    BY <1>0, <2>2
  <2> QED
    BY <1>3, <2>2, <2>3
<1>6. ASSUME NEW i \in Accounts, Verify(i) PROVE RowsKeep /\ Shape'
  BY <1>0, <1>6, <1>e DEF Verify, RowsKeep, Shape
<1>7. ASSUME NEW i \in Accounts, DeleteUser(i) PROVE RowsKeep /\ Shape'
  <2>1. users' = [users EXCEPT ![i] = None] /\ verified' = verified \ {i} /\ blocked' = blocked \ {i} /\ UNCHANGED staff
    BY <1>7 DEF DeleteUser, Forget
  <2>2. /\ past' \in [out : SUBSET Accounts, renamed : SUBSET Accounts]
        /\ past'.renamed = past.renamed
    BY <1>0, <1>7 DEF DeleteUser
  <2> QED
    BY <1>0, <1>e, <2>1, <2>2 DEF RowsKeep, Shape
<1>8. ASSUME NEW i \in Accounts, NEW e \in Emails, Rename(i, e) PROVE RowsKeep /\ Shape'
  <2>1. users' = [users EXCEPT ![i].email = e] /\ UNCHANGED <<verified, blocked, staff>>
    BY <1>8 DEF Rename
  <2>2. /\ past' \in [out : SUBSET Accounts, renamed : SUBSET Accounts]
        /\ past'.renamed = past.renamed \cup {i}
    BY <1>0, <1>8 DEF Rename
  <2>3. users[i] # None
    BY <1>8 DEF Rename, Verdict
  <2>4. users'[i] \in Rows /\ \A j \in Accounts \ {i} : users'[j] = users[j]
    BY <1>0, <2>1, <2>3 DEF Rows
  <2>5. users' \in [Accounts -> Rows \cup {None}]
    BY <1>0, <2>1, <2>4
  <2> QED
    BY <1>0, <1>e, <2>1, <2>2, <2>3, <2>4, <2>5, NotNone DEF RowsKeep, Shape
<1>9. ASSUME NEW s \in Staff, NEW i \in Accounts, NEW op \in {"promote", "block"}, ReadUser(s, op, i)
      PROVE  RowsKeep /\ Shape'
  <2>0. users[i].role \in Roles
    BY <1>0, <1>9 DEF ReadUser, Rows
  <2> PICK seen \in Roles \cup {"blocked", "open", None} : staff' = [staff EXCEPT ![s] = [op |-> op, id |-> i, seen |-> seen]]
    BY <1>9, <2>0 DEF ReadUser
  <2>1. staff' \in [Staff -> StaffRequest] /\ \A z \in Staff : staff'[z] # NoRequest => staff'[z].id \in Accounts
    BY <1>0 DEF StaffRequest
  <2>2. UNCHANGED <<accounts, past>>
    BY <1>9 DEF ReadUser
  <2> QED
    BY <1>0, <1>e, <2>1, <2>2 DEF RowsKeep, Shape, accounts
<1>10. ASSUME NEW s \in Staff, UpdateUser(s) PROVE RowsKeep /\ Shape'
  <2> PICK i \in Accounts : i = staff[s].id
    BY <1>0, <1>10 DEF UpdateUser
  <2>1. staff' \in [Staff -> StaffRequest] /\ \A z \in Staff : staff'[z] # NoRequest => staff'[z].id \in Accounts
    BY <1>0, <1>10 DEF UpdateUser, StaffRequest, NoRequest
  <2>2. UNCHANGED past
    BY <1>10 DEF UpdateUser
  <2>3. CASE users[i] # None /\ users' = [users EXCEPT ![i].role = Promoted(staff[s].seen)] /\ UNCHANGED <<verified, blocked>>
    <3> PICK role \in Roles : role = Promoted(staff[s].seen)
      BY ConstantsAssumption DEF Promoted
    <3>1. users'[i] \in Rows /\ users'[i].email = users[i].email /\ \A j \in Accounts \ {i} : users'[j] = users[j]
      BY <1>0, <2>3 DEF Rows
    <3>2. users' \in [Accounts -> Rows \cup {None}]
      BY <1>0, <2>3, <3>1
    <3> QED
      BY <1>0, <1>e, <2>1, <2>2, <2>3, <3>1, <3>2, NotNone DEF RowsKeep, Shape
  <2>4. CASE users[i] # None /\ (blocked' = blocked \cup {i} \/ blocked' = blocked \ {i}) /\ UNCHANGED <<users, verified>>
    BY <1>0, <1>e, <2>1, <2>2, <2>4 DEF RowsKeep, Shape
  <2>5. CASE UNCHANGED accounts
    BY <1>0, <1>e, <2>1, <2>2, <2>5 DEF RowsKeep, Shape, accounts
  <2> QED
    BY <1>10, <2>3, <2>4, <2>5 DEF UpdateUser
<1>11. CASE Next
  <2>1. \/ UNCHANGED <<accounts, staff, past>>
        \/ \E c \in Calls : RefreshRead(c) \/ RefreshStore(c) \/ LoginStore(c) \/ LogoutStore(c)
        \/ \E i \in Accounts : Verify(i) \/ DeleteUser(i)
        \/ \E i \in Accounts, e \in Emails : Rename(i, e)
        \/ \E s \in Staff, i \in Accounts, op \in {"promote", "block"} : ReadUser(s, op, i)
        \/ \E s \in Staff : UpdateUser(s)
    BY <1>11 DEF Next, Step, Authenticate, StartRefresh, Refused, Refreshed, NotRefreshed, LoginRead, LoginRefused,
                 LoggedIn, LoggedOut, Lose, Use, Get, Load, Login, Logout, Expire
  <2> QED
    BY <1>1, <1>2, <1>4, <1>5, <1>6, <1>7, <1>8, <1>9, <1>10, <2>1
<1>12. CASE UNCHANGED vars
  BY <1>1, <1>12 DEF vars
<1> QED
  BY <1>11, <1>12

(***************************************************************************)
(* Browsers.                                                               *)
(***************************************************************************)
BrowsersStay == browser' \in [Browsers -> Tokens \cup {None}] /\ \A b \in Browsers : Known(browser'[b])

LEMMA BrowserStep == CallInv /\ BrowserInv /\ [Next]_vars => BrowsersStay
<1> SUFFICES ASSUME CallInv, BrowserInv, [Next]_vars PROVE BrowsersStay
  OBVIOUS
<1>0. browser \in [Browsers -> Tokens \cup {None}] /\ \A b \in Browsers : Known(browser[b])
  BY DEF BrowserInv
<1>1. ASSUME NEW c \in Calls, NEW t \in Tokens \cup {None}, Known(t), SetTokens(c, t) PROVE BrowsersStay
  BY <1>0, <1>1 DEF SetTokens, BrowsersStay
<1>2. ASSUME NEW c \in Calls, ClearTokens(c) PROVE BrowsersStay
  <2>1. Known(None)
    BY DEF Known
  <2> QED
    BY <1>1, <1>2, <2>1 DEF ClearTokens
<1>3. ASSUME NEW c \in Calls, Refreshed(c) \/ LoggedIn(c) PROVE BrowsersStay
  <2>1. Sound(calls[c])
    BY CallsSound
  <2> PICK t \in Tokens : t = calls[c].new /\ Known(t)
    BY <1>3, <2>1 DEF Refreshed, LoggedIn, At, Sound
  <2>2. SetTokens(c, t)
    BY <1>3 DEF Refreshed, LoggedIn
  <2> QED
    BY <1>1, <2>2
<1>4. ASSUME NEW b \in Browsers, Expire(b) PROVE BrowsersStay
  <2> PICK t \in Tokens : t = browser[b] /\ Known(t)
    BY <1>0, <1>4 DEF Expire
  <2> DEFINE u == [t EXCEPT !.access = "expired"]
  <2>1. u \in Tokens /\ u.id = t.id /\ u.email = t.email
    BY DEF Tokens
  <2>2. Known(u)
    BY <2>1, ConstantsAssumption DEF Known
  <2>3. browser' = [browser EXCEPT ![b] = u]
    BY <1>0, <1>4 DEF Expire
  <2> HIDE DEF u
  <2> QED
    BY <1>0, <2>1, <2>2, <2>3 DEF BrowsersStay
<1>5. CASE UNCHANGED browser
  BY <1>0, <1>5 DEF BrowsersStay
<1>6. CASE Next
  <2>1. \/ UNCHANGED browser
        \/ \E c \in Calls : ClearTokens(c) \/ Refreshed(c) \/ LoggedIn(c)
        \/ \E b \in Browsers : Expire(b)
    BY <1>6 DEF Next, Step, Authenticate, StartRefresh, Refused, RefreshRead, RefreshStore, NotRefreshed, LoginRead,
                LoginRefused, LoginStore, LogoutStore, LoggedOut, Lose, Fail, Use, Get, Load, Login, Logout,
                Verify, Rename, ReadUser, UpdateUser, DeleteUser
  <2> QED
    BY <1>2, <1>3, <1>4, <1>5, <2>1
<1>7. CASE UNCHANGED vars
  BY <1>5, <1>7 DEF vars
<1> QED
  BY <1>6, <1>7

\* What is known of a token stays true.
LEMMA KnownKept ==
  ASSUME Shape, RowsKeep, NEW t, Known(t)
  PROVE  Known(t)'
<1>1. CASE t = None
  BY <1>1 DEF Known
<1>2. CASE t # None
  <2>1. t.id \in Accounts
    BY <1>2 DEF Known, Tokens
  <2> QED
    BY <1>2, <2>1 DEF Known, RowsKeep
<1> QED
  BY <1>1, <1>2

LEMMA TokensStep ==
  Shape /\ CallInv /\ BrowserInv /\ [Next]_vars => CallInv' /\ BrowserInv'
<1> SUFFICES ASSUME Shape, CallInv, BrowserInv, [Next]_vars PROVE CallInv' /\ BrowserInv'
  OBVIOUS
<1>1. CallsStay /\ BrowsersStay /\ RowsKeep
  BY CallsStep, BrowserStep, RowsStep
<1>2. ASSUME NEW c \in Calls PROVE Carries(c)' /\ Known(calls[c].sent)' /\ Known(calls[c].new)'
  <2>1. Sound(calls'[c])
    BY <1>1 DEF CallsStay
  <2> PICK k : k = calls'[c]
    OBVIOUS
  <2>2. Known(k.sent)' /\ Known(k.new)'
    BY <1>1, <2>1, KnownKept DEF Sound
  <2>3. Carries(c)'
    BY <2>1 DEF Sound, Carries
  <2> QED
    BY <2>2, <2>3 DEF Known
<1>3. ASSUME NEW b \in Browsers PROVE Known(browser[b])'
  <2> PICK t : t = browser'[b] /\ Known(t)
    BY <1>1 DEF BrowsersStay
  <2>1. Known(t)'
    BY <1>1, KnownKept
  <2> QED
    BY <2>1 DEF Known
<1> QED
  BY <1>1, <1>2, <1>3 DEF CallInv, BrowserInv, CallsStay, BrowsersStay

(***************************************************************************)
(* Hashes.                                                                 *)
(***************************************************************************)
LEMMA HashStep == Shape /\ CallInv /\ HashInv /\ [Next]_vars => HashInv'
<1> SUFFICES ASSUME Shape, CallInv, HashInv, [Next]_vars PROVE HashInv'
  OBVIOUS
<1>0. /\ users \in [Accounts -> Rows \cup {None}] /\ past.out \subseteq Accounts
      /\ \A i \in Accounts : users[i] # None => users[i] \in Rows
      /\ \A c \in Calls : Sound(calls[c])
  BY CallsSound DEF Shape
<1>k. RowsKeep
  BY RowsStep
\* A row keeps its hash, or gets one made of the address it has.
<1>1. ASSUME past.out \subseteq past'.out,
             \A i \in Accounts : \/ users'[i] = users[i]
                                 \/ users'[i] = None /\ i \in past'.out
                                 \/ users[i] # None /\ users'[i] # None /\ users'[i].hash = users[i].hash
                                    /\ (users'[i].email = users[i].email \/ i \in past'.renamed)
      PROVE  HashInv'
  BY <1>1, <1>k DEF HashInv, RowsKeep
<1>2. ASSUME NEW c \in Calls, RefreshStore(c) \/ LoginStore(c) PROVE HashInv'
  <2>1. calls[c].new \in Tokens /\ Known(calls[c].new)
    BY <1>0, <1>2 DEF RefreshStore, LoginStore, At, Sound
  <2> PICK i \in Accounts, e \in Emails : i = calls[c].new.id /\ e = calls[c].new.email
    BY <2>1 DEF Tokens
  <2>2. SetHash(i, e)
    BY <1>2 DEF RefreshStore, LoginStore
  <2>3. /\ \A j \in Accounts \ {i} : users'[j] = users[j]
        /\ users[i] = None => users'[i] = None
        /\ users[i] # None => /\ users'[i] # None /\ users'[i].email = users[i].email /\ users'[i].hash = e
    BY <2>2, HashSet, NotNone
  <2>4. e # None /\ (i \notin past.renamed /\ users[i] # None => e = users[i].email)
    BY <2>1, ConstantsAssumption DEF Known
  <2>5. /\ past'.renamed = past.renamed
        /\ past'.out = past.out \/ (users[i] # None /\ past'.out = past.out \ {i})
    <3>1. past' = past \/ (users[i] # None /\ past' = [past EXCEPT !.out = @ \ {i}])
      BY <1>2 DEF RefreshStore, LoginStore
    <3> QED
      BY <3>1 DEF Shape
  <2> QED
    BY <2>3, <2>4, <2>5 DEF HashInv
<1>3. ASSUME NEW c \in Calls, LogoutStore(c) PROVE HashInv'
  <2> PICK i \in Accounts : i = calls[c].sent.id
    BY <1>0, <1>3 DEF LogoutStore, At, Sound, Tokens
  <2>1. SetHash(i, None) /\ past' = [past EXCEPT !.out = @ \cup {i}]
    BY <1>3 DEF LogoutStore
  <2>2. /\ \A j \in Accounts \ {i} : users'[j] = users[j]
        /\ users[i] = None => users'[i] = None
        /\ users[i] # None => /\ users'[i] # None /\ users'[i].email = users[i].email /\ users'[i].hash = None
    BY <2>1, HashSet, NotNone
  <2>3. past'.renamed = past.renamed /\ past'.out = past.out \cup {i}
    BY <2>1 DEF Shape
  <2> QED
    BY <2>2, <2>3 DEF HashInv
<1>4. ASSUME NEW i \in Accounts, DeleteUser(i) PROVE HashInv'
  <2>1. users' = [users EXCEPT ![i] = None] /\ past' = [past EXCEPT !.out = @ \cup {i}]
    BY <1>4 DEF DeleteUser
  <2> QED
    BY <1>0, <1>1, <2>1 DEF Shape
<1>5. ASSUME NEW i \in Accounts, NEW e \in Emails, Rename(i, e) PROVE HashInv'
  <2>1. users' = [users EXCEPT ![i].email = e] /\ past' = [past EXCEPT !.renamed = @ \cup {i}] /\ users[i] # None
    BY <1>5 DEF Rename, Verdict
  <2>2. i \in past'.renamed /\ past'.out = past.out
    BY <2>1 DEF Shape
  <2>3. users'[i].hash = users[i].hash /\ \A j \in Accounts \ {i} : users'[j] = users[j]
    BY <1>0, <2>1 DEF Rows
  <2>4. users'[i] # None
    BY <1>0, <2>1, NotNone DEF Rows
  <2> QED
    BY <1>1, <2>1, <2>2, <2>3, <2>4
<1>6. ASSUME NEW s \in Staff, UpdateUser(s) PROVE HashInv'
  <2>0. UNCHANGED past
    BY <1>6 DEF UpdateUser
  <2>1. CASE UNCHANGED users
    BY <1>1, <2>0, <2>1
  <2>2. CASE ~UNCHANGED users
    <3> PICK i \in Accounts : /\ users[i] # None /\ users' = [users EXCEPT ![i].role = Promoted(staff[s].seen)]
      BY <1>6, <2>2 DEF UpdateUser, accounts, Shape
    <3> PICK role \in Roles : role = Promoted(staff[s].seen)
      BY ConstantsAssumption DEF Promoted
    <3>1. users'[i] \in Rows /\ users'[i].email = users[i].email /\ users'[i].hash = users[i].hash
      BY <1>0 DEF Rows
    <3>2. \A j \in Accounts \ {i} : users'[j] = users[j]
      BY <1>0
    <3> QED
      BY <1>1, <2>0, <3>1, <3>2, NotNone
  <2> QED
    BY <2>1, <2>2
<1>7. ASSUME NEW c \in Calls, RefreshRead(c) PROVE HashInv'
  <2>1. UNCHANGED <<users, past>>
    BY <1>7 DEF RefreshRead, Revoke
  <2> QED
    BY <1>1, <2>1
<1>8. CASE UNCHANGED <<users, past>>
  BY <1>1, <1>8
<1>9. CASE Next
  <2>1. \/ UNCHANGED <<users, past>>
        \/ \E c \in Calls : RefreshRead(c) \/ RefreshStore(c) \/ LoginStore(c) \/ LogoutStore(c)
        \/ \E i \in Accounts : DeleteUser(i)
        \/ \E i \in Accounts, e \in Emails : Rename(i, e)
        \/ \E s \in Staff : UpdateUser(s)
    BY <1>9 DEF Next, Step, Authenticate, StartRefresh, Refused, Refreshed, NotRefreshed, LoginRead, LoginRefused,
                LoggedIn, LoggedOut, Lose, Use, Get, Load, Login, Logout, Expire, Verify, ReadUser, accounts
  <2> QED
    BY <1>2, <1>3, <1>4, <1>5, <1>6, <1>7, <1>8, <2>1
<1>10. CASE UNCHANGED vars
  BY <1>8, <1>10 DEF vars, accounts
<1> QED
  BY <1>9, <1>10

(***************************************************************************)
(* Theorems.                                                               *)
(***************************************************************************)
IInv == Shape /\ CallInv /\ BrowserInv /\ HashInv

LEMMA InitInv == Init => IInv
<1> SUFFICES ASSUME Init PROVE IInv
  OBVIOUS
<1> PICK f \in [Accounts -> Emails] : users = [i \in Accounts |-> [email |-> f[i], role |-> "GUEST", hash |-> None]]
  BY DEF Init
<1>1. users \in [Accounts -> Rows \cup {None}] /\ \A i \in Accounts : users[i].hash = None
  BY ConstantsAssumption DEF Rows
<1>2. Shape /\ HashInv
  BY <1>1, ConstantsAssumption DEF Init, Shape, HashInv, StaffRequest, NoRequest
<1>3. calls = [c \in Calls |-> Free] /\ Free \in Call
  BY FreeFields DEF Init
<1>4. CallInv
  BY <1>3, FreeSound DEF CallInv, Sound, Carries
<1>5. BrowserInv
  BY DEF Init, BrowserInv, Known
<1> QED
  BY <1>2, <1>4, <1>5 DEF IInv

LEMMA Invariance == Spec => []IInv
<1>1. IInv /\ [Next]_vars => IInv'
  BY RowsStep, TokensStep, HashStep DEF IInv
<1> QED
  BY <1>1, InitInv, PTL DEF Spec

\* Accounts, tokens and calls keep their shape, and no deleted account is verified or
\* blocked: staff requests that read the account before it was deleted change nothing.
THEOREM TypeCorrect == Spec => []TypeOK
<1>1. IInv => TypeOK
  BY DEF IInv, Shape, CallInv, BrowserInv, Call, TypeOK
<1> QED
  BY <1>1, Invariance, PTL

\* A signed-in account keeps a hash of its address, for any number of accounts, browsers
\* and calls: every pair a call is about to store names the address of its account, and
\* only a sign-out or a deletion takes a hash away.
THEOREM SessionsKept == Spec => []SessionKept
<1>1. IInv => SessionKept
  BY ConstantsAssumption DEF IInv, HashInv, SessionKept
<1> QED
  BY <1>1, Invariance, PTL
=============================================================================
