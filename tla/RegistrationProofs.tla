------------------------- MODULE RegistrationProofs -------------------------
(***************************************************************************)
(* Proofs about Registration, for every set of addresses and of requests:  *)
(* the type invariant, and the three invariants its run checks.            *)
(*                                                                         *)
(* A step of a handler changes one request.  The lemmas say first what     *)
(* each kind of step can come to, field by field, and then that every      *)
(* invariant is kept by every kind of step:                                *)
(*   Shape      what the fields hold, and what a request carries where;    *)
(*   Bound      ids and secrets are bounded with the events;               *)
(*   IssueInv   secrets are in the hands of the account they were drawn    *)
(*              for;                                                       *)
(*   LinkInv    a link about to be stored is nowhere else, and links and   *)
(*              codes do not mix;                                          *)
(*   StrandInv  the code an unverified account waits for is on its way.    *)
(***************************************************************************)
EXTENDS Registration, FiniteSetTheorems, TLAPS

(***************************************************************************)
(* The ways a step changes requests.                                       *)
(***************************************************************************)
AnyRequest == [op : Ops, step : Steps, email : Emails \cup {None}, id : Nat \cup {None}, secret : Nat \cup {None}]
Others(r) == requests' \in [Requests -> AnyRequest] /\ \A q \in Requests \ {r} : requests'[q] = requests[q]

\* The request is answered, or goes on at another step with the id and the secret it needs there.
Ends(r) == requests'[r].step = "idle" /\ requests'[r].op = "register" /\ requests'[r].id = None /\ requests'[r].secret = None
Moves(r, step, id, secret) ==
  /\ requests'[r].step = step /\ requests'[r].id = id /\ requests'[r].secret = secret
  /\ requests'[r].op = requests[r].op /\ requests'[r].email = requests[r].email

\* What the fields may hold, given how many ids and secrets were drawn.
Request(ids, secrets) ==
  [op : Ops, step : Steps, email : Emails \cup {None}, id : 1..ids \cup {None}, secret : 1..secrets \cup {None}]

LEMMA DoneEffect ==
  ASSUME NEW ids \in Nat, NEW secrets \in Nat, requests \in [Requests -> Request(ids, secrets)], NEW r \in Requests, Done(r)
  PROVE  Ends(r) /\ Others(r)
BY DEF Done, Idle, Request, AnyRequest, Ops, Steps, Ends, Others

LEMMA GotoEffect ==
  ASSUME NEW ids \in Nat, NEW secrets \in Nat, requests \in [Requests -> Request(ids, secrets)], NEW r \in Requests,
         NEW step \in Steps, NEW id \in 1..ids \cup {None}, NEW secret \in 1..secrets \cup {None},
         Goto(r, step, id, secret)
  PROVE  Moves(r, step, id, secret) /\ Others(r)
<1>0. requests \in [Requests -> AnyRequest] /\ id \in Nat \cup {None} /\ secret \in Nat \cup {None}
  <2>1. ASSUME NEW q \in Request(ids, secrets) PROVE q \in AnyRequest
    BY <2>1 DEF Request, AnyRequest
  <2> QED
    BY <2>1
<1>1. requests' \in [Requests -> AnyRequest]
  BY <1>0 DEF Goto, AnyRequest
<1>2. Moves(r, step, id, secret) /\ \A q \in Requests \ {r} : requests'[q] = requests[q]
  BY DEF Goto, Request, Moves
<1> QED
  BY <1>1, <1>2 DEF Others

(***************************************************************************)
(* What each kind of step can come to.                                     *)
(***************************************************************************)
Row(secrets) == [email : Emails, code : 1..secrets \cup {None}, link : 1..secrets \cup {None}]

OnlyRow(i) == /\ DOMAIN users' = DOMAIN users /\ \A j \in DOMAIN users \ {i} : users'[j] = users[j]
              /\ users'[i] \in Row(lastSecret)

Removed(i) == /\ DOMAIN users' = DOMAIN users \ {i} /\ \A j \in DOMAIN users \ {i} : users'[j] = users[j]
              /\ verified' = verified \ {i}

\* A read: answered, or the next step with what was found.
Reads(r) ==
  /\ requests[r].step = "read" /\ UNCHANGED <<tables, mailbox, lastSecret, past, events>>
  /\ \/ requests[r].op = "register" /\ Moves(r, "create", None, None)
     \/ requests[r].op = "register" /\ \E i \in DOMAIN users \ verified : Moves(r, "delete", i, None)
     \/ /\ requests[r].op = "verify"
        /\ \E i \in DOMAIN users : users[i].code = requests[r].secret /\ Moves(r, "store", i, requests[r].secret)
     \/ /\ requests[r].op = "reset"
        /\ \E i \in DOMAIN users : users[i].link = requests[r].secret /\ Moves(r, "store", i, requests[r].secret)
     \/ requests[r].op = "token" /\ \E i \in DOMAIN users : Moves(r, "store", i, None)
     \/ requests[r].op = "profile" /\ Moves(r, "store", requests[r].id, None)

Answers(r) == requests[r].step # "mail" /\ Ends(r) /\ UNCHANGED <<tables, mailbox, lastSecret, past, events>>

Deletes(r) == /\ In(r, "register", "delete") /\ Moves(r, "create", None, None)
              /\ \E i \in DOMAIN users : i = requests[r].id /\ Removed(i)
              /\ UNCHANGED <<lastId, mailbox, lastSecret, past, events>>

Creates(r) ==
  LET id == lastId + 1
      code == lastSecret + 1 IN
  /\ In(r, "register", "create") /\ Moves(r, "mail", id, code)
  /\ \A j \in DOMAIN users : users[j].email # requests[r].email
  /\ DOMAIN users' = DOMAIN users \cup {id} /\ \A j \in DOMAIN users \ {id} : users'[j] = users[j]
  /\ users'[id] \in Row(code) /\ users'[id].email = requests[r].email /\ users'[id].code = code /\ users'[id].link = None
  /\ lastId' = id /\ lastSecret' = code /\ issued' = issued \cup {<<id, code>>}
  /\ UNCHANGED <<verified, mailbox, lost, used, events>>

Draws(r) ==
  LET secret == lastSecret + 1 IN
  /\ requests[r].op \in {"resend", "forgot"} /\ requests[r].step = "read"
  /\ \E i \in DOMAIN users : /\ users[i].email = requests[r].email
                             /\ requests[r].op = "resend" => i \notin verified
                             /\ Moves(r, "store", i, secret)
                             /\ issued' = issued \cup {<<i, secret>>}
  /\ lastSecret' = secret
  /\ UNCHANGED <<tables, mailbox, lost, used, events>>

Stores(r) ==
  /\ requests[r].op \in {"resend", "forgot"} /\ requests[r].step = "store"
  /\ Moves(r, "mail", requests[r].id, requests[r].secret)
  /\ \E i \in DOMAIN users :
       /\ i = requests[r].id /\ OnlyRow(i) /\ users'[i].email = users[i].email
       /\ \/ /\ requests[r].op = "resend"
             /\ users'[i].code = requests[r].secret /\ users'[i].link = users[i].link
          \/ /\ requests[r].op = "forgot"
             /\ users'[i].code = users[i].code /\ users'[i].link = requests[r].secret
  /\ UNCHANGED <<lastId, verified, mailbox, lastSecret, past, events>>

Sends(r) ==
  /\ requests[r].step = "mail" /\ Ends(r)
  /\ \/ /\ mailbox' = [mailbox EXCEPT ![requests[r].email] = @ \cup {requests[r].secret}]
        /\ UNCHANGED lost
     \/ lost' = lost \cup {requests[r].secret} /\ UNCHANGED mailbox
  /\ UNCHANGED <<tables, lastSecret, issued, used, events>>

\* A secret takes effect, if the account is still there.
Uses(r) ==
  /\ requests[r].step = "store" /\ Ends(r)
  /\ \/ /\ UNCHANGED <<verified, used>>
        /\ DOMAIN users' = DOMAIN users /\ \A j \in DOMAIN users : users'[j] = users[j]
     \/ \E i \in DOMAIN users :
          /\ i = requests[r].id /\ OnlyRow(i) /\ users'[i].email = users[i].email
          /\ used' = used \cup {<<i, requests[r].secret>>}
          /\ \/ /\ requests[r].op = "verify" /\ verified' = verified \cup {i}
                /\ users'[i].code = None /\ users'[i].link = users[i].link
             \/ /\ requests[r].op = "reset" /\ UNCHANGED verified
                /\ users'[i].code = users[i].code /\ users'[i].link = None
  /\ UNCHANGED <<lastId, mailbox, lastSecret, lost, issued, events>>

\* An account is verified by a token, if it is still there.
Vouches(r) ==
  /\ In(r, "token", "store") /\ Ends(r)
  /\ \/ /\ UNCHANGED verified
        /\ DOMAIN users' = DOMAIN users /\ \A j \in DOMAIN users : users'[j] = users[j]
     \/ \E i \in DOMAIN users :
          /\ OnlyRow(i) /\ users'[i].email = users[i].email
          /\ verified' = verified \cup {i}
          /\ users'[i].code = None /\ users'[i].link = users[i].link
  /\ UNCHANGED <<lastId, mailbox, lastSecret, past, events>>

Readdresses(r) ==
  /\ In(r, "profile", "store") /\ Ends(r)
  /\ \/ DOMAIN users' = DOMAIN users /\ \A j \in DOMAIN users : users'[j] = users[j]
     \/ \E i \in DOMAIN users :
          /\ i = requests[r].id /\ OnlyRow(i)
          /\ \A j \in DOMAIN users \ {i} : users[j].email # requests[r].email
          /\ users'[i].email = requests[r].email
          /\ users'[i].code = users[i].code /\ users'[i].link = users[i].link
  /\ UNCHANGED <<lastId, verified, mailbox, lastSecret, past, events>>

(***************************************************************************)
(* The shape of the state.                                                 *)
(***************************************************************************)
\* What a request carries at the step it is at.
Carries(r) ==
  LET q == requests[r] IN
  /\ q.step # "idle" => q.email \in Emails
  /\ q.step \in {"delete", "store", "mail"} \/ q.op = "profile" => q.id \in 1..lastId
  /\ q.step # "idle" /\ q.op \in {"verify", "reset"} => q.secret \in Drawn
  /\ q.step = "store" /\ q.op \in {"resend", "forgot"} => q.secret \in Drawn
  /\ q.step = "mail" => q.secret \in Drawn

Shape ==
  /\ lastId \in Nat /\ lastSecret \in Nat /\ events \in 0..MaxEvents
  /\ DOMAIN users \subseteq 1..lastId /\ \A i \in DOMAIN users : users[i] \in Row(lastSecret)
  /\ \A i, j \in DOMAIN users : users[i].email = users[j].email => i = j
  /\ verified \subseteq DOMAIN users
  /\ requests \in [Requests -> Request(lastId, lastSecret)]
  /\ \A r \in Requests : Carries(r)
  /\ mailbox \in [Emails -> SUBSET Drawn] /\ lost \subseteq Drawn
  /\ issued \subseteq (1..lastId) \X Drawn /\ used \subseteq (1..lastId) \X Drawn

LEMMA HandleOutcome ==
  ASSUME Shape, NEW r \in Requests, Handle(r)
  PROVE  /\ Others(r)
         /\ requests[r].step # "idle"
         /\ \/ Answers(r) \/ Reads(r) \/ Deletes(r) \/ Creates(r) \/ Draws(r) \/ Stores(r) \/ Sends(r)
            \/ Uses(r) \/ Vouches(r) \/ Readdresses(r)
<1>0. /\ requests \in [Requests -> Request(lastId, lastSecret)] /\ Carries(r) /\ DOMAIN users \subseteq 1..lastId
      /\ lastId \in Nat /\ lastSecret \in Nat
  BY DEF Shape
<1>1. Done(r) => Ends(r) /\ Others(r)
  BY <1>0, DoneEffect
<1>2. ASSUME NEW step \in Steps, NEW i \in 1..lastId \cup {None}, NEW s \in 1..lastSecret \cup {None}, Goto(r, step, i, s)
      PROVE  Moves(r, step, i, s) /\ Others(r)
  BY <1>0, <1>2, GotoEffect
<1>3. ASSUME Answer(r), requests[r].step # "mail" PROVE Answers(r) /\ Others(r)
  BY <1>1, <1>3 DEF Answer, Answers
<1>4. CASE RegisterRead(r)
  <2>1. /\ requests[r].op = "register" /\ requests[r].step = "read"
        /\ UNCHANGED <<tables, mailbox, lastSecret, past, events>>
    BY <1>4 DEF RegisterRead, In
  <2>2. CASE Done(r)
    BY <1>1, <2>1, <2>2 DEF Answers
  <2>3. CASE Goto(r, "create", None, None)
    BY <1>2, <2>1, <2>3 DEF Reads, Steps
  <2>4. CASE \E i \in DOMAIN users \ verified : Goto(r, "delete", i, None)
    BY <1>0, <1>2, <2>1, <2>4 DEF Reads, Steps
  <2> QED
    BY <1>4, <2>2, <2>3, <2>4 DEF RegisterRead, ByEmail
<1>5. CASE RegisterDelete(r)
  <2>1. In(r, "register", "delete")
    BY <1>5 DEF RegisterDelete
  <2>2. CASE Answer(r)
    BY <1>3, <2>1, <2>2 DEF In
  <2>3. CASE ~Answer(r)
    <3>1. /\ requests[r].id \in DOMAIN users /\ users' = Without(requests[r].id)
          /\ verified' = verified \ {requests[r].id} /\ Goto(r, "create", None, None)
          /\ UNCHANGED <<lastId, mailbox, lastSecret, past, events>>
      BY <1>5, <2>3 DEF RegisterDelete, Updated
    <3>2. Moves(r, "create", None, None) /\ Others(r)
      BY <1>2, <3>1 DEF Steps
    <3> QED
      BY <2>1, <3>1, <3>2 DEF Deletes, Removed, Without, In
  <2> QED
    BY <2>2, <2>3
<1>6. CASE RegisterCreate(r)
  <2> DEFINE id == lastId + 1
             code == lastSecret + 1
  <2>1. In(r, "register", "create")
    BY <1>6 DEF RegisterCreate
  <2>2. CASE Answer(r)
    BY <1>3, <2>1, <2>2 DEF In
  <2>3. CASE ~Answer(r)
    <3>1. /\ ByEmail(requests[r].email) = {}
          /\ users' = [i \in DOMAIN users \cup {id} |-> IF i = id THEN NewRow(requests[r].email, code) ELSE users[i]]
          /\ lastId' = id /\ lastSecret' = code /\ issued' = issued \cup {<<id, code>>}
          /\ Goto(r, "mail", id, code) /\ UNCHANGED <<verified, mailbox, lost, used, events>>
      BY <1>6, <2>3 DEF RegisterCreate
    <3>2. Moves(r, "mail", id, code) /\ Others(r)
      <4>1. requests \in [Requests -> Request(id, code)] /\ id \in 1..id /\ code \in 1..code
        BY <1>0 DEF Shape, Request
      <4> QED
        BY <3>1, <4>1, GotoEffect DEF Steps
    <3>3. \A j \in DOMAIN users : users[j].email # requests[r].email
      BY <3>1 DEF ByEmail
    <3>4. users'[id] \in Row(code)
      BY <1>0, <2>1, <3>1 DEF NewRow, Row, Carries, In
    <3> QED
      BY <2>1, <3>1, <3>2, <3>3, <3>4 DEF Creates, NewRow, In
  <2> QED
    BY <2>2, <2>3
<1>7. CASE ResendRead(r) \/ ForgotRead(r)
  <2> DEFINE secret == lastSecret + 1
  <2>1. requests[r].op \in {"resend", "forgot"} /\ requests[r].step = "read"
    BY <1>7 DEF ResendRead, ForgotRead, Draw, In
  <2>2. CASE Answer(r)
    BY <1>3, <2>1, <2>2
  <2>3. CASE ~Answer(r)
    <3>1. PICK i \in DOMAIN users :
            /\ users[i].email = requests[r].email /\ (requests[r].op = "resend" => i \notin verified)
            /\ Goto(r, "store", i, secret) /\ lastSecret' = secret
            /\ issued' = issued \cup {<<i, secret>>} /\ UNCHANGED <<tables, mailbox, lost, used, events>>
      BY <1>7, <2>3 DEF ResendRead, ForgotRead, Draw, In, ByEmail
    <3>2. Moves(r, "store", i, secret) /\ Others(r)
      <4>1. /\ requests \in [Requests -> Request(lastId, secret)] /\ i \in 1..lastId /\ secret \in 1..secret
            /\ secret \in Nat /\ lastId \in Nat
        BY <1>0 DEF Shape, Request
      <4> QED
        BY <3>1, <4>1, GotoEffect DEF Steps
    <3> QED
      BY <2>1, <3>1, <3>2 DEF Draws
  <2> QED
    BY <2>2, <2>3
<1>8. CASE ResendStore(r) \/ ForgotStore(r)
  <2>1. requests[r].op \in {"resend", "forgot"} /\ requests[r].step = "store"
    BY <1>8 DEF ResendStore, ForgotStore, StoreDrawn, In
  <2>2. CASE Answer(r)
    BY <1>3, <2>1, <2>2
  <2>3. CASE ~Answer(r)
    <3>0. requests[r].id \in DOMAIN users
      BY <1>8, <2>3 DEF ResendStore, ForgotStore, StoreDrawn, Updated
    <3> PICK i \in DOMAIN users : i = requests[r].id
      BY <3>0
    <3>1. /\ Goto(r, "mail", i, requests[r].secret) /\ UNCHANGED <<lastId, verified, mailbox, lastSecret, past, events>>
          /\ DOMAIN users' = DOMAIN users /\ \A j \in DOMAIN users \ {i} : users'[j] = users[j]
          /\ \/ requests[r].op = "resend" /\ users'[i] = [users[i] EXCEPT !.code = requests[r].secret]
             \/ requests[r].op = "forgot" /\ users'[i] = [users[i] EXCEPT !.link = requests[r].secret]
      BY <1>8, <2>3 DEF ResendStore, ForgotStore, StoreDrawn, Updated, In
    <3>2. users[i] \in Row(lastSecret)
      BY DEF Shape
    <3>3. Moves(r, "mail", i, requests[r].secret) /\ Others(r)
      BY <1>0, <1>2, <2>1, <3>1 DEF Carries, Drawn, Steps
    <3>4. OnlyRow(i)
      BY <1>0, <2>1, <3>1, <3>2 DEF Carries, Drawn, Row, OnlyRow
    <3> QED
      BY <2>1, <3>1, <3>2, <3>3, <3>4 DEF Stores, Row
  <2> QED
    BY <2>2, <2>3
<1>9. CASE SendMail(r)
  BY <1>1, <1>9 DEF SendMail, Deliver, Sends
<1>10. CASE VerifyRead(r) \/ ResetRead(r)
  <2>1. /\ requests[r].op \in {"verify", "reset"} /\ requests[r].step = "read"
        /\ UNCHANGED <<tables, mailbox, lastSecret, past, events>>
    BY <1>10 DEF VerifyRead, ResetRead, Compare, In
  <2>2. CASE Done(r)
    BY <1>1, <2>1, <2>2 DEF Answers
  <2>3. CASE ~Done(r)
    <3>1. PICK i \in DOMAIN users :
            /\ Goto(r, "store", i, requests[r].secret)
            /\ \/ requests[r].op = "verify" /\ users[i].code = requests[r].secret
               \/ requests[r].op = "reset" /\ users[i].link = requests[r].secret
      BY <1>10, <2>3 DEF VerifyRead, ResetRead, Compare, In, ByEmail
    <3>2. Moves(r, "store", i, requests[r].secret) /\ Others(r)
      BY <1>0, <1>2, <2>1, <3>1 DEF Carries, Drawn, Steps
    <3> QED
      BY <2>1, <3>1, <3>2 DEF Reads
  <2> QED
    BY <2>2, <2>3
<1>11. CASE VerifyStore(r) \/ ResetStore(r)
  <2>1. /\ requests[r].step = "store" /\ Ends(r) /\ Others(r)
        /\ UNCHANGED <<lastId, mailbox, lastSecret, lost, issued, events>>
    BY <1>1, <1>11 DEF VerifyStore, ResetStore, In
  <2>2. CASE requests[r].id \notin DOMAIN users
    <3>1. Updated(r) = {}
      BY <2>2 DEF Updated
    <3>2. DOMAIN users' = DOMAIN users /\ \A j \in DOMAIN users : users'[j] = users[j]
      BY <1>11, <3>1 DEF VerifyStore, ResetStore, MarkVerified
    <3>3. UNCHANGED <<verified, used>>
      BY <1>11, <3>1 DEF VerifyStore, ResetStore, MarkVerified
    <3> QED
      BY <2>1, <3>2, <3>3 DEF Uses
  <2>3. CASE requests[r].id \in DOMAIN users
    <3> PICK i \in DOMAIN users : i = requests[r].id
      BY <2>3
    <3>1. Updated(r) = {i}
      BY DEF Updated
    <3>2. users[i] \in Row(lastSecret)
      BY DEF Shape
    <3>3. used' = used \cup {<<i, requests[r].secret>>}
      BY <1>11, <3>1 DEF VerifyStore, ResetStore, MarkVerified
    <3>4. DOMAIN users' = DOMAIN users /\ \A j \in DOMAIN users \ {i} : users'[j] = users[j]
      BY <1>11, <3>1 DEF VerifyStore, ResetStore, MarkVerified
    <3>5. \/ /\ requests[r].op = "verify" /\ verified' = verified \cup {i}
             /\ users'[i] = [users[i] EXCEPT !.code = None]
          \/ /\ requests[r].op = "reset" /\ UNCHANGED verified
             /\ users'[i] = [users[i] EXCEPT !.link = None]
      BY <1>11, <3>1 DEF VerifyStore, ResetStore, MarkVerified, LinkSpent, In
    <3>6. OnlyRow(i)
      BY <3>2, <3>4, <3>5 DEF Row, OnlyRow
    <3> QED
      BY <2>1, <3>2, <3>3, <3>5, <3>6 DEF Uses, Row
  <2> QED
    BY <2>2, <2>3
<1>12. CASE ProfileRead(r)
  <2>1. /\ requests[r].op = "profile" /\ requests[r].step = "read"
        /\ UNCHANGED <<tables, mailbox, lastSecret, past, events>>
    BY <1>12 DEF ProfileRead, In
  <2>2. CASE Done(r)
    BY <1>1, <2>1, <2>2 DEF Answers
  <2>3. CASE ~Done(r)
    <3>1. Goto(r, "store", requests[r].id, None)
      BY <1>12, <2>3 DEF ProfileRead
    <3>2. Moves(r, "store", requests[r].id, None) /\ Others(r)
      BY <1>0, <1>2, <2>1, <3>1 DEF Carries, Steps
    <3> QED
      BY <2>1, <3>2 DEF Reads
  <2> QED
    BY <2>2, <2>3
<1>13. CASE ProfileStore(r)
  <2>1. /\ In(r, "profile", "store") /\ Ends(r) /\ Others(r)
        /\ UNCHANGED <<lastId, verified, mailbox, lastSecret, past, events>>
    BY <1>1, <1>13 DEF ProfileStore
  <2>2. CASE Taken(r) \/ requests[r].id \notin DOMAIN users
    <3>1. DOMAIN users' = DOMAIN users /\ \A j \in DOMAIN users : users'[j] = users[j]
      BY <1>13, <2>2 DEF ProfileStore, Updated
    <3> QED
      BY <2>1, <3>1 DEF Readdresses, In
  <2>3. CASE ~Taken(r) /\ requests[r].id \in DOMAIN users
    <3> PICK i \in DOMAIN users : i = requests[r].id
      BY <2>3
    <3>1. users[i] \in Row(lastSecret) /\ \A j \in DOMAIN users \ {i} : users[j].email # requests[r].email
      BY <2>3 DEF Shape, Taken, ByEmail
    <3>2. /\ DOMAIN users' = DOMAIN users /\ \A j \in DOMAIN users \ {i} : users'[j] = users[j]
          /\ users'[i] = [users[i] EXCEPT !.email = requests[r].email]
      BY <1>13, <2>3 DEF ProfileStore, Updated
    <3>3. OnlyRow(i)
      BY <1>0, <2>1, <3>1, <3>2 DEF Carries, In, Row, OnlyRow
    <3> QED
      BY <2>1, <3>1, <3>2, <3>3 DEF Readdresses, Row, In
  <2> QED
    BY <2>2, <2>3
<1>14. CASE TokenRead(r)
  <2>1. /\ requests[r].op = "token" /\ requests[r].step = "read"
        /\ UNCHANGED <<tables, mailbox, lastSecret, past, events>>
    BY <1>14 DEF TokenRead, In
  <2>2. CASE Done(r)
    BY <1>1, <2>1, <2>2 DEF Answers
  <2>3. CASE ~Done(r)
    <3>1. PICK i \in DOMAIN users : Goto(r, "store", i, None)
      BY <1>14, <2>3 DEF TokenRead, ByEmail
    <3>2. Moves(r, "store", i, None) /\ Others(r)
      BY <1>0, <1>2, <3>1 DEF Steps
    <3> QED
      BY <2>1, <3>2 DEF Reads
  <2> QED
    BY <2>2, <2>3
<1>15. CASE TokenStore(r)
  <2>1. /\ In(r, "token", "store") /\ Ends(r) /\ Others(r)
        /\ UNCHANGED <<lastId, mailbox, lastSecret, past, events>>
    BY <1>1, <1>15 DEF TokenStore
  <2>2. CASE requests[r].id \notin DOMAIN users
    <3>1. Updated(r) = {}
      BY <2>2 DEF Updated
    <3>2. UNCHANGED verified /\ DOMAIN users' = DOMAIN users /\ \A j \in DOMAIN users : users'[j] = users[j]
      BY <1>15, <3>1 DEF TokenStore, MarkVerified
    <3> QED
      BY <2>1, <3>2 DEF Vouches, In
  <2>3. CASE requests[r].id \in DOMAIN users
    <3> PICK i \in DOMAIN users : i = requests[r].id
      BY <2>3
    <3>1. Updated(r) = {i}
      BY DEF Updated
    <3>2. users[i] \in Row(lastSecret)
      BY DEF Shape
    <3>3. /\ DOMAIN users' = DOMAIN users /\ \A j \in DOMAIN users \ {i} : users'[j] = users[j]
          /\ users'[i] = [users[i] EXCEPT !.code = None] /\ verified' = verified \cup {i}
      BY <1>15, <3>1 DEF TokenStore, MarkVerified
    <3>4. OnlyRow(i)
      BY <3>2, <3>3 DEF Row, OnlyRow
    <3> QED
      BY <2>1, <3>2, <3>3, <3>4 DEF Vouches, Row, In
  <2> QED
    BY <2>2, <2>3
<1> QED
  BY <1>4, <1>5, <1>6, <1>7, <1>8, <1>9, <1>10, <1>11, <1>12, <1>13, <1>14, <1>15 DEF Handle

(***************************************************************************)
(* The steps that are not a handler's: a request arrives, an account is    *)
(* deleted, the server restarts.                                           *)
(***************************************************************************)
Asks(r) ==
  /\ requests[r].step = "idle" /\ requests'[r].step = "read" /\ requests'[r].email \in Emails
  /\ requests'[r] \in Request(lastId, lastSecret)
  /\ requests'[r].op \in {"verify", "reset"} => requests'[r].secret \in Drawn
  /\ requests'[r].op = "profile" => requests'[r].id \in verified \cap DOMAIN users
  /\ UNCHANGED <<tables, mailbox, lastSecret, past>>

Deleted(i) == Removed(i) /\ UNCHANGED <<lastId, requests, mailbox, lastSecret, past>>

Restarts ==
  /\ requests' \in [Requests -> AnyRequest] /\ \A r \in Requests : Ends(r) /\ requests'[r].email = None
  /\ lost' = lost \cup ({requests[r].secret : r \in Requests} \cap Drawn)
  /\ UNCHANGED <<tables, mailbox, lastSecret, issued, used>>

LEMMA ArriveOutcome ==
  ASSUME Shape, NEW r \in Requests, Arrive(r)
  PROVE  Others(r) /\ Asks(r) /\ Event
<1>0. /\ requests \in [Requests -> Request(lastId, lastSecret)] /\ DOMAIN users \subseteq 1..lastId
      /\ lastId \in Nat /\ lastSecret \in Nat
  BY DEF Shape
<1>1. ASSUME NEW op \in Ops, NEW e \in Emails, NEW i \in 1..lastId \cup {None}, NEW s \in Drawn \cup {None},
             Ask(r, op, e, i, s),
             op \in {"verify", "reset"} => s \in Drawn, op = "profile" => i \in verified \cap DOMAIN users
      PROVE  Others(r) /\ Asks(r) /\ Event
  <2>1. /\ requests[r] = Idle /\ Event /\ UNCHANGED <<tables, mailbox, lastSecret, past>>
        /\ requests' = [requests EXCEPT ![r] = [op |-> op, step |-> "read", email |-> e, id |-> i, secret |-> s]]
    BY <1>1 DEF Ask
  <2>2. requests'[r] = [op |-> op, step |-> "read", email |-> e, id |-> i, secret |-> s] /\ Others(r)
    BY <1>0, <2>1 DEF Others, Request, AnyRequest, Steps, Drawn
  <2>3. requests'[r] \in Request(lastId, lastSecret)
    BY <2>2 DEF Request, Steps, Drawn
  <2> QED
    BY <1>1, <2>1, <2>2, <2>3 DEF Asks, Idle
<1>2. \A s \in Mailed : s \in Drawn
  BY DEF Mailed, Shape
<1>3. CASE AskRegister(r)
  BY <1>1, <1>3 DEF AskRegister, Ops
<1>4. CASE AskVerify(r)
  BY <1>1, <1>2, <1>4 DEF AskVerify, Ops
<1>5. CASE AskResend(r)
  BY <1>1, <1>5 DEF AskResend, Ops
<1>6. CASE AskForgot(r)
  BY <1>1, <1>6 DEF AskForgot, Ops
<1>7. CASE AskReset(r)
  BY <1>1, <1>2, <1>7 DEF AskReset, Ops
<1>8. CASE AskProfile(r)
  BY <1>0, <1>1, <1>8 DEF AskProfile, Ops
<1>9. CASE AskToken(r)
  <2>1. \A i \in DOMAIN users : users[i].email \in Emails
    BY DEF Shape, Row
  <2> QED
    BY <1>1, <1>9, <2>1 DEF AskToken, Ops
<1> QED
  BY <1>3, <1>4, <1>5, <1>6, <1>7, <1>8, <1>9 DEF Arrive

LEMMA StepOutcome ==
  ASSUME Shape, Next
  PROVE  \/ \E r \in Requests : Others(r) /\ Asks(r) /\ Event
         \/ \E r \in Requests : /\ Others(r) /\ requests[r].step # "idle"
                                /\ \/ Answers(r) \/ Reads(r) \/ Deletes(r) \/ Creates(r) \/ Draws(r)
                                   \/ Stores(r) \/ Sends(r) \/ Uses(r) \/ Vouches(r) \/ Readdresses(r)
         \/ \E i \in DOMAIN users : Deleted(i) /\ Event
         \/ Restarts /\ Event
<1>1. CASE \E r \in Requests : Arrive(r)
  BY <1>1, ArriveOutcome
<1>2. CASE \E r \in Requests : Handle(r)
  BY <1>2, HandleOutcome
<1>3. CASE \E i \in DOMAIN users : DeleteUser(i)
  <2>1. PICK i \in DOMAIN users : DeleteUser(i)
    BY <1>3
  <2>2. Removed(i)
    BY <2>1 DEF DeleteUser, Removed, Without
  <2> QED
    BY <2>1, <2>2 DEF DeleteUser, Deleted
<1>4. CASE Crash
  <2>1. \A r \in Requests : Ends(r) /\ requests'[r].email = None
    BY <1>4 DEF Crash, Ends, Idle
  <2>2. requests' \in [Requests -> AnyRequest]
    BY <1>4 DEF Crash, Idle, AnyRequest, Ops, Steps
  <2> QED
    BY <1>4, <2>1, <2>2 DEF Crash, Restarts
<1> QED
  BY <1>1, <1>2, <1>3, <1>4 DEF Next

LEMMA ShapeInit == Init => Shape
<1> SUFFICES ASSUME Init PROVE Shape
  OBVIOUS
<1>1. requests \in [Requests -> Request(lastId, lastSecret)] /\ \A r \in Requests : Carries(r)
  BY DEF Init, Idle, Request, Ops, Steps, Carries
<1>2. DOMAIN users = {} /\ mailbox \in [Emails -> SUBSET Drawn]
  BY DEF Init, Drawn
<1> QED
  BY <1>1, <1>2, ConstantsAssumption DEF Init, Shape

\* The requests keep their shape when each of them does, however many were drawn.
LEMMA RequestsKept ==
  ASSUME Shape, lastId' \in Nat, lastSecret' \in Nat, lastId <= lastId', lastSecret <= lastSecret',
         requests' \in [Requests -> AnyRequest],
         \A q \in Requests : \/ requests'[q] = requests[q]
                             \/ /\ requests'[q].id \in 1..lastId' \cup {None}
                                /\ requests'[q].secret \in 1..lastSecret' \cup {None}
                                /\ Carries(q)'
  PROVE  requests' \in [Requests -> Request(lastId', lastSecret')] /\ \A q \in Requests : Carries(q)'
<1>0. /\ lastId \in Nat /\ lastSecret \in Nat
      /\ requests \in [Requests -> Request(lastId, lastSecret)]
      /\ \A q \in Requests : Carries(q)
  BY DEF Shape
<1>1. ASSUME NEW q \in Requests PROVE requests'[q] \in Request(lastId', lastSecret') /\ Carries(q)'
  <2>1. CASE requests'[q] = requests[q]
    <3>1. requests[q] \in Request(lastId, lastSecret)
      BY <1>0
    <3>2. requests[q] \in Request(lastId', lastSecret')
      BY <1>0, <3>1 DEF Request
    <3>3. Carries(q)'
      BY <1>0, <2>1 DEF Carries, Drawn
    <3> QED
      BY <2>1, <3>2, <3>3
  <2>2. CASE /\ requests'[q].id \in 1..lastId' \cup {None}
             /\ requests'[q].secret \in 1..lastSecret' \cup {None}
             /\ Carries(q)'
    <3>1. requests'[q] \in AnyRequest
      OBVIOUS
    <3> QED
      BY <2>2, <3>1 DEF Request, AnyRequest
  <2> QED
    BY <2>1, <2>2
<1> QED
  BY <1>1

\* The mails, the history and the rows of a step that draws nothing.
LEMMA ShapeKept ==
  ASSUME Shape, UNCHANGED <<lastId, lastSecret>>, events' \in 0..MaxEvents,
         requests' \in [Requests -> Request(lastId', lastSecret')], \A q \in Requests : Carries(q)',
         DOMAIN users' \subseteq DOMAIN users, \A i \in DOMAIN users' : users'[i] \in Row(lastSecret),
         \A i, j \in DOMAIN users' : users'[i].email = users'[j].email => i = j,
         verified' \subseteq DOMAIN users',
         mailbox' \in [Emails -> SUBSET Drawn], lost' \subseteq Drawn,
         UNCHANGED issued, used' \subseteq (1..lastId) \X Drawn
  PROVE  Shape'
BY DEF Shape, Drawn

LEMMA ShapeStep == Shape /\ [Next]_vars => Shape'
<1> SUFFICES ASSUME Shape, [Next]_vars PROVE Shape'
  OBVIOUS
<1>0. /\ lastId \in Nat /\ lastSecret \in Nat /\ events \in 0..MaxEvents /\ MaxEvents \in Nat
      /\ DOMAIN users \subseteq 1..lastId /\ \A i \in DOMAIN users : users[i] \in Row(lastSecret)
      /\ \A i, j \in DOMAIN users : users[i].email = users[j].email => i = j
      /\ verified \subseteq DOMAIN users
      /\ requests \in [Requests -> Request(lastId, lastSecret)]
      /\ \A r \in Requests : Carries(r)
      /\ mailbox \in [Emails -> SUBSET Drawn] /\ lost \subseteq Drawn
      /\ issued \subseteq (1..lastId) \X Drawn /\ used \subseteq (1..lastId) \X Drawn
  BY ConstantsAssumption DEF Shape
<1> DEFINE Same == /\ UNCHANGED <<lastId, lastSecret>> /\ events' \in 0..MaxEvents
                   /\ requests' \in [Requests -> AnyRequest]
           Rows == /\ DOMAIN users' \subseteq DOMAIN users /\ \A i \in DOMAIN users' : users'[i] \in Row(lastSecret)
                   /\ \A i, j \in DOMAIN users' : users'[i].email = users'[j].email => i = j
                   /\ verified' \subseteq DOMAIN users'
           Rest == /\ mailbox' \in [Emails -> SUBSET Drawn] /\ lost' \subseteq Drawn
                   /\ UNCHANGED issued /\ used' \subseteq (1..lastId) \X Drawn
<1>1. Event => events' \in 0..MaxEvents
  BY <1>0 DEF Event
<1>2. ASSUME Same, Rows, Rest,
             \A q \in Requests : \/ requests'[q] = requests[q]
                                 \/ /\ requests'[q].id \in 1..lastId \cup {None}
                                    /\ requests'[q].secret \in Drawn \cup {None} /\ Carries(q)'
      PROVE  Shape'
  <2>1. requests' \in [Requests -> Request(lastId', lastSecret')] /\ \A q \in Requests : Carries(q)'
    BY <1>0, <1>2, RequestsKept DEF Drawn
  <2> QED
    BY <1>2, <2>1, ShapeKept
<1>3. UNCHANGED users /\ UNCHANGED verified => Rows
  BY <1>0
<1>4. UNCHANGED <<mailbox, lost, issued, used>> => Rest
  BY <1>0
<1>5. ASSUME NEW r \in Requests, Others(r), Asks(r), Event
      PROVE  Shape'
  <2>1. Same /\ Rows /\ Rest
    BY <1>1, <1>3, <1>4, <1>5 DEF Asks, Others, tables, past
  <2>2. /\ requests'[r].id \in 1..lastId \cup {None} /\ requests'[r].secret \in Drawn \cup {None}
        /\ Carries(r)'
    BY <1>0, <1>5 DEF Asks, Request, Carries, Drawn, tables
  <2> QED
    BY <1>2, <1>5, <2>1, <2>2 DEF Others
<1>6. ASSUME NEW r \in Requests, Others(r), requests[r].step # "idle"
      PROVE  /\ Answers(r) => Shape'
             /\ Reads(r) => Shape'
             /\ Deletes(r) => Shape'
             /\ Creates(r) => Shape'
             /\ Draws(r) => Shape'
             /\ Stores(r) => Shape'
             /\ Sends(r) => Shape'
             /\ Uses(r) => Shape'
             /\ Vouches(r) => Shape'
             /\ Readdresses(r) => Shape'
  <2>0. /\ requests[r] \in Request(lastId, lastSecret) /\ Carries(r) /\ requests' \in [Requests -> AnyRequest]
        /\ \A q \in Requests \ {r} : requests'[q] = requests[q]
    BY <1>0, <1>6 DEF Others
  <2>1. Ends(r) => /\ requests'[r].id \in 1..lastId \cup {None} /\ requests'[r].secret \in Drawn \cup {None}
                   /\ Carries(r)'
    BY DEF Ends, Carries
  <2>2. ASSUME Same, Rows, Rest,
               requests'[r].id \in 1..lastId \cup {None} /\ requests'[r].secret \in Drawn \cup {None} /\ Carries(r)'
        PROVE  Shape'
    BY <1>2, <2>0, <2>2
  <2>3. ASSUME Answers(r) PROVE Shape'
    BY <1>0, <1>3, <1>4, <2>0, <2>1, <2>2, <2>3 DEF Answers, tables, past
  <2>4. ASSUME Reads(r) PROVE Shape'
    <3>1. Same /\ Rows /\ Rest
      BY <1>0, <1>3, <1>4, <2>0, <2>4 DEF Reads, tables, past
    <3>2. requests'[r].id \in 1..lastId \cup {None} /\ requests'[r].secret \in Drawn \cup {None}
      BY <1>0, <1>6, <2>0, <2>4 DEF Reads, Moves, Carries
    <3>3. Carries(r)'
      BY <1>0, <1>6, <2>0, <2>4, <3>1 DEF Reads, Moves, Carries, Drawn
    <3> QED
      BY <2>2, <3>1, <3>2, <3>3
  <2>5. ASSUME Deletes(r) PROVE Shape'
    <3>1. Same /\ Rest
      BY <1>0, <1>4, <2>0, <2>5 DEF Deletes, past
    <3>2. Rows
      BY <1>0, <2>5 DEF Deletes, Removed
    <3>3. /\ requests'[r].id \in 1..lastId \cup {None} /\ requests'[r].secret \in Drawn \cup {None} /\ Carries(r)'
      BY <1>0, <1>6, <2>0, <2>5 DEF Deletes, Moves, Carries, In
    <3> QED
      BY <2>2, <3>1, <3>2, <3>3
  <2>6. ASSUME Creates(r) PROVE Shape'
    <3>1. /\ lastId' = lastId + 1 /\ lastSecret' = lastSecret + 1
          /\ \A n \in 1..lastSecret : n \in 1..(lastSecret + 1)
          /\ \A n \in 1..lastId : n \in 1..(lastId + 1)
      BY <1>0, <2>6 DEF Creates
    <3>2. requests'[r].id \in 1..lastId' \cup {None} /\ requests'[r].secret \in 1..lastSecret' \cup {None} /\ Carries(r)'
      BY <1>0, <1>6, <2>0, <2>6, <3>1 DEF Creates, Moves, Carries, Drawn, In
    <3>3. requests' \in [Requests -> Request(lastId', lastSecret')] /\ \A q \in Requests : Carries(q)'
      BY <1>0, <2>0, <3>1, <3>2, RequestsKept
    <3>4. /\ DOMAIN users' \subseteq 1..lastId' /\ verified' \subseteq DOMAIN users'
          /\ \A i, j \in DOMAIN users' : users'[i].email = users'[j].email => i = j
      BY <1>0, <2>6, <3>1 DEF Creates
    <3>5. \A i \in DOMAIN users' : users'[i] \in Row(lastSecret')
      <4>1. ASSUME NEW u \in Row(lastSecret) PROVE u \in Row(lastSecret')
        BY <3>1, <4>1 DEF Row
      <4> QED
        BY <1>0, <2>6, <3>1, <4>1 DEF Creates
    <3>6. mailbox' \in [Emails -> SUBSET Drawn'] /\ lost' \subseteq Drawn' /\ UNCHANGED events
      BY <1>0, <2>6, <3>1 DEF Creates, Drawn
    <3>7. issued' \subseteq (1..lastId') \X Drawn' /\ used' \subseteq (1..lastId') \X Drawn'
      BY <1>0, <2>6, <3>1 DEF Creates, Drawn
    <3> QED
      BY <1>0, <3>1, <3>3, <3>4, <3>5, <3>6, <3>7 DEF Shape
  <2>7. ASSUME Draws(r) PROVE Shape'
    <3>1. /\ lastId' = lastId /\ lastSecret' = lastSecret + 1
          /\ \A n \in 1..lastSecret : n \in 1..(lastSecret + 1)
      BY <1>0, <2>7 DEF Draws, tables
    <3>2. requests'[r].id \in 1..lastId' \cup {None} /\ requests'[r].secret \in 1..lastSecret' \cup {None} /\ Carries(r)'
      BY <1>0, <1>6, <2>0, <2>7, <3>1 DEF Draws, Moves, Carries, Drawn
    <3>3. requests' \in [Requests -> Request(lastId', lastSecret')] /\ \A q \in Requests : Carries(q)'
      BY <1>0, <2>0, <3>1, <3>2, RequestsKept
    <3>5. \A i \in DOMAIN users : users[i] \in Row(lastSecret')
      <4>1. ASSUME NEW u \in Row(lastSecret) PROVE u \in Row(lastSecret')
        BY <3>1, <4>1 DEF Row
      <4> QED
        BY <1>0, <4>1
    <3>6. mailbox' \in [Emails -> SUBSET Drawn'] /\ lost' \subseteq Drawn' /\ UNCHANGED <<tables, events>>
      BY <1>0, <2>7, <3>1 DEF Draws, Drawn
    <3>7. issued' \subseteq (1..lastId') \X Drawn' /\ used' \subseteq (1..lastId') \X Drawn'
      BY <1>0, <2>7, <3>1 DEF Draws, Drawn
    <3> QED
      BY <1>0, <3>1, <3>3, <3>5, <3>6, <3>7 DEF Shape, tables
  <2>8. ASSUME Stores(r) PROVE Shape'
    <3>1. Same /\ Rest
      BY <1>0, <1>4, <2>0, <2>8 DEF Stores, past
    <3>2. Rows
      BY <1>0, <2>8 DEF Stores, OnlyRow
    <3>3. /\ requests'[r].id \in 1..lastId \cup {None} /\ requests'[r].secret \in Drawn \cup {None} /\ Carries(r)'
      BY <1>0, <1>6, <2>0, <2>8 DEF Stores, Moves, Carries, Drawn
    <3> QED
      BY <2>2, <3>1, <3>2, <3>3
  <2>9. ASSUME Sends(r) PROVE Shape'
    <3>1. Same /\ Rows
      BY <1>0, <1>3, <2>0, <2>9 DEF Sends, tables
    <3>2. Rest
      BY <1>0, <2>0, <2>9 DEF Sends, Carries
    <3> QED
      BY <2>1, <2>2, <2>9, <3>1, <3>2 DEF Sends
  <2>10. ASSUME Uses(r) PROVE Shape'
    <3>1. Same
      BY <1>0, <2>0, <2>10 DEF Uses
    <3>2. Rows
      BY <1>0, <2>10 DEF Uses, OnlyRow
    <3>3. Rest
      BY <1>0, <2>0, <2>10 DEF Uses, Carries
    <3> QED
      BY <2>1, <2>2, <2>10, <3>1, <3>2, <3>3 DEF Uses
  <2>11. ASSUME Readdresses(r) PROVE Shape'
    <3>1. Same /\ Rest
      BY <1>0, <1>4, <2>0, <2>11 DEF Readdresses, past
    <3>2. Rows
      BY <1>0, <2>11 DEF Readdresses, OnlyRow
    <3> QED
      BY <2>1, <2>2, <2>11, <3>1, <3>2 DEF Readdresses
  <2>12. ASSUME Vouches(r) PROVE Shape'
    <3>1. Same /\ Rest
      BY <1>0, <1>4, <2>0, <2>12 DEF Vouches, past
    <3>2. Rows
      BY <1>0, <2>12 DEF Vouches, OnlyRow
    <3> QED
      BY <2>1, <2>2, <2>12, <3>1, <3>2 DEF Vouches
  <2> QED
    BY <2>3, <2>4, <2>5, <2>6, <2>7, <2>8, <2>9, <2>10, <2>11, <2>12
<1>7. ASSUME NEW i \in DOMAIN users, Deleted(i), Event PROVE Shape'
  <2>1. requests' \in [Requests -> AnyRequest]
    <3>1. ASSUME NEW q \in Request(lastId, lastSecret) PROVE q \in AnyRequest
      BY <1>0, <3>1 DEF Request, AnyRequest
    <3> QED
      BY <1>0, <1>7, <3>1 DEF Deleted
  <2>2. Same /\ Rest
    BY <1>1, <1>4, <1>7, <2>1 DEF Deleted, past
  <2>3. Rows
    BY <1>0, <1>7 DEF Deleted, Removed
  <2> QED
    BY <1>2, <1>7, <2>2, <2>3 DEF Deleted
<1>8. ASSUME Restarts, Event PROVE Shape'
  <2>1. Same /\ Rows /\ Rest
    BY <1>0, <1>1, <1>3, <1>8 DEF Restarts, tables
  <2>2. \A q \in Requests : requests'[q].id = None /\ requests'[q].secret = None /\ Carries(q)'
    BY <1>8 DEF Restarts, Ends, Carries
  <2> QED
    BY <1>2, <2>1, <2>2
<1>9. CASE UNCHANGED vars
  BY <1>9 DEF vars, tables, past, Shape, Drawn, Carries
<1> QED
  BY <1>5, <1>6, <1>7, <1>8, <1>9, StepOutcome

(***************************************************************************)
(* Every id and every secret is drawn by a request of its own: the bound   *)
(* on events bounds them.                                                  *)
(***************************************************************************)
Drawing(q) == q.op \in {"register", "resend", "forgot"} /\ q.step \in {"read", "delete", "create"}
DrawingRequests == {r \in Requests : Drawing(requests[r])}
Bound == lastId <= lastSecret /\ lastSecret + Cardinality(DrawingRequests) <= events

LEMMA BoundInit == Init => Bound
<1> SUFFICES ASSUME Init PROVE Bound
  OBVIOUS
<1>1. DrawingRequests = {}
  BY DEF Init, Idle, DrawingRequests, Drawing
<1> QED
  BY <1>1, FS_EmptySet DEF Init, Bound

\* How many requests may still draw, by what a step does to one of them.
LEMMA DrawingCount ==
  ASSUME NEW r \in Requests, \A q \in Requests \ {r} : requests'[q] = requests[q]
  PROVE  LET before == Cardinality(DrawingRequests)
             after == Cardinality(DrawingRequests') IN
         /\ before \in Nat /\ after \in Nat /\ after <= before + 1
         /\ (Drawing(requests'[r]) => Drawing(requests[r])) => after <= before
         /\ ~Drawing(requests'[r]) => after <= before
         /\ ~Drawing(requests'[r]) /\ Drawing(requests[r]) => after = before - 1
<1> DEFINE before == DrawingRequests
           after == DrawingRequests'
<1>0. IsFiniteSet(before) /\ IsFiniteSet(after)
  BY ConstantsAssumption, FS_Subset DEF DrawingRequests
<1>1. after \ {r} = before \ {r}
  BY DEF DrawingRequests, Drawing
<1>2. Cardinality(before) \in Nat /\ Cardinality(after) \in Nat
  BY <1>0, FS_CardinalityType
<1>3. r \in before <=> Drawing(requests[r])
  BY DEF DrawingRequests
<1>4. r \in after <=> Drawing(requests'[r])
  BY DEF DrawingRequests, Drawing
<1>5. CASE r \in before /\ r \in after
  <2>1. before = after
    BY <1>1, <1>5
  <2> QED
    BY <1>2, <1>3, <1>4, <1>5, <2>1
<1>6. CASE r \in before /\ r \notin after
  <2>1. after = before \ {r}
    BY <1>1, <1>6
  <2>2. Cardinality(after) = Cardinality(before) - 1
    BY <1>0, <1>6, <2>1, FS_RemoveElement
  <2> QED
    BY <1>2, <1>3, <1>4, <1>6, <2>2
<1>7. CASE r \notin before /\ r \in after
  <2>1. after = before \cup {r}
    BY <1>1, <1>7
  <2>2. Cardinality(after) = Cardinality(before) + 1
    BY <1>0, <1>7, <2>1, FS_AddElement
  <2> QED
    BY <1>2, <1>3, <1>4, <1>7, <2>2
<1>8. CASE r \notin before /\ r \notin after
  <2>1. before = after
    BY <1>1, <1>8
  <2> QED
    BY <1>2, <1>3, <1>4, <1>8, <2>1
<1> QED
  BY <1>5, <1>6, <1>7, <1>8

LEMMA BoundStep == Shape /\ Bound /\ [Next]_vars => Bound'
<1> SUFFICES ASSUME Shape, Bound, [Next]_vars PROVE Bound'
  OBVIOUS
<1> DEFINE before == Cardinality(DrawingRequests)
           after == Cardinality(DrawingRequests')
<1>0. /\ lastId \in Nat /\ lastSecret \in Nat /\ events \in Nat
      /\ lastId <= lastSecret /\ lastSecret + before <= events
  BY ConstantsAssumption DEF Shape, Bound
<1>1. ASSUME NEW r \in Requests, Others(r)
      PROVE  /\ before \in Nat /\ after \in Nat /\ after <= before + 1
             /\ (Drawing(requests'[r]) => Drawing(requests[r])) => after <= before
             /\ ~Drawing(requests'[r]) => after <= before
             /\ ~Drawing(requests'[r]) /\ Drawing(requests[r]) => after = before - 1
  BY <1>1, DrawingCount DEF Others
<1>2. ASSUME NEW r \in Requests, Others(r), Asks(r), Event PROVE Bound'
  BY <1>0, <1>1, <1>2 DEF Asks, Event, Bound, tables
<1>3. ASSUME NEW r \in Requests, Others(r), requests[r].step # "idle",
             \/ Answers(r) \/ Reads(r) \/ Deletes(r) \/ Creates(r) \/ Draws(r)
             \/ Stores(r) \/ Sends(r) \/ Uses(r) \/ Vouches(r) \/ Readdresses(r)
      PROVE  Bound'
  <2>1. CASE Ends(r) /\ UNCHANGED <<lastId, lastSecret, events>>
    <3>1. ~Drawing(requests'[r])
      BY <2>1 DEF Ends, Drawing
    <3> QED
      BY <1>0, <1>1, <1>3, <2>1, <3>1 DEF Bound
  <2>2. CASE Answers(r) \/ Sends(r) \/ Uses(r) \/ Vouches(r) \/ Readdresses(r)
    <3>1. Ends(r) /\ UNCHANGED <<lastId, lastSecret, events>>
      BY <2>2 DEF Answers, Sends, Uses, Vouches, Readdresses, tables
    <3> QED
      BY <2>1, <3>1
  <2>3. CASE Reads(r) \/ Deletes(r) \/ Stores(r)
    <3>1. UNCHANGED <<lastId, lastSecret, events>>
      BY <2>3 DEF Reads, Deletes, Stores, tables
    <3>2. Drawing(requests'[r]) => Drawing(requests[r])
      BY <2>3 DEF Reads, Deletes, Stores, Moves, Drawing, In
    <3> QED
      BY <1>0, <1>1, <1>3, <3>1, <3>2 DEF Bound
  <2>4. CASE Creates(r)
    <3>1. Drawing(requests[r]) /\ ~Drawing(requests'[r])
      BY <2>4 DEF Creates, Moves, Drawing, In
    <3> QED
      BY <1>0, <1>1, <1>3, <2>4, <3>1 DEF Creates, Bound
  <2>5. CASE Draws(r)
    <3>1. Drawing(requests[r]) /\ ~Drawing(requests'[r])
      BY <2>5 DEF Draws, Moves, Drawing
    <3> QED
      BY <1>0, <1>1, <1>3, <2>5, <3>1 DEF Draws, Bound, tables
  <2> QED
    BY <1>3, <2>2, <2>3, <2>4, <2>5
<1>4. ASSUME UNCHANGED requests PROVE DrawingRequests' = DrawingRequests
  BY <1>4 DEF DrawingRequests, Drawing
<1>5. IsFiniteSet(DrawingRequests) /\ before \in Nat
  BY ConstantsAssumption, FS_Subset, FS_CardinalityType DEF DrawingRequests
<1>6. ASSUME NEW i \in DOMAIN users, Deleted(i), Event PROVE Bound'
  BY <1>0, <1>4, <1>5, <1>6 DEF Deleted, Event, Bound
<1>7. ASSUME Restarts, Event PROVE Bound'
  <2>1. DrawingRequests' = {}
    BY <1>7 DEF Restarts, Ends, DrawingRequests, Drawing
  <2> QED
    BY <1>0, <1>5, <1>7, <2>1, FS_EmptySet DEF Restarts, Event, Bound, tables
<1>8. CASE UNCHANGED vars
  BY <1>0, <1>4, <1>8 DEF vars, tables, Bound
<1> QED
  BY <1>2, <1>3, <1>6, <1>7, <1>8, StepOutcome

\* The state has the shape the schema and the handlers give it in every reachable state:
\* two accounts never share an address, although register and updateProfile check it on
\* a read that is old when they write.
THEOREM TypeCorrect == Spec => []TypeOK
<1>1. Shape /\ Bound => TypeOK
  <2> SUFFICES ASSUME Shape, Bound PROVE TypeOK
    OBVIOUS
  <2>0. /\ lastId \in Nat /\ lastSecret \in Nat /\ events \in 0..MaxEvents /\ MaxEvents \in Nat
        /\ DOMAIN users \subseteq 1..lastId /\ \A i \in DOMAIN users : users[i] \in Row(lastSecret)
        /\ \A i, j \in DOMAIN users : users[i].email = users[j].email => i = j
        /\ requests \in [Requests -> Request(lastId, lastSecret)]
        /\ issued \subseteq (1..lastId) \X Drawn /\ used \subseteq (1..lastId) \X Drawn
    BY ConstantsAssumption DEF Shape
  <2>1. Cardinality(DrawingRequests) \in Nat
    BY ConstantsAssumption, FS_Subset, FS_CardinalityType DEF DrawingRequests
  <2>2. lastId \in 0..MaxEvents /\ lastSecret \in 0..MaxEvents /\ 1..lastId \subseteq Ids
    BY <2>0, <2>1 DEF Bound, Ids
  <2>3. requests \in [Requests -> [op : Ops, step : Steps, email : Emails \cup {None},
                                   id : Ids \cup {None}, secret : Drawn \cup {None}]]
    BY <2>0, <2>2 DEF Request, Drawn
  <2>4. issued \subseteq Ids \X Drawn /\ used \subseteq Ids \X Drawn
    BY <2>0, <2>2
  <2>5. \A i \in DOMAIN users : /\ users[i] \in [email : Emails, code : Drawn \cup {None}, link : Drawn \cup {None}]
                                /\ ByEmail(users[i].email) = {i}
    BY <2>0 DEF Row, Drawn, ByEmail
  <2> QED
    BY <2>0, <2>2, <2>3, <2>4, <2>5 DEF Shape, TypeOK
<1> QED
  BY <1>1, ShapeInit, ShapeStep, BoundInit, BoundStep, PTL DEF Spec

(***************************************************************************)
(* Whom a secret was drawn for.                                            *)
(***************************************************************************)
IssuedFor(i, s) == s = None \/ <<i, s>> \in issued

\* The codes and links of the rows, and the ones requests are about to write or have
\* compared, were drawn for the account of that id.
IssueInv ==
  /\ used \subseteq issued
  /\ \A i \in DOMAIN users : IssuedFor(i, users[i].code) /\ IssuedFor(i, users[i].link)
  /\ \A r \in Requests : requests[r].step = "store" => IssuedFor(requests[r].id, requests[r].secret)

LEMMA IssueInit == Init => IssueInv
BY DEF Init, Idle, IssueInv

LEMMA IssueStep == Shape /\ IssueInv /\ [Next]_vars => IssueInv'
<1> SUFFICES ASSUME Shape, IssueInv, [Next]_vars PROVE IssueInv'
  OBVIOUS
<1>0. /\ used \subseteq issued
      /\ \A i \in DOMAIN users : IssuedFor(i, users[i].code) /\ IssuedFor(i, users[i].link)
      /\ \A q \in Requests : requests[q].step = "store" => IssuedFor(requests[q].id, requests[q].secret)
      /\ \A q \in Requests : Carries(q)
  BY DEF IssueInv, Shape
<1> DEFINE Hereafter(i, s) == s = None \/ <<i, s>> \in issued'
<1>1. issued \subseteq issued' => \A i, s : IssuedFor(i, s) => Hereafter(i, s)
  BY DEF IssuedFor
<1>2. ASSUME UNCHANGED <<issued, used>>,
             DOMAIN users' \subseteq DOMAIN users, \A i \in DOMAIN users' : users'[i] = users[i],
             \A q \in Requests : \/ requests'[q] = requests[q] \/ requests'[q].step # "store"
                                 \/ IssuedFor(requests'[q].id, requests'[q].secret)
      PROVE  IssueInv'
  BY <1>0, <1>2 DEF IssueInv, IssuedFor
<1>3. ASSUME NEW r \in Requests, Others(r), Asks(r) PROVE IssueInv'
  BY <1>2, <1>3 DEF Asks, Others, tables, past
<1>4. ASSUME NEW r \in Requests, Others(r), Answers(r) \/ Reads(r) \/ Deletes(r) \/ Sends(r) PROVE IssueInv'
  <2>1. requests'[r].step # "store" \/ IssuedFor(requests'[r].id, requests'[r].secret)
    BY <1>0, <1>4 DEF Answers, Ends, Reads, Deletes, Sends, Moves, IssuedFor
  <2>2. /\ UNCHANGED <<issued, used>>
        /\ DOMAIN users' \subseteq DOMAIN users /\ \A i \in DOMAIN users' : users'[i] = users[i]
    BY <1>4 DEF Answers, Reads, Deletes, Removed, Sends, tables, past
  <2> QED
    BY <1>2, <1>4, <2>1, <2>2 DEF Others
<1>5. ASSUME NEW r \in Requests, Others(r), Creates(r) PROVE IssueInv'
  <2> DEFINE id == lastId + 1
  <2>1. issued \subseteq issued' /\ UNCHANGED used
    BY <1>5 DEF Creates
  <2>2. Hereafter(id, users'[id].code) /\ Hereafter(id, users'[id].link)
    BY <1>5 DEF Creates, IssuedFor
  <2>3. \A i \in DOMAIN users' : Hereafter(i, users'[i].code) /\ Hereafter(i, users'[i].link)
    BY <1>0, <1>1, <1>5, <2>1, <2>2 DEF Creates
  <2>4. \A q \in Requests : requests'[q].step = "store" => Hereafter(requests'[q].id, requests'[q].secret)
    BY <1>0, <1>1, <1>5, <2>1 DEF Creates, Moves, Others
  <2> QED
    BY <1>0, <2>1, <2>3, <2>4 DEF IssueInv, IssuedFor
<1>6. ASSUME NEW r \in Requests, Others(r), Draws(r) PROVE IssueInv'
  <2>1. issued \subseteq issued' /\ UNCHANGED <<used, users>>
    BY <1>6 DEF Draws, tables
  <2>2. Hereafter(requests'[r].id, requests'[r].secret)
    BY <1>6 DEF Draws, Moves, IssuedFor
  <2>3. \A i \in DOMAIN users : Hereafter(i, users[i].code) /\ Hereafter(i, users[i].link)
    BY <1>0, <1>1, <2>1
  <2>4. \A q \in Requests : requests'[q].step = "store" => Hereafter(requests'[q].id, requests'[q].secret)
    BY <1>0, <1>1, <1>6, <2>1, <2>2 DEF Others
  <2> QED
    BY <1>0, <2>1, <2>3, <2>4 DEF IssueInv, IssuedFor
<1>7. ASSUME NEW r \in Requests, Others(r), Stores(r) \/ Vouches(r) \/ Readdresses(r) PROVE IssueInv'
  <2>1. UNCHANGED <<issued, used>>
    BY <1>7 DEF Stores, Vouches, Readdresses, past
  <2>2. \A q \in Requests : requests'[q].step = "store" => IssuedFor(requests'[q].id, requests'[q].secret)
    BY <1>0, <1>7 DEF Stores, Vouches, Readdresses, Moves, Ends, Others
  <2>3. \A i \in DOMAIN users' : IssuedFor(i, users'[i].code) /\ IssuedFor(i, users'[i].link)
    BY <1>0, <1>7 DEF Stores, Vouches, Readdresses, OnlyRow, IssuedFor
  <2> QED
    BY <1>0, <2>1, <2>2, <2>3 DEF IssueInv, IssuedFor
<1>8. ASSUME NEW r \in Requests, Others(r), Uses(r) PROVE IssueInv'
  <2>1. UNCHANGED issued
    BY <1>8 DEF Uses
  <2>2. \A q \in Requests : requests'[q].step = "store" => IssuedFor(requests'[q].id, requests'[q].secret)
    BY <1>0, <1>8 DEF Uses, Ends, Others
  <2>3. \A i \in DOMAIN users' : IssuedFor(i, users'[i].code) /\ IssuedFor(i, users'[i].link)
    BY <1>0, <1>8 DEF Uses, OnlyRow, IssuedFor
  <2>4. used' \subseteq issued
    <3>1. requests[r].op \in {"verify", "reset"} => <<requests[r].id, requests[r].secret>> \in issued
      BY <1>0, <1>8, ConstantsAssumption DEF Uses, IssuedFor, Carries, Drawn
    <3> QED
      BY <1>0, <1>8, <3>1 DEF Uses
  <2> QED
    BY <2>1, <2>2, <2>3, <2>4 DEF IssueInv, IssuedFor
<1>9. ASSUME NEW i \in DOMAIN users, Deleted(i) PROVE IssueInv'
  BY <1>2, <1>9 DEF Deleted, Removed, past
<1>10. ASSUME Restarts PROVE IssueInv'
  BY <1>2, <1>10 DEF Restarts, Ends, tables
<1>11. CASE UNCHANGED vars
  BY <1>2, <1>11 DEF vars, tables, past
<1> QED
  BY <1>3, <1>4, <1>5, <1>6, <1>7, <1>8, <1>9, <1>10, <1>11, StepOutcome

\* verifyEmail and resetPassword change an account only with a secret drawn for it,
\* although each writes by an id that it read before an await.
THEOREM OwnSecretsOnly == Spec => []OwnSecrets
<1>1. IssueInv => OwnSecrets
  BY DEF IssueInv, OwnSecrets
<1> QED
  BY <1>1, ShapeInit, ShapeStep, IssueInit, IssueStep, PTL DEF Spec

(***************************************************************************)
(* Where a link may be.                                                    *)
(***************************************************************************)
\* A secret is drawn for one account.
OneOwner == \A u, v \in issued : u[2] = v[2] => u[1] = v[1]

PendingLink(r) == requests[r].op = "forgot" /\ requests[r].step = "store"
CodeInHand(r) == requests[r].op \in {"resend", "verify"} /\ requests[r].step = "store"

\* A link forgotPassword is about to store is nowhere else.
FreshLink(r) ==
  /\ \A u \in used : u[2] # requests[r].secret
  /\ \A i \in DOMAIN users : users[i].link # requests[r].secret /\ users[i].code # requests[r].secret
  /\ \A q \in Requests \ {r} : requests[q].step = "store" => requests[q].secret # requests[r].secret

UnspentLinks == \A i \in DOMAIN users, u \in used : users[i].link # u[2]
FreshLinks == \A r \in Requests : PendingLink(r) => FreshLink(r)
LinksNotCodes == \A i, j \in DOMAIN users : users[i].link # None => users[i].link # users[j].code
CodesNotLinks == \A r \in Requests, i \in DOMAIN users : CodeInHand(r) => users[i].link # requests[r].secret

LinkInv == OneOwner /\ UnspentLinks /\ FreshLinks /\ LinksNotCodes /\ CodesNotLinks

LEMMA LinkInit == Init => LinkInv
BY DEF Init, Idle, LinkInv, OneOwner, UnspentLinks, FreshLinks, PendingLink, LinksNotCodes, CodesNotLinks, CodeInHand

LEMMA LinkStep == Shape /\ IssueInv /\ LinkInv /\ [Next]_vars => LinkInv'
<1> SUFFICES ASSUME Shape, IssueInv, LinkInv, [Next]_vars PROVE LinkInv'
  OBVIOUS
<1>0. /\ OneOwner /\ UnspentLinks /\ FreshLinks /\ LinksNotCodes /\ CodesNotLinks
      /\ lastSecret \in Nat /\ None \notin Drawn /\ lastSecret + 1 # None
      /\ \A n \in Drawn : n # lastSecret + 1
  BY ConstantsAssumption DEF LinkInv, Shape, Drawn
<1>1. /\ \A i \in DOMAIN users : users[i].link \in Drawn \cup {None} /\ users[i].code \in Drawn \cup {None}
      /\ \A u \in used : u[2] \in Drawn
      /\ \A u \in issued : u[2] \in Drawn
      /\ \A q \in Requests : requests[q].secret \in Drawn \cup {None}
      /\ \A q \in Requests : PendingLink(q) \/ CodeInHand(q) => requests[q].secret \in Drawn
  <2>1. \A q \in Requests : requests[q] \in Request(lastId, lastSecret) /\ Carries(q)
    BY DEF Shape
  <2>2. \A q \in Requests : requests[q].secret \in Drawn \cup {None}
    BY <2>1 DEF Request, Drawn
  <2>3. \A q \in Requests : PendingLink(q) \/ CodeInHand(q) => requests[q].secret \in Drawn
    BY <2>1 DEF Carries, PendingLink, CodeInHand
  <2>4. \A i \in DOMAIN users : users[i].link \in Drawn \cup {None} /\ users[i].code \in Drawn \cup {None}
    BY DEF Shape, Row, Drawn
  <2>5. (\A u \in used : u[2] \in Drawn) /\ (\A u \in issued : u[2] \in Drawn)
    BY DEF Shape
  <2> QED
    BY <2>2, <2>3, <2>4, <2>5
\* A step that writes no secret, and leaves no request at "store" with one it did not have.
<1>2. ASSUME UNCHANGED <<issued, used>>, DOMAIN users' \subseteq DOMAIN users,
             \A i \in DOMAIN users' : users'[i].link = users[i].link /\ users'[i].code \in {users[i].code, None},
             \A q \in Requests : requests'[q] = requests[q] \/ requests'[q].step # "store"
      PROVE  LinkInv'
  <2>1. OneOwner' /\ UnspentLinks' /\ LinksNotCodes'
    BY <1>0, <1>2 DEF OneOwner, UnspentLinks, LinksNotCodes
  <2>2. CodesNotLinks'
    BY <1>0, <1>2 DEF CodesNotLinks, CodeInHand
  <2>3. FreshLinks'
    <3>1. ASSUME NEW q \in Requests, PendingLink(q)' PROVE FreshLink(q)'
      <4>1. FreshLink(q) /\ requests'[q] = requests[q] /\ requests[q].secret \in Drawn
        BY <1>0, <1>1, <1>2, <3>1 DEF FreshLinks, PendingLink
      <4> QED
        BY <1>0, <1>2, <4>1 DEF FreshLink
    <3> QED
      BY <3>1 DEF FreshLinks
  <2> QED
    BY <2>1, <2>2, <2>3 DEF LinkInv
<1>3. ASSUME NEW r \in Requests, Others(r), Asks(r) PROVE LinkInv'
  BY <1>2, <1>3 DEF Asks, Others, tables, past
<1>4. ASSUME NEW r \in Requests, Others(r), Answers(r) \/ Deletes(r) \/ Sends(r) \/ Vouches(r) \/ Readdresses(r) PROVE LinkInv'
  <2>1. \A q \in Requests : requests'[q] = requests[q] \/ requests'[q].step # "store"
    BY <1>4 DEF Answers, Ends, Deletes, Sends, Vouches, Readdresses, Moves, Others
  <2>2. /\ UNCHANGED <<issued, used>> /\ DOMAIN users' \subseteq DOMAIN users
        /\ \A i \in DOMAIN users' : users'[i].link = users[i].link /\ users'[i].code \in {users[i].code, None}
    BY <1>4 DEF Answers, Deletes, Removed, Sends, Vouches, Readdresses, OnlyRow, tables, past
  <2> QED
    BY <1>2, <2>1, <2>2
<1>5. ASSUME NEW r \in Requests, Others(r), Reads(r) PROVE LinkInv'
  <2>0. /\ UNCHANGED <<issued, used, users>> /\ requests'[r].op = requests[r].op
        /\ \A q \in Requests \ {r} : requests'[q] = requests[q]
        /\ requests[r].op # "forgot"
    BY <1>5 DEF Reads, Moves, Others, tables, past
  <2>1. CASE requests'[r].step # "store"
    BY <1>2, <2>0, <2>1
  <2>2. CASE requests'[r].step = "store"
    <3>1. \/ requests'[r].secret = None /\ requests[r].op \in {"profile", "token"}
          \/ \E i \in DOMAIN users : requests'[r].secret = users[i].link /\ requests[r].op = "reset"
          \/ \E i \in DOMAIN users : requests'[r].secret = users[i].code /\ requests[r].op = "verify"
      BY <1>5, <2>2 DEF Reads, Moves
    <3>2. CodesNotLinks'
      <4>1. requests[r].op = "verify" => requests'[r].secret \in Drawn
        <5>1. requests[r].op = "verify" => requests'[r].secret = requests[r].secret /\ requests[r].secret \in Drawn
          BY <1>5 DEF Reads, Moves, Shape, Carries
        <5> QED
          BY <5>1
      <4>2. requests[r].op = "verify" => \A j \in DOMAIN users : users[j].link # requests'[r].secret
        BY <1>0, <1>1, <3>1, <4>1 DEF LinksNotCodes
      <4> QED
        BY <1>0, <2>0, <3>1, <4>2 DEF CodesNotLinks, CodeInHand
    <3>3. FreshLinks'
      <4>1. ASSUME NEW q \in Requests, PendingLink(q)' PROVE FreshLink(q)'
        <5>1. q # r /\ PendingLink(q) /\ requests'[q] = requests[q]
          BY <2>0, <4>1 DEF PendingLink
        <5>2. FreshLink(q) /\ requests[q].secret \in Drawn
          BY <1>0, <1>1, <5>1 DEF FreshLinks
        <5>3. requests'[r].secret # requests[q].secret
          BY <1>0, <3>1, <5>2 DEF FreshLink
        <5> QED
          BY <2>0, <5>1, <5>2, <5>3 DEF FreshLink
      <4> QED
        BY <4>1 DEF FreshLinks
    <3>4. OneOwner' /\ UnspentLinks' /\ LinksNotCodes'
      BY <1>0, <2>0 DEF OneOwner, UnspentLinks, LinksNotCodes
    <3> QED
      BY <3>2, <3>3, <3>4 DEF LinkInv
  <2> QED
    BY <2>1, <2>2
<1>6. ASSUME NEW r \in Requests, Others(r), Creates(r) PROVE LinkInv'
  <2> DEFINE id == lastId + 1
             code == lastSecret + 1
  <2>0. /\ UNCHANGED used /\ issued' = issued \cup {<<id, code>>}
        /\ DOMAIN users' = DOMAIN users \cup {id} /\ \A j \in DOMAIN users \ {id} : users'[j] = users[j]
        /\ users'[id].code = code /\ users'[id].link = None
        /\ \A q \in Requests : requests'[q] = requests[q] \/ requests'[q].step # "store"
    BY <1>6 DEF Creates, Moves, Others
  <2>1. OneOwner'
    BY <1>0, <1>1, <2>0 DEF OneOwner
  <2>2. UnspentLinks' /\ LinksNotCodes'
    BY <1>0, <1>1, <2>0 DEF UnspentLinks, LinksNotCodes
  <2>3. CodesNotLinks'
    BY <1>0, <1>1, <2>0 DEF CodesNotLinks, CodeInHand
  <2>4. FreshLinks'
    <3>1. ASSUME NEW q \in Requests, PendingLink(q)' PROVE FreshLink(q)'
      <4>1. PendingLink(q) /\ FreshLink(q) /\ requests'[q] = requests[q]
        BY <1>0, <2>0, <3>1 DEF FreshLinks, PendingLink
      <4>2. requests[q].secret \in Drawn
        BY <1>1, <4>1
      <4> QED
        BY <1>0, <2>0, <4>1, <4>2 DEF FreshLink
    <3> QED
      BY <3>1 DEF FreshLinks
  <2> QED
    BY <2>1, <2>2, <2>3, <2>4 DEF LinkInv
<1>7. ASSUME NEW r \in Requests, Others(r), Draws(r) PROVE LinkInv'
  <2> DEFINE secret == lastSecret + 1
  <2>0. PICK i \in DOMAIN users :
          /\ UNCHANGED <<used, users>> /\ issued' = issued \cup {<<i, secret>>}
          /\ requests'[r].step = "store" /\ requests'[r].secret = secret
          /\ \A q \in Requests \ {r} : requests'[q] = requests[q]
    BY <1>7 DEF Draws, Moves, Others, tables
  <2>1. OneOwner'
    BY <1>0, <1>1, <2>0 DEF OneOwner
  <2>2. UnspentLinks' /\ LinksNotCodes'
    BY <1>0, <2>0 DEF UnspentLinks, LinksNotCodes
  <2>3. CodesNotLinks'
    BY <1>0, <1>1, <2>0 DEF CodesNotLinks, CodeInHand
  <2>4. FreshLinks'
    <3>1. ASSUME NEW q \in Requests, PendingLink(q)' PROVE FreshLink(q)'
      <4>1. CASE q = r
        BY <1>0, <1>1, <2>0, <4>1 DEF FreshLink
      <4>2. CASE q # r
        <5>1. PendingLink(q) /\ FreshLink(q) /\ requests'[q] = requests[q]
          BY <1>0, <2>0, <3>1, <4>2 DEF FreshLinks, PendingLink
        <5>2. requests[q].secret \in Drawn
          BY <1>1, <5>1
        <5> QED
          BY <1>0, <2>0, <5>1, <5>2 DEF FreshLink
      <4> QED
        BY <4>1, <4>2
    <3> QED
      BY <3>1 DEF FreshLinks
  <2> QED
    BY <2>1, <2>2, <2>3, <2>4 DEF LinkInv
<1>8. ASSUME NEW r \in Requests, Others(r), Stores(r) PROVE LinkInv'
  <2> DEFINE secret == requests[r].secret
  <2>0. PICK i \in DOMAIN users :
          /\ UNCHANGED <<issued, used>>
          /\ requests[r].step = "store" /\ requests'[r].step = "mail"
          /\ \A q \in Requests \ {r} : requests'[q] = requests[q]
          /\ DOMAIN users' = DOMAIN users /\ \A j \in DOMAIN users \ {i} : users'[j] = users[j]
          /\ \/ /\ requests[r].op = "resend"
                /\ users'[i].code = requests[r].secret /\ users'[i].link = users[i].link
             \/ /\ requests[r].op = "forgot"
                /\ users'[i].code = users[i].code /\ users'[i].link = requests[r].secret
    BY <1>8 DEF Stores, Moves, Others, OnlyRow, past
  <2>1. OneOwner'
    BY <1>0, <2>0 DEF OneOwner
  <2>2. requests[r].op = "forgot" => FreshLink(r)
    BY <1>0, <2>0 DEF FreshLinks, PendingLink
  <2>3. requests[r].op = "resend" => \A j \in DOMAIN users : users[j].link # requests[r].secret
    BY <1>0, <2>0 DEF CodesNotLinks, CodeInHand
  <2>4. UnspentLinks'
    BY <1>0, <2>0, <2>2 DEF UnspentLinks, FreshLink
  <2>5. LinksNotCodes'
    BY <1>0, <2>0, <2>2, <2>3 DEF LinksNotCodes, FreshLink
  <2>6. CodesNotLinks'
    BY <1>0, <2>0, <2>2 DEF CodesNotLinks, CodeInHand, FreshLink
  <2>7. FreshLinks'
    <3>1. ASSUME NEW q \in Requests, PendingLink(q)' PROVE FreshLink(q)'
      <4>1. q # r /\ FreshLink(q) /\ requests'[q] = requests[q]
        BY <1>0, <2>0, <3>1 DEF FreshLinks, PendingLink
      <4>2. requests[r].secret # requests[q].secret
        BY <2>0, <4>1 DEF FreshLink
      <4> QED
        BY <2>0, <4>1, <4>2 DEF FreshLink
    <3> QED
      BY <3>1 DEF FreshLinks
  <2> QED
    BY <2>1, <2>4, <2>5, <2>6, <2>7 DEF LinkInv
<1>9. ASSUME NEW r \in Requests, Others(r), Uses(r) PROVE LinkInv'
  <2>0. /\ UNCHANGED issued /\ requests[r].step = "store" /\ requests'[r].step # "store"
        /\ \A q \in Requests \ {r} : requests'[q] = requests[q]
    BY <1>9 DEF Uses, Ends, Others
  <2>1. CASE /\ UNCHANGED used
             /\ DOMAIN users' = DOMAIN users /\ \A j \in DOMAIN users : users'[j] = users[j]
    BY <1>2, <2>0, <2>1
  <2>2. CASE ~ (/\ UNCHANGED used
                /\ DOMAIN users' = DOMAIN users /\ \A j \in DOMAIN users : users'[j] = users[j])
    <3>0. PICK i \in DOMAIN users :
            /\ i = requests[r].id /\ used' = used \cup {<<i, requests[r].secret>>}
            /\ DOMAIN users' = DOMAIN users /\ \A j \in DOMAIN users \ {i} : users'[j] = users[j]
            /\ \/ requests[r].op = "verify" /\ users'[i].code = None /\ users'[i].link = users[i].link
               \/ requests[r].op = "reset" /\ users'[i].code = users[i].code /\ users'[i].link = None
      BY <1>9, <2>2 DEF Uses, OnlyRow
    <3>1. requests[r].secret \in Drawn
      BY <2>0, <3>0 DEF Shape, Carries
    <3>2. \A j \in DOMAIN users : j # i \/ requests[r].op = "verify" => users[j].link # requests[r].secret
      <4>1. requests[r].op = "verify" => \A j \in DOMAIN users : users[j].link # requests[r].secret
        BY <1>0, <2>0 DEF CodesNotLinks, CodeInHand
      <4>2. ASSUME NEW j \in DOMAIN users, j # i PROVE users[j].link # requests[r].secret
        <5>1. <<i, requests[r].secret>> \in issued
          BY <1>0, <2>0, <3>0, <3>1 DEF IssueInv, IssuedFor
        <5>2. users[j].link = None \/ <<j, users[j].link>> \in issued
          BY DEF IssueInv, IssuedFor
        <5>3. ASSUME users[j].link = requests[r].secret PROVE FALSE
          <6>1. <<j, requests[r].secret>> \in issued
            BY <1>0, <3>1, <5>2, <5>3
          <6> DEFINE u == <<i, requests[r].secret>>
                     v == <<j, requests[r].secret>>
          <6>2. u[1] = i /\ v[1] = j /\ u[2] = v[2]
            OBVIOUS
          <6> QED
            BY <1>0, <4>2, <5>1, <6>1, <6>2 DEF OneOwner
        <5> QED
          BY <5>3
      <4> QED
        BY <4>1, <4>2
    <3>3. OneOwner'
      BY <1>0, <2>0 DEF OneOwner
    <3>4. UnspentLinks'
      BY <1>0, <1>1, <3>0, <3>1, <3>2 DEF UnspentLinks
    <3>5. LinksNotCodes'
      BY <1>0, <3>0 DEF LinksNotCodes
    <3>6. CodesNotLinks'
      BY <1>0, <1>1, <2>0, <3>0 DEF CodesNotLinks, CodeInHand
    <3>7. FreshLinks'
      <4>1. ASSUME NEW q \in Requests, PendingLink(q)' PROVE FreshLink(q)'
        <5>1. q # r /\ PendingLink(q) /\ FreshLink(q) /\ requests'[q] = requests[q]
          BY <1>0, <2>0, <4>1 DEF FreshLinks, PendingLink
        <5>2. requests[r].secret # requests[q].secret /\ requests[q].secret \in Drawn
          BY <1>1, <2>0, <5>1 DEF FreshLink
        <5> QED
          BY <1>0, <2>0, <3>0, <5>1, <5>2 DEF FreshLink
      <4> QED
        BY <4>1 DEF FreshLinks
    <3> QED
      BY <3>3, <3>4, <3>5, <3>6, <3>7 DEF LinkInv
  <2> QED
    BY <2>1, <2>2
<1>10. ASSUME NEW i \in DOMAIN users, Deleted(i) PROVE LinkInv'
  BY <1>2, <1>10 DEF Deleted, Removed, past
<1>11. ASSUME Restarts PROVE LinkInv'
  BY <1>2, <1>11 DEF Restarts, Ends, tables
<1>12. CASE UNCHANGED vars
  BY <1>2, <1>12 DEF vars, tables, past
<1> QED
  BY <1>3, <1>4, <1>5, <1>6, <1>7, <1>8, <1>9, <1>10, <1>11, <1>12, StepOutcome

\* A link that changed a password is in no row again, however resets and requests for
\* another link overlap: resetPassword may be twice past its comparison with one link.
THEOREM LinksSpent == Spec => []SpentLinks
<1>1. LinkInv => SpentLinks
  BY DEF LinkInv, UnspentLinks, SpentLinks
<1> QED
  BY <1>1, ShapeInit, ShapeStep, IssueInit, IssueStep, LinkInit, LinkStep, PTL DEF Spec

(***************************************************************************)
(* Where the code an unverified account waits for is.                      *)
(***************************************************************************)
Reaches(i) == users[i].code \in mailbox[users[i].email] \/ users[i].code \in lost
Mailing(r, i) == /\ requests[r].step = "mail" /\ requests[r].secret = users[i].code
                 /\ requests[r].email = users[i].email

CodeReaches == \A i \in DOMAIN users \ verified : Reaches(i) \/ \E r \in Requests : Mailing(r, i)

\* A profile is changed of a verified account, so an unverified one keeps its address
\* while resendVerification holds a code for it.
ProfileVerified(r) ==
  requests[r].op = "profile" /\ requests[r].id \in DOMAIN users => requests[r].id \in verified
ResentToOwner(r) ==
  /\ requests[r].op = "resend" /\ requests[r].step = "store" /\ requests[r].id \in DOMAIN users \ verified
  => users[requests[r].id].email = requests[r].email

StrandInv == CodeReaches /\ \A r \in Requests : ProfileVerified(r) /\ ResentToOwner(r)

LEMMA StrandInit == Init => StrandInv
BY DEF Init, Idle, StrandInv, CodeReaches, ProfileVerified, ResentToOwner

\* A step that keeps the code and the address of every account that stays unverified.
LEMMA StrandKept ==
  ASSUME Shape, StrandInv, NEW r \in Requests, \A q \in Requests \ {r} : requests'[q] = requests[q],
         DOMAIN users' \subseteq DOMAIN users,
         \A i \in DOMAIN users' \ verified' : /\ i \notin verified
                                              /\ users'[i].code = users[i].code /\ users'[i].email = users[i].email,
         UNCHANGED <<mailbox, lost>>, requests[r].step # "mail",
         ProfileVerified(r)', ResentToOwner(r)'
  PROVE  StrandInv'
<1>1. CodeReaches'
  <2>1. ASSUME NEW i \in DOMAIN users' \ verified' PROVE Reaches(i)' \/ \E q \in Requests : Mailing(q, i)'
    <3>1. i \in DOMAIN users \ verified /\ users'[i].code = users[i].code /\ users'[i].email = users[i].email
      OBVIOUS
    <3>2. Reaches(i) \/ \E q \in Requests : Mailing(q, i)
      BY <3>1 DEF StrandInv, CodeReaches
    <3>3. CASE Reaches(i)
      BY <3>1, <3>3 DEF Reaches
    <3>4. CASE \E q \in Requests : Mailing(q, i)
      BY <3>1, <3>4 DEF Mailing
    <3> QED
      BY <3>2, <3>3, <3>4
  <2> QED
    BY <2>1 DEF CodeReaches
<1>2. ASSUME NEW q \in Requests \ {r} PROVE ProfileVerified(q)' /\ ResentToOwner(q)'
  BY <1>2 DEF StrandInv, ProfileVerified, ResentToOwner
<1> QED
  BY <1>1, <1>2 DEF StrandInv

LEMMA StrandStep == Shape /\ StrandInv /\ [Next]_vars => StrandInv'
<1> SUFFICES ASSUME Shape, StrandInv, [Next]_vars PROVE StrandInv'
  OBVIOUS
<1>0. /\ \A q \in Requests : ProfileVerified(q) /\ ResentToOwner(q) /\ Carries(q)
      /\ DOMAIN users \subseteq 1..lastId /\ lastId \in Nat /\ verified \subseteq DOMAIN users
      /\ mailbox \in [Emails -> SUBSET Drawn] /\ requests \in [Requests -> Request(lastId, lastSecret)]
  BY DEF StrandInv, Shape
<1>1. ASSUME NEW i \in DOMAIN users \ verified PROVE Reaches(i) \/ \E q \in Requests : Mailing(q, i)
  BY <1>1 DEF StrandInv, CodeReaches
<1>2. ASSUME NEW r \in Requests, Others(r), Asks(r) PROVE StrandInv'
  <2>1. ProfileVerified(r)' /\ ResentToOwner(r)'
    BY <1>2 DEF Asks, ProfileVerified, ResentToOwner, tables
  <2> QED
    BY <1>2, <2>1, StrandKept DEF Asks, Others, tables, past
<1>3. ASSUME NEW r \in Requests, Others(r), requests[r].step # "idle",
             Answers(r) \/ Reads(r) \/ Deletes(r) \/ Draws(r) \/ Uses(r) \/ Vouches(r) \/ Readdresses(r)
      PROVE  StrandInv'
  <2>1. ProfileVerified(r)' /\ ResentToOwner(r)'
    <3>1. CASE Ends(r)
      BY <3>1 DEF Ends, ProfileVerified, ResentToOwner
    <3>2. CASE Reads(r)
      BY <1>0, <3>2 DEF Reads, Moves, ProfileVerified, ResentToOwner, tables
    <3>3. CASE Deletes(r)
      BY <3>3 DEF Deletes, Moves, In, ProfileVerified, ResentToOwner
    <3>4. CASE Draws(r)
      BY <3>4 DEF Draws, Moves, ProfileVerified, ResentToOwner, tables
    <3> QED
      BY <1>3, <3>1, <3>2, <3>3, <3>4 DEF Answers, Uses, Vouches, Readdresses
  <2>2. /\ DOMAIN users' \subseteq DOMAIN users
        /\ \A i \in DOMAIN users' \ verified' : /\ i \notin verified
                                             /\ users'[i].code = users[i].code /\ users'[i].email = users[i].email
    <3>1. CASE Answers(r) \/ Reads(r) \/ Draws(r)
      BY <3>1 DEF Answers, Reads, Draws, tables
    <3>2. CASE Deletes(r)
      BY <3>2 DEF Deletes, Removed
    <3>3. CASE Uses(r) \/ Vouches(r)
      BY <3>3 DEF Uses, Vouches, OnlyRow
    <3>4. CASE Readdresses(r)
      <4>1. requests[r].id \in DOMAIN users => requests[r].id \in verified
        BY <1>0, <3>4 DEF Readdresses, In, ProfileVerified
      <4> QED
        BY <3>4, <4>1 DEF Readdresses, OnlyRow
    <3> QED
      BY <1>3, <3>1, <3>2, <3>3, <3>4
  <2>3. UNCHANGED <<mailbox, lost>> \/ Answers(r)
    BY <1>3 DEF Reads, Deletes, Draws, Uses, Vouches, Readdresses, past
  <2>4. UNCHANGED <<mailbox, lost>>
    BY <2>3 DEF Answers, past
  <2>5. requests[r].step # "mail"
    BY <1>3 DEF Answers, Reads, Deletes, Draws, Uses, Vouches, Readdresses, In
  <2> QED
    BY <1>3, <2>1, <2>2, <2>4, <2>5, StrandKept DEF Others
<1>4. ASSUME NEW r \in Requests, Others(r), Creates(r) PROVE StrandInv'
  <2> DEFINE id == lastId + 1
             code == lastSecret + 1
  <2>0. /\ \A q \in Requests \ {r} : requests'[q] = requests[q]
        /\ requests[r].step # "mail" /\ requests'[r].op = "register" /\ requests'[r].step = "mail"
        /\ requests'[r].secret = code /\ requests'[r].email = requests[r].email
        /\ DOMAIN users' = DOMAIN users \cup {id} /\ \A j \in DOMAIN users \ {id} : users'[j] = users[j]
        /\ users'[id].email = requests[r].email /\ users'[id].code = code
        /\ UNCHANGED <<verified, mailbox, lost>> /\ id \notin DOMAIN users
    BY <1>0, <1>4 DEF Creates, Moves, Others, In
  <2>1. CodeReaches'
    <3>1. ASSUME NEW i \in DOMAIN users' \ verified' PROVE Reaches(i)' \/ \E q \in Requests : Mailing(q, i)'
      <4>1. CASE i = id
        <5>1. Mailing(r, i)'
          BY <2>0, <4>1 DEF Mailing
        <5> QED
          BY <5>1
      <4>2. CASE i # id
        <5>1. i \in DOMAIN users \ verified /\ users'[i] = users[i]
          BY <2>0, <4>2
        <5> QED
          BY <1>1, <2>0, <5>1 DEF Reaches, Mailing
      <4> QED
        BY <4>1, <4>2
    <3> QED
      BY <3>1 DEF CodeReaches
  <2>2. ASSUME NEW q \in Requests PROVE ProfileVerified(q)' /\ ResentToOwner(q)'
    <3>1. CASE q = r
      BY <2>0, <3>1 DEF ProfileVerified, ResentToOwner
    <3>2. CASE q # r
      <4>1. ProfileVerified(q) /\ ResentToOwner(q) /\ Carries(q) /\ requests'[q] = requests[q]
        BY <1>0, <2>0, <3>2
      <4>2. requests[q].op = "profile" \/ requests[q].step = "store" => requests[q].id # id
        BY <1>0, <4>1 DEF Carries
      <4> QED
        BY <2>0, <4>1, <4>2 DEF ProfileVerified, ResentToOwner
    <3> QED
      BY <3>1, <3>2
  <2> QED
    BY <2>1, <2>2 DEF StrandInv
<1>5. ASSUME NEW r \in Requests, Others(r), Stores(r) PROVE StrandInv'
  <2>0. PICK i \in DOMAIN users :
          /\ i = requests[r].id /\ \A q \in Requests \ {r} : requests'[q] = requests[q]
          /\ requests[r].step = "store" /\ requests'[r].step = "mail" /\ requests'[r].op \in {"resend", "forgot"}
          /\ requests'[r].secret = requests[r].secret /\ requests'[r].email = requests[r].email
          /\ DOMAIN users' = DOMAIN users /\ \A j \in DOMAIN users \ {i} : users'[j] = users[j]
          /\ users'[i].email = users[i].email
          /\ \/ requests[r].op = "resend" /\ users'[i].code = requests[r].secret
             \/ users'[i].code = users[i].code
          /\ UNCHANGED <<verified, mailbox, lost>>
    BY <1>5 DEF Stores, Moves, Others, OnlyRow, past
  <2>1. CodeReaches'
    <3>1. ASSUME NEW j \in DOMAIN users' \ verified' PROVE Reaches(j)' \/ \E q \in Requests : Mailing(q, j)'
      <4>0. j \in DOMAIN users \ verified
        BY <2>0, <3>1
      <4>1. CASE users'[j].code = users[j].code /\ users'[j].email = users[j].email
        BY <1>1, <2>0, <4>0, <4>1 DEF Reaches, Mailing
      <4>2. CASE j = i /\ requests[r].op = "resend" /\ users'[i].code = requests[r].secret
        <5>1. users[i].email = requests[r].email
          BY <1>0, <2>0, <4>0, <4>2 DEF ResentToOwner
        <5>2. Mailing(r, j)'
          BY <2>0, <4>2, <5>1 DEF Mailing
        <5> QED
          BY <5>2
      <4> QED
        BY <2>0, <4>0, <4>1, <4>2
    <3> QED
      BY <3>1 DEF CodeReaches
  <2>2. ASSUME NEW q \in Requests PROVE ProfileVerified(q)' /\ ResentToOwner(q)'
    BY <1>0, <2>0, <2>2 DEF ProfileVerified, ResentToOwner
  <2> QED
    BY <2>1, <2>2 DEF StrandInv
<1>6. ASSUME NEW r \in Requests, Others(r), Sends(r) PROVE StrandInv'
  <2>0. /\ requests[r].step = "mail" /\ requests'[r].op = "register" /\ requests'[r].step = "idle"
        /\ \A q \in Requests \ {r} : requests'[q] = requests[q]
        /\ UNCHANGED <<users, verified>> /\ requests[r].email \in Emails
    BY <1>0, <1>6 DEF Sends, Ends, Others, tables, Carries
  <2>1. /\ \A e \in Emails : mailbox[e] \subseteq mailbox'[e]
        /\ lost \subseteq lost'
        /\ requests[r].secret \in mailbox'[requests[r].email] \/ requests[r].secret \in lost'
    BY <1>0, <1>6, <2>0 DEF Sends
  <2>2. CodeReaches'
    <3>1. ASSUME NEW i \in DOMAIN users' \ verified' PROVE Reaches(i)' \/ \E q \in Requests : Mailing(q, i)'
      <4>1. i \in DOMAIN users \ verified /\ users[i].email \in Emails
        BY <2>0, <3>1 DEF Shape, Row
      <4>2. CASE Reaches(i)
        BY <2>0, <2>1, <4>1, <4>2 DEF Reaches
      <4>3. CASE Mailing(r, i)
        BY <2>0, <2>1, <4>3 DEF Reaches, Mailing
      <4>4. CASE \E q \in Requests \ {r} : Mailing(q, i)
        BY <2>0, <4>4 DEF Mailing
      <4> QED
        BY <1>1, <4>1, <4>2, <4>3, <4>4
    <3> QED
      BY <3>1 DEF CodeReaches
  <2>3. ASSUME NEW q \in Requests PROVE ProfileVerified(q)' /\ ResentToOwner(q)'
    BY <1>0, <2>0, <2>3 DEF ProfileVerified, ResentToOwner
  <2> QED
    BY <2>2, <2>3 DEF StrandInv
<1>7. ASSUME NEW i \in DOMAIN users, Deleted(i) PROVE StrandInv'
  <2>0. /\ UNCHANGED <<requests, mailbox, lost>> /\ DOMAIN users' = DOMAIN users \ {i}
        /\ verified' = verified \ {i} /\ \A j \in DOMAIN users \ {i} : users'[j] = users[j]
    BY <1>7 DEF Deleted, Removed, past
  <2>1. CodeReaches'
    <3>1. ASSUME NEW j \in DOMAIN users' \ verified' PROVE Reaches(j)' \/ \E q \in Requests : Mailing(q, j)'
      BY <1>1, <2>0, <3>1 DEF Reaches, Mailing
    <3> QED
      BY <3>1 DEF CodeReaches
  <2>2. ASSUME NEW q \in Requests PROVE ProfileVerified(q)' /\ ResentToOwner(q)'
    BY <1>0, <2>0, <2>2 DEF ProfileVerified, ResentToOwner
  <2> QED
    BY <2>1, <2>2 DEF StrandInv
<1>8. ASSUME Restarts PROVE StrandInv'
  <2>0. /\ UNCHANGED <<users, verified, mailbox>> /\ \A q \in Requests : Ends(q)
        /\ lost' = lost \cup ({requests[q].secret : q \in Requests} \cap Drawn)
    BY <1>8 DEF Restarts, tables
  <2>1. CodeReaches'
    <3>1. ASSUME NEW i \in DOMAIN users' \ verified' PROVE Reaches(i)'
      <4>1. i \in DOMAIN users \ verified
        BY <2>0, <3>1
      <4>2. CASE Reaches(i)
        BY <2>0, <4>2 DEF Reaches
      <4>3. CASE \E q \in Requests : Mailing(q, i)
        BY <1>0, <2>0, <4>3 DEF Mailing, Reaches, Carries
      <4> QED
        BY <1>1, <4>1, <4>2, <4>3
    <3> QED
      BY <3>1 DEF CodeReaches
  <2>2. ASSUME NEW q \in Requests PROVE ProfileVerified(q)' /\ ResentToOwner(q)'
    BY <2>0, <2>2 DEF Ends, ProfileVerified, ResentToOwner
  <2> QED
    BY <2>1, <2>2 DEF StrandInv
<1>9. CASE UNCHANGED vars
  <2>1. CodeReaches' /\ \A q \in Requests : ProfileVerified(q)' /\ ResentToOwner(q)'
    BY <1>9 DEF vars, tables, past, StrandInv, CodeReaches, Reaches, Mailing, ProfileVerified, ResentToOwner
  <2> QED
    BY <2>1 DEF StrandInv
<1> QED
  BY <1>2, <1>3, <1>4, <1>5, <1>6, <1>7, <1>8, <1>9, StepOutcome

\* Whoever owns an unverified account can finish when no request is running, however
\* resends, registrations anew and deletions overlap: the code its row expects was
\* mailed to its address, unless a mail or the server failed.
THEOREM NobodyIsStranded == Spec => []NobodyStranded
<1>1. Shape /\ StrandInv => NobodyStranded
  <2> SUFFICES ASSUME StrandInv, \A r \in Requests : requests[r] = Idle, NEW i \in DOMAIN users \ verified
               PROVE  users[i].code \in mailbox[users[i].email] \cup lost
    BY DEF NobodyStranded
  <2>1. \A r \in Requests : ~Mailing(r, i)
    BY DEF Idle, Mailing
  <2> QED
    BY <2>1 DEF StrandInv, CodeReaches, Reaches
<1> QED
  BY <1>1, ShapeInit, ShapeStep, StrandInit, StrandStep, PTL DEF Spec
=============================================================================
