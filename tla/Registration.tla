---------------------------- MODULE Registration ----------------------------
(***************************************************************************)
(* Accounts and the secrets mailed for them: register, verifyEmail,        *)
(* verifyByToken, resendVerification, forgotPassword, resetPassword and    *)
(* updateProfile of authController.js, and the removal of an account by    *)
(* deleteUser.                                                             *)
(*                                                                         *)
(* Every handler awaits the database between the read of a row and the     *)
(* write that follows from it, so the requests of two people, or of one    *)
(* person who clicked twice, interleave at those points.  A code or a link *)
(* is a number never drawn before.                                         *)
(***************************************************************************)
EXTENDS Integers, FiniteSets

CONSTANTS
  Emails,       \* addresses
  Requests,     \* requests the server can be handling at once
  MaxEvents,    \* bound on requests, deletions and crashes together
  None          \* no secret, no account

ASSUME ConstantsAssumption ==
  /\ IsFiniteSet(Emails) /\ IsFiniteSet(Requests)
  /\ MaxEvents \in Nat
  /\ None \notin Nat

VARIABLES
  users,        \* the rows of the users table, by id
  lastId,       \* the last id drawn
  verified,     \* ids with emailVerified set
  requests,     \* requests[r]: a request being handled and its local variables
  mailbox,      \* mailbox[e]: secrets delivered to an address
  lastSecret,   \* the last code or link drawn
  lost,         \* history: secrets whose mail never left
  issued,       \* history: <<id, secret>> drawn for an account
  used,         \* history: <<id, secret>> that changed an account
  events        \* requests, deletions and crashes so far

tables == <<users, lastId, verified>>
past == <<lost, issued, used>>
vars == <<tables, requests, mailbox, lastSecret, past, events>>

Ops == {"register", "verify", "token", "resend", "forgot", "reset", "profile"}
Steps == {"idle", "read", "delete", "create", "store", "mail"}
Ids == 1..MaxEvents
Drawn == 1..lastSecret
Idle == [op |-> "register", step |-> "idle", email |-> None, id |-> None, secret |-> None]

Init == /\ users = [i \in {} |-> None]
        /\ lastId = 0
        /\ verified = {}
        /\ requests = [r \in Requests |-> Idle]
        /\ mailbox = [e \in Emails |-> {}]
        /\ lastSecret = 0
        /\ lost = {} /\ issued = {} /\ used = {}
        /\ events = 0

Event == events < MaxEvents /\ events' = events + 1

(***************************************************************************)
(* The table and the local variables of a handler.                         *)
(***************************************************************************)
ByEmail(e) == {i \in DOMAIN users : users[i].email = e}     \* findUnique: the column is unique
Without(i) == [j \in DOMAIN users \ {i} |-> users[j]]

RowSwapped(e, code) == [email |-> code, code |-> e, link |-> None]     \* mutated: columns swapped
NewRow(e, code) == [email |-> e, code |-> code, link |-> None]

\* The rows an update by id reaches: none when the row is gone, which Prisma reports
\* as P2025 and the error handler answers with 404.
UpdatedByEmail(r) == ByEmail(requests[r].email)        \* mutated: where: { email }
Updated(r) == {requests[r].id} \cap DOMAIN users

In(r, op, step) == requests[r].op = op /\ requests[r].step = step
Done(r) == requests' = [requests EXCEPT ![r] = Idle]
Goto(r, step, id, secret) ==
  requests' = [requests EXCEPT ![r].step = step, ![r].id = id, ![r].secret = secret]

\* Answers without a write.
Answer(r) == Done(r) /\ UNCHANGED <<tables, mailbox, lastSecret, past, events>>

(***************************************************************************)
(* A request arrives.  Only verification and reset carry a secret, copied  *)
(* from a mail; a profile is changed by the verified account it is of.     *)
(* The tokens verifyByToken takes are those login signs for an account:    *)
(* they name its address, and one kept for later is a request that waits   *)
(* for its read.                                                           *)
(***************************************************************************)
Ask(r, op, e, id, secret) ==
  /\ requests[r] = Idle /\ Event
  /\ requests' = [requests EXCEPT ![r] = [op |-> op, step |-> "read", email |-> e,
                                          id |-> id, secret |-> secret]]
  /\ UNCHANGED <<tables, mailbox, lastSecret, past>>

Mailed == UNION {mailbox[e] : e \in Emails}

AskRegister(r) == \E e \in Emails : Ask(r, "register", e, None, None)
AskVerify(r)   == \E e \in Emails, s \in Mailed : Ask(r, "verify", e, None, s)
AskResend(r)   == \E e \in Emails : Ask(r, "resend", e, None, None)
AskForgot(r)   == \E e \in Emails : Ask(r, "forgot", e, None, None)
AskReset(r)    == \E e \in Emails, s \in Mailed : Ask(r, "reset", e, None, s)
AskToken(r)    == \E i \in DOMAIN users : Ask(r, "token", users[i].email, None, None)
AskProfile(r)  == \E e \in Emails, i \in verified \cap DOMAIN users : Ask(r, "profile", e, i, None)

Arrive(r) == \/ AskRegister(r) \/ AskVerify(r) \/ AskToken(r) \/ AskResend(r)
             \/ AskForgot(r) \/ AskReset(r) \/ AskProfile(r)

(***************************************************************************)
(* register: an unverified account of the address is deleted and made      *)
(* anew.                                                                   *)
(***************************************************************************)
RegisterRead(r) ==
  /\ In(r, "register", "read")
  /\ LET found == ByEmail(requests[r].email)
     IN \/ found = {} /\ Goto(r, "create", None, None)
        \/ \E i \in found \ verified : Goto(r, "delete", i, None)
        \/ found \cap verified # {} /\ Done(r)
  /\ UNCHANGED <<tables, mailbox, lastSecret, past, events>>

\* The delete fails when the row is gone, or when other rows refer to it.
RegisterDelete(r) ==
  /\ In(r, "register", "delete")
  /\ \/ /\ Updated(r) # {}
        /\ users' = Without(requests[r].id)
        /\ verified' = verified \ {requests[r].id}
        /\ Goto(r, "create", None, None)
        /\ UNCHANGED <<lastId, mailbox, lastSecret, past, events>>
     \/ Answer(r)

RegisterCreate(r) ==
  /\ In(r, "register", "create")
  /\ LET id == lastId + 1
         code == lastSecret + 1
     IN \/ /\ ByEmail(requests[r].email) = {}
           /\ users' = [i \in DOMAIN users \cup {id} |->
                          IF i = id THEN NewRow(requests[r].email, code) ELSE users[i]]
           /\ lastId' = id
           /\ lastSecret' = code
           /\ issued' = issued \cup {<<id, code>>}
           /\ Goto(r, "mail", id, code)
           /\ UNCHANGED <<verified, mailbox, lost, used, events>>
        \/ ByEmail(requests[r].email) # {} /\ Answer(r)

(***************************************************************************)
(* resendVerification and forgotPassword draw a secret for the row they    *)
(* read, store it by id and mail it to the address that asked.             *)
(***************************************************************************)
Draw(r, op, rows) ==
  /\ In(r, op, "read")
  /\ \/ \E i \in rows : /\ Goto(r, "store", i, lastSecret + 1)
                        /\ lastSecret' = lastSecret + 1
                        /\ issued' = issued \cup {<<i, lastSecret + 1>>}
                        /\ UNCHANGED <<tables, mailbox, lost, used, events>>
     \/ rows = {} /\ Answer(r)

ResendRead(r) == Draw(r, "resend", ByEmail(requests[r].email) \ verified)
ForgotRead(r) == Draw(r, "forgot", ByEmail(requests[r].email))

StoreDrawn(r, op, column) ==
  /\ In(r, op, "store")
  /\ \/ /\ Updated(r) # {}
        /\ users' = [i \in DOMAIN users |->
                       IF i \in Updated(r) THEN [users[i] EXCEPT ![column] = requests[r].secret]
                       ELSE users[i]]
        /\ Goto(r, "mail", requests[r].id, requests[r].secret)
        /\ UNCHANGED <<lastId, verified, mailbox, lastSecret, past, events>>
     \/ Updated(r) = {} /\ Answer(r)

ResendStore(r) == StoreDrawn(r, "resend", "code")
ForgotStore(r) == StoreDrawn(r, "forgot", "link")

\* The mail goes through the e-mail queue, else directly, and may be lost on both ways.
DeliverOnce(e, s) == IF mailbox[e] = {} THEN {s} ELSE {}      \* mutated: one mail per address
Deliver(e, s) == {s}

SendMail(r) ==
  /\ requests[r].step = "mail"
  /\ LET e == requests[r].email
         s == requests[r].secret
     IN \/ mailbox' = [mailbox EXCEPT ![e] = @ \cup Deliver(e, s)] /\ UNCHANGED lost
        \/ lost' = lost \cup {s} /\ UNCHANGED mailbox
  /\ Done(r)
  /\ UNCHANGED <<tables, lastSecret, issued, used, events>>

(***************************************************************************)
(* verifyEmail and resetPassword compare the secret with the row they      *)
(* read, and write by id.  A link more than an hour old is refused.        *)
(***************************************************************************)
Compare(r, op, rows) ==
  /\ In(r, op, "read")
  /\ \/ \E i \in rows : Goto(r, "store", i, requests[r].secret)
     \/ (rows = {} \/ op = "reset") /\ Done(r)
  /\ UNCHANGED <<tables, mailbox, lastSecret, past, events>>

VerifyRead(r) ==
  Compare(r, "verify", {i \in ByEmail(requests[r].email) \ verified :
                          users[i].code = requests[r].secret})
ResetRead(r) ==
  Compare(r, "reset", {i \in ByEmail(requests[r].email) : users[i].link = requests[r].secret})

MarkVerified(r) ==
  /\ users' = [i \in DOMAIN users |->
                 IF i \in Updated(r) THEN [users[i] EXCEPT !.code = None] ELSE users[i]]
  /\ verified' = verified \cup Updated(r)

VerifyStore(r) ==
  /\ In(r, "verify", "store")
  /\ MarkVerified(r)
  /\ used' = used \cup (Updated(r) \X {requests[r].secret})
  /\ Done(r)
  /\ UNCHANGED <<lastId, mailbox, lastSecret, lost, issued, events>>

\* verifyByToken finds the account by the address in the token and compares no code.
TokenRead(r) ==
  /\ In(r, "token", "read")
  /\ LET found == ByEmail(requests[r].email) \ verified
     IN (\E i \in found : Goto(r, "store", i, None)) \/ (found = {} /\ Done(r))
  /\ UNCHANGED <<tables, mailbox, lastSecret, past, events>>

TokenStore(r) ==
  /\ In(r, "token", "store")
  /\ MarkVerified(r)
  /\ Done(r)
  /\ UNCHANGED <<lastId, mailbox, lastSecret, past, events>>

\* The link is spent together with the change of the password.
LinkKept(u) == u                                       \* mutated: the link stays
LinkSpent(u) == [u EXCEPT !.link = None]

ResetStore(r) ==
  /\ In(r, "reset", "store")
  /\ users' = [i \in DOMAIN users |-> IF i \in Updated(r) THEN LinkSpent(users[i]) ELSE users[i]]
  /\ used' = used \cup (Updated(r) \X {requests[r].secret})
  /\ Done(r)
  /\ UNCHANGED <<lastId, verified, mailbox, lastSecret, lost, issued, events>>

(***************************************************************************)
(* updateProfile: an address taken by another account is refused by the    *)
(* check, or by the unique column when it was taken since.                 *)
(***************************************************************************)
Taken(r) == ByEmail(requests[r].email) \ {requests[r].id} # {}

ProfileRead(r) ==
  /\ In(r, "profile", "read")
  /\ IF Taken(r) THEN Done(r) ELSE Goto(r, "store", requests[r].id, None)
  /\ UNCHANGED <<tables, mailbox, lastSecret, past, events>>

ProfileStore(r) ==
  /\ In(r, "profile", "store")
  /\ users' = IF Taken(r) THEN users
              ELSE [i \in DOMAIN users |->
                      IF i \in Updated(r) THEN [users[i] EXCEPT !.email = requests[r].email]
                      ELSE users[i]]
  /\ Done(r)
  /\ UNCHANGED <<lastId, verified, mailbox, lastSecret, past, events>>

(***************************************************************************)
(* deleteUser removes an account no other row refers to; a restart loses   *)
(* the requests being handled.                                             *)
(***************************************************************************)
DeleteUser(i) ==
  /\ Event
  /\ users' = Without(i)
  /\ verified' = verified \ {i}
  /\ UNCHANGED <<lastId, requests, mailbox, lastSecret, past>>

Crash ==
  /\ Event
  /\ \E r \in Requests : requests[r] # Idle
  /\ lost' = lost \cup ({requests[r].secret : r \in Requests} \cap Drawn)
  /\ requests' = [r \in Requests |-> Idle]
  /\ UNCHANGED <<tables, mailbox, lastSecret, issued, used>>

Handle(r) ==
  \/ RegisterRead(r) \/ RegisterDelete(r) \/ RegisterCreate(r)
  \/ ResendRead(r) \/ ResendStore(r) \/ ForgotRead(r) \/ ForgotStore(r) \/ SendMail(r)
  \/ VerifyRead(r) \/ VerifyStore(r) \/ TokenRead(r) \/ TokenStore(r) \/ ResetRead(r) \/ ResetStore(r)
  \/ ProfileRead(r) \/ ProfileStore(r)

Next == \/ \E r \in Requests : Arrive(r) \/ Handle(r)
        \/ \E i \in DOMAIN users : DeleteUser(i)
        \/ Crash

Spec == Init /\ [][Next]_vars

(***************************************************************************)
(* Properties.                                                             *)
(***************************************************************************)
\* The state has the shape the schema and the handlers give it, an address has one
\* account, and only accounts that exist are verified.
TypeOK ==
  /\ DOMAIN users \subseteq 1..lastId /\ lastId \in 0..MaxEvents
  /\ \A i \in DOMAIN users :
       /\ users[i] \in [email : Emails, code : Drawn \cup {None}, link : Drawn \cup {None}]
       /\ ByEmail(users[i].email) = {i}
  /\ verified \subseteq DOMAIN users
  /\ requests \in [Requests -> [op : Ops, step : Steps, email : Emails \cup {None},
                                id : Ids \cup {None}, secret : Drawn \cup {None}]]
  /\ mailbox \in [Emails -> SUBSET Drawn]
  /\ lastSecret \in 0..MaxEvents
  /\ lost \subseteq Drawn
  /\ issued \subseteq Ids \X Drawn /\ used \subseteq Ids \X Drawn
  /\ events \in 0..MaxEvents

\* verifyEmail and resetPassword change an account only with a code or a link drawn for
\* that very account: not with one of an account of the same address that was deleted
\* and registered anew, or that moved to another address, while they were running.
OwnSecrets == used \subseteq issued

\* A link that changed a password is in no row from then on, so that no request whose read
\* comes later can use it, however resets and requests for another link overlap.  (Two
\* resets that both read the row before either of them writes both change the password.)
SpentLinks == {users[i].link : i \in DOMAIN users} \cap {u[2] : u \in used} = {}

\* When no request is running, whoever owns an unverified account can finish: the code
\* its row expects was mailed to its address, unless a mail or the server failed.
NobodyStranded ==
  (\A r \in Requests : requests[r] = Idle) =>
    \A i \in DOMAIN users \ verified : users[i].code \in mailbox[users[i].email] \cup lost
=============================================================================
