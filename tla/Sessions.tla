------------------------------ MODULE Sessions ------------------------------
(***************************************************************************)
(* Sessions: login, refresh, logout and updateProfile of authController.js,*)
(* the guard of auth.js, blockUser, promoteModerator and deleteUser, and   *)
(* the browser's client api.js, which refreshes its tokens on a 401 and    *)
(* repeats the call.                                                       *)
(*                                                                         *)
(* A token pair is signed from one payload.  refresh compares the          *)
(* presented token with the stored bcrypt hash, and bcrypt reads 72 bytes: *)
(* of a token, they hold the id and the start of the address, so that all  *)
(* pairs of an account compare equal while its address starts the same,    *)
(* and a hash is modelled as what it was made of.  The keys                *)
(* refresh:<id>:<token> are written to Redis and never read, and the       *)
(* blacklist write of logout is in a form the Redis client rejects, so     *)
(* Redis decides nothing here.                                             *)
(***************************************************************************)
EXTENDS Integers, FiniteSets

CONSTANTS
  Accounts,     \* ids of users
  Emails,       \* addresses
  Start,        \* Start[e]: the part of an address that bcrypt still reads
  Roles,        \* roles staff can move an account between
  Browsers,     \* browsers
  Calls,        \* API calls that can be in flight at once
  Staff,        \* requests of moderators and administrators in progress at once
  MaxEvents,    \* bound on sign-ins and -outs, lost answers, page loads and staff requests
  None          \* no token, no hash, no row

\* A token pair, and the row of an account; None is neither.
Tokens == [id : Accounts, email : Emails, role : Roles, access : {"live", "expired"}]
Rows == [email : Emails, role : Roles, hash : Emails \cup {None}]

ASSUME ConstantsAssumption ==
  /\ \A S \in {Accounts, Emails, Browsers, Calls, Staff} : IsFiniteSet(S) /\ S # {}
  /\ DOMAIN Start = Emails
  /\ {"GUEST", "MODERATOR", "COUPLE"} \subseteq Roles
  /\ MaxEvents \in Nat
  /\ None \notin Emails /\ None \notin Tokens /\ None \notin Rows

VARIABLES
  users,        \* users[i]: row of an account, None when deleted
  verified,     \* ids with emailVerified set
  blocked,      \* ids with isBlocked set
  browser,      \* browser[b]: the token pair in localStorage, None when signed out
  calls,        \* calls[c]: an API call, in the client and then in the server
  staff,        \* staff[s]: a staff request between its read and its update
  past,         \* history: accounts that are signed out, accounts whose address was changed
  events        \* bounded events so far

accounts == <<users, verified, blocked>>
vars == <<accounts, browser, calls, staff, past, events>>

CallOps == {"none", "get", "load", "login", "logout"}
CallSteps == {"idle", "asked", "unauthorized", "forbidden", "refreshing", "rotating", "rotated",
              "rejected", "login", "storing", "stored", "leaving", "left"}
Writing == {"refreshing", "rotating", "login", "storing", "leaving"}

Free == [op |-> "none", step |-> "idle", from |-> None, sent |-> None, new |-> None, again |-> 0]
NoRequest == [op |-> "none", id |-> None, seen |-> None]

Init == /\ \E f \in [Accounts -> Emails] :
             /\ \A i, j \in Accounts : f[i] = f[j] => i = j
             /\ users = [i \in Accounts |-> [email |-> f[i], role |-> "GUEST", hash |-> None]]
        /\ verified = {} /\ blocked = {}
        /\ browser = [b \in Browsers |-> None]
        /\ calls = [c \in Calls |-> Free]
        /\ staff = [s \in Staff |-> NoRequest]
        /\ past = [out |-> Accounts, renamed |-> {}]
        /\ events = 0

Event == events < MaxEvents /\ events' = events + 1

(***************************************************************************)
(* Tokens.                                                                 *)
(***************************************************************************)
Pair(i, role) == [id |-> i, email |-> users[i].email, role |-> role, access |-> "live"]

Compares(t, hash) == Start[t.email] = Start[hash]

\* refresh signs a payload made of the row it read.
PresentedRole(t) == t.role                  \* mutated: the presented payload is signed again
NewRole(t) == users[t.id].role

\* Before it rotates, refresh deletes the Redis key of the presented token; the row keeps
\* its hash until the new one is stored.
RevokeInRow(i) == [users EXCEPT ![i].hash = None]     \* mutated: the row's hash is deleted
Revoke(i) == users

(***************************************************************************)
(* What every step of a call does: change the call, and nothing it does    *)
(* not name.                                                               *)
(***************************************************************************)
At(c, step) == calls[c].step = step
Move(c, step) == calls' = [calls EXCEPT ![c].step = step]
Finish(c) == calls' = [calls EXCEPT ![c] = Free]

SetTokens(c, t) == browser' = [b \in Browsers |-> IF b = calls[c].from THEN t ELSE browser[b]]
ClearTokens(c) == SetTokens(c, None)
Held(c) == IF calls[c].from = None THEN None ELSE browser[calls[c].from]

SetHash(i, h) == users' = [users EXCEPT ![i] = IF @ = None THEN None ELSE [@ EXCEPT !.hash = h]]

(***************************************************************************)
(* The client sends a call.  A page load abandons the calls of the page    *)
(* before it, which the server goes on with, and asks who is signed in.    *)
(***************************************************************************)
Unheard(k) == IF k.step \in Writing THEN [k EXCEPT !.from = None] ELSE Free
Abandon(b) == [c \in Calls |-> IF calls[c].from = b THEN Unheard(calls[c]) ELSE calls[c]]

Get(c, b) ==
  /\ calls[c] = Free /\ browser[b] # None
  /\ calls' = [calls EXCEPT ![c] = [Free EXCEPT !.op = "get", !.step = "asked", !.from = b,
                                                !.sent = browser[b]]]
  /\ UNCHANGED <<accounts, browser, staff, past, events>>

Load(c, b) ==
  /\ Event /\ calls[c] = Free /\ browser[b] # None
  /\ calls' = [Abandon(b) EXCEPT ![c] = [Free EXCEPT !.op = "load", !.step = "asked", !.from = b,
                                                     !.sent = browser[b]]]
  /\ UNCHANGED <<accounts, browser, staff, past>>

Login(c, b) ==
  /\ Event /\ calls[c] = Free /\ browser[b] = None
  /\ calls' = [calls EXCEPT ![c] = [Free EXCEPT !.op = "login", !.step = "login", !.from = b]]
  /\ UNCHANGED <<accounts, browser, staff, past>>

Logout(c, b) ==
  /\ Event /\ calls[c] = Free /\ browser[b] # None
  /\ calls' = [calls EXCEPT ![c] = [Free EXCEPT !.op = "logout", !.step = "leaving", !.from = b,
                                                !.sent = browser[b]]]
  /\ UNCHANGED <<accounts, browser, staff, past>>

(***************************************************************************)
(* auth.js, in front of every call but login, refresh and logout.          *)
(***************************************************************************)
Verdict(t) ==
  IF t = None \/ t.access = "expired" THEN "unauthorized"
  ELSE IF users[t.id] = None THEN "unauthorized"
  ELSE IF t.id \in blocked \/ t.id \notin verified THEN "forbidden"
  ELSE "granted"

Authenticate(c) ==
  /\ At(c, "asked")
  /\ LET verdict == Verdict(calls[c].sent)
     IN \/ verdict = "granted" /\ Finish(c)
        \/ /\ verdict # "granted"
           /\ calls' = [calls EXCEPT ![c].step = verdict, ![c].sent = None]
  /\ UNCHANGED <<accounts, browser, staff, past, events>>

(***************************************************************************)
(* request() receives the answer: a first 401 starts a refresh with the    *)
(* tokens held by then, any other failure ends the call.  The page load signs  *)
(* the browser out when its call fails, whatever the failure.              *)
(***************************************************************************)
Fail(c) == IF calls[c].op = "load" THEN ClearTokens(c) ELSE UNCHANGED browser

StartRefresh(c) ==
  /\ At(c, "unauthorized") /\ calls[c].again = 0 /\ Held(c) # None
  /\ calls' = [calls EXCEPT ![c].step = "refreshing", ![c].sent = Held(c)]
  /\ UNCHANGED <<accounts, browser, staff, past, events>>

Refused(c) ==
  /\ \/ At(c, "forbidden")
     \/ At(c, "unauthorized") /\ (calls[c].again = 1 \/ Held(c) = None)
  /\ Fail(c)
  /\ Finish(c)
  /\ UNCHANGED <<accounts, staff, past, events>>

(***************************************************************************)
(* refresh.                                                                *)
(***************************************************************************)
Accepts(t) == LET u == users[t.id] IN u # None /\ u.hash # None /\ Compares(t, u.hash)

RefreshRead(c) ==
  /\ At(c, "refreshing")
  /\ LET t == calls[c].sent
         valid == t.id \notin blocked /\ Accepts(t)
     IN \/ /\ valid
           /\ calls' = [calls EXCEPT ![c].step = "rotating", ![c].new = Pair(t.id, NewRole(t))]
           /\ users' = Revoke(t.id)
        \/ ~valid /\ Move(c, "rejected") /\ UNCHANGED users
  /\ UNCHANGED <<verified, blocked, browser, staff, past, events>>

RefreshStore(c) ==
  /\ At(c, "rotating")
  /\ LET i == calls[c].new.id
     IN /\ SetHash(i, calls[c].new.email)
        /\ Move(c, IF users[i] = None THEN "rejected" ELSE "rotated")
  /\ UNCHANGED <<verified, blocked, browser, staff, past, events>>

\* The new pair is kept, and the call repeated with it.
Refreshed(c) ==
  /\ At(c, "rotated")
  /\ SetTokens(c, calls[c].new)
  /\ calls' = IF calls[c].from = None THEN [calls EXCEPT ![c] = Free]
              ELSE [calls EXCEPT ![c].step = "asked", ![c].sent = calls[c].new,
                                 ![c].new = None, ![c].again = 1]
  /\ UNCHANGED <<accounts, staff, past, events>>

NotRefreshed(c) ==
  /\ At(c, "rejected")
  /\ ClearTokens(c)
  /\ Finish(c)
  /\ UNCHANGED <<accounts, staff, past, events>>

(***************************************************************************)
(* login, followed by getMe in the client, and logout.                     *)
(***************************************************************************)
LoginRead(c) ==
  /\ At(c, "login")
  /\ \E i \in Accounts :
       /\ users[i] # None
       /\ calls' = [calls EXCEPT ![c].step = "storing", ![c].new = Pair(i, users[i].role)]
  /\ UNCHANGED <<accounts, browser, staff, past, events>>

\* A wrong password, or no account of that address.
LoginRefused(c) ==
  /\ At(c, "login")
  /\ Finish(c)
  /\ UNCHANGED <<accounts, browser, staff, past, events>>

LoginStore(c) ==
  /\ At(c, "storing")
  /\ LET i == calls[c].new.id
     IN /\ SetHash(i, calls[c].new.email)
        /\ past' = IF users[i] = None THEN past ELSE [past EXCEPT !.out = @ \ {i}]
        /\ IF users[i] = None THEN Finish(c) ELSE Move(c, "stored")
  /\ UNCHANGED <<verified, blocked, browser, staff, events>>

LoggedIn(c) ==
  /\ At(c, "stored")
  /\ SetTokens(c, calls[c].new)
  /\ calls' = IF calls[c].from = None THEN [calls EXCEPT ![c] = Free]
              ELSE [calls EXCEPT ![c].step = "asked", ![c].sent = calls[c].new, ![c].new = None]
  /\ UNCHANGED <<accounts, staff, past, events>>

LogoutStore(c) ==
  /\ At(c, "leaving")
  /\ SetHash(calls[c].sent.id, None)
  /\ past' = [past EXCEPT !.out = @ \cup {calls[c].sent.id}]
  /\ Move(c, "left")
  /\ UNCHANGED <<verified, blocked, browser, staff, events>>

LoggedOut(c) ==
  /\ At(c, "left")
  /\ ClearTokens(c)
  /\ Finish(c)
  /\ UNCHANGED <<accounts, staff, past, events>>

\* The network fails between browser and server: the client gives up, and a refresh or
\* a logout that failed clears the tokens all the same; the server finishes if it began.
Lose(c) ==
  /\ Event /\ calls[c].from # None
  /\ IF calls[c].step \in {"refreshing", "rotating", "rotated", "rejected", "leaving", "left"}
     THEN ClearTokens(c) ELSE Fail(c)
  /\ \/ calls' = [calls EXCEPT ![c] = Unheard(@)]
     \/ calls[c].step \in {"refreshing", "login", "leaving"} /\ Finish(c)
  /\ UNCHANGED <<accounts, staff, past>>

(***************************************************************************)
(* Around the sessions: time, the account's owner and the staff.           *)
(***************************************************************************)
Expire(b) ==
  /\ browser[b] # None /\ browser[b].access = "live"
  /\ browser' = [browser EXCEPT ![b].access = "expired"]
  /\ UNCHANGED <<accounts, calls, staff, past, events>>

Verify(i) ==
  /\ users[i] # None /\ i \notin verified
  /\ verified' = verified \cup {i}
  /\ UNCHANGED <<users, blocked, browser, calls, staff, past, events>>

\* updateProfile, by the account's owner from a signed-in browser.
Rename(i, e) ==
  /\ Event
  /\ \E b \in Browsers : /\ browser[b] # None /\ browser[b].id = i
                         /\ Verdict(browser[b]) = "granted"
  /\ \A j \in Accounts \ {i} : users[j] = None \/ users[j].email # e
  /\ users' = [users EXCEPT ![i].email = e]
  /\ past' = [past EXCEPT !.renamed = @ \cup {i}]
  /\ UNCHANGED <<verified, blocked, browser, calls, staff>>

\* blockUser and promoteModerator decide on the row they read and update it by id.
ReadUser(s, op, i) ==
  /\ Event /\ staff[s] = NoRequest /\ users[i] # None /\ users[i].role # "SUPER_ADMIN"
  /\ staff' = [staff EXCEPT ![s] =
       [op |-> op, id |-> i,
        seen |-> IF op = "promote" THEN users[i].role ELSE IF i \in blocked THEN "blocked" ELSE "open"]]
  /\ UNCHANGED <<accounts, browser, calls, past>>

Promoted(role) == IF role = "MODERATOR" THEN "COUPLE" ELSE "MODERATOR"

UpdateUser(s) ==
  LET i == staff[s].id
  IN /\ staff[s] # NoRequest
     /\ staff' = [staff EXCEPT ![s] = NoRequest]
     /\ \/ /\ staff[s].op = "promote" /\ users[i] # None
           /\ users' = [users EXCEPT ![i].role = Promoted(staff[s].seen)]
           /\ UNCHANGED <<verified, blocked>>
        \/ /\ staff[s].op = "block" /\ users[i] # None
           /\ blocked' = IF staff[s].seen = "open" THEN blocked \cup {i} ELSE blocked \ {i}
           /\ UNCHANGED <<users, verified>>
        \/ users[i] = None /\ UNCHANGED accounts
     /\ UNCHANGED <<browser, calls, past, events>>

\* deleteUser takes the row with its flags.
Flagged(S, i) == S                          \* mutated: a flag outlives the row
Forget(S, i) == S \ {i}

DeleteUser(i) ==
  /\ Event /\ users[i] # None
  /\ users' = [users EXCEPT ![i] = None]
  /\ verified' = Forget(verified, i) /\ blocked' = Forget(blocked, i)
  /\ past' = [past EXCEPT !.out = @ \cup {i}]
  /\ UNCHANGED <<browser, calls, staff>>

Step(c) ==
  \/ Authenticate(c) \/ StartRefresh(c) \/ Refused(c)
  \/ RefreshRead(c) \/ RefreshStore(c) \/ Refreshed(c) \/ NotRefreshed(c)
  \/ LoginRead(c) \/ LoginRefused(c) \/ LoginStore(c) \/ LoggedIn(c)
  \/ LogoutStore(c) \/ LoggedOut(c)

Use(b) == \E c \in Calls : Get(c, b)

Next == \/ \E c \in Calls : Step(c) \/ Lose(c)
        \/ \E b \in Browsers : Use(b) \/ Expire(b)
        \/ \E c \in Calls, b \in Browsers : Load(c, b) \/ Login(c, b) \/ Logout(c, b)
        \/ \E i \in Accounts : Verify(i) \/ DeleteUser(i)
        \/ \E i \in Accounts, e \in Emails : Rename(i, e)
        \/ \E s \in Staff, i \in Accounts, op \in {"promote", "block"} : ReadUser(s, op, i)
        \/ \E s \in Staff : UpdateUser(s)

\* The server and the client finish what they began, access tokens run out, and whoever
\* is signed in goes on using the site (strongly fair: the browsers share the call slots).
Fairness == /\ \A c \in Calls : WF_vars(Step(c))
            /\ \A s \in Staff : WF_vars(UpdateUser(s))
            /\ \A b \in Browsers : SF_vars(Use(b)) /\ WF_vars(Expire(b))

Spec == Init /\ [][Next]_vars
FairSpec == Spec /\ Fairness

(***************************************************************************)
(* Properties.                                                             *)
(***************************************************************************)
\* The state has the shape the schema and the tokens give it, and a deleted account is
\* neither verified nor blocked.
TypeOK ==
  /\ users \in [Accounts -> Rows \cup {None}]
  /\ \A i \in verified \cup blocked : i \in Accounts /\ users[i] # None
  /\ browser \in [Browsers -> Tokens \cup {None}]
  /\ calls \in [Calls -> [op : CallOps, step : CallSteps, from : Browsers \cup {None},
                          sent : Tokens \cup {None}, new : Tokens \cup {None}, again : {0, 1}]]
  /\ events \in 0..MaxEvents

\* The row of an account that signed in, and was not signed out since, always holds a hash,
\* and unless the address was changed a hash of the address it has: no refresh, overlapped
\* by others or broken off between its revocation and its update, leaves a signed-in
\* account with nothing to compare, which would refuse every later refresh.
SessionKept ==
  \A i \in Accounts \ past.out :
    /\ users[i] # None /\ users[i].hash # None
    /\ i \notin past.renamed => users[i].hash = users[i].email

\* A browser whose owner goes on using it catches up with the account: in the end it
\* is signed out, or its token names the address and the role the row has, and the
\* account exists and is not blocked, however late an answer replaced its tokens.
Current(b) == browser[b] # None =>
  LET t == browser[b] IN /\ users[t.id] # None
                         /\ t.id \notin blocked
                         /\ t.role = users[t.id].role
                         /\ t.email = users[t.id].email
BrowserCatchesUp == \A b \in Browsers : <>[]Current(b)

\* auth.routes.js says of refresh that it "revokes the old token" and that "the old refresh
\* token cannot be reused".  Does not hold: once the new pair is stored, the presented pair,
\* if the account signed it for another role or so long ago that its access token has run
\* out, and so not the same token, is accepted as well; both begin with the same 72 bytes.
OldTokenRevoked == \A c \in Calls :
  At(c, "rotated") /\ calls[c].sent # calls[c].new => ~Accepts(calls[c].sent)

\* auth.routes.js says of logout that it revokes the refresh token and deletes the stored
\* hash.  Does not hold: a refresh that compared its token before the logout stores a new
\* hash after it, and the account that signed out can be refreshed again.
LogoutRevokes == \A i \in past.out : users[i] = None \/ users[i].hash = None
=============================================================================
