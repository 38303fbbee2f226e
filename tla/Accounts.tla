------------------------------- MODULE Accounts -------------------------------
(***************************************************************************)
(* Accounts and sessions: backend/src/modules/auth and the session         *)
(* middleware of app.ts.  A request comes with the cookie of a browser;    *)
(* express-session loads the row of that cookie before the handler runs    *)
(* and stores or touches it when the answer is sent, so what a handler     *)
(* goes by may have changed in the store meanwhile.                        *)
(*                                                                         *)
(* A name is a key, what normalizeIdentifier leaves of it, and a spelling; *)
(* e-mail addresses are keys.                                              *)
(***************************************************************************)
EXTENDS Server, Sequences

CONSTANTS
  Browsers,    \* who hold a cookie, one session each
  Emails,
  Names,       \* <<key, spelling>>
  MaxAccounts  \* bound: the accounts ever created

ASSUME AccountBounds == MaxAccounts \in Nat

VARIABLES
  accounts,    \* users: e-mail address and name, by id
  logins,      \* the session store: the account a browser's row names
  loggedOut    \* history: the browsers that were told so, and have not logged in since

accountRows == <<accounts, logins, loggedOut>>

NoAccount == 0

AccountsInit == accounts = << >> /\ logins = [b \in Browsers |-> NoAccount] /\ loggedOut = {}

Normalized(name) == name[1]

Owners(name) == {a \in DOMAIN accounts : Normalized(accounts[a].name) = Normalized(name)}
OwnersOf(email) == {a \in DOMAIN accounts : accounts[a].email = email}

\* create; the unique indexes refuse an address or a name that is taken.
NewAccount(email, name) ==
  accounts' = IF OwnersOf(email) = {} /\ Owners(name) = {}
                THEN Append(accounts, [email |-> email, name |-> name])
                ELSE accounts

\* updateUsername of the repository; the unique index refuses a taken name, as an
\* internal error.
Renamed(a, name) ==
  accounts' = IF Owners(name) \subseteq {a} THEN [accounts EXCEPT ![a].name = name]
                                            ELSE accounts

-----------------------------------------------------------------------------
(* register *)

\* What the hash of the password is awaited for.
Register(h, email, name) ==
  /\ OwnersOf(email) = {} /\ Owners(name) = {}
  /\ Begin(h, [op |-> "register", email |-> email, name |-> name])
  /\ UNCHANGED accountRows

CreateAccount(h) ==
  LET c == calls[h]
  IN  /\ c.op = "register" /\ Len(accounts) < MaxAccounts
      /\ NewAccount(c.email, c.name)
      /\ Finish(h)
      /\ UNCHANGED <<logins, loggedOut>>

-----------------------------------------------------------------------------
(* login, logout and the profile *)

\* The account of the address is read, then the password verified; requests with
\* a wrong one change nothing.
Login(h, b, a) ==
  /\ Begin(h, [op |-> "login", browser |-> b, account |-> a])
  /\ UNCHANGED accountRows

\* The session names the account now, so it is saved, whether it has a row or not.
LoginDone(h) ==
  LET c == calls[h]
  IN  /\ c.op = "login"
      /\ logins' = [logins EXCEPT ![c.browser] = c.account]
      /\ loggedOut' = loggedOut \ {c.browser}
      /\ Finish(h)
      /\ UNCHANGED accounts

\* destroy: the row is deleted.
Logout(b) ==
  /\ logins' = [logins EXCEPT ![b] = NoAccount]
  /\ loggedOut' = loggedOut \cup {b}
  /\ UNCHANGED <<accounts, calls>>

\* The row of a browser that made no request for seven days.
Expire(b) ==
  /\ \A h \in Handlers : calls[h].op \in {"login", "rename"} => calls[h].browser # b
  /\ logins' = [logins EXCEPT ![b] = NoAccount]
  /\ UNCHANGED <<accounts, loggedOut, calls>>

\* requireAuth and updateUsername: the name is free, or its own.
Rename(h, b, name) ==
  /\ logins[b] # NoAccount
  /\ Owners(name) \subseteq {logins[b]}
  /\ Begin(h, [op |-> "rename", browser |-> b, account |-> logins[b], name |-> name])
  /\ UNCHANGED accountRows

\* Mutant of Stored: resave is on, the session is stored as it was loaded.
Stored_Resave(b, account) == [logins EXCEPT ![b] = account]

\* With resave off and rolling on, a session that the handler left alone has the
\* expiry of its row set, if there still is one.
Stored(b, account) == logins

\* The name may have been taken meanwhile.
RenameDone(h) ==
  LET c == calls[h]
  IN  /\ c.op = "rename"
      /\ Renamed(c.account, c.name)
      /\ logins' = Stored(c.browser, c.account)
      /\ Finish(h)
      /\ UNCHANGED loggedOut

AccountsNext ==
  \/ \E h \in Handlers :
       \/ \E email \in Emails, name \in Names : Register(h, email, name)
       \/ CreateAccount(h)
       \/ \E b \in Browsers, a \in DOMAIN accounts : Login(h, b, a)
       \/ LoginDone(h)
       \/ \E b \in Browsers, name \in Names : Rename(h, b, name)
       \/ RenameDone(h)
  \/ \E b \in Browsers : Logout(b) \/ Expire(b)

-----------------------------------------------------------------------------
(* Properties *)

\* A browser that was told it is logged out stays so until it logs in again: no
\* request that was under way with the session brings it back (logout, app.ts:34;
\* spec 001, FR-009).
LoggedOutStaysOut == \A b \in loggedOut : logins[b] = NoAccount
=============================================================================
