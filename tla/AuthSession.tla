---------------------------- MODULE AuthSession ----------------------------
(***************************************************************************)
(* The auth service: users in PostgreSQL, signed tokens in the hands of    *)
(* the clients, and a blacklist of logged-out tokens in Redis whose        *)
(* entries live no longer than their tokens.                               *)
(*                                                                         *)
(* Every HTTP request runs on a goroutine of its own.  Each query, each    *)
(* Redis command and each look at the clock is a step; between them other  *)
(* requests run, time passes, stores fail and the process dies.  Of        *)
(* AuthService, RefreshToken and ChangePassword have no HTTP route yet     *)
(* (server.go:82-87): they are modelled as the service offers them.        *)
(*                                                                         *)
(* Abstractions.  A token is its claims: equal claims are equal strings,   *)
(* and getTokenID is injective.  Clients present tokens the service        *)
(* issued.  A user is his email.  A password stands for its hash.  The     *)
(* clock counts in the seconds of the exp claim.                           *)
(***************************************************************************)
EXTENDS Naturals, FiniteSets

CONSTANTS
  Requests,     \* goroutines that serve requests, each one again and again
  Emails,
  Passwords,
  AccessTTL,    \* accessTokenTTL
  RefreshTTL,   \* refreshTokenTTL
  Faults,       \* which failures may happen: see FaultKinds
  MaxTime,      \* bound: the clock
  MaxVersion,   \* bound: users.version
  MaxTokens,    \* bound: tokens issued
  MaxBreaks,    \* bound: errors of a store, crashes
  None

FaultKinds == {"db", "redis", "forget", "crash"}

ASSUME AuthAssumption ==
  /\ AccessTTL \in Nat \ {0}
  /\ RefreshTTL \in Nat \ {0}
  /\ MaxTime \in Nat
  /\ MaxVersion \in Nat \ {0}
  /\ MaxTokens \in Nat
  /\ MaxBreaks \in Nat
  /\ Faults \subseteq FaultKinds

Tokens  == [type : {"access", "refresh"}, user : Emails, version : Nat, exp : Nat]
Entries == [id : Tokens, until : Nat]
Rows    == [password : Passwords, version : Nat]

\* What a request carries from step to step: the token it was given, and
\* whether a log-out had already returned for it (a history); a log-out's two
\* entries; the row a log-in read; the password that is to be set.
Checks  == [token : Tokens, want : {"access", "refresh"}, late : BOOLEAN]
Logouts == [access : Entries, refresh : Entries]
Logins  == [user : Emails, row : Rows]
Changes == [user : Emails, new : Passwords]

ASSUME NoneAssumption == None \notin Rows \cup Tokens

VARIABLES
  users,       \* table users: email -> row, or None
  blacklist,   \* Redis: the keys blacklist:token:<id>, with their expiry
  now,         \* the clock
  issued,      \* tokens that clients hold
  pc,          \* where each request is
  job,         \* what it works on
  proven,      \* history: refresh tokens of log-ins, and the password given
  revoked,     \* history: tokens for which Logout returned nil
  forgotten,   \* history: tokens whose entry Redis lost
  breaks       \* history: failures of Faults so far

store   == <<users, blacklist, now, issued>>
history == <<proven, revoked, forgotten, breaks>>
vars    == <<store, pc, job, history>>

TypeOK ==
  /\ users \in [Emails -> Rows \cup {None}]
  /\ blacklist \subseteq Entries
  /\ now \in 0 .. MaxTime
  /\ issued \subseteq Tokens
  /\ pc \in [Requests -> {"idle", "parse", "find", "grant", "accepted", "issue",
                          "access", "refresh", "update"}]
  /\ DOMAIN job = Requests
  /\ \A r \in Requests :
       /\ pc[r] = "idle" => job[r] = None
       /\ pc[r] \in {"parse", "find", "grant", "accepted"} => job[r] \in Checks
       /\ pc[r] \in {"access", "refresh"} => job[r] \in Logouts
       /\ pc[r] = "issue" => job[r] \in Logins
       /\ pc[r] = "update" => job[r] \in Changes
  /\ proven \subseteq [token : Tokens, password : Passwords]
  /\ revoked \subseteq Tokens
  /\ forgotten \subseteq Tokens
  /\ breaks \in 0 .. MaxBreaks

Init ==
  /\ users = [e \in Emails |-> None]
  /\ blacklist = {}
  /\ now = 0
  /\ issued = {}
  /\ pc = [r \in Requests |-> "idle"]
  /\ job = [r \in Requests |-> None]
  /\ proven = {}
  /\ revoked = {}
  /\ forgotten = {}
  /\ breaks = 0

Goto(r, p, j) ==
  /\ pc' = [pc EXCEPT ![r] = p]
  /\ job' = [job EXCEPT ![r] = j]

Answer(r) == Goto(r, "idle", None)

\* One more of the failures that MaxBreaks bounds.
Breaks(kind) ==
  /\ kind \in Faults
  /\ breaks < MaxBreaks
  /\ breaks' = breaks + 1

-----------------------------------------------------------------------------
(***************************************************************************)
(* Register and Login.                                                     *)
(***************************************************************************)
\* One INSERT, under the unique index on email; the error of a duplicate
\* changes nothing.
SignUp(r, e, p) ==
  /\ pc[r] = "idle"
  /\ users[e] = None
  /\ users' = [users EXCEPT ![e] = [password |-> p, version |-> 1]]
  /\ UNCHANGED <<blacklist, now, issued, pc, job, history>>

\* FindByEmail, and bcrypt finds the password right.
SignIn(r, e, p) ==
  /\ pc[r] = "idle"
  /\ users[e] # None
  /\ users[e].password = p
  /\ Goto(r, "issue", [user |-> e, row |-> users[e]])
  /\ UNCHANGED <<store, history>>

AccessToken(e) ==
  [type |-> "access", user |-> e, version |-> 0, exp |-> now + AccessTTL]

RefreshTokenOf(e, v) ==
  [type |-> "refresh", user |-> e, version |-> v, exp |-> now + RefreshTTL]

Issue(tokens) ==
  /\ Cardinality(issued \cup tokens) <= MaxTokens
  /\ issued' = issued \cup tokens

\* generateAccessToken and generateRefreshToken, from the row read before.
IssuePair(r) ==
  /\ pc[r] = "issue"
  /\ LET refresh == RefreshTokenOf(job[r].user, job[r].row.version)
     IN  /\ Issue({AccessToken(job[r].user), refresh})
         /\ proven' = proven \cup {[token |-> refresh, password |-> job[r].row.password]}
  /\ Answer(r)
  /\ UNCHANGED <<users, blacklist, now, revoked, forgotten, breaks>>

-----------------------------------------------------------------------------
(***************************************************************************)
(* ValidateToken (want = "access") and RefreshToken (want = "refresh").    *)
(***************************************************************************)
Blacklisted(t) == \E e \in blacklist : e.id = t

\* The request comes in, and its token is not on the blacklist.  If it is, or
\* Redis reports an error, the answer is 401 and nothing changes.
CheckBlacklist(r, t, want) ==
  /\ pc[r] = "idle"
  /\ t \in issued
  /\ ~Blacklisted(t)
  /\ Goto(r, "parse", [token |-> t, want |-> want, late |-> t \in revoked])
  /\ UNCHANGED <<store, history>>

\* jwt.Parse checks exp; then the type claim is compared.
Parse(r) ==
  /\ pc[r] = "parse"
  /\ IF now < job[r].token.exp /\ job[r].token.type = job[r].want
       THEN Goto(r, "find", job[r])
       ELSE Answer(r)
  /\ UNCHANGED <<store, history>>

\* Mutant: RefreshToken does not compare the versions.
FindUser_AnyVersion(r) ==
  /\ pc[r] = "find"
  /\ LET t == job[r].token
     IN  IF users[t.user] = None
           THEN Answer(r)
           ELSE Goto(r, IF job[r].want = "access" THEN "accepted" ELSE "grant", job[r])
  /\ UNCHANGED <<store, history>>

\* FindById; RefreshToken compares the version claim with the row's.
FindUser(r) ==
  /\ pc[r] = "find"
  /\ LET t == job[r].token
     IN  IF users[t.user] = None
           THEN Answer(r)
           ELSE CASE job[r].want = "access" -> Goto(r, "accepted", job[r])
                  [] job[r].want = "refresh" /\ t.version = users[t.user].version
                       -> Goto(r, "grant", job[r])
                  [] OTHER -> Answer(r)
  /\ UNCHANGED <<store, history>>

\* RefreshToken returns a new access token; the refresh token stays as it is.
Grant(r) ==
  /\ pc[r] = "grant"
  /\ Issue({AccessToken(job[r].token.user)})
  /\ Answer(r)
  /\ UNCHANGED <<users, blacklist, now, history>>

\* The user is returned to the caller of ValidateToken.
Accept(r) ==
  /\ pc[r] = "accepted"
  /\ Answer(r)
  /\ UNCHANGED <<store, history>>

-----------------------------------------------------------------------------
(***************************************************************************)
(* Logout, which checks neither of the two tokens.                         *)
(***************************************************************************)
\* getTokenExpiration fails for an expired token: then as long as a new one.
Expiration(t, ttl) == [id |-> t, until |-> IF now < t.exp THEN t.exp ELSE now + ttl]

\* Mutant: both entries live as long as an access token.
Logout_ShortTTL(r, a, f) ==
  /\ pc[r] = "idle"
  /\ {a, f} \subseteq issued
  /\ Goto(r, "access", [access |-> [id |-> a, until |-> now + AccessTTL],
                        refresh |-> [id |-> f, until |-> now + AccessTTL]])
  /\ UNCHANGED <<store, history>>

Logout(r, a, f) ==
  /\ pc[r] = "idle"
  /\ {a, f} \subseteq issued
  /\ Goto(r, "access", [access |-> Expiration(a, AccessTTL),
                        refresh |-> Expiration(f, RefreshTTL)])
  /\ UNCHANGED <<store, history>>

\* SET with a TTL replaces the key; without time left there is nothing to do.
AddToken(e) ==
  blacklist' = IF now < e.until
                 THEN {b \in blacklist : b.id # e.id} \cup {e}
                 ELSE blacklist

AddAccess(r) ==
  /\ pc[r] = "access"
  /\ AddToken(job[r].access)
  /\ Goto(r, "refresh", job[r])
  /\ UNCHANGED <<users, now, issued, history>>

AddRefresh(r) ==
  /\ pc[r] = "refresh"
  /\ AddToken(job[r].refresh)
  /\ revoked' = revoked \cup {job[r].access.id, job[r].refresh.id}
  /\ Answer(r)
  /\ UNCHANGED <<users, now, issued, proven, forgotten, breaks>>

\* Mutant: the error is logged, and Logout goes on.
AddFails_Ignored(r) ==
  /\ Breaks("redis")
  /\ \/ pc[r] = "access" /\ Goto(r, "refresh", job[r]) /\ UNCHANGED revoked
     \/ /\ pc[r] = "refresh"
        /\ Answer(r)
        /\ revoked' = revoked \cup {job[r].access.id, job[r].refresh.id}
  /\ UNCHANGED <<store, proven, forgotten>>

\* SET reports an error, with or without effect: 500, and no second SET.
AddFails(r) ==
  /\ Breaks("redis")
  /\ \/ pc[r] = "access"  /\ (AddToken(job[r].access) \/ UNCHANGED blacklist)
     \/ pc[r] = "refresh" /\ (AddToken(job[r].refresh) \/ UNCHANGED blacklist)
  /\ Answer(r)
  /\ UNCHANGED <<users, now, issued, proven, revoked, forgotten>>

-----------------------------------------------------------------------------
(***************************************************************************)
(* ChangePassword.                                                         *)
(***************************************************************************)
\* FindById, and bcrypt finds the old password right.
ChangePassword(r, e, old, new) ==
  /\ pc[r] = "idle"
  /\ users[e] # None
  /\ users[e].password = old
  /\ Goto(r, "update", [user |-> e, new |-> new])
  /\ UNCHANGED <<store, history>>

\* Mutant: the version is not incremented.
SetPassword_SameVersion(e, p) == users' = [users EXCEPT ![e].password = p]

\* One UPDATE: password_hash = $1, version = version + 1.
SetPassword(e, p) ==
  users' = [users EXCEPT ![e] = [password |-> p, version |-> @.version + 1]]

\* The row is there, since none is ever deleted; MaxVersion bounds the model.
CanUpdate(e) == users[e] # None /\ users[e].version < MaxVersion

UpdatePassword(r) ==
  /\ pc[r] = "update"
  /\ CanUpdate(job[r].user)
  /\ SetPassword(job[r].user, job[r].new)
  /\ Answer(r)
  /\ UNCHANGED <<blacklist, now, issued, history>>

\* A query of this request fails.  Only an UPDATE may have had its effect.
QueryFails(r) ==
  /\ Breaks("db")
  /\ \/ pc[r] = "find" /\ UNCHANGED users
     \/ /\ pc[r] = "update"
        /\ UNCHANGED users \/ (CanUpdate(job[r].user) /\ SetPassword(job[r].user, job[r].new))
  /\ Answer(r)
  /\ UNCHANGED <<blacklist, now, issued, proven, revoked, forgotten>>

-----------------------------------------------------------------------------
(***************************************************************************)
(* Time, and the end of processes.                                         *)
(***************************************************************************)
\* Redis drops a key whose TTL is over.
Tick ==
  /\ now < MaxTime
  /\ now' = now + 1
  /\ blacklist' = {e \in blacklist : now + 1 < e.until}
  /\ UNCHANGED <<users, issued, pc, job, history>>

\* Redis dies and comes back (restart: always) with its last snapshot.
RedisRestarts(lost) ==
  /\ Breaks("forget")
  /\ lost # {}
  /\ blacklist' = blacklist \ lost
  /\ forgotten' = forgotten \cup {e.id : e \in lost}
  /\ UNCHANGED <<users, now, issued, pc, job, proven, revoked>>

\* The auth service dies, and docker starts it again (restart: on-failure).
\* After a signal it serves its requests first, or dies after 30 seconds.
Crash ==
  /\ Breaks("crash")
  /\ pc' = [r \in Requests |-> "idle"]
  /\ job' = [r \in Requests |-> None]
  /\ UNCHANGED <<store, proven, revoked, forgotten>>

-----------------------------------------------------------------------------
Arrives(r) ==
  \/ \E e \in Emails, p \in Passwords : SignUp(r, e, p) \/ SignIn(r, e, p)
  \/ \E t \in issued, want \in {"access", "refresh"} : CheckBlacklist(r, t, want)
  \/ \E a, f \in issued : Logout(r, a, f)
  \/ \E e \in Emails, old, new \in Passwords : ChangePassword(r, e, old, new)

Proceeds(r) ==
  \/ IssuePair(r)
  \/ Parse(r)
  \/ FindUser(r)
  \/ Grant(r)
  \/ AddAccess(r)
  \/ AddRefresh(r)
  \/ AddFails(r)
  \/ UpdatePassword(r)
  \/ QueryFails(r)

Environment ==
  \/ Tick
  \/ \E lost \in SUBSET blacklist : RedisRestarts(lost)
  \/ Crash

Next ==
  \/ \E r \in Requests : Arrives(r) \/ Proceeds(r) \/ Accept(r)
  \/ Environment

Spec == Init /\ [][Next]_vars

-----------------------------------------------------------------------------
(***************************************************************************)
(* Properties.                                                             *)
(***************************************************************************)
\* A request that began after Logout had returned nil for its token is never
\* accepted: not while the entry lives, not when Redis has just dropped it
\* because its TTL is over (the check of the blacklist comes before that of
\* exp), not after a half-failed second log-out.  Only entries that Redis
\* lost in a crash are an exception (auth.go:113-253, blacklist.go:23-48).
RevokedRefused ==
  \A r \in Requests :
    pc[r] \in {"accepted", "grant"} /\ job[r].late => job[r].token \in forgotten

\* A refresh token is good for the password it was obtained with and for no
\* other: no overlap of log-ins with password changes, not two changes at
\* once either, leaves a token whose version is the current one although its
\* owner gave an older password (user.go:129-147, auth.go:55-80, 168-170).
VersionPinsPassword ==
  \A p \in proven :
    p.token.version = users[p.token.user].version
      => p.password = users[p.token.user].password

\* A refresh token obtained before the last change of its owner's password.
Ended(t) == t.version < users[t.user].version

\* A change of password ends the sessions there were, for good: no later step,
\* no second change, failure or crash, makes one of their tokens current again,
\* and no request that presents one is granted an access token unless it had
\* compared the versions before the change (user.go:129-147, auth.go:168-170).
EndedForGood ==
  [][\A p \in proven :
       Ended(p.token) =>
         /\ Ended(p.token)'
         /\ \A r \in Requests :
              pc'[r] = "grant" /\ job'[r].token = p.token => pc[r] = "grant"]_vars
=============================================================================
