------------------------- MODULE AuthSession_proofs -------------------------
(***************************************************************************)
(* Proofs about AuthSession, for any number of requests, users and         *)
(* passwords, any two lifetimes and any combination of faults.             *)
(***************************************************************************)
EXTENDS AuthSession, TLAPS

-----------------------------------------------------------------------------
(***************************************************************************)
(* Type correctness.                                                       *)
(***************************************************************************)
LEMMA TypeInit == Init => TypeOK
BY AuthAssumption DEF Init, TypeOK

\* Adding a token to the blacklist keeps its type.
LEMMA AddTokenType ==
  ASSUME TypeOK, NEW e \in Entries, AddToken(e) \/ UNCHANGED blacklist
  PROVE  blacklist' \subseteq Entries
BY DEF TypeOK, AddToken

\* A request moves on, and nothing else changes that TypeOK speaks of.
LEMMA GotoType ==
  ASSUME TypeOK, NEW r \in Requests, NEW p, NEW j, Goto(r, p, j),
         \/ p = "idle" /\ j = None
         \/ p \in {"parse", "find", "grant", "accepted"} /\ j \in Checks
         \/ p \in {"access", "refresh"} /\ j \in Logouts
         \/ p = "issue" /\ j \in Logins
         \/ p = "update" /\ j \in Changes
  PROVE  /\ pc' \in [Requests -> {"idle", "parse", "find", "grant", "accepted", "issue",
                                  "access", "refresh", "update"}]
         /\ DOMAIN job' = Requests
         /\ \A q \in Requests :
              /\ pc'[q] = "idle" => job'[q] = None
              /\ pc'[q] \in {"parse", "find", "grant", "accepted"} => job'[q] \in Checks
              /\ pc'[q] \in {"access", "refresh"} => job'[q] \in Logouts
              /\ pc'[q] = "issue" => job'[q] \in Logins
              /\ pc'[q] = "update" => job'[q] \in Changes
<1>1. /\ pc' = [pc EXCEPT ![r] = p]
      /\ job' = [job EXCEPT ![r] = j]
  BY DEF Goto
<1>2. \A q \in Requests \ {r} : pc'[q] = pc[q] /\ job'[q] = job[q]
  BY <1>1 DEF TypeOK
<1>3. pc'[r] = p /\ job'[r] = j
  BY <1>1 DEF TypeOK
<1>4. p \in {"idle", "parse", "find", "grant", "accepted", "issue", "access", "refresh", "update"}
  OBVIOUS
<1>5. /\ pc' \in [Requests -> {"idle", "parse", "find", "grant", "accepted", "issue",
                               "access", "refresh", "update"}]
      /\ DOMAIN job' = Requests
  BY <1>1, <1>4 DEF TypeOK
<1>6. ASSUME NEW q \in Requests
      PROVE  /\ pc'[q] = "idle" => job'[q] = None
             /\ pc'[q] \in {"parse", "find", "grant", "accepted"} => job'[q] \in Checks
             /\ pc'[q] \in {"access", "refresh"} => job'[q] \in Logouts
             /\ pc'[q] = "issue" => job'[q] \in Logins
             /\ pc'[q] = "update" => job'[q] \in Changes
  <2>1. CASE q = r
    BY <1>3, <2>1
  <2>2. CASE q # r
    BY <1>2, <2>2 DEF TypeOK
  <2> QED
    BY <2>1, <2>2
<1> QED
  BY <1>5, <1>6

\* What SetPassword does to the table.
LEMMA SetPasswordType ==
  ASSUME TypeOK, NEW e \in Emails, NEW p \in Passwords, users[e] \in Rows,
         SetPassword(e, p) \/ UNCHANGED users
  PROVE  users' \in [Emails -> Rows \cup {None}]
BY DEF TypeOK, SetPassword, Rows

\* A generated token is a token.
LEMMA NewTokens ==
  ASSUME TypeOK, NEW e \in Emails, NEW v \in Nat
  PROVE  AccessToken(e) \in Tokens /\ RefreshTokenOf(e, v) \in Tokens
<1>1. now + AccessTTL \in Nat /\ now + RefreshTTL \in Nat
  BY AuthAssumption DEF TypeOK
<1> QED
  BY <1>1 DEF AccessToken, RefreshTokenOf, Tokens

LEMMA TypeStep == TypeOK /\ [Next]_vars => TypeOK'
<1> SUFFICES ASSUME TypeOK, [Next]_vars PROVE TypeOK'
  OBVIOUS
<1> USE DEF store, history
<1>1. ASSUME NEW r \in Requests, Arrives(r) PROVE TypeOK'
  <2>1. ASSUME NEW e \in Emails, NEW p \in Passwords, SignUp(r, e, p) PROVE TypeOK'
    <3>1. [password |-> p, version |-> 1] \in Rows
      BY DEF Rows
    <3> QED
      BY <2>1, <3>1 DEF SignUp, TypeOK
  <2>2. ASSUME NEW e \in Emails, NEW p \in Passwords, SignIn(r, e, p) PROVE TypeOK'
    <3>1. users[e] \in Rows
      BY <2>2 DEF SignIn, TypeOK
    <3>2. [user |-> e, row |-> users[e]] \in Logins
      BY <3>1 DEF Logins
    <3> QED
      BY <2>2, <3>2, GotoType DEF SignIn, TypeOK
  <2>3. ASSUME NEW t \in issued, NEW want \in {"access", "refresh"}, CheckBlacklist(r, t, want)
        PROVE TypeOK'
    <3>1. [token |-> t, want |-> want, late |-> t \in revoked] \in Checks
      BY DEF TypeOK, Checks
    <3> QED
      BY <2>3, <3>1, GotoType DEF CheckBlacklist, TypeOK
  <2>4. ASSUME NEW a \in issued, NEW f \in issued, Logout(r, a, f) PROVE TypeOK'
    <3>1. ASSUME NEW t \in issued, NEW ttl \in Nat PROVE Expiration(t, ttl) \in Entries
      BY DEF Expiration, Entries, Tokens, TypeOK
    <3>2. [access |-> Expiration(a, AccessTTL), refresh |-> Expiration(f, RefreshTTL)] \in Logouts
      BY <3>1, AuthAssumption DEF Logouts
    <3> QED
      BY <2>4, <3>2, GotoType DEF Logout, TypeOK
  <2>5. ASSUME NEW e \in Emails, NEW old \in Passwords, NEW new \in Passwords,
               ChangePassword(r, e, old, new)
        PROVE TypeOK'
    <3>1. [user |-> e, new |-> new] \in Changes
      BY DEF Changes
    <3> QED
      BY <2>5, <3>1, GotoType DEF ChangePassword, TypeOK
  <2> QED
    BY <1>1, <2>1, <2>2, <2>3, <2>4, <2>5 DEF Arrives
<1>2. ASSUME NEW r \in Requests, Proceeds(r) PROVE TypeOK'
  <2>1. CASE IssuePair(r)
    <3>1. job[r] \in Logins
      BY <2>1 DEF IssuePair, TypeOK
    <3>2. job[r].user \in Emails /\ job[r].row.version \in Nat /\ job[r].row.password \in Passwords
      BY <3>1 DEF Logins, Rows
    <3> DEFINE a == AccessToken(job[r].user)
               f == RefreshTokenOf(job[r].user, job[r].row.version)
    <3>3. a \in Tokens /\ f \in Tokens
      BY <3>2, NewTokens
    <3> HIDE DEF a, f
    <3>4. issued' \subseteq Tokens
      BY <2>1, <3>3 DEF IssuePair, Issue, TypeOK, a, f
    <3>5. proven' \subseteq [token : Tokens, password : Passwords]
      BY <2>1, <3>2, <3>3 DEF IssuePair, TypeOK, f
    <3> QED
      BY <2>1, <3>4, <3>5, GotoType DEF IssuePair, Answer, TypeOK
  <2>2. CASE Parse(r)
    <3>1. job[r] \in Checks
      BY <2>2 DEF Parse, TypeOK
    <3> QED
      BY <2>2, <3>1, GotoType DEF Parse, Answer, TypeOK
  <2>3. CASE FindUser(r)
    <3>1. job[r] \in Checks
      BY <2>3 DEF FindUser, TypeOK
    <3>2. \/ Goto(r, "accepted", job[r])
          \/ Goto(r, "grant", job[r])
          \/ Goto(r, "idle", None)
      BY <2>3, <3>1 DEF FindUser, Answer, Checks
    <3> QED
      BY <2>3, <3>1, <3>2, GotoType DEF FindUser, TypeOK
  <2>4. CASE Grant(r)
    <3>1. job[r].token.user \in Emails
      BY <2>4 DEF Grant, TypeOK, Checks, Tokens
    <3>2. issued' \subseteq Tokens
      BY <2>4, <3>1, NewTokens DEF Grant, Issue, TypeOK
    <3> QED
      BY <2>4, <3>2, GotoType DEF Grant, Answer, TypeOK
  <2>5. CASE AddAccess(r)
    <3>1. job[r] \in Logouts /\ job[r].access \in Entries
      BY <2>5 DEF AddAccess, TypeOK, Logouts
    <3>2. blacklist' \subseteq Entries
      BY <2>5, <3>1, AddTokenType DEF AddAccess
    <3> QED
      BY <2>5, <3>1, <3>2, GotoType DEF AddAccess, TypeOK
  <2>6. CASE AddRefresh(r)
    <3>1. job[r] \in Logouts /\ job[r].refresh \in Entries
      BY <2>6 DEF AddRefresh, TypeOK, Logouts
    <3>2. blacklist' \subseteq Entries
      BY <2>6, <3>1, AddTokenType DEF AddRefresh
    <3>3. revoked' \subseteq Tokens
      BY <2>6, <3>1 DEF AddRefresh, TypeOK, Logouts, Entries
    <3> QED
      BY <2>6, <3>2, <3>3, GotoType DEF AddRefresh, Answer, TypeOK
  <2>7. CASE AddFails(r)
    <3>1. pc[r] \in {"access", "refresh"}
      BY <2>7 DEF AddFails
    <3>2. job[r].access \in Entries /\ job[r].refresh \in Entries
      BY <3>1 DEF TypeOK, Logouts
    <3>3. blacklist' \subseteq Entries
      BY <2>7, <3>2, AddTokenType DEF AddFails
    <3> QED
      BY <2>7, <3>3, GotoType, AuthAssumption DEF AddFails, Breaks, Answer, TypeOK
  <2>8. CASE UpdatePassword(r)
    <3>1. job[r].user \in Emails /\ job[r].new \in Passwords
      BY <2>8 DEF UpdatePassword, TypeOK, Changes
    <3>2. users[job[r].user] \in Rows
      BY <2>8, <3>1 DEF UpdatePassword, CanUpdate, TypeOK
    <3>3. users' \in [Emails -> Rows \cup {None}]
      BY <2>8, <3>1, <3>2, SetPasswordType DEF UpdatePassword
    <3> QED
      BY <2>8, <3>3, GotoType DEF UpdatePassword, Answer, TypeOK
  <2>9. CASE QueryFails(r)
    <3>1. CASE pc[r] = "find" /\ UNCHANGED users
      BY <2>9, <3>1, GotoType, AuthAssumption DEF QueryFails, Breaks, Answer, TypeOK
    <3>2. CASE pc[r] = "update"
      <4>1. job[r].user \in Emails /\ job[r].new \in Passwords
        BY <3>2 DEF TypeOK, Changes
      <4>2. users' \in [Emails -> Rows \cup {None}]
        <5>1. CASE UNCHANGED users
          BY <5>1 DEF TypeOK
        <5>2. CASE CanUpdate(job[r].user) /\ SetPassword(job[r].user, job[r].new)
          BY <4>1, <5>2, SetPasswordType DEF CanUpdate, TypeOK
        <5> QED
          BY <2>9, <3>2, <5>1, <5>2 DEF QueryFails
      <4> QED
        BY <2>9, <4>2, GotoType, AuthAssumption DEF QueryFails, Breaks, Answer, TypeOK
    <3> QED
      BY <2>9, <3>1, <3>2 DEF QueryFails
  <2> QED
    BY <1>2, <2>1, <2>2, <2>3, <2>4, <2>5, <2>6, <2>7, <2>8, <2>9 DEF Proceeds
<1>3. ASSUME NEW r \in Requests, Accept(r) PROVE TypeOK'
  BY <1>3, GotoType DEF Accept, Answer, TypeOK
<1>4. CASE Environment
  <2>1. CASE Tick
    BY <2>1, AuthAssumption DEF Tick, TypeOK
  <2>2. ASSUME NEW lost \in SUBSET blacklist, RedisRestarts(lost) PROVE TypeOK'
    <3>1. {e.id : e \in lost} \subseteq Tokens
      BY DEF TypeOK, Entries
    <3> QED
      BY <2>2, <3>1, AuthAssumption DEF RedisRestarts, Breaks, TypeOK
  <2>3. CASE Crash
    BY <2>3, AuthAssumption DEF Crash, Breaks, TypeOK
  <2> QED
    BY <1>4, <2>1, <2>2, <2>3 DEF Environment
<1>5. CASE UNCHANGED vars
  BY <1>5 DEF vars, TypeOK
<1> QED
  BY <1>1, <1>2, <1>3, <1>4, <1>5 DEF Next

\* Every variable has its type, whatever happens.
THEOREM TypeCorrect == Spec => []TypeOK
BY TypeInit, TypeStep, PTL DEF Spec

-----------------------------------------------------------------------------
(***************************************************************************)
(* Log-out.  What makes a revoked token useless changes hands twice: first *)
(* its entry in Redis does, then, when the entry is dropped, its exp.      *)
(***************************************************************************)
\* Refused by Parse, or lost by Redis.
Gone(t) == t \in forgotten \/ t.exp <= now

Out(t) == Gone(t) \/ Blacklisted(t)

Outlives(e) == e.id.exp <= e.until

EntriesOutlive == \A e \in blacklist : Outlives(e)

LogoutsOutlive ==
  \A r \in Requests :
    pc[r] \in {"access", "refresh"} => Outlives(job[r].access) /\ Outlives(job[r].refresh)

AccessOut == \A r \in Requests : pc[r] = "refresh" => Out(job[r].access.id)

RevokedOut == \A t \in revoked : Out(t)

LateGone == \A r \in Requests : pc[r] = "parse" /\ job[r].late => Gone(job[r].token)

LateForgotten ==
  \A r \in Requests :
    pc[r] \in {"find", "grant", "accepted"} /\ job[r].late => job[r].token \in forgotten

LogoutInv ==
  /\ TypeOK
  /\ EntriesOutlive
  /\ LogoutsOutlive
  /\ AccessOut
  /\ RevokedOut
  /\ LateGone
  /\ LateForgotten

\* After SET with a TTL, or its failure, the other tokens are out as before.
LEMMA AddTokenOut ==
  ASSUME TypeOK, EntriesOutlive, NEW e \in Entries, Outlives(e),
         AddToken(e) \/ UNCHANGED blacklist, UNCHANGED <<now, forgotten>>
  PROVE  /\ EntriesOutlive'
         /\ \A t : Out(t) => Out(t)'
         /\ AddToken(e) => Out(e.id)'
<1>1. e.id.exp \in Nat /\ e.until \in Nat /\ now \in Nat
  BY DEF TypeOK, Entries, Tokens
<1>2. EntriesOutlive'
  BY DEF EntriesOutlive, AddToken, Outlives
<1>3. \A t : Blacklisted(t) => Blacklisted(t)'
  BY DEF AddToken, Blacklisted
<1>4. \A t : Gone(t) <=> Gone(t)'
  BY DEF Gone
<1>5. ASSUME AddToken(e) PROVE Out(e.id)'
  <2>1. CASE now < e.until
    BY <1>5, <2>1 DEF AddToken, Out, Blacklisted
  <2>2. CASE ~(now < e.until)
    BY <1>1, <2>2 DEF Out, Gone, Outlives
  <2> QED
    BY <2>1, <2>2
<1> QED
  BY <1>2, <1>3, <1>4, <1>5 DEF Out

\* Request r moves on, and no token comes back into use.
LEMMA LogoutGoto ==
  ASSUME LogoutInv, NEW r \in Requests, NEW p, NEW j, Goto(r, p, j), TypeOK',
         \A t : Out(t) => Out(t)',
         \A t : Gone(t) => Gone(t)',
         \A t : t \in forgotten => t \in forgotten',
         p \in {"access", "refresh"} => Outlives(j.access) /\ Outlives(j.refresh),
         p = "refresh" => Out(j.access.id)',
         p = "parse" /\ j.late => Gone(j.token)',
         p \in {"find", "grant", "accepted"} /\ j.late => j.token \in forgotten'
  PROVE  LogoutsOutlive' /\ AccessOut' /\ LateGone' /\ LateForgotten'
<1>1. \A q \in Requests \ {r} : pc'[q] = pc[q] /\ job'[q] = job[q]
  BY DEF LogoutInv, TypeOK, Goto
<1>2. pc'[r] = p /\ job'[r] = j
  BY DEF LogoutInv, TypeOK, Goto
<1>3. LogoutsOutlive'
  BY <1>1, <1>2 DEF LogoutInv, LogoutsOutlive, Outlives
<1>4. ASSUME NEW q \in Requests, pc'[q] = "refresh" PROVE Out(job[q].access.id)' 
  <2>1. CASE q = r
    BY <1>2, <1>4, <2>1 DEF Out, Gone, Blacklisted
  <2>2. CASE q # r
    <3>1. Out(job[q].access.id)
      BY <1>1, <1>4, <2>2 DEF LogoutInv, AccessOut
    <3> QED
      BY <1>1, <2>2, <3>1 DEF Out, Gone, Blacklisted
  <2> QED
    BY <2>1, <2>2
<1>5. ASSUME NEW q \in Requests, pc'[q] = "parse", job'[q].late PROVE Gone(job[q].token)'
  <2>1. CASE q = r
    BY <1>2, <1>5, <2>1 DEF Gone
  <2>2. CASE q # r
    <3>1. Gone(job[q].token)
      BY <1>1, <1>5, <2>2 DEF LogoutInv, LateGone
    <3> QED
      BY <1>1, <2>2, <3>1 DEF Gone
  <2> QED
    BY <2>1, <2>2
<1>6. LateForgotten'
  BY <1>1, <1>2 DEF LogoutInv, LateForgotten
<1> QED
  BY <1>3, <1>4, <1>5, <1>6 DEF AccessOut, LateGone

LEMMA LogoutInit == Init => LogoutInv
BY TypeInit DEF Init, LogoutInv, EntriesOutlive, LogoutsOutlive, AccessOut, RevokedOut,
                LateGone, LateForgotten

\* Steps that change neither the clock, nor Redis, nor what was revoked.
LEMMA LogoutQuiet ==
  ASSUME LogoutInv, TypeOK', UNCHANGED <<now, blacklist, revoked, forgotten>>,
         NEW r \in Requests, NEW p, NEW j, Goto(r, p, j),
         \/ p \in {"idle", "issue", "update"}
         \/ p = "parse" /\ (j.late => j.token \in revoked /\ ~Blacklisted(j.token))
         \/ p = "find" /\ pc[r] = "parse" /\ j = job[r] /\ now < j.token.exp
         \/ p \in {"grant", "accepted"} /\ pc[r] = "find" /\ j = job[r]
         \/ p = "access" /\ Outlives(j.access) /\ Outlives(j.refresh)
  PROVE  LogoutInv'
<1>1. \A t : (Out(t) <=> Out(t)') /\ (Gone(t) <=> Gone(t)')
  BY DEF Out, Gone, Blacklisted
<1>2. EntriesOutlive' /\ RevokedOut'
  BY <1>1 DEF LogoutInv, EntriesOutlive, RevokedOut
<1>3. p = "parse" /\ j.late => Gone(j.token)
  BY DEF LogoutInv, RevokedOut, Out
<1>4. p \in {"find", "grant", "accepted"} /\ j.late => j.token \in forgotten
  <2>1. CASE p = "find" /\ j.late
    <3>1. Gone(j.token) /\ j.token \in Tokens
      BY <2>1 DEF LogoutInv, LateGone, TypeOK, Checks
    <3> QED
      BY <2>1, <3>1 DEF Gone, LogoutInv, TypeOK, Tokens
  <2>2. CASE p \in {"grant", "accepted"} /\ j.late
    BY <2>2 DEF LogoutInv, LateForgotten
  <2> QED
    BY <2>1, <2>2
<1>5. LogoutsOutlive' /\ AccessOut' /\ LateGone' /\ LateForgotten'
  <2>1. p # "refresh" /\ (p = "parse" /\ j.late => Gone(j.token)')
    BY <1>1, <1>3
  <2>2. p \in {"access", "refresh"} => Outlives(j.access) /\ Outlives(j.refresh)
    OBVIOUS
  <2> QED
    BY <1>1, <1>4, <2>1, <2>2, LogoutGoto
<1> QED
  BY <1>2, <1>5 DEF LogoutInv

LEMMA LogoutStep == LogoutInv /\ [Next]_vars => LogoutInv'
<1> SUFFICES ASSUME LogoutInv, [Next]_vars PROVE LogoutInv'
  OBVIOUS
<1>0. TypeOK /\ TypeOK'
  BY TypeStep DEF LogoutInv
<1> USE DEF store, history
<1>1. ASSUME NEW r \in Requests, Arrives(r) PROVE LogoutInv'
  <2>1. ASSUME NEW e \in Emails, NEW p \in Passwords, SignUp(r, e, p) PROVE LogoutInv'
    BY <1>0, <2>1 DEF SignUp, LogoutInv, EntriesOutlive, LogoutsOutlive, AccessOut, RevokedOut,
                      LateGone, LateForgotten, Out, Gone, Blacklisted
  <2>2. ASSUME NEW e \in Emails, NEW p \in Passwords, SignIn(r, e, p) PROVE LogoutInv'
    BY <1>0, <2>2, LogoutQuiet DEF SignIn
  <2>3. ASSUME NEW t \in issued, NEW want \in {"access", "refresh"}, CheckBlacklist(r, t, want)
        PROVE LogoutInv'
    <3>1. PICK j : j = [token |-> t, want |-> want, late |-> t \in revoked]
      OBVIOUS
    <3>2. Goto(r, "parse", j) /\ j.token = t /\ (j.late => t \in revoked) /\ ~Blacklisted(t)
      BY <2>3, <3>1 DEF CheckBlacklist
    <3> QED
      BY <1>0, <2>3, <3>2, LogoutQuiet DEF CheckBlacklist
  <2>4. ASSUME NEW a \in issued, NEW f \in issued, Logout(r, a, f) PROVE LogoutInv'
    <3>1. ASSUME NEW t \in issued, NEW ttl \in Nat PROVE Outlives(Expiration(t, ttl))
      BY <1>0 DEF Expiration, Outlives, TypeOK, Tokens
    <3>2. PICK j : j = [access |-> Expiration(a, AccessTTL), refresh |-> Expiration(f, RefreshTTL)]
      OBVIOUS
    <3>3. Outlives(j.access) /\ Outlives(j.refresh)
      BY <3>1, <3>2, AuthAssumption
    <3> QED
      BY <1>0, <2>4, <3>2, <3>3, LogoutQuiet DEF Logout
  <2>5. ASSUME NEW e \in Emails, NEW old \in Passwords, NEW new \in Passwords,
               ChangePassword(r, e, old, new)
        PROVE LogoutInv'
    BY <1>0, <2>5, LogoutQuiet DEF ChangePassword
  <2> QED
    BY <1>1, <2>1, <2>2, <2>3, <2>4, <2>5 DEF Arrives
<1>2. ASSUME NEW r \in Requests, Proceeds(r) PROVE LogoutInv'
  <2>1. CASE IssuePair(r)
    BY <1>0, <2>1, LogoutQuiet DEF IssuePair, Answer
  <2>2. CASE Parse(r)
    <3>1. PICK j : j = job[r]
      OBVIOUS
    <3> QED
      BY <1>0, <2>2, <3>1, LogoutQuiet DEF Parse, Answer
  <2>3. CASE FindUser(r)
    <3>1. PICK j : j = job[r]
      OBVIOUS
    <3>2. j.want \in {"access", "refresh"}
      BY <1>0, <2>3, <3>1 DEF FindUser, TypeOK, Checks
    <3>3. \/ Goto(r, "accepted", j)
          \/ Goto(r, "grant", j)
          \/ Goto(r, "idle", None)
      BY <2>3, <3>1, <3>2 DEF FindUser, Answer
    <3> QED
      BY <1>0, <2>3, <3>1, <3>3, LogoutQuiet DEF FindUser
  <2>4. CASE Grant(r)
    BY <1>0, <2>4, LogoutQuiet DEF Grant, Answer
  <2>5. CASE AddAccess(r)
    <3>1. PICK j : j = job[r]
      OBVIOUS
    <3>2. j \in Logouts /\ Outlives(j.access) /\ Outlives(j.refresh)
      BY <1>0, <2>5, <3>1 DEF AddAccess, TypeOK, LogoutInv, LogoutsOutlive
    <3>3. j.access \in Entries
      BY <3>2 DEF Logouts
    <3>4. /\ EntriesOutlive'
          /\ \A t : Out(t) => Out(t)'
          /\ Out(j.access.id)'
      <4>1. AddToken(j.access) /\ UNCHANGED <<now, forgotten>>
        BY <2>5, <3>1 DEF AddAccess
      <4> QED
        BY <3>2, <3>3, <4>1, AddTokenOut DEF LogoutInv
    <3>5. LogoutsOutlive' /\ AccessOut' /\ LateGone' /\ LateForgotten'
      <4>1. \A t : (Gone(t) => Gone(t)') /\ (t \in forgotten => t \in forgotten')
        BY <2>5 DEF AddAccess, Gone
      <4>2. Goto(r, "refresh", j)
        BY <2>5, <3>1 DEF AddAccess
      <4> QED
        BY <1>0, <3>2, <3>4, <4>1, <4>2, LogoutGoto
    <3>6. RevokedOut'
      BY <2>5, <3>4 DEF AddAccess, LogoutInv, RevokedOut
    <3> QED
      BY <1>0, <3>4, <3>5, <3>6 DEF LogoutInv
  <2>6. CASE AddRefresh(r)
    <3>1. PICK j : j = job[r]
      OBVIOUS
    <3>2. j \in Logouts /\ Outlives(j.refresh) /\ Out(j.access.id)
      BY <1>0, <2>6, <3>1 DEF AddRefresh, TypeOK, LogoutInv, LogoutsOutlive, AccessOut
    <3>3. j.refresh \in Entries
      BY <3>2 DEF Logouts
    <3>4. /\ EntriesOutlive'
          /\ \A t : Out(t) => Out(t)'
          /\ Out(j.refresh.id)'
      <4>1. AddToken(j.refresh) /\ UNCHANGED <<now, forgotten>>
        BY <2>6, <3>1 DEF AddRefresh
      <4> QED
        BY <3>2, <3>3, <4>1, AddTokenOut DEF LogoutInv
    <3>5. LogoutsOutlive' /\ AccessOut' /\ LateGone' /\ LateForgotten'
      <4>1. \A t : (Gone(t) => Gone(t)') /\ (t \in forgotten => t \in forgotten')
        BY <2>6 DEF AddRefresh, Gone
      <4>2. Goto(r, "idle", None)
        BY <2>6 DEF AddRefresh, Answer
      <4> QED
        BY <1>0, <3>4, <4>1, <4>2, LogoutGoto
    <3>6. RevokedOut'
      <4>1. revoked' = revoked \cup {j.access.id, j.refresh.id}
        BY <2>6, <3>1 DEF AddRefresh
      <4>2. ASSUME NEW t \in revoked' PROVE Out(t)'
        BY <3>2, <3>4, <4>1 DEF LogoutInv, RevokedOut
      <4> QED
        BY <4>2 DEF RevokedOut
    <3> QED
      BY <1>0, <3>4, <3>5, <3>6 DEF LogoutInv
  <2>7. CASE AddFails(r)
    <3>1. PICK j : j = job[r]
      OBVIOUS
    <3>2. j \in Logouts /\ Outlives(j.access) /\ Outlives(j.refresh)
      BY <1>0, <2>7, <3>1 DEF AddFails, TypeOK, LogoutInv, LogoutsOutlive
    <3>3. PICK e \in {j.access, j.refresh} : AddToken(e) \/ UNCHANGED blacklist
      BY <2>7, <3>1 DEF AddFails
    <3>4. e \in Entries /\ Outlives(e) /\ UNCHANGED <<now, forgotten>>
      BY <2>7, <3>2 DEF AddFails, Logouts
    <3>5. EntriesOutlive' /\ (\A t : Out(t) => Out(t)')
      BY <3>3, <3>4, AddTokenOut DEF LogoutInv
    <3>6. LogoutsOutlive' /\ AccessOut' /\ LateGone' /\ LateForgotten'
      <4>1. \A t : (Gone(t) => Gone(t)') /\ (t \in forgotten => t \in forgotten')
        BY <3>4 DEF Gone
      <4>2. Goto(r, "idle", None)
        BY <2>7 DEF AddFails, Answer
      <4> QED
        BY <1>0, <3>5, <4>1, <4>2, LogoutGoto
    <3>7. RevokedOut'
      BY <2>7, <3>5 DEF AddFails, LogoutInv, RevokedOut
    <3> QED
      BY <1>0, <3>5, <3>6, <3>7 DEF LogoutInv
  <2>8. CASE UpdatePassword(r)
    BY <1>0, <2>8, LogoutQuiet DEF UpdatePassword, Answer
  <2>9. CASE QueryFails(r)
    BY <1>0, <2>9, LogoutQuiet DEF QueryFails, Answer
  <2> QED
    BY <1>2, <2>1, <2>2, <2>3, <2>4, <2>5, <2>6, <2>7, <2>8, <2>9 DEF Proceeds
<1>3. ASSUME NEW r \in Requests, Accept(r) PROVE LogoutInv'
  BY <1>0, <1>3, LogoutQuiet DEF Accept, Answer
<1>4. CASE Environment
  <2>1. CASE Tick
    <3>1. ASSUME NEW t, t \in Tokens, Gone(t) PROVE Gone(t)'
      BY <1>0, <2>1, <3>1 DEF Tick, Gone, TypeOK, Tokens
    <3>2. ASSUME NEW t, t \in Tokens, Out(t) PROVE Out(t)'
      <4>1. CASE Gone(t)
        BY <3>1, <3>2, <4>1 DEF Out
      <4>2. CASE Blacklisted(t)
        <5>1. PICK e \in blacklist : e.id = t
          BY <4>2 DEF Blacklisted
        <5>2. t.exp <= e.until /\ t.exp \in Nat /\ e.until \in Nat
          BY <1>0, <5>1 DEF LogoutInv, EntriesOutlive, Outlives, TypeOK, Entries, Tokens
        <5>3. CASE now + 1 < e.until
          BY <2>1, <5>1, <5>3 DEF Tick, Out, Blacklisted
        <5>4. CASE ~(now + 1 < e.until)
          BY <1>0, <2>1, <5>2, <5>4 DEF Tick, Out, Gone, TypeOK
        <5> QED
          BY <5>3, <5>4
      <4> QED
        BY <3>2, <4>1, <4>2 DEF Out
    <3>3. EntriesOutlive' /\ LogoutsOutlive' /\ LateForgotten'
      BY <2>1 DEF Tick, LogoutInv, EntriesOutlive, LogoutsOutlive, LateForgotten, Outlives
    <3>4. AccessOut'
      <4>1. ASSUME NEW r \in Requests, pc[r] = "refresh" PROVE Out(job[r].access.id)'
        <5>1. PICK t : t = job[r].access.id
          OBVIOUS
        <5>2. t \in Tokens /\ Out(t)
          BY <1>0, <4>1, <5>1 DEF LogoutInv, AccessOut, TypeOK, Logouts, Entries
        <5>3. Out(t)'
          BY <3>2, <5>2
        <5> QED
          BY <2>1, <5>1, <5>3 DEF Tick, Out, Gone, Blacklisted
      <4> QED
        BY <2>1, <4>1 DEF AccessOut, Tick
    <3>5. LateGone'
      <4>1. ASSUME NEW r \in Requests, pc[r] = "parse", job[r].late PROVE Gone(job[r].token)'
        <5>1. PICK t : t = job[r].token
          OBVIOUS
        <5>2. t \in Tokens /\ Gone(t)
          BY <1>0, <4>1, <5>1 DEF LogoutInv, LateGone, TypeOK, Checks
        <5>3. Gone(t)'
          BY <3>1, <5>2
        <5> QED
          BY <2>1, <5>1, <5>3 DEF Tick, Gone
      <4> QED
        BY <2>1, <4>1 DEF LateGone, Tick
    <3>6. RevokedOut'
      BY <1>0, <2>1, <3>2 DEF LogoutInv, RevokedOut, Tick, TypeOK
    <3> QED
      BY <1>0, <3>3, <3>4, <3>5, <3>6 DEF LogoutInv
  <2>2. ASSUME NEW lost \in SUBSET blacklist, RedisRestarts(lost) PROVE LogoutInv'
    <3>1. \A t : Gone(t) => Gone(t)'
      BY <2>2 DEF RedisRestarts, Gone
    <3>2. \A t : Out(t) => Out(t)'
      BY <2>2 DEF RedisRestarts, Out, Gone, Blacklisted
    <3>3. EntriesOutlive' /\ LogoutsOutlive' /\ LateForgotten'
      BY <2>2 DEF RedisRestarts, LogoutInv, EntriesOutlive, LogoutsOutlive, LateForgotten, Outlives
    <3>4. AccessOut'
      <4>1. ASSUME NEW r \in Requests, pc[r] = "refresh" PROVE Out(job[r].access.id)'
        <5>1. PICK t : t = job[r].access.id
          OBVIOUS
        <5>2. Out(t)'
          BY <3>2, <4>1, <5>1 DEF LogoutInv, AccessOut
        <5> QED
          BY <2>2, <5>1, <5>2 DEF RedisRestarts, Out, Gone, Blacklisted
      <4> QED
        BY <2>2, <4>1 DEF AccessOut, RedisRestarts
    <3>5. LateGone'
      <4>1. ASSUME NEW r \in Requests, pc[r] = "parse", job[r].late PROVE Gone(job[r].token)'
        <5>1. PICK t : t = job[r].token
          OBVIOUS
        <5>2. Gone(t)'
          BY <3>1, <4>1, <5>1 DEF LogoutInv, LateGone
        <5> QED
          BY <2>2, <5>1, <5>2 DEF RedisRestarts, Gone
      <4> QED
        BY <2>2, <4>1 DEF LateGone, RedisRestarts
    <3>6. RevokedOut'
      BY <2>2, <3>2 DEF LogoutInv, RevokedOut, RedisRestarts
    <3> QED
      BY <1>0, <3>3, <3>4, <3>5, <3>6 DEF LogoutInv
  <2>3. CASE Crash
    BY <1>0, <2>3 DEF Crash, LogoutInv, EntriesOutlive, LogoutsOutlive, AccessOut, RevokedOut,
                      LateGone, LateForgotten, Out, Gone, Blacklisted
  <2> QED
    BY <1>4, <2>1, <2>2, <2>3 DEF Environment
<1>5. CASE UNCHANGED vars
  BY <1>0, <1>5 DEF vars, LogoutInv, EntriesOutlive, LogoutsOutlive, AccessOut, RevokedOut,
                    LateGone, LateForgotten, Out, Gone, Blacklisted
<1> QED
  BY <1>1, <1>2, <1>3, <1>4, <1>5 DEF Next

\* Outside of what Redis lost, no log-out is undone, for any overlap of it
\* with validations, second log-outs, time, failures and crashes.
THEOREM RevokedRefusedAlways == Spec => []RevokedRefused
<1>1. LogoutInv => RevokedRefused
  BY DEF LogoutInv, LateForgotten, RevokedRefused
<1> QED
  BY LogoutInit, LogoutStep, <1>1, PTL DEF Spec

-----------------------------------------------------------------------------
(***************************************************************************)
(* Password changes.  A row only moves to higher versions, so what was     *)
(* read of it once stays behind it, or is still the row.                   *)
(***************************************************************************)
\* The row of e is not older than version v, and if it is v it has password p.
Behind(v, p, e) ==
  /\ users[e] # None
  /\ v <= users[e].version
  /\ v = users[e].version => p = users[e].password

LoginsBehind ==
  \A r \in Requests :
    pc[r] = "issue" => Behind(job[r].row.version, job[r].row.password, job[r].user)

ProvenBehind == \A p \in proven : Behind(p.token.version, p.password, p.token.user)

VersionInv == TypeOK /\ LoginsBehind /\ ProvenBehind

LEMMA VersionInit == Init => VersionInv
BY TypeInit DEF Init, VersionInv, LoginsBehind, ProvenBehind

\* No change of the table brings an old version back.
LEMMA BehindStays ==
  ASSUME VersionInv,
         \/ UNCHANGED users
         \/ \E e \in Emails, p \in Passwords :
              \/ users[e] = None /\ users' = [users EXCEPT ![e] = [password |-> p, version |-> 1]]
              \/ CanUpdate(e) /\ SetPassword(e, p),
         NEW v \in Nat, NEW q \in Passwords, NEW f \in Emails, Behind(v, q, f)
  PROVE  Behind(v, q, f)'
<1>1. users[f] \in Rows /\ users[f].version \in Nat
  BY DEF Behind, VersionInv, TypeOK, Rows
<1>2. CASE UNCHANGED users
  BY <1>2 DEF Behind
<1>3. ASSUME NEW e \in Emails, NEW p \in Passwords,
             users[e] = None, users' = [users EXCEPT ![e] = [password |-> p, version |-> 1]]
      PROVE Behind(v, q, f)'
  <2>1. e # f
    BY <1>3 DEF Behind
  <2>2. users'[f] = users[f]
    BY <1>3, <2>1 DEF VersionInv, TypeOK
  <2> QED
    BY <2>2 DEF Behind
<1>4. ASSUME NEW e \in Emails, NEW p \in Passwords, CanUpdate(e), SetPassword(e, p)
      PROVE Behind(v, q, f)'
  <2>1. CASE e # f
    <3>1. users'[f] = users[f]
      BY <1>4, <2>1 DEF SetPassword, VersionInv, TypeOK
    <3> QED
      BY <3>1 DEF Behind
  <2>2. CASE e = f
    <3>1. users'[f] = [password |-> p, version |-> users[f].version + 1]
      BY <1>4, <2>2 DEF SetPassword, VersionInv, TypeOK
    <3>2. users'[f] \in Rows /\ users'[f].version = users[f].version + 1
      BY <1>1, <3>1 DEF Rows
    <3>3. users'[f] # None
      BY <3>2, NoneAssumption
    <3>4. v < users'[f].version
      BY <1>1, <3>2 DEF Behind
    <3> QED
      BY <3>2, <3>3, <3>4 DEF Behind, Rows
  <2> QED
    BY <2>1, <2>2
<1> QED
  BY <1>2, <1>3, <1>4

\* A step after which the log-ins under way are those of before, or fewer,
\* and which proves nothing.
LEMMA VersionQuiet ==
  ASSUME VersionInv, TypeOK', UNCHANGED proven,
         \A r \in Requests : pc'[r] = "issue" => pc[r] = "issue" /\ job'[r] = job[r],
         \A v \in Nat, q \in Passwords, f \in Emails : Behind(v, q, f) => Behind(v, q, f)'
  PROVE  VersionInv'
<1>1. ASSUME NEW r \in Requests, pc'[r] = "issue"
      PROVE  Behind(job[r].row.version, job[r].row.password, job[r].user)'
  <2>1. PICK j : j = job[r]
    OBVIOUS
  <2>2. j \in Logins /\ Behind(j.row.version, j.row.password, j.user) /\ j = job'[r]
    BY <1>1, <2>1 DEF VersionInv, LoginsBehind, TypeOK
  <2>3. Behind(j.row.version, j.row.password, j.user)'
    BY <2>2 DEF Logins, Rows
  <2> QED
    BY <2>2, <2>3 DEF Behind
<1>2. ASSUME NEW p \in proven PROVE Behind(p.token.version, p.password, p.token.user)'
  <2>1. p \in [token : Tokens, password : Passwords]
    BY DEF VersionInv, TypeOK
  <2>2. p.token.version \in Nat /\ p.password \in Passwords /\ p.token.user \in Emails
    BY <2>1 DEF Tokens
  <2>3. Behind(p.token.version, p.password, p.token.user)
    BY DEF VersionInv, ProvenBehind
  <2> QED
    BY <2>2, <2>3
<1> QED
  BY <1>1, <1>2 DEF VersionInv, LoginsBehind, ProvenBehind

LEMMA VersionStep == VersionInv /\ [Next]_vars => VersionInv'
<1> SUFFICES ASSUME VersionInv, [Next]_vars PROVE VersionInv'
  OBVIOUS
<1>0. TypeOK /\ TypeOK'
  BY TypeStep DEF VersionInv
<1> USE DEF store, history
<1> DEFINE Quiet ==
      \A v \in Nat, q \in Passwords, f \in Emails : Behind(v, q, f) => Behind(v, q, f)'
    Fewer == \A r \in Requests : pc'[r] = "issue" => pc[r] = "issue" /\ job'[r] = job[r]
<1>a. ASSUME UNCHANGED users PROVE Quiet
  BY <1>a DEF Behind
<1>b. ASSUME NEW r \in Requests, NEW p, NEW j, p # "issue", Goto(r, p, j) PROVE Fewer
  BY <1>0, <1>b DEF Goto, TypeOK
<1>1. ASSUME NEW r \in Requests, Arrives(r) PROVE VersionInv'
  <2>1. ASSUME NEW e \in Emails, NEW p \in Passwords, SignUp(r, e, p) PROVE VersionInv'
    <3>1. Quiet
      BY <2>1, BehindStays DEF SignUp
    <3>2. Fewer
      BY <2>1 DEF SignUp
    <3> QED
      BY <1>0, <2>1, <3>1, <3>2, VersionQuiet DEF SignUp
  <2>2. ASSUME NEW e \in Emails, NEW p \in Passwords, SignIn(r, e, p) PROVE VersionInv'
    <3>1. users[e] \in Rows
      BY <1>0, <2>2 DEF SignIn, TypeOK
    <3>2. \A q \in Requests \ {r} : pc'[q] = pc[q] /\ job'[q] = job[q]
      BY <1>0, <2>2 DEF SignIn, Goto, TypeOK
    <3>3. job'[r] = [user |-> e, row |-> users[e]] /\ UNCHANGED <<users, proven>>
      BY <1>0, <2>2 DEF SignIn, Goto, TypeOK
    <3>4. Behind(job[r].row.version, job[r].row.password, job[r].user)'
      <4>1. /\ job'[r].user = e
            /\ job'[r].row.version = users'[e].version
            /\ job'[r].row.password = users'[e].password
        BY <3>3
      <4>2. users'[e] # None /\ users'[e].version \in Nat
        BY <3>1, <3>3, NoneAssumption DEF Rows
      <4> QED
        BY <4>1, <4>2 DEF Behind
    <3>5. ASSUME NEW q \in Requests \ {r}, pc'[q] = "issue"
          PROVE Behind(job[q].row.version, job[q].row.password, job[q].user)'
      <4>1. Behind(job[q].row.version, job[q].row.password, job[q].user)
        BY <3>2, <3>5 DEF VersionInv, LoginsBehind
      <4> QED
        BY <3>2, <3>3, <4>1 DEF Behind
    <3>6. ProvenBehind'
      BY <3>3 DEF VersionInv, ProvenBehind, Behind
    <3> QED
      BY <1>0, <3>4, <3>5, <3>6 DEF VersionInv, LoginsBehind
  <2>3. ASSUME NEW t \in issued, NEW want \in {"access", "refresh"}, CheckBlacklist(r, t, want)
        PROVE VersionInv'
    <3>1. Fewer
      BY <1>b, <2>3 DEF CheckBlacklist
    <3> QED
      BY <1>0, <1>a, <2>3, <3>1, VersionQuiet DEF CheckBlacklist
  <2>4. ASSUME NEW a \in issued, NEW f \in issued, Logout(r, a, f) PROVE VersionInv'
    <3>1. Fewer
      BY <1>b, <2>4 DEF Logout
    <3> QED
      BY <1>0, <1>a, <2>4, <3>1, VersionQuiet DEF Logout
  <2>5. ASSUME NEW e \in Emails, NEW old \in Passwords, NEW new \in Passwords,
               ChangePassword(r, e, old, new)
        PROVE VersionInv'
    <3>1. Fewer
      BY <1>b, <2>5 DEF ChangePassword
    <3> QED
      BY <1>0, <1>a, <2>5, <3>1, VersionQuiet DEF ChangePassword
  <2> QED
    BY <1>1, <2>1, <2>2, <2>3, <2>4, <2>5 DEF Arrives
<1>2. ASSUME NEW r \in Requests, Proceeds(r) PROVE VersionInv'
  <2>1. CASE IssuePair(r)
    <3>1. PICK j : j = job[r]
      OBVIOUS
    <3>2. j \in Logins /\ Behind(j.row.version, j.row.password, j.user)
      BY <1>0, <2>1, <3>1 DEF IssuePair, VersionInv, LoginsBehind, TypeOK
    <3>3. Fewer
      BY <1>b, <2>1 DEF IssuePair, Answer
    <3>4. UNCHANGED users
      BY <2>1 DEF IssuePair
    <3>5. LoginsBehind'
      <4>1. ASSUME NEW q \in Requests, pc'[q] = "issue"
            PROVE Behind(job[q].row.version, job[q].row.password, job[q].user)'
        BY <3>3, <3>4, <4>1 DEF VersionInv, LoginsBehind, Behind
      <4> QED
        BY <4>1 DEF LoginsBehind
    <3>6. ProvenBehind'
      <4> DEFINE t == RefreshTokenOf(j.user, j.row.version)
                 new == [token |-> t, password |-> j.row.password]
      <4>1. proven' = proven \cup {new}
        BY <2>1, <3>1 DEF IssuePair
      <4>2. /\ new.token.version = j.row.version
            /\ new.token.user = j.user
            /\ new.password = j.row.password
        BY DEF RefreshTokenOf
      <4> HIDE DEF new
      <4>3. ASSUME NEW p \in proven' PROVE Behind(p.token.version, p.password, p.token.user)'
        BY <3>2, <3>4, <4>1, <4>2 DEF VersionInv, ProvenBehind, Behind
      <4> QED
        BY <4>3 DEF ProvenBehind
    <3> QED
      BY <1>0, <3>5, <3>6 DEF VersionInv
  <2>2. CASE Parse(r)
    <3>1. Fewer
      BY <1>b, <2>2 DEF Parse, Answer
    <3> QED
      BY <1>0, <1>a, <2>2, <3>1, VersionQuiet DEF Parse
  <2>3. CASE FindUser(r)
    <3>1. job[r].want \in {"access", "refresh"}
      BY <1>0, <2>3 DEF FindUser, TypeOK, Checks
    <3>2. \E p \in {"accepted", "grant", "idle"} : \E j : Goto(r, p, j)
      BY <2>3, <3>1 DEF FindUser, Answer
    <3>3. Fewer
      BY <1>b, <3>2
    <3> QED
      BY <1>0, <1>a, <2>3, <3>3, VersionQuiet DEF FindUser
  <2>4. CASE Grant(r)
    <3>1. Fewer
      BY <1>b, <2>4 DEF Grant, Answer
    <3> QED
      BY <1>0, <1>a, <2>4, <3>1, VersionQuiet DEF Grant
  <2>5. CASE AddAccess(r)
    <3>1. Fewer
      BY <1>b, <2>5 DEF AddAccess
    <3> QED
      BY <1>0, <1>a, <2>5, <3>1, VersionQuiet DEF AddAccess
  <2>6. CASE AddRefresh(r)
    <3>1. Fewer
      BY <1>b, <2>6 DEF AddRefresh, Answer
    <3> QED
      BY <1>0, <1>a, <2>6, <3>1, VersionQuiet DEF AddRefresh
  <2>7. CASE AddFails(r)
    <3>1. Fewer
      BY <1>b, <2>7 DEF AddFails, Answer
    <3> QED
      BY <1>0, <1>a, <2>7, <3>1, VersionQuiet DEF AddFails
  <2>8. CASE UpdatePassword(r)
    <3>1. Fewer
      BY <1>b, <2>8 DEF UpdatePassword, Answer
    <3>2. job[r].user \in Emails /\ job[r].new \in Passwords
      BY <1>0, <2>8 DEF UpdatePassword, TypeOK, Changes
    <3>3. Quiet
      BY <2>8, <3>2, BehindStays DEF UpdatePassword
    <3> QED
      BY <1>0, <2>8, <3>1, <3>3, VersionQuiet DEF UpdatePassword
  <2>9. CASE QueryFails(r)
    <3>1. Fewer
      BY <1>b, <2>9 DEF QueryFails, Answer
    <3>2. Quiet
      <4>1. CASE UNCHANGED users
        BY <1>a, <4>1
      <4>2. CASE /\ pc[r] = "update"
                 /\ CanUpdate(job[r].user)
                 /\ SetPassword(job[r].user, job[r].new)
        <5>1. job[r].user \in Emails /\ job[r].new \in Passwords
          BY <1>0, <4>2 DEF TypeOK, Changes
        <5> QED
          BY <4>2, <5>1, BehindStays
      <4> QED
        BY <2>9, <4>1, <4>2 DEF QueryFails
    <3> QED
      BY <1>0, <2>9, <3>1, <3>2, VersionQuiet DEF QueryFails
  <2> QED
    BY <1>2, <2>1, <2>2, <2>3, <2>4, <2>5, <2>6, <2>7, <2>8, <2>9 DEF Proceeds
<1>3. ASSUME NEW r \in Requests, Accept(r) PROVE VersionInv'
  <2>1. Fewer
    BY <1>b, <1>3 DEF Accept, Answer
  <2> QED
    BY <1>0, <1>a, <1>3, <2>1, VersionQuiet DEF Accept
<1>4. CASE Environment
  <2>1. Fewer /\ UNCHANGED <<users, proven>>
    BY <1>4 DEF Environment, Tick, RedisRestarts, Crash
  <2> QED
    BY <1>0, <1>a, <2>1, VersionQuiet
<1>5. CASE UNCHANGED vars
  <2>1. Fewer /\ UNCHANGED <<users, proven>>
    BY <1>5 DEF vars
  <2> QED
    BY <1>0, <1>a, <2>1, VersionQuiet
<1> QED
  BY <1>1, <1>2, <1>3, <1>4, <1>5 DEF Next

\* No refresh token outlives the password it was obtained with, whatever
\* overlaps.
THEOREM VersionPinsPasswordAlways == Spec => []VersionPinsPassword
<1>1. VersionInv => VersionPinsPassword
  BY DEF VersionInv, ProvenBehind, Behind, VersionPinsPassword
<1> QED
  BY VersionInit, VersionStep, <1>1, PTL DEF Spec

\* Where a request is granted something, it was granted it before, or has just
\* found its token to be of the current version.
LEMMA GrantIsCurrent ==
  ASSUME TypeOK, [Next]_vars, NEW q \in Requests, pc'[q] = "grant"
  PROVE  \/ pc[q] = "grant"
         \/ job'[q] = job[q] /\ job[q].token.version = users[job[q].token.user].version
<1> USE DEF store, history
<1>a. ASSUME NEW r \in Requests, NEW p, NEW j, p # "grant", Goto(r, p, j) PROVE pc[q] = "grant"
  BY <1>a DEF Goto, TypeOK
<1>1. ASSUME NEW r \in Requests, Arrives(r) PROVE pc[q] = "grant"
  BY <1>1, <1>a DEF Arrives, SignUp, SignIn, CheckBlacklist, Logout, ChangePassword
<1>2. ASSUME NEW r \in Requests, FindUser(r)
      PROVE  \/ pc[q] = "grant"
             \/ job'[q] = job[q] /\ job[q].token.version = users[job[q].token.user].version
  <2>1. job[r].want \in {"access", "refresh"}
    BY <1>2 DEF FindUser, TypeOK, Checks
  <2>2. \/ Goto(r, "accepted", job[r]) \/ Goto(r, "idle", None)
        \/ /\ Goto(r, "grant", job[r])
           /\ job[r].token.version = users[job[r].token.user].version
    BY <1>2, <2>1 DEF FindUser, Answer
  <2>3. CASE Goto(r, "grant", job[r])
    BY <2>2, <2>3, <1>a DEF Goto, TypeOK
  <2> QED
    BY <2>2, <2>3, <1>a
<1>3. ASSUME NEW r \in Requests, Proceeds(r), ~FindUser(r) PROVE pc[q] = "grant"
  BY <1>3, <1>a DEF Proceeds, IssuePair, Parse, Grant, AddAccess, AddRefresh, AddFails,
                    UpdatePassword, QueryFails, Answer
<1>4. ASSUME NEW r \in Requests, Accept(r) PROVE pc[q] = "grant"
  BY <1>4, <1>a DEF Accept, Answer
<1>5. CASE Environment
  BY <1>5 DEF Environment, Tick, RedisRestarts, Crash
<1>6. CASE UNCHANGED vars
  BY <1>6 DEF vars
<1> QED
  BY <1>1, <1>2, <1>3, <1>4, <1>5, <1>6 DEF Next

\* The table changes in the three ways that BehindStays allows.
LEMMA TableChanges ==
  ASSUME TypeOK, [Next]_vars
  PROVE  \/ UNCHANGED users
         \/ \E e \in Emails, p \in Passwords :
              \/ users[e] = None /\ users' = [users EXCEPT ![e] = [password |-> p, version |-> 1]]
              \/ CanUpdate(e) /\ SetPassword(e, p)
<1> USE DEF store, history
<1>1. ASSUME NEW r \in Requests, pc[r] = "update"
      PROVE  job[r].user \in Emails /\ job[r].new \in Passwords
  BY <1>1 DEF TypeOK, Changes
<1>2. ASSUME NEW r \in Requests, UpdatePassword(r)
      PROVE  \E e \in Emails, p \in Passwords : CanUpdate(e) /\ SetPassword(e, p)
  BY <1>1, <1>2 DEF UpdatePassword
<1>3. ASSUME NEW r \in Requests, QueryFails(r)
      PROVE  \/ UNCHANGED users
             \/ \E e \in Emails, p \in Passwords : CanUpdate(e) /\ SetPassword(e, p)
  BY <1>1, <1>3 DEF QueryFails
<1>4. ASSUME NEW r \in Requests, Arrives(r)
      PROVE  \/ UNCHANGED users
             \/ \E e \in Emails, p \in Passwords :
                  users[e] = None /\ users' = [users EXCEPT ![e] = [password |-> p, version |-> 1]]
  BY <1>4 DEF Arrives, SignUp, SignIn, CheckBlacklist, Logout, ChangePassword
<1>5. ASSUME NEW r \in Requests, Proceeds(r), ~UpdatePassword(r), ~QueryFails(r)
      PROVE  UNCHANGED users
  BY <1>5 DEF Proceeds, IssuePair, Parse, FindUser, Grant, AddAccess, AddRefresh, AddFails
<1>6. ASSUME NEW r \in Requests, Accept(r) PROVE UNCHANGED users
  BY <1>6 DEF Accept
<1>7. CASE Environment \/ UNCHANGED vars
  BY <1>7 DEF Environment, Tick, RedisRestarts, Crash, vars
<1> QED
  BY <1>2, <1>3, <1>4, <1>5, <1>6, <1>7 DEF Next

\* A session that a change of password has ended stays ended, and only a
\* request that compared the versions before the change is still granted.
THEOREM EndedSessionsStay == Spec => EndedForGood
<1>1. ASSUME VersionInv, [Next]_vars, NEW p \in proven, Ended(p.token)
      PROVE  /\ Ended(p.token)'
             /\ \A r \in Requests :
                  pc'[r] = "grant" /\ job'[r].token = p.token => pc[r] = "grant"
  <2>1. PICK t : t = p.token
    OBVIOUS
  <2>2. t.version \in Nat /\ t.user \in Emails
    BY <1>1, <2>1 DEF VersionInv, TypeOK, Tokens
  <2>3. users[t.user] \in Rows /\ t.version < users[t.user].version
    BY <1>1, <2>1, <2>2 DEF VersionInv, TypeOK, ProvenBehind, Behind, Ended
  <2>4. users[t.user].version \in Nat /\ users[t.user].password \in Passwords
    BY <2>3 DEF Rows
  <2>5. Behind(t.version + 1, users[t.user].password, t.user)
    BY <2>2, <2>3, <2>4, NoneAssumption DEF Behind
  <2>6. PICK v \in Nat, q \in Passwords : v = t.version + 1 /\ q = users[t.user].password
    BY <2>2, <2>4
  <2>7. Behind(v, q, t.user)'
    BY <1>1, <2>2, <2>5, <2>6, BehindStays, TableChanges DEF VersionInv
  <2>8. users'[t.user] \in Rows
    BY <1>1, <2>2, <2>7, TypeStep DEF VersionInv, TypeOK, Behind
  <2>9. Ended(p.token)'
    BY <2>1, <2>2, <2>6, <2>7, <2>8 DEF Behind, Ended, Rows
  <2>10. ASSUME NEW r \in Requests, pc'[r] = "grant", job'[r].token = p.token
         PROVE  pc[r] = "grant"
    BY <1>1, <2>1, <2>2, <2>3, <2>4, <2>10, GrantIsCurrent DEF VersionInv
  <2> QED
    BY <2>9, <2>10
<1>2. VersionInv /\ [Next]_vars
        => [\A p \in proven :
              Ended(p.token) =>
                /\ Ended(p.token)'
                /\ \A r \in Requests :
                     pc'[r] = "grant" /\ job'[r].token = p.token => pc[r] = "grant"]_vars
  BY <1>1
<1> QED
  BY VersionInit, VersionStep, <1>2, PTL DEF Spec, EndedForGood

=============================================================================
