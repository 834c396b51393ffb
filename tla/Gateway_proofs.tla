--------------------------- MODULE Gateway_proofs ---------------------------
(***************************************************************************)
(* Proofs about Gateway.  Seen from the auth service, the gateway adds     *)
(* nothing: each of its steps is a step of AuthSession or none.  So what   *)
(* is proved of the auth service holds behind the gateway, and what the    *)
(* gateway hands on is proved from it.                                     *)
(***************************************************************************)
EXTENDS Gateway, AuthSession_proofs, SequenceTheorems

-----------------------------------------------------------------------------
(***************************************************************************)
(* The gateway implements the clients of the auth service.                 *)
(***************************************************************************)
LEMMA GatewayStepIsStep == [GatewayNext]_allVars => [Next]_vars
<1> SUFFICES ASSUME [GatewayNext]_allVars PROVE [Next]_vars
  OBVIOUS
<1>1. CASE AuthStep /\ UNCHANGED gateway
  BY <1>1 DEF AuthStep, Next
<1>2. ASSUME NEW r \in Requests, GatewayStep(r) PROVE [Next]_vars
  <2>1. ASSUME NEW t \in issued, Receive(r, t) PROVE Next
    <3>1. Arrives(r)
      BY <2>1 DEF Receive, Arrives
    <3> QED
      BY <3>1 DEF Next
  <2>2. CASE Validated(r)
    BY <2>2 DEF Validated, Next
  <2>3. CASE Refused(r) \/ GiveUp(r) \/ Forward(r)
    BY <2>3 DEF Refused, GiveUp, Forward, Finish
  <2> QED
    BY <1>2, <2>1, <2>2, <2>3 DEF GatewayStep
<1>3. CASE UNCHANGED allVars
  BY <1>3 DEF allVars
<1> QED
  BY <1>1, <1>2, <1>3 DEF GatewayNext

\* Behind the gateway the auth service is the one of AuthSession.
THEOREM GatewayImplementsAuth == GatewaySpec => Spec
<1>1. GatewayInit => Init
  BY DEF GatewayInit
<1> QED
  BY <1>1, GatewayStepIsStep, PTL DEF GatewaySpec, Spec

\* So no log-out is undone behind the gateway either.
THEOREM RevokedRefusedBehindGateway == GatewaySpec => []RevokedRefused
BY GatewayImplementsAuth, RevokedRefusedAlways, PTL

\* And versions pin passwords.
THEOREM VersionPinsPasswordBehindGateway == GatewaySpec => []VersionPinsPassword
BY GatewayImplementsAuth, VersionPinsPasswordAlways, PTL

\* And a session ended by a change of password stays ended.
THEOREM EndedSessionsStayBehindGateway == GatewaySpec => EndedForGood
BY GatewayImplementsAuth, EndedSessionsStay, PTL

-----------------------------------------------------------------------------
(***************************************************************************)
(* Types, and who is behind the gateway.                                   *)
(***************************************************************************)
AdmittedNotRevoked ==
  \A r \in Requests : hop[r] = "admitted" /\ caller[r].late => caller[r].token \in forgotten

GatewayInv == GatewayTypeOK /\ LogoutInv /\ AdmittedNotRevoked

LEMMA GatewayInvInit == GatewayInit => GatewayInv
BY TypeInit, LogoutInit DEF GatewayInit, GatewayInv, GatewayTypeOK, AdmittedNotRevoked

LEMMA GatewayInvStep == GatewayInv /\ [GatewayNext]_allVars => GatewayInv'
<1> SUFFICES ASSUME GatewayInv, [GatewayNext]_allVars PROVE GatewayInv'
  OBVIOUS
<1>1. LogoutInv' /\ TypeOK'
  BY GatewayStepIsStep, LogoutStep, TypeStep DEF GatewayInv, LogoutInv
<1>2. forgotten \subseteq forgotten'
  BY GatewayStepIsStep DEF Next, Arrives, Proceeds, Environment, SignUp, SignIn, CheckBlacklist,
     Logout, ChangePassword, IssuePair, Parse, FindUser, Grant, Accept, AddAccess, AddRefresh,
     AddFails, UpdatePassword, QueryFails, Tick, RedisRestarts, Crash, store, history, vars
<1>3. CASE UNCHANGED gateway
  BY <1>1, <1>2, <1>3 DEF GatewayInv, GatewayTypeOK, AdmittedNotRevoked, gateway
<1>4. ASSUME NEW r \in Requests, GatewayStep(r) PROVE GatewayInv'
  <2>1. ASSUME NEW t \in issued, Receive(r, t) PROVE GatewayInv'
    BY <1>1, <1>2, <2>1 DEF Receive, GatewayInv, GatewayTypeOK, AdmittedNotRevoked
  <2>2. CASE Validated(r) /\ hop[r] = "validating"
    <3>1. job[r] \in Checks /\ (job[r].late => job[r].token \in forgotten)
      BY <2>2 DEF Validated, Accept, GatewayInv, LogoutInv, LateForgotten, TypeOK
    <3>2. /\ hop' = [hop EXCEPT ![r] = "admitted"]
          /\ caller' = [caller EXCEPT ![r] = job[r]]
      BY <2>2 DEF Validated
    <3> QED
      BY <1>1, <1>2, <3>1, <3>2 DEF GatewayInv, GatewayTypeOK, AdmittedNotRevoked
  <2>3. CASE Validated(r) /\ hop[r] # "validating"
    BY <1>3, <2>3 DEF Validated
  <2>4. CASE Refused(r) \/ GiveUp(r) \/ Forward(r)
    BY <1>1, <1>2, <2>4 DEF Refused, GiveUp, Forward, Finish, GatewayInv, GatewayTypeOK,
                            AdmittedNotRevoked
  <2> QED
    BY <1>4, <2>1, <2>2, <2>3, <2>4 DEF GatewayStep
<1> QED
  BY <1>3, <1>4 DEF GatewayNext, allVars

\* Every variable has its type; a request that is admitted has a caller, and
\* no other request has one.
THEOREM GatewayTypeCorrect == GatewaySpec => []GatewayTypeOK
BY GatewayInvInit, GatewayInvStep, PTL DEF GatewaySpec, GatewayInv

\* No backend serves a revoked token, however many gateway requests were
\* given up while the auth service still validated them.
THEOREM RevokedNotServedAlways == GatewaySpec => []RevokedNotServed
<1>1. GatewayInv => RevokedNotServed
  BY DEF GatewayInv, AdmittedNotRevoked, RevokedNotServed
<1> QED
  BY GatewayInvInit, GatewayInvStep, <1>1, PTL DEF GatewaySpec

\* A late answer, too, changes nothing in the gateway.
THEOREM LateAnswerAdmitsNobodyAlways == GatewaySpec => LateAnswerAdmitsNobody
<1>1. ASSUME GatewayInv, GatewayNext, NEW r \in Requests, hop[r] = "none", pc[r] # "idle"
      PROVE  hop'[r] = "none"
  <2>1. CASE UNCHANGED gateway
    BY <1>1, <2>1 DEF gateway
  <2>2. ASSUME NEW q \in Requests, GatewayStep(q) PROVE hop'[r] = "none"
    <3>1. ASSUME NEW t \in issued, Receive(q, t) PROVE hop'[r] = "none"
      <4>1. pc[q] = "idle" /\ hop' = [hop EXCEPT ![q] = "validating"]
        BY <3>1 DEF Receive, CheckBlacklist
      <4> QED
        BY <1>1, <4>1 DEF GatewayInv, GatewayTypeOK
    <3>2. CASE Validated(q)
      BY <1>1, <3>2 DEF Validated, gateway, GatewayInv, GatewayTypeOK
    <3>3. CASE Refused(q) \/ GiveUp(q) \/ Forward(q)
      BY <1>1, <3>3 DEF Refused, GiveUp, Forward, Finish, GatewayInv, GatewayTypeOK
    <3> QED
      BY <2>2, <3>1, <3>2, <3>3 DEF GatewayStep
  <2> QED
    BY <1>1, <2>1, <2>2 DEF GatewayNext
<1>2. GatewayInv /\ [GatewayNext]_allVars
        => [\A r \in Requests : hop[r] = "none" /\ pc[r] # "idle" => hop'[r] = "none"]_allVars
  BY <1>1
<1> QED
  BY GatewayInvInit, GatewayInvStep, <1>2, PTL DEF GatewaySpec, LateAnswerAdmitsNobody

-----------------------------------------------------------------------------
(***************************************************************************)
(* What is forwarded.                                                      *)
(***************************************************************************)
\* The user a request is forwarded for is one the auth service knows.
LEMMA ForwardedFor ==
  ASSUME GatewayInv, NEW r \in Requests, Forward(r)
  PROVE  caller[r].token.user \in Emails
BY DEF GatewayInv, GatewayTypeOK, Forward, Checks, Tokens

\* What core finds behind its base path.
LEMMA RestOfCorePath ==
  ASSUME NEW u
  PROVE  /\ SubSeq(CoreBase \o <<u>>, Len(CoreBase) + 1, Len(CoreBase \o <<u>>)) = <<u>>
         /\ SubSeq(CoreBase \o <<>>, Len(CoreBase) + 1, Len(CoreBase \o <<>>)) = <<>>
<1> DEFINE S == {u, "api", "integrations"}
<1>1. CoreBase \in Seq(S)
  BY DEF CoreBase
<1>2. <<u>> \in Seq(S) /\ <<>> \in Seq(S)
  OBVIOUS
<1>3. Len(CoreBase) = 2 /\ Len(<<u>>) = 1 /\ Len(<<>>) = 0
  BY DEF CoreBase
<1> HIDE DEF S
<1>4. SubSeq(CoreBase \o <<u>>, Len(CoreBase) + 1, Len(CoreBase \o <<u>>)) = <<u>>
  <2>1. PICK p : p = CoreBase \o <<u>>
    OBVIOUS
  <2>2. Len(CoreBase) + 1 = 3
    BY <1>3
  <2>3. p \in Seq(S) /\ Len(p) = 3
    <3>1. p \in Seq(S) /\ Len(p) = Len(CoreBase) + Len(<<u>>)
      BY <1>1, <1>2, <2>1, ConcatProperties
    <3>2. Len(CoreBase) + Len(<<u>>) = 3
      BY <1>3
    <3> QED
      BY <3>1, <3>2, Zenon
  <2>4. p[3] = u
    <3>1. p[3] = IF 3 <= Len(CoreBase) THEN CoreBase[3] ELSE <<u>>[3 - Len(CoreBase)]
      BY <1>1, <1>2, <1>3, <2>1, ConcatProperties
    <3> QED
      BY <1>3, <3>1
  <2>5. SubSeq(p, 3, 3) = <<u>>
    <3>1. PICK q : q = SubSeq(p, 3, 3)
      OBVIOUS
    <3>2. \A i \in 3 .. 3 : p[i] \in S
      <4>1. p[3] \in S
        BY <2>4 DEF S
      <4>2. ASSUME NEW i \in 3 .. 3 PROVE i = 3
        OBVIOUS
      <4> QED
        BY <4>1, <4>2, Zenon
    <3>3. q \in Seq(S) /\ Len(q) = 1 /\ q[1] = p[3]
      <4>1. /\ SubSeq(p, 3, 3) \in Seq(S)
            /\ Len(SubSeq(p, 3, 3)) = IF 3 <= 3 THEN 3 - 3 + 1 ELSE 0
            /\ \A i \in 1 .. 3 - 3 + 1 : SubSeq(p, 3, 3)[i] = p[3 + i - 1]
        BY <3>2, SubSeqProperties, 3 \in Int
      <4> QED
        BY <3>1, <4>1
    <3>4. \A i \in 1 .. Len(q) : q[i] = <<u>>[i]
      BY <2>4, <3>3
    <3>5. q = <<u>>
      BY <1>2, <1>3, <3>3, <3>4, SeqEqual
    <3> QED
      BY <3>1, <3>5
  <2> QED
    BY <2>1, <2>2, <2>3, <2>5
<1>5. SubSeq(CoreBase \o <<>>, Len(CoreBase) + 1, Len(CoreBase \o <<>>)) = <<>>
  <2>1. CoreBase \o <<>> = CoreBase
    BY <1>1, ConcatEmptySeq
  <2>2. SubSeq(CoreBase, 3, 2) = <<>>
    BY SubSeqEmpty
  <2>3. Len(CoreBase) + 1 = 3
    BY <1>3
  <2> QED
    BY <1>3, <2>1, <2>2, <2>3, Zenon
<1> QED
  BY <1>4, <1>5

\* The routes of core, by what is left of the path.
LEMMA CoreRoutes ==
  ASSUME NEW path, NEW user, NEW b,
         NEW rest, rest = SubSeq(path, Len(CoreBase) + 1, Len(path))
  PROVE  /\ rest = <<user>> =>
              CoreRoute("GET", path, user, b) = Op("listIntegrations", user, None, None)
         /\ rest = <<>> =>
              \A method \in Methods \ {"GET"} :
                CoreRoute(method, path, user, b) \in {Create(user, b), Nothing}
<1>1. /\ Len(<<user>>) = 1 /\ <<user>>[1] = user
      /\ Len(<<>>) # 1
      /\ "GET" # "POST" /\ "GET" # "DELETE"
  OBVIOUS
<1>2. ASSUME rest = <<user>>
      PROVE  CoreRoute("GET", path, user, b) = Op("listIntegrations", user, None, None)
  BY <1>1, <1>2, Zenon DEF CoreRoute
<1>3. ASSUME rest = <<>>, NEW method \in Methods \ {"GET"}
      PROVE  CoreRoute(method, path, user, b) \in {Create(user, b), Nothing}
  <2>1. CASE method = "POST"
    BY <1>3, <2>1, Zenon DEF CoreRoute
  <2>2. CASE method # "POST"
    <3>1. /\ ~(method = "POST" /\ rest = <<>>)
          /\ ~(method = "GET" /\ Len(rest) = 1)
          /\ ~(method = "DELETE" /\ Len(rest) = 1)
      BY <1>1, <1>3, <2>2
    <3> QED
      BY <3>1, Zenon DEF CoreRoute
  <2> QED
    BY <2>1, <2>2
<1> QED
  BY <1>2, <1>3

\* A handler that is reached works for the user of the token.
LEMMA OwnDataServed ==
  ASSUME NEW c \in Calls, NEW user \in Emails
  PROVE  OwnData(c, user)
<1>0. Served[c][user] = Serves(c, user)
  BY DEF Served
<1>1. CASE IsPrefix(EmailBase, c.path) /\ c.method = "GET"
  <2>1. Rewritten(c, user) = CoreBase \o <<user>>
    BY <1>1 DEF Rewritten
  <2>2. Serves(c, user) = CoreRoute("GET", CoreBase \o <<user>>, user, Body(c))
    BY <1>1, <2>1 DEF Serves, UserHeader
  <2>3. Serves(c, user) = Op("listIntegrations", user, None, None)
    BY <2>2, RestOfCorePath, CoreRoutes
  <2> QED
    BY <1>0, <2>3 DEF OwnData, Op
<1>2. CASE IsPrefix(EmailBase, c.path) /\ c.method # "GET"
  <2>1. Rewritten(c, user) = CoreBase \o <<>>
    BY <1>2 DEF Rewritten
  <2>2. Serves(c, user) = CoreRoute(c.method, CoreBase \o <<>>, user, Body(c))
    BY <1>2, <2>1 DEF Serves, UserHeader
  <2>3. Serves(c, user) \in {Create(user, Body(c)), Nothing}
    BY <1>2, <2>2, RestOfCorePath, CoreRoutes, GatewayAssumption
  <2>4. \A b : Create(user, b) = Nothing \/ Create(user, b).subject = user
    BY DEF Create, Op
  <2>5. Nothing.op = "none"
    BY DEF Nothing, Op
  <2> QED
    BY <1>0, <2>3, <2>4, <2>5 DEF OwnData
<1>3. CASE ~IsPrefix(EmailBase, c.path)
  <2>1. Serves(c, user) \in {Nothing, CollectorRoute(c.method, Rewritten(c, user), user)}
    BY <1>3 DEF Serves, UserHeader
  <2>2. ASSUME NEW method, NEW path
        PROVE  \/ CollectorRoute(method, path, user) = Nothing
               \/ CollectorRoute(method, path, user).subject = user
    BY DEF CollectorRoute, Op
  <2>3. Nothing.op = "none"
    BY DEF Nothing, Op
  <2> QED
    BY <1>0, <2>1, <2>2, <2>3 DEF OwnData
<1> QED
  BY <1>1, <1>2, <1>3

\* Own data only, for every path, header and number of users.
THEOREM OwnDataOnlyAlways == GatewaySpec => OwnDataOnly
<1>1. GatewayInv /\ [GatewayNext]_allVars => [Forwarded(OwnData)]_allVars
  BY ForwardedFor, OwnDataServed DEF Forwarded
<1> QED
  BY GatewayInvInit, GatewayInvStep, <1>1, PTL DEF GatewaySpec, OwnDataOnly

-----------------------------------------------------------------------------
(***************************************************************************)
(* New integrations.                                                       *)
(***************************************************************************)
\* getIMAPSettingsByEmail returns the name of some server, and without TLS the
\* Bridge's.
LEMMA ProviderTypes ==
  ASSUME NEW domain \in Domains
  PROVE  /\ ProviderHost(domain) \in Hosts
         /\ ProviderSettings(domain).host \in Hosts
         /\ ProviderSettings(domain).port \in Int
         /\ ProviderSettings(domain).ssl \in BOOLEAN
         /\ ProviderSettings(domain).ssl = TRUE \/ ProviderSettings(domain).host = Bridge
<1>1. ProviderHost(domain) \in Hosts
  <2>1. Imap[domain] \in Hosts
    BY HostAssumption
  <2>2. /\ "imap.gmail.com" \in Hosts
        /\ "outlook.office365.com" \in Hosts
        /\ "imap.yandex.ru" \in Hosts
        /\ "imap.mail.ru" \in Hosts
        /\ "imap.mail.yahoo.com" \in Hosts
    BY HostAssumption DEF ProviderHosts
  <2> QED
    BY <2>1, <2>2, Zenon DEF ProviderHost
<1>2. CASE IsProton(domain)
  <2>1. ProviderSettings(domain) = [host |-> Bridge, port |-> 1143, ssl |-> FALSE]
    BY <1>2 DEF ProviderSettings, Settings
  <2>2. Bridge \in Hosts
    BY HostAssumption
  <2> QED
    BY <1>1, <1>2, <2>1, <2>2
<1>3. CASE ~IsProton(domain)
  <2>1. ProviderSettings(domain) = [host |-> ProviderHost(domain), port |-> IMAPS, ssl |-> TRUE]
    BY <1>3 DEF ProviderSettings, Settings
  <2> QED
    BY <1>1, <2>1 DEF IMAPS
<1> QED
  BY <1>2, <1>3

\* What a POST to the gateway makes of core.
LEMMA PostServed ==
  ASSUME NEW c \in Calls, NEW user \in Emails
  PROVE  /\ Served[c][user].op = "create" =>
              /\ c.body # None
              /\ Served[c][user] =
                   Create(user, IF c.body.read THEN AutoIMAP(c.body) ELSE c.body)
         /\ OnlyAddress(c) => Served[c][user] = Create(user, AutoIMAP(c.body))
<1>0. Served[c][user] = Serves(c, user)
  BY DEF Served
<1>1. Nothing.op # "create"
  BY DEF Nothing, Op
<1>2. ASSUME NEW method, NEW path
      PROVE  CollectorRoute(method, path, user).op # "create"
  <2>1. CollectorOp(method, SubSeq(path, Len(Tasks) + 1, Len(path))) # "create"
    BY Zenon DEF CollectorOp
  <2> QED
    BY <1>1, <2>1 DEF CollectorRoute, Op
<1>3. ASSUME c.method # "POST" PROVE Served[c][user].op # "create"
  <2>1. ASSUME NEW path, NEW b PROVE CoreRoute(c.method, path, user, b).op # "create"
    <3>1. /\ \A u, i, s : Op("listIntegrations", u, i, s).op # "create"
          /\ \A u, i, s : Op("deleteIntegration", u, i, s).op # "create"
      BY DEF Op
    <3> QED
      BY <1>1, <1>3, <3>1, Zenon DEF CoreRoute
  <2> QED
    BY <1>0, <1>1, <1>2, <2>1 DEF Serves, UserHeader
<1>4. ASSUME c.method = "POST", IsPrefix(EmailBase, c.path)
      PROVE  Served[c][user] = Create(user, Body(c))
  <2>1. Rewritten(c, user) = CoreBase \o <<>>
    BY <1>4 DEF Rewritten
  <2>2. CoreRoute("POST", CoreBase \o <<>>, user, Body(c)) = Create(user, Body(c))
    BY RestOfCorePath, Zenon DEF CoreRoute
  <2> QED
    BY <1>0, <1>4, <2>1, <2>2 DEF Serves, UserHeader
<1>5. ASSUME ~IsPrefix(EmailBase, c.path) PROVE Served[c][user].op # "create"
  BY <1>0, <1>1, <1>2, <1>5 DEF Serves, UserHeader
<1>6. c.method = "POST" /\ IsPrefix(EmailBase, c.path) =>
        Body(c) = IF c.body # None /\ c.body.read THEN AutoIMAP(c.body) ELSE c.body
  BY DEF Body
<1>7. Create(user, None) = Nothing
  BY DEF Create, Accepts
<1>8. OnlyAddress(c) => Served[c][user] = Create(user, AutoIMAP(c.body))
  BY <1>4, <1>6 DEF OnlyAddress
<1> QED
  BY <1>1, <1>3, <1>4, <1>5, <1>6, <1>7, <1>8

\* What AutoIMAP leaves of the body b, and what it puts there.
LEMMA AutoIMAPFills ==
  ASSUME NEW b \in NewIntegrations
  PROVE  /\ AutoIMAP(b) # None
         /\ AutoIMAP(b).valid = b.valid
         /\ b.host = None =>
              /\ AutoIMAP(b).host = ProviderSettings(b.domain).host
              /\ AutoIMAP(b).port = ProviderSettings(b.domain).port
              /\ AutoIMAP(b).ssl = ProviderSettings(b.domain).ssl
         /\ b.host # None => AutoIMAP(b).ssl = Default(b.ssl, TRUE)
<1>1. PICK s : s = IF b.host = None THEN ProviderSettings(b.domain)
                   ELSE Settings(b.host, Default(b.port, IMAPS), Default(b.ssl, TRUE))
  OBVIOUS
<1>2. PICK x : x = AutoIMAP(b)
  OBVIOUS
<1>3. x = [b EXCEPT !.host = s.host, !.port = s.port, !.ssl = s.ssl]
  <2>1. x = WithSettings(b, s)
    BY <1>1, <1>2, Zenon DEF AutoIMAP
  <2> QED
    BY <2>1, Zenon DEF WithSettings
<1>4. /\ x.host = s.host /\ x.port = s.port /\ x.ssl = s.ssl
      /\ x.domain = b.domain /\ x.read = b.read /\ x.valid = b.valid
      /\ x = [domain |-> x.domain, host |-> x.host, port |-> x.port, ssl |-> x.ssl,
             read |-> x.read, valid |-> x.valid]
  BY <1>3 DEF NewIntegrations
<1>5. b.host # None =>
        s.host = b.host /\ s.port = Default(b.port, IMAPS) /\ s.ssl = Default(b.ssl, TRUE)
  BY <1>1, Zenon DEF Settings
<1>6. s.host \in Hosts /\ s.port \in Int /\ s.ssl \in BOOLEAN
  <2>1. CASE b.host = None
    <3>1. PICK d \in Domains : d = b.domain
      BY DEF NewIntegrations
    <3>2. s = ProviderSettings(d)
      BY <1>1, <2>1, <3>1, Zenon
    <3> QED
      BY <3>2, ProviderTypes
  <2>2. CASE b.host # None
    <3>1. s.host \in Hosts
      BY <1>5, <2>2 DEF NewIntegrations
    <3>2. s.port \in Int
      BY <1>5, <2>2 DEF NewIntegrations, Default, IMAPS
    <3>3. s.ssl \in BOOLEAN
      BY <1>5, <2>2 DEF NewIntegrations, Default
    <3> QED
      BY <3>1, <3>2, <3>3
  <2> QED
    BY <2>1, <2>2
<1>7. x \in NewIntegrations
  BY <1>4, <1>6 DEF NewIntegrations
<1>8. x # None
  BY <1>7, GatewayAssumption
<1>9. ASSUME b.host = None
      PROVE  s = ProviderSettings(b.domain)
  BY <1>1, <1>9, Zenon
<1>10. CASE b.host = None
  BY <1>2, <1>4, <1>8, <1>9, <1>10, Zenon
<1>11. CASE b.host # None
  BY <1>2, <1>4, <1>5, <1>8, <1>11, Zenon
<1> QED
  BY <1>10, <1>11, Zenon

\* Of a new integration core keeps what it accepted.
LEMMA CreateSettings ==
  ASSUME NEW user, NEW b
  PROVE  /\ Accepts(b) =>
              Create(user, b) =
                Op("create", user, None, Settings(b.host, b.port, Default(b.ssl, FALSE)))
         /\ Create(user, b).op = "create" =>
              Accepts(b) /\ Create(user, b).settings.ssl = Default(b.ssl, FALSE)
<1>1. Nothing.op # "create"
  BY DEF Nothing, Op
<1>2. PICK s : s = Settings(b.host, b.port, Default(b.ssl, FALSE))
  OBVIOUS
<1>3. s.ssl = Default(b.ssl, FALSE)
  BY <1>2, Zenon DEF Settings
<1>4. Op("create", user, None, s).settings = s
  BY DEF Op
<1>5. CASE Accepts(b)
  <2>1. Create(user, b) = Op("create", user, None, s)
    BY <1>2, <1>5, Zenon DEF Create
  <2>2. Create(user, b).settings = s
    BY <1>4, <2>1, Zenon
  <2>3. Create(user, b).settings.ssl = Default(b.ssl, FALSE)
    BY <1>3, <2>2, Zenon
  <2> QED
    BY <1>2, <1>5, <2>1, <2>3, Zenon
<1>6. CASE ~Accepts(b)
  BY <1>1, <1>6, Zenon DEF Create
<1> QED
  BY <1>5, <1>6

\* No TLS only if the client named a host, and said so or was not read.
LEMMA TLSServed ==
  ASSUME NEW c \in Calls, NEW user \in Emails
  PROVE  TLS(c, user)
<1> SUFFICES ASSUME Served[c][user].op = "create", ~Served[c][user].settings.ssl
             PROVE  c.body.host # None /\ (c.body.ssl = FALSE \/ ~c.body.read)
  BY DEF TLS
<1>1. /\ c.body # None
      /\ Served[c][user] = Create(user, IF c.body.read THEN AutoIMAP(c.body) ELSE c.body)
  BY PostServed
<1>2. PICK n \in NewIntegrations : n = c.body
  BY <1>1, GatewayAssumption
<1>3. PICK b : b = IF n.read THEN AutoIMAP(n) ELSE n
  OBVIOUS
<1>4. Create(user, b).op = "create" /\ ~Create(user, b).settings.ssl
  BY <1>1, <1>2, <1>3, Zenon
<1>5. Accepts(b) /\ Create(user, b).settings.ssl = Default(b.ssl, FALSE)
  BY <1>4, CreateSettings, Zenon
<1>6. ~Default(b.ssl, FALSE)
  BY <1>4, <1>5, Zenon
<1>7. b.host \in Hostnames
  <2>1. Accepts(b)
    BY <1>5, Zenon
  <2> QED
    BY <2>1, Zenon DEF Accepts
<1>8. CASE ~n.read
  <2>1. b = n
    BY <1>3, <1>8, Zenon
  <2>2. None \notin Hostnames
    BY GatewayAssumption
  <2> QED
    BY <1>2, <1>7, <1>8, <2>1, <2>2, Zenon
<1>9. CASE n.read /\ n.host = None
  <2>0. PICK d \in Domains : d = n.domain
    BY DEF NewIntegrations
  <2>1. PICK s : s = ProviderSettings(d)
    OBVIOUS
  <2>2. b.host = s.host /\ b.ssl = s.ssl
    BY <1>3, <1>9, <2>0, <2>1, AutoIMAPFills, Zenon
  <2>3. s.ssl = TRUE \/ s.host = Bridge
    BY <2>1, ProviderTypes, Zenon
  <2>4. b.ssl = TRUE
    BY <1>7, <2>2, <2>3, HostAssumption, Zenon
  <2>5. None # TRUE
    BY GatewayAssumption
  <2>6. Default(b.ssl, FALSE) = TRUE
    BY <2>4, <2>5, Zenon DEF Default
  <2> QED
    BY <1>6, <2>6, Zenon
<1>10. CASE n.read /\ n.host # None
  <2>1. b.ssl = Default(n.ssl, TRUE)
    BY <1>3, <1>10, AutoIMAPFills, Zenon
  <2>2. n.ssl \in BOOLEAN \cup {None}
    BY DEF NewIntegrations
  <2>3. Default(n.ssl, TRUE) \in BOOLEAN
    BY <2>2 DEF Default
  <2>4. b.ssl # None
    BY <2>1, <2>3, GatewayAssumption
  <2>5. ~b.ssl
    BY <1>6, <2>4, Zenon DEF Default
  <2>6. n.ssl # None
    BY <2>1, <2>5, Zenon DEF Default
  <2>7. ~n.ssl
    BY <2>1, <2>5, <2>6, Zenon DEF Default
  <2> QED
    BY <1>2, <1>10, <2>2, <2>6, <2>7
<1> QED
  BY <1>8, <1>9, <1>10

\* An address and a password are enough, whatever stray settings come along.
LEMMA SufficesServed ==
  ASSUME NEW c \in Calls, NEW user \in Emails
  PROVE  Suffices(c, user)
<1> SUFFICES ASSUME OnlyAddress(c), ~IsProton(c.body.domain),
                    ProviderHost(c.body.domain) \in Hostnames
             PROVE  Served[c][user] = Op("create", user, None, ProviderSettings(c.body.domain))
  BY DEF Suffices
<1>1. Served[c][user] = Create(user, AutoIMAP(c.body))
  BY PostServed
<1>2. PICK n \in NewIntegrations : n = c.body /\ n.host = None /\ n.valid
  BY GatewayAssumption DEF OnlyAddress
<1>3. PICK s : s = ProviderSettings(n.domain)
  OBVIOUS
<1>4. s = [host |-> ProviderHost(n.domain), port |-> IMAPS, ssl |-> TRUE]
  BY <1>2, <1>3 DEF ProviderSettings, Settings
<1>5. PICK b : b = AutoIMAP(n)
  OBVIOUS
<1>6. b # None /\ b.valid /\ b.host = s.host /\ b.port = s.port /\ b.ssl = s.ssl
  BY <1>2, <1>3, <1>5, AutoIMAPFills, Zenon
<1>7. s.host = ProviderHost(n.domain) /\ s.port = IMAPS /\ s.ssl = TRUE
  BY <1>4
<1>8. b.host \in Hostnames
  BY <1>2, <1>6, <1>7, Zenon
<1>9. b.port \in Ports
  BY <1>6, <1>7 DEF Ports, IMAPS
<1>10. Accepts(b)
  BY <1>6, <1>8, <1>9, Zenon DEF Accepts
<1>11. Default(b.ssl, FALSE) = TRUE
  <2>1. None # TRUE
    BY GatewayAssumption
  <2> QED
    BY <1>6, <1>7, <2>1, Zenon DEF Default
<1>12. Settings(b.host, b.port, Default(b.ssl, FALSE)) = s
  <2>1. Settings(b.host, b.port, Default(b.ssl, FALSE)) = Settings(ProviderHost(n.domain), IMAPS, TRUE)
    BY <1>6, <1>7, <1>11, Zenon
  <2> QED
    BY <1>4, <2>1, Zenon DEF Settings
<1>13. Create(user, b) = Op("create", user, None, s)
  BY <1>10, <1>12, CreateSettings, Zenon
<1> QED
  BY <1>1, <1>2, <1>3, <1>5, <1>13, Zenon

\* No server of a provider is ever used without TLS, and no other one unless
\* the client asked for it or kept the middleware from reading its body.
THEOREM TLSByDefaultAlways == GatewaySpec => TLSByDefault
<1>1. GatewayInv /\ [GatewayNext]_allVars => [Forwarded(TLS)]_allVars
  BY ForwardedFor, TLSServed DEF Forwarded
<1> QED
  BY GatewayInvInit, GatewayInvStep, <1>1, PTL DEF GatewaySpec, TLSByDefault

\* An address and a password are enough, for every domain whose server has a
\* hostname, but Proton's.
THEOREM AddressSufficesAlways == GatewaySpec => AddressSuffices
<1>1. GatewayInv /\ [GatewayNext]_allVars => [Forwarded(Suffices)]_allVars
  BY ForwardedFor, SufficesServed DEF Forwarded
<1> QED
  BY GatewayInvInit, GatewayInvStep, <1>1, PTL DEF GatewaySpec, AddressSuffices
=============================================================================
