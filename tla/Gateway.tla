------------------------------ MODULE Gateway ------------------------------
(***************************************************************************)
(* The API gateway in front of auth, core and collector.  A request under  *)
(* /api/v1 or /internal is first validated by the auth service, in a       *)
(* request of its own that may outlive the gateway's five seconds of       *)
(* patience; then its path, headers and body are rewritten, and a backend  *)
(* routes it to a handler by what it finds there.                          *)
(*                                                                         *)
(* The auth service is module AuthSession: request r of the gateway and    *)
(* the validation it waits for have the same name.  Clients reach auth     *)
(* directly as well, through the gateway's /auth/*, which changes nothing. *)
(*                                                                         *)
(* Abstractions.  A path is the sequence of its segments.  What a client   *)
(* asks is looked at only after the validation, so it is chosen there.     *)
(* Of a handler counts whose data it reads or writes, of a new integration *)
(* its IMAP settings; what the handlers do is in MailSync and Collector.   *)
(***************************************************************************)
EXTENDS AuthSession, Sequences, SequencesExt

CONSTANTS
  Ids,         \* what clients put into paths: ids of rows, ids of users
  Domains,     \* domains of mail addresses, in lower case; an address with more
               \* than one "@" counts as a domain as a whole
  Hosts,       \* names of IMAP servers
  Imap,        \* Imap[d] is the name "imap." + d
  Hostnames,   \* the names core's validator takes for a hostname (RFC 952): no
               \* IP address, no underscore, only ASCII
  Calls        \* the calls that clients make

(***************************************************************************)
(* A call: [method, path, userHeader, internal, body].  userHeader is the  *)
(* X-User-ID the client sends, internal whether it has the internal token. *)
(* body is None, or the body of a POST of a new integration:               *)
(*   - domain of its address;                                              *)
(*   - host, port and ssl as core decodes them, None if missing; a host    *)
(*     that is "" or no string is missing, one of the others that cannot   *)
(*     be decoded counts as port 0: core answers 400 to either;            *)
(*   - read: it is one JSON value whose key email_address, spelled like    *)
(*     this, has a string.  Core also decodes others: it ignores the case  *)
(*     of keys and what follows the first value, and reads XML;            *)
(*   - valid: core can decode it and has no objection to its address and   *)
(*     password.                                                           *)
(* A body that is read may spell a key in two ways.  Re-encoded it has the *)
(* upper case first, so what the middleware sets is what core keeps (keys  *)
(* with a long s, which sorts last, are left out).                         *)
(***************************************************************************)
Methods   == {"GET", "POST", "PUT", "DELETE"}
EmailBase == <<"api", "v1", "integrations", "email">>
Reminders == <<"api", "v1", "reminders">>
Internal  == <<"internal", "reminders">>
Tasks     == <<"api", "v1", "tasks">>
CoreBase  == <<"api", "integrations">>

\* The servers the gateway knows; Bridge is ProtonMail's, on the user's own
\* machine.
Bridge == "127.0.0.1"
ProviderHosts ==
  {"imap.gmail.com", "outlook.office365.com", "imap.yandex.ru", "imap.mail.ru",
   "imap.mail.yahoo.com"}

NewIntegrations ==
  [domain : Domains, host : Hosts \cup {None}, port : Int \cup {None},
   ssl : BOOLEAN \cup {None}, read : BOOLEAN, valid : BOOLEAN]

ASSUME HostAssumption ==
  /\ ProviderHosts \cup {Bridge} \subseteq Hosts
  /\ Imap \in [Domains -> Hosts]
  /\ ProviderHosts \subseteq Hostnames
  /\ Bridge \notin Hostnames

ASSUME GatewayAssumption ==
  /\ Emails \subseteq Ids
  /\ None \notin Ids \cup Methods \cup Checks \cup NewIntegrations
  /\ None \notin Hosts \cup Hostnames \cup Int \cup BOOLEAN
  /\ \A c \in Calls :
       /\ c.method \in Methods
       /\ \E base \in {EmailBase, Reminders, Internal} : IsPrefix(base, c.path)
       /\ c.internal \in BOOLEAN
       /\ c.body # None => c.body \in NewIntegrations

VARIABLES
  hop,         \* where each request is in the gateway
  caller       \* what its validation returned: c.Set("user_id")

gateway == <<hop, caller>>
allVars == <<vars, gateway>>

GatewayInit ==
  /\ Init
  /\ hop = [r \in Requests |-> "none"]
  /\ caller = [r \in Requests |-> None]

-----------------------------------------------------------------------------
(***************************************************************************)
(* AutoIMAPMiddleware.                                                     *)
(***************************************************************************)
IMAPS == 993

Settings(host, port, ssl) == [host |-> host, port |-> port, ssl |-> ssl]

\* getIMAPSettingsByEmail.
ProviderHost(domain) ==
  CASE domain = "gmail.com" -> "imap.gmail.com"
    [] domain \in {"outlook.com", "hotmail.com", "live.com", "msn.com"} -> "outlook.office365.com"
    [] domain \in {"yandex.ru", "yandex.com"} -> "imap.yandex.ru"
    [] domain \in {"mail.ru", "inbox.ru", "list.ru", "bk.ru"} -> "imap.mail.ru"
    [] domain \in {"yahoo.com", "yahoo.co.uk", "yahoo.fr"} -> "imap.mail.yahoo.com"
    [] OTHER -> Imap[domain]

IsProton(domain) == domain \in {"protonmail.com", "proton.me"}

ProviderSettings(domain) ==
  IF IsProton(domain) THEN Settings(Bridge, 1143, FALSE)
                      ELSE Settings(ProviderHost(domain), IMAPS, TRUE)

Default(x, d) == IF x = None THEN d ELSE x

WithSettings(b, s) == [b EXCEPT !.host = s.host, !.port = s.port, !.ssl = s.ssl]

\* Mutant: no default for use_ssl.
AutoIMAP_NoSSL(b) ==
  WithSettings(b, IF b.host = None THEN ProviderSettings(b.domain)
                  ELSE Settings(b.host, Default(b.port, IMAPS), b.ssl))

\* Mutant: the provider's settings, too, only fill in what is missing.
AutoIMAP_PerField(b) ==
  WithSettings(b, IF b.host = None
                    THEN LET p == ProviderSettings(b.domain)
                         IN  Settings(p.host, Default(b.port, p.port), Default(b.ssl, p.ssl))
                    ELSE Settings(b.host, Default(b.port, IMAPS), Default(b.ssl, TRUE)))

\* Without a host the provider's settings replace all three; with one, only
\* what is missing gets a default.
AutoIMAP(b) ==
  WithSettings(b, IF b.host = None THEN ProviderSettings(b.domain)
                  ELSE Settings(b.host, Default(b.port, IMAPS), Default(b.ssl, TRUE)))

\* Only POSTs under /integrations/email; a body that is not JSON, or has no
\* email_address, is passed on as it is.
Body(c) ==
  IF c.method = "POST" /\ IsPrefix(EmailBase, c.path) /\ c.body # None /\ c.body.read
    THEN AutoIMAP(c.body)
    ELSE c.body

-----------------------------------------------------------------------------
(***************************************************************************)
(* ServiceProxy.Proxy.                                                     *)
(***************************************************************************)
\* Mutant: a path that names a user already is left as it is.
Rewritten_KeepId(c, user) ==
  IF IsPrefix(EmailBase, c.path)
    THEN CoreBase \o (IF c.method = "GET"
                        THEN IF Len(c.path) > 4 THEN <<c.path[5]>> ELSE <<user>>
                        ELSE <<>>)
    ELSE IF IsPrefix(Reminders, c.path) THEN Tasks ELSE c.path

\* The path the backend sees: the rest of the client's path is lost, and for
\* a GET of integrations the user's id is put there.
Rewritten(c, user) ==
  IF IsPrefix(EmailBase, c.path)
    THEN CoreBase \o (IF c.method = "GET" THEN <<user>> ELSE <<>>)
    ELSE IF IsPrefix(Reminders, c.path) THEN Tasks ELSE c.path

\* X-User-ID is set anew, whatever the client sent.
UserHeader(c, user) == user

Op(name, subject, id, settings) ==
  [op |-> name, subject |-> subject, id |-> id, settings |-> settings]

\* 400, 403, 404 or 405.
Nothing == Op("none", None, None, None)

\* bindAndValidate of a CreateIntegrationRequest: a host or port that is
\* missing is a zero value, which "required" rejects; "hostname", "min" and
\* "max" reject others.  A use_ssl that is missing is false.
Ports == 1 .. 65535

Accepts(b) ==
  /\ b # None
  /\ b.valid
  /\ b.host \in Hostnames
  /\ b.port \in Ports

Create(user, b) ==
  IF Accepts(b)
    THEN Op("create", user, None, Settings(b.host, b.port, Default(b.ssl, FALSE)))
    ELSE Nothing

\* SetupRoutes of core.  GetUserIntegrations takes the user from the path.
CoreRoute(method, path, user, b) ==
  LET rest == SubSeq(path, Len(CoreBase) + 1, Len(path))
  IN  CASE method = "POST" /\ rest = <<>> -> Create(user, b)
        [] method = "GET" /\ Len(rest) = 1 -> Op("listIntegrations", rest[1], None, None)
        [] method = "DELETE" /\ Len(rest) = 1 -> Op("deleteIntegration", user, rest[1], None)
        [] OTHER -> Nothing

\* SetupRoutes of collector.
CollectorOp(method, rest) ==
  CASE method = "GET" /\ rest = <<>> -> "listTasks"
    [] method = "GET" /\ rest = <<"stats">> -> "taskStats"
    [] method = "GET" /\ Len(rest) = 1 /\ rest # <<"stats">> -> "getTask"
    [] method = "PUT" /\ Len(rest) = 1 -> "updateTask"
    [] method = "DELETE" /\ Len(rest) = 1 -> "deleteTask"
    [] method = "POST" /\ Len(rest) = 2 /\ rest[2] = "complete" -> "completeTask"
    [] OTHER -> "none"

CollectorRoute(method, path, user) ==
  LET rest == SubSeq(path, Len(Tasks) + 1, Len(path))
      name == CollectorOp(method, rest)
  IN  IF ~IsPrefix(Tasks, path) \/ name = "none"
        THEN Nothing
        ELSE Op(name, user, IF name \in {"listTasks", "taskStats"} THEN None ELSE rest[1], None)

\* The routes of the gateway, and what the backend behind each one does.
Serves(c, user) ==
  IF IsPrefix(EmailBase, c.path)
    THEN CoreRoute(c.method, Rewritten(c, user), UserHeader(c, user), Body(c))
    ELSE IF IsPrefix(Internal, c.path) /\ ~c.internal
           THEN Nothing
           ELSE CollectorRoute(c.method, Rewritten(c, user), UserHeader(c, user))

Served == [c \in Calls |-> [user \in Emails |-> Serves(c, user)]]

-----------------------------------------------------------------------------
(***************************************************************************)
(* The steps of a request through the gateway.                             *)
(***************************************************************************)
\* AuthMiddleware sends the token to /auth/validate.
Receive(r, t) ==
  /\ hop[r] = "none"
  /\ CheckBlacklist(r, t, "access")
  /\ hop' = [hop EXCEPT ![r] = "validating"]
  /\ UNCHANGED caller

\* Mutant: an answer admits its request although nobody waits for it.
Validated_Late(r) ==
  /\ Accept(r)
  /\ hop' = [hop EXCEPT ![r] = "admitted"]
  /\ caller' = [caller EXCEPT ![r] = job[r]]

\* The validation returns a user, to the gateway if it still waits.
Validated(r) ==
  /\ Accept(r)
  /\ IF hop[r] = "validating"
       THEN /\ hop' = [hop EXCEPT ![r] = "admitted"]
            /\ caller' = [caller EXCEPT ![r] = job[r]]
       ELSE UNCHANGED gateway

\* The end of a request, whatever the client is told.
Finish(r) ==
  /\ hop' = [hop EXCEPT ![r] = "none"]
  /\ caller' = [caller EXCEPT ![r] = None]
  /\ UNCHANGED vars

\* The validation ended otherwise, with an answer or with its process: 401.
Refused(r) ==
  /\ hop[r] = "validating"
  /\ pc[r] = "idle"
  /\ Finish(r)

\* Five seconds are over, the client is gone, or the gateway dies.  The auth
\* service goes on with the validation.
GiveUp(r) ==
  /\ hop[r] \in {"validating", "admitted"}
  /\ Finish(r)

\* AutoIMAPMiddleware, Proxy and the handler of the backend, which does
\* Served[c][user] for the call c at hand; the client gets its answer, or 502.
Forward(r) ==
  /\ hop[r] = "admitted"
  /\ Finish(r)

GatewayStep(r) ==
  \/ \E t \in issued : Receive(r, t)
  \/ Validated(r)
  \/ Refused(r)
  \/ GiveUp(r)
  \/ Forward(r)

\* What the auth service does besides.
AuthStep ==
  \/ \E r \in Requests : (hop[r] = "none" /\ Arrives(r)) \/ Proceeds(r)
  \/ Environment

GatewayNext ==
  \/ AuthStep /\ UNCHANGED gateway
  \/ \E r \in Requests : GatewayStep(r)

GatewaySpec == GatewayInit /\ [][GatewayNext]_allVars

-----------------------------------------------------------------------------
(***************************************************************************)
(* Properties.                                                             *)
(***************************************************************************)
GatewayTypeOK ==
  /\ TypeOK
  /\ hop \in [Requests -> {"none", "validating", "admitted"}]
  /\ DOMAIN caller = Requests
  /\ \A r \in Requests :
       IF hop[r] = "admitted" THEN caller[r] \in Checks ELSE caller[r] = None

\* No request reaches a backend with a token whose Logout had returned nil
\* before the gateway had it validated, however slow the validation is and
\* whoever gave up on it (auth.go:16-112 of the gateway).
RevokedNotServed ==
  \A r \in Requests :
    hop[r] = "admitted" /\ caller[r].late => caller[r].token \in forgotten

\* A request that was given up stays out: while the auth service still works
\* for it, neither the answer nor a new request under its name is let in, so a
\* late answer finds nobody it could admit (auth.go:64-112 of the gateway).
LateAnswerAdmitsNobody ==
  [][\A r \in Requests :
       hop[r] = "none" /\ pc[r] # "idle" => hop'[r] = "none"]_allVars

\* P is true of every call that is forwarded for a user.
Forwarded(P(_, _)) ==
  \A r \in Requests : Forward(r) => \A c \in Calls : P(c, caller[r].token.user)

\* Whatever path and headers a client sends, a backend handler that takes the
\* user from the path (GetUserIntegrations) or from a header reads and writes
\* the data of the user of the token only (service_proxy.go:55-104).
OwnData(c, user) == Served[c][user].op # "none" => Served[c][user].subject = user

OwnDataOnly == [][Forwarded(OwnData)]_allVars

\* A new integration goes without TLS only to a server the client named, and
\* only if it said use_ssl = false or sent a body the middleware does not read:
\* whatever it reads, the gateway's defaults come before core's zero value, and
\* the one provider without TLS is rejected (imap.go:56-90, models.go:32-38 of
\* core).
TLS(c, user) ==
  Served[c][user].op = "create" /\ ~Served[c][user].settings.ssl
    => /\ c.body.host # None
       /\ c.body.ssl = FALSE \/ ~c.body.read

TLSByDefault == [][Forwarded(TLS)]_allVars

\* An address and a password are enough to create an integration with the
\* settings of its provider, whatever port or use_ssl came without a host: what
\* the gateway fills in passes core's validation, if the server's name is a
\* hostname.  Proton is the exception: core rejects the address of the Bridge
\* (imap.go:73-80 and 112-171, models.go:32-38 of core).
OnlyAddress(c) ==
  /\ c.method = "POST"
  /\ IsPrefix(EmailBase, c.path)
  /\ c.body # None
  /\ c.body.read /\ c.body.valid
  /\ c.body.host = None

Suffices(c, user) ==
  LET d == c.body.domain
  IN  OnlyAddress(c) /\ ~IsProton(d) /\ ProviderHost(d) \in Hostnames
        => Served[c][user] = Op("create", user, None, ProviderSettings(d))

AddressSuffices == [][Forwarded(Suffices)]_allVars

\* The comment says: replace /api/v1/reminders by /api/v1/tasks
\* (service_proxy.go:75), so what follows stays and names the operation.
RestKept(c, user) ==
  IsPrefix(Reminders, c.path)
    => Served[c][user] = CollectorRoute(c.method, Tasks \o SubSeq(c.path, 4, Len(c.path)), user)

RestOfPathKept == [][Forwarded(RestKept)]_allVars
=============================================================================
