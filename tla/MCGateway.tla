----------------------------- MODULE MCGateway -----------------------------
(***************************************************************************)
(* A small instance of Gateway: one user, whose tokens clients hold, and   *)
(* another one, whose id they may put into paths and headers.              *)
(***************************************************************************)
EXTENDS Gateway, TLC

CONSTANTS r1, r2, e1, p1, p2, other, task

Call(method, path) ==
  [method |-> method, path |-> path, userHeader |-> None, internal |-> FALSE, body |-> None]

\* A provider, the Bridge, a domain that is a hostname and one that is none.
MCDomains == {"gmail.com", "proton.me", "example.org", "my_mail.org"}
MCImap ==
  [d \in MCDomains |->
     CASE d = "example.org" -> "imap.example.org"
       [] d = "my_mail.org" -> "imap.my_mail.org"
       [] OTHER -> "imap.of.a.provider"]
MCHostnames == ProviderHosts \cup {"imap.example.org", "imap.of.a.provider", "own.example.org"}
MCHosts == MCHostnames \cup {"imap.my_mail.org", Bridge}

\* Bodies with an address and at most stray settings, and with a server of
\* their own; ports at the bounds of the validator; and what the middleware
\* does not read.
Bodies ==
  [domain : MCDomains, host : {None}, port : {None, 0}, ssl : {None, FALSE},
   read : {TRUE}, valid : {TRUE}]
    \cup [domain : {"gmail.com"}, host : {"own.example.org", "imap.my_mail.org"},
          port : {None, 0, 65535, 65536}, ssl : {None, FALSE}, read : BOOLEAN, valid : {TRUE}]
    \cup [domain : {"gmail.com"}, host : {None}, port : {None}, ssl : {None},
          read : BOOLEAN, valid : {FALSE}]

\* Listings, with and without the id of another user in path or header; new
\* integrations; everything the collector has a route for.
MCCalls ==
  {[Call("GET", EmailBase \o rest) EXCEPT !.userHeader = h] :
      rest \in {<<>>, <<other>>}, h \in {None, other}}
  \cup {Call("DELETE", EmailBase \o <<task>>)}
  \cup {[Call("POST", EmailBase) EXCEPT !.body = b] : b \in Bodies}
  \cup {[Call("GET", Reminders \o rest) EXCEPT !.userHeader = h] :
          rest \in {<<>>, <<"stats">>, <<task>>}, h \in {None, other}}
  \cup {Call(m, Reminders \o <<task>>) : m \in {"PUT", "DELETE"}}
  \cup {Call("POST", Reminders \o <<task, "complete">>)}
  \cup {[Call("GET", Internal \o <<task>>) EXCEPT !.internal = i] : i \in BOOLEAN}

AllFaults == FaultKinds

\* Requests are alike, and so are passwords.
MCSymmetry == Permutations(Requests) \cup Permutations(Passwords)
=============================================================================
