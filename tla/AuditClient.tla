------------------------------ MODULE AuditClient ------------------------------
(***************************************************************************)
(* The HTTP client of the link audit (newSafeLinkAuditClient in            *)
(* internal/courses/link_audit_client.go): how a request finds an address  *)
(* to connect to and which redirects it follows.  The workers of AuditPool *)
(* share the client and with it the connections that are kept open.        *)
(*                                                                         *)
(* The resolver may answer differently every time, servers redirect as     *)
(* they like.  What net/http does (follow, reuse, time out) is external.   *)
(***************************************************************************)
EXTENDS Naturals, Sequences

CONSTANTS
  Callers,   \* the workers of the pool, each at one request at a time
  Hosts,     \* names that links and redirects lead to
  Addresses, \* what the resolver may answer
  Public,    \* addresses that validateSafeLinkAuditIP accepts
  Literal,   \* hosts that are written as an address -> that address
  Allowed,   \* Hosts -> the hosts that the rule of the host lets it redirect to
  Redirects, \* how many redirects are followed: 5
  Answers,   \* addresses of a name, the first first
  None

ASSUME ClientAssumption ==
  /\ Public \subseteq Addresses
  /\ DOMAIN Literal \subseteq Hosts /\ \A h \in DOMAIN Literal : Literal[h] \in Addresses
  /\ Allowed \in [Hosts -> SUBSET Hosts]
  /\ Redirects \in Nat
  /\ Answers \subseteq Seq(Addresses)
  /\ None \notin Addresses

VARIABLES
  at,    \* Callers -> "idle", "connect", "dial", "wait", "answered", "failed"
  via,   \* Callers -> the hosts asked so far, the link's own first
  names, \* Callers -> the addresses DialContext looked up and accepted
  conn,  \* Callers -> the address that its connection leads to
  kept   \* Hosts -> addresses that connections kept open lead to

clientVars == <<at, via, names, conn, kept>>

Host(w) == via[w][Len(via[w])]
ToAll(s) == {s[i] : i \in DOMAIN s}

ClientInit ==
  /\ at = [w \in Callers |-> "idle"]
  /\ via = [w \in Callers |-> << >>]
  /\ names = [w \in Callers |-> << >>]
  /\ conn = [w \in Callers |-> None]
  /\ kept = [h \in Hosts |-> {}]

\* Do: the request of a worker for a link of host h.
Do(w, h) ==
  /\ at[w] \in {"idle", "answered", "failed"}
  /\ via' = [via EXCEPT ![w] = << h >>]
  /\ at' = [at EXCEPT ![w] = "connect"]
  /\ names' = [names EXCEPT ![w] = << >>]
  /\ conn' = [conn EXCEPT ![w] = None]
  /\ UNCHANGED kept

\* The transport takes a connection that is open.
Reuse(w) ==
  /\ at[w] = "connect"
  /\ \E a \in kept[Host(w)] :
       /\ conn' = [conn EXCEPT ![w] = a]
       /\ kept' = [kept EXCEPT ![Host(w)] = @ \ {a}]
  /\ at' = [at EXCEPT ![w] = "wait"]
  /\ UNCHANGED <<via, names>>

Fail(w) ==
  /\ at' = [at EXCEPT ![w] = "failed"]
  /\ conn' = [conn EXCEPT ![w] = None]
  /\ UNCHANGED <<via, names, kept>>

M_AcceptsTheFirst(answer) == answer # << >> /\ answer[1] \in Public

\* One address that is not public is enough to refuse a name.
Accepts(answer) == answer # << >> /\ ToAll(answer) \subseteq Public

\* safeLinkAuditDialContext up to the dialer: what the name stands for is looked
\* up, once, and checked.
LookUp(w, answer) ==
  /\ at[w] = "connect"
  /\ Host(w) \in DOMAIN Literal => answer = << Literal[Host(w)] >>
  /\ IF Accepts(answer)
       THEN /\ names' = [names EXCEPT ![w] = answer]
            /\ at' = [at EXCEPT ![w] = "dial"]
            /\ UNCHANGED <<via, conn, kept>>
       ELSE Fail(w)

\* The dialer connects to the first address.
Dial(w) ==
  /\ at[w] = "dial"
  /\ conn' = [conn EXCEPT ![w] = names[w][1]]
  /\ at' = [at EXCEPT ![w] = "wait"]
  /\ UNCHANGED <<via, names, kept>>

\* The connection is free again, open or closed.
Free(w) ==
  /\ conn' = [conn EXCEPT ![w] = None]
  /\ \/ kept' = [kept EXCEPT ![Host(w)] = @ \cup {conn[w]}]
     \/ UNCHANGED kept

Answer(w) ==
  /\ at[w] = "wait"
  /\ at' = [at EXCEPT ![w] = "answered"]
  /\ Free(w)
  /\ UNCHANGED <<via, names>>

M_FollowsByTheLastHost(w, h) ==
  /\ Len(via[w]) <= Redirects
  /\ h = Host(w) \/ h \in Allowed[Host(w)]

\* safeLinkAuditRedirect, for a URL that inspectLink accepts.
Follows(w, h) ==
  /\ Len(via[w]) <= Redirects
  /\ h = via[w][1] \/ h \in Allowed[via[w][1]]

\* The server redirects to a host; `fit' is what inspectLink says of the URL.
Redirect(w, h, fit) ==
  /\ at[w] = "wait"
  /\ Free(w)
  /\ IF fit /\ Follows(w, h)
       THEN /\ via' = [via EXCEPT ![w] = Append(@, h)]
            /\ at' = [at EXCEPT ![w] = "connect"]
            /\ names' = [names EXCEPT ![w] = << >>]
       ELSE /\ at' = [at EXCEPT ![w] = "failed"]
            /\ UNCHANGED <<via, names>>

\* A lookup, a connection, an answer or the whole request takes too long or breaks.
GiveUp(w) == at[w] \in {"connect", "dial", "wait"} /\ Fail(w)

\* A connection that was kept open is closed (IdleConnTimeout, or the server).
Close(h) ==
  /\ \E a \in kept[h] : kept' = [kept EXCEPT ![h] = @ \ {a}]
  /\ UNCHANGED <<at, via, names, conn>>

\* A request goes on in some way.
GoOn(w) ==
  \/ Reuse(w)
  \/ \E answer \in Answers \cup {<< Literal[h] >> : h \in DOMAIN Literal} : LookUp(w, answer)
  \/ Dial(w)
  \/ Answer(w)
  \/ \E h \in Hosts, fit \in BOOLEAN : Redirect(w, h, fit)
  \/ GiveUp(w)

ClientNext ==
  \/ \E w \in Callers, h \in Hosts : Do(w, h)
  \/ \E w \in Callers : GoOn(w)
  \/ \E h \in Hosts : Close(h)

ClientSpec == ClientInit /\ [][ClientNext]_clientVars

-----------------------------------------------------------------------------
(* Properties.                                                             *)

ClientTypeOK ==
  /\ at \in [Callers -> {"idle", "connect", "dial", "wait", "answered", "failed"}]
  /\ via \in [Callers -> Seq(Hosts)]
  /\ names \in [Callers -> Seq(Addresses)]
  /\ conn \in [Callers -> Addresses \cup {None}]
  /\ kept \in [Hosts -> SUBSET Addresses]

\* Whatever the resolver says from one lookup to the next, and whoever opened the
\* connection a request goes over, it leads to an address that was found public;
\* and a name that stood for any other address was not dialled at all
\* (safeLinkAuditDialContext, and the connections the transport keeps).
ConnectionsArePublic ==
  /\ \A w \in Callers : conn[w] \in Public \cup {None} /\ ToAll(names[w]) \subseteq Public
  /\ \A h \in Hosts : kept[h] \subseteq Public

\* Through any chain of redirects the answer that a link is judged by is from its
\* own host or from one that the rule of its own host allows (safeLinkAuditRedirect).
AnswersAreTheLinks ==
  \A w \in Callers : at[w] = "answered" => Host(w) \in {via[w][1]} \cup Allowed[via[w][1]]

================================================================================
