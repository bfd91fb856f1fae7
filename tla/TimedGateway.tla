---------------------------- MODULE TimedGateway ----------------------------
(***************************************************************************)
(* PyGateway against the clock: the budgets of its two ClientTimeouts, the *)
(* expiry of tokens, and the idle connections to auth-service that either  *)
(* end closes after a time of its own.  Every step is a step of PyGateway  *)
(* that also reads or sets a timer; only the clock is added.               *)
(*                                                                         *)
(* A timer that is due is served before the clock goes on: the event loop  *)
(* does not lag.  Times are in units of one tick.                          *)
(***************************************************************************)
EXTENDS PyGateway

CONSTANTS
  Expiry,       \* Expiry[t] = the time from which auth-service refuses token t
  AuthConnect,  \* settings.AUTH_CONNECT_TIMEOUT
  AuthTotal,    \* settings.AUTH_TOTAL_TIMEOUT
  UpConnect,    \* settings.UPSTREAM_CONNECT_TIMEOUT
  UpTotal,      \* settings.UPSTREAM_TOTAL_TIMEOUT
  Keepalives,   \* values of settings.AIOHTTP_KEEPALIVE_TIMEOUT
  ServerIdle,   \* IdleTimeout of auth-service
  Delay,        \* longest way of a request, or of a connection's end, over the network
  MaxTime       \* bound: when the clock stops

ASSUME TimedAssumption ==
  /\ Expiry \in [Tokens -> Nat]
  /\ {AuthConnect, AuthTotal, UpConnect, UpTotal, ServerIdle, Delay, MaxTime} \subseteq Nat
  /\ AuthConnect <= AuthTotal /\ UpConnect <= UpTotal
  /\ Keepalives \subseteq Nat

VARIABLES
  now,
  keepalive,  \* the keepalive_timeout of the session
  entered,    \* entered[r] = when the handler of r had what it needs of the request
  began,      \* began[r] = when the call of aiohttp that r awaits began
  link,       \* link[r] = the connection r verifies on: "none", "sound" or "lost"
  checked,    \* checked[r] = when auth-service answered the verify of r, or Never
  used,       \* used[r] = when data-service was sent the identity of r, or Never
  idle        \* pooled connections to auth-service: since = when r gave it back,
              \* closes = when auth-service closes it

timers == <<now, keepalive, entered, began, link, checked, used, idle>>
tvars == <<vars, timers>>

Never == -1

TInit ==
  /\ Init
  /\ now = 0
  /\ keepalive \in Keepalives
  /\ entered = [r \in Requests |-> Never]
  /\ began = [r \in Requests |-> Never]
  /\ link = [r \in Requests |-> "none"]
  /\ checked = [r \in Requests |-> Never]
  /\ used = [r \in Requests |-> Never]
  /\ idle = {}

-----------------------------------------------------------------------------
(* Timers.                                                                  *)

Stages == {"authConnect", "verify", "connect", "exchange"}

\* Mutant of Budget: the post to auth-service runs on the session's timeout.
BudgetOfSession(stage) ==
  CASE stage \in {"authConnect", "connect"} -> UpConnect
    [] stage \in {"verify", "exchange"} -> UpTotal

\* Mutant of Budget: a total timeout without one for the connection.
BudgetOfTotals(stage) ==
  IF stage \in {"authConnect", "verify"} THEN AuthTotal ELSE UpTotal

\* _build_auth_timeout and _build_upstream_timeout: a call may wait for its connection as
\* long as its connect budget, and take no longer than its total, the wait included.
\* aiohttp lets a timeout of five seconds or more end with a whole second of its clock: of
\* the defaults UPSTREAM_TOTAL_TIMEOUT (10) does, so it is exact where a tick is a second.
Budget(stage) ==
  CASE stage = "authConnect" -> AuthConnect
    [] stage = "verify" -> AuthTotal
    [] stage = "connect" -> UpConnect
    [] stage = "exchange" -> UpTotal

\* The total timer runs on into the relay, until all of the body has arrived.
Due(r) ==
  \/ pc[r] \in Stages /\ now >= began[r] + Budget(pc[r])
  \/ r \in LateTimeouts /\ r \in held["data"] /\ pc[r] = "relay" /\ now >= began[r] + UpTotal

Tick ==
  /\ now < MaxTime
  /\ \A r \in Requests : ~ Due(r)
  /\ now' = now + 1
  /\ UNCHANGED <<vars, keepalive, entered, began, link, checked, used, idle>>

Enter(r) ==
  /\ entered' = [entered EXCEPT ![r] = now]
  /\ began' = [began EXCEPT ![r] = now]
  /\ UNCHANGED <<now, keepalive, link, checked, used, idle>>

TAdmit(r, q) ==
  /\ Admit(r, q)
  /\ IF q.route \in {"items", "mine"} THEN Enter(r) ELSE UNCHANGED timers

TBodyAccepted(r) == BodyAccepted(r) /\ Enter(r)

-----------------------------------------------------------------------------
(* The connection /verify is posted on.                                     *)

\* Mutant of Fresh: pooled connections do not grow old.
FreshAlways(c) == TRUE

\* The connector drops a pooled connection that is older than keepalive_timeout.
Fresh(c) == now - c.since <= keepalive

\* A connection auth-service has closed may look open until its end has arrived.
LooksOpen(c) == Fresh(c) /\ now <= c.closes + Delay

\* A request that arrives once the connection is closed is lost, and aiohttp repeats no POST.
Arrives(c, delay) == IF now + delay < c.closes THEN "sound" ELSE "lost"

VerifyReusing(r, c, delay) ==
  /\ VerifyConnect(r)
  /\ LooksOpen(c)
  /\ idle' = idle \ {c}
  /\ link' = [link EXCEPT ![r] = Arrives(c, delay)]
  /\ UNCHANGED <<now, keepalive, entered, began, checked, used>>

VerifyOnNew(r) ==
  /\ VerifyConnect(r)
  /\ \A c \in idle : ~ (Fresh(c) /\ now < c.closes)
  /\ link' = [link EXCEPT ![r] = "sound"]
  /\ UNCHANGED <<now, keepalive, entered, began, checked, used, idle>>

\* auth-service answers: the time decides whether it finds the token expired.
Check(r) ==
  /\ pc[r] = "verify" /\ link[r] = "sound" /\ checked[r] = Never
  /\ checked' = [checked EXCEPT ![r] = now]
  /\ UNCHANGED <<vars, now, keepalive, entered, began, link, used, idle>>

\* auth-service starts its idle timer with the answer, the gateway when it has arrived.
GivenBack(r) == idle \cup {[since |-> now, closes |-> checked[r] + ServerIdle]}

\* The request to data-service begins at once.
TVerifyOk(r) ==
  /\ VerifyOk(r)
  /\ checked[r] # Never /\ checked[r] < Expiry[req[r].token]
  /\ began' = [began EXCEPT ![r] = now]
  /\ link' = [link EXCEPT ![r] = "none"]
  /\ idle' = GivenBack(r)
  /\ UNCHANGED <<now, keepalive, entered, checked, used>>

\* Without an answer the connection is closed; so it is if an error status makes the
\* client leave before the rest of the answer has arrived.
TVerifyFails(r, why) ==
  /\ VerifyFails(r, why)
  /\ why = "TimeoutError" => Due(r)
  /\ why \in {"refused", "rubbish"} => checked[r] # Never
  /\ link' = [link EXCEPT ![r] = "none"]
  /\ CASE why = "refused" -> idle' \in {idle, GivenBack(r)}
       [] why = "rubbish" -> idle' = GivenBack(r)
       [] OTHER -> idle' = idle
  /\ UNCHANGED <<now, keepalive, entered, began, checked, used>>

TConnect(r) ==
  /\ Connect(r)
  /\ used' = [used EXCEPT ![r] = now]
  /\ UNCHANGED <<now, keepalive, entered, began, link, checked, idle>>

-----------------------------------------------------------------------------
Untimed(r) ==
  \/ \E q \in Queries : NotReady(r, q) \/ UnknownRoute(r, q) \/ MissingAuth(r, q)
  \/ BodyRejected(r) \/ Disconnected(r)
  \/ ExchangeFails(r, "ClientError")
  \/ \E code \in DataStatuses : ResponseStart(r, code)
  \/ RelayChunk(r) \/ UpstreamEnds(r) \/ ClientReads(r) \/ RelayStops(r) \/ RelayEnds(r)

TimesOut(r) ==
  \/ VerifyConnectTimeout(r) \/ ConnectTimeout(r)
  \/ ExchangeFails(r, "TimeoutError") \/ RelayTimeout(r)

TNext ==
  \/ Tick
  \/ (Startup \/ Shutdown) /\ UNCHANGED timers
  \/ \E r \in Requests :
       \/ \E q \in Queries : TAdmit(r, q)
       \/ TBodyAccepted(r)
       \/ \E c \in idle, delay \in 0 .. Delay : VerifyReusing(r, c, delay)
       \/ VerifyOnNew(r) \/ Check(r) \/ TVerifyOk(r) \/ TConnect(r)
       \/ \E why \in Failures : TVerifyFails(r, why)
       \/ Untimed(r) /\ UNCHANGED timers
       \/ Due(r) /\ TimesOut(r) /\ UNCHANGED timers

TSpec == TInit /\ [][TNext]_tvars

-----------------------------------------------------------------------------
(* Properties.                                                              *)

\* Whatever the upstreams do, a handler that has its request holds it for at most the two
\* total timeouts before it answers or begins to relay an answer.
BoundedWait ==
  \A r \in Requests : pc[r] \in Stages => now <= entered[r] + AuthTotal + UpTotal

\* data-service trusts x-user-id without looking at a token: the identity it is given may
\* stem from a token that has expired, but not for longer than verify and the wait for a
\* connection may take.
BoundedStaleness ==
  \A r \in Requests :
    used[r] # Never /\ req[r].route = "mine" =>
      used[r] < Expiry[req[r].token] + AuthTotal + UpConnect

\* No request for /my-items is lost, and its caller taken for unauthorized, because it was
\* posted on a connection auth-service has closed: if the session drops idle connections
\* well before auth-service does.  With the same time at both ends it happens.
KeepaliveMargin ==
  keepalive + AuthTotal + Delay < ServerIdle => \A r \in Requests : link[r] # "lost"
=============================================================================
