----------------------------- MODULE PyGateway ------------------------------
(***************************************************************************)
(* gateway-python: one worker's ASGI application.  Every request is a      *)
(* coroutine of its own on the worker's event loop; its steps are the      *)
(* stretches between awaits.  Requests share the aiohttp session, whose    *)
(* connector gives each upstream host at most LimitPerHost connections at  *)
(* a time; a request that finds none waits, until its connect timeout.     *)
(*                                                                         *)
(* External, and modelled from how the gateway uses them: the ASGI server  *)
(* (requests, lifespan events), aiohttp's pool and timers, auth-service    *)
(* and data-service, which may answer, answer rubbish, fail or hang.       *)
(***************************************************************************)
EXTENDS FiniteSets, Integers, Sequences

CONSTANTS
  Requests,      \* HTTP requests the worker is given
  Tokens,        \* Authorization header values
  Users,         \* identities
  Owner,         \* Owner[t] = the user that auth-service knows behind token t
  Nothing,       \* None
  Queries,       \* what clients ask for
  LimitPerHost,  \* settings.AIOHTTP_LIMIT_PER_HOST, where 0 would be no limit
  LateTimeouts,  \* requests whose UPSTREAM_TOTAL_TIMEOUT may expire in the middle of a body
  SlowClients,   \* requests whose client may stop reading its response
  MaxChunks      \* bound: messages of body relayed in a response

Routes == {"items", "mine", "search", "lookup", "other"}
Query == [route : Routes, token : Tokens \cup {Nothing}, claimed : Users \cup {Nothing}]
Hosts == {"auth", "data"}
DataStatuses == {200, 400, 401}   \* what data-service answers the four routes with
Statuses == DataStatuses \cup {404, 502, 503, 504}

ASSUME GatewayAssumption ==
  /\ Nothing \notin Tokens \cup Users
  /\ Owner \in [Tokens -> Users]
  /\ Queries \subseteq Query
  /\ Nothing \notin Query
  /\ Nothing \notin [authorization : Tokens \cup {Nothing}, user : Users \cup {Nothing}]
  /\ LimitPerHost \in Nat \ {0}
  /\ LateTimeouts \subseteq Requests
  /\ SlowClients \subseteq LateTimeouts
  /\ MaxChunks \in Nat

VARIABLES
  app,    \* _AppState: "new" before startup, "ready", "closed" after shutdown
  pc,     \* pc[r] = what the coroutine of request r awaits
  req,    \* req[r] = the scope of request r, or Nothing before it arrives
  user,   \* user[r] = what auth.verify returned to it
  held,   \* held[h] = the requests that occupy a connection to host h
  fwd,    \* fwd[r] = the identity headers data-service was sent for r
  sent    \* sent[r] = the ASGI messages sent in answer to r

vars == <<app, pc, req, user, held, fwd, sent>>

Asgi == INSTANCE AsgiResponse

\* The responses that no total timeout cuts short.
Punctual == INSTANCE AsgiResponse WITH
  Requests <- Requests \ LateTimeouts,
  sent <- [r \in Requests \ LateTimeouts |-> sent[r]]

Init ==
  /\ app = "new"
  /\ pc = [r \in Requests |-> "idle"]
  /\ req = [r \in Requests |-> Nothing]
  /\ user = [r \in Requests |-> Nothing]
  /\ held = [h \in Hosts |-> {}]
  /\ fwd = [r \in Requests |-> Nothing]
  /\ sent = [r \in Requests |-> <<>>]

Goto(r, from, to) ==
  /\ pc[r] = from
  /\ pc' = [pc EXCEPT ![r] = to]

Acquire(r, h) ==
  /\ Cardinality(held[h]) < LimitPerHost
  /\ held' = [held EXCEPT ![h] = @ \cup {r}]

\* Leaving "async with session.request(...)" on any path gives the connection back.
Release(r, h) == held' = [held EXCEPT ![h] = @ \ {r}]

\* send_error.
SendError(r, code) == Asgi!Send(r, <<Asgi!Start(code), Asgi!End>>)

-----------------------------------------------------------------------------
(* Lifespan and dispatch.                                                   *)

Startup ==
  /\ app = "new"
  /\ app' = "ready"
  /\ UNCHANGED <<pc, req, user, held, fwd, sent>>

InFlight(r) == pc[r] \notin {"idle", "done"}

\* ASGI: the server sends lifespan.shutdown when it has no connections left.
Shutdown ==
  /\ app = "ready"
  /\ \A r \in Requests : ~ InFlight(r)
  /\ app' = "closed"
  /\ UNCHANGED <<pc, req, user, held, fwd, sent>>

FirstAwait(q) ==
  CASE q.route = "items" -> "connect"
    [] q.route = "mine" -> "authConnect"
    [] q.route \in {"search", "lookup"} -> "body"

Arrive(r, q) == pc[r] = "idle" /\ req' = [req EXCEPT ![r] = q]

\* Answered before the first await: no session, no route, no Authorization header.
TurnAway(r, q, code) ==
  /\ Arrive(r, q)
  /\ pc' = [pc EXCEPT ![r] = "done"]
  /\ SendError(r, code)
  /\ UNCHANGED <<app, user, held, fwd>>

NotReady(r, q) == app # "ready" /\ TurnAway(r, q, 503)
UnknownRoute(r, q) == app = "ready" /\ q.route = "other" /\ TurnAway(r, q, 404)
MissingAuth(r, q) ==
  app = "ready" /\ q.route = "mine" /\ q.token = Nothing /\ TurnAway(r, q, 401)

Admit(r, q) ==
  /\ app = "ready"
  /\ q.route # "other"
  /\ q.route = "mine" => q.token # Nothing
  /\ Arrive(r, q)
  /\ pc' = [pc EXCEPT ![r] = FirstAwait(q)]
  /\ UNCHANGED <<app, user, held, fwd, sent>>

-----------------------------------------------------------------------------
(* read_body and the decoders of handle_search and handle_lookup.  Messages *)
(* that carry part of the body leave the coroutine where it is.             *)

BodyAccepted(r) ==
  /\ Goto(r, "body", "connect")
  /\ UNCHANGED <<app, req, user, held, fwd, sent>>

BodyRejected(r) ==
  /\ Goto(r, "body", "done")
  /\ SendError(r, 400)
  /\ UNCHANGED <<app, req, user, held, fwd>>

\* ClientDisconnected: nobody is left to answer.
Disconnected(r) ==
  /\ Goto(r, "body", "done")
  /\ UNCHANGED <<app, req, user, held, fwd, sent>>

-----------------------------------------------------------------------------
(* AuthClient.verify.                                                       *)

Failures == {"refused", "rubbish", "ClientError", "TimeoutError"}

\* Mutant of AuthErrorStatus: a verify that times out is a gateway timeout.
AuthErrorStatus504(why) == IF why = "TimeoutError" THEN 504 ELSE 401

\* AuthError.status: whatever went wrong, the caller is unauthorized.
AuthErrorStatus(why) == 401

VerifyConnect(r) ==
  /\ Goto(r, "authConnect", "verify")
  /\ Acquire(r, "auth")
  /\ UNCHANGED <<app, req, user, fwd, sent>>

VerifyConnectTimeout(r) ==
  /\ Goto(r, "authConnect", "done")
  /\ SendError(r, AuthErrorStatus("TimeoutError"))
  /\ UNCHANGED <<app, req, user, held, fwd>>

\* Mutant of VerifyOk: the connection is kept for the request that follows.
VerifyOkHolding(r) ==
  /\ Goto(r, "verify", "connect")
  /\ user' = [user EXCEPT ![r] = Owner[req[r].token]]
  /\ UNCHANGED <<app, req, held, fwd, sent>>

VerifyOk(r) ==
  /\ Goto(r, "verify", "connect")
  /\ user' = [user EXCEPT ![r] = Owner[req[r].token]]
  /\ Release(r, "auth")
  /\ UNCHANGED <<app, req, fwd, sent>>

VerifyFails(r, why) ==
  /\ Goto(r, "verify", "done")
  /\ Release(r, "auth")
  /\ SendError(r, AuthErrorStatus(why))
  /\ UNCHANGED <<app, req, user, fwd>>

-----------------------------------------------------------------------------
(* The request to data-service, and _relay_response.                        *)

\* Mutant of IdentityHeaders: the caller's own x-user-id is left in place.
IdentityHeadersKept(q, u) ==
  [authorization |-> IF q.route = "mine" THEN Nothing ELSE q.token,
   user |-> IF q.claimed # Nothing \/ q.route # "mine" THEN q.claimed ELSE u]

\* request_headers_for_upstream; /my-items replaces the identity and drops the token.
IdentityHeaders(q, u) ==
  IF q.route = "mine" THEN [authorization |-> Nothing, user |-> u]
                      ELSE [authorization |-> q.token, user |-> q.claimed]

Connect(r) ==
  /\ Goto(r, "connect", "exchange")
  /\ Acquire(r, "data")
  /\ fwd' = [fwd EXCEPT ![r] = IdentityHeaders(req[r], user[r])]
  /\ UNCHANGED <<app, req, user, sent>>

\* Mutant of ErrorStatus: TimeoutError is not caught, the server answers in its place.
ErrorStatusUncaught(why) == IF why = "ClientError" THEN 502 ELSE 500

\* The except clauses of asgi_app.
Caught == {"ClientError", "TimeoutError"}
ErrorStatus(why) == IF why = "ClientError" THEN 502 ELSE 504

\* Mutant of ConnectTimeout: no connect budget, a request waits as long as it takes.
ConnectWaits(r) == FALSE

\* No free connection, or no connection at all, within UPSTREAM_CONNECT_TIMEOUT: aiohttp
\* raises ConnectionTimeoutError, both a ClientError and a TimeoutError.
ConnectTimeout(r) ==
  /\ Goto(r, "connect", "done")
  /\ SendError(r, ErrorStatus("ClientError"))
  /\ UNCHANGED <<app, req, user, held, fwd>>

\* Before the status line: a ClientError, or the total timeout.
ExchangeFails(r, why) ==
  /\ Goto(r, "exchange", "done")
  /\ Release(r, "data")
  /\ SendError(r, ErrorStatus(why))
  /\ UNCHANGED <<app, req, user, fwd>>

ResponseStart(r, code) ==
  /\ Goto(r, "exchange", "relay")
  /\ Asgi!Send(r, <<Asgi!Start(code)>>)
  /\ UNCHANGED <<app, req, user, held, fwd>>

RelayChunk(r) ==
  /\ Len(sent[r]) <= MaxChunks
  /\ Goto(r, "relay", "sending")
  /\ Asgi!Send(r, <<Asgi!Chunk>>)
  /\ UNCHANGED <<app, req, user, held, fwd>>

\* aiohttp has received the whole body: it takes the connection back and stops the total
\* timer at once, whatever part of the body is still to be relayed.
UpstreamEnds(r) ==
  /\ pc[r] \in {"relay", "sending"}
  /\ r \in held["data"]
  /\ Release(r, "data")
  /\ UNCHANGED <<app, pc, req, user, fwd, sent>>

\* The client has room again: the await of send is over.
ClientReads(r) ==
  /\ Goto(r, "sending", "relay")
  /\ UNCHANGED <<app, req, user, held, fwd, sent>>

\* Mutant of RelayStops: an upstream that breaks off gets an error sent after all.
RelayStopsInError(r) ==
  /\ Goto(r, "relay", "done")
  /\ Release(r, "data")
  /\ Asgi!Send(r, <<Asgi!Start(502), Asgi!End>>)
  /\ UNCHANGED <<app, req, user, fwd>>

\* Mutant of RelayStops: the END message is sent on the normal path only.
RelayStopsOpen(r) ==
  /\ Goto(r, "relay", "done")
  /\ Release(r, "data")
  /\ UNCHANGED <<app, req, user, fwd, sent>>

\* The relayed body is complete, or broken off by a ClientError, which is swallowed.  A
\* broken connection is occupied as long as the last message is being sent.
RelayStops(r) ==
  /\ Goto(r, "relay", "ending")
  /\ Asgi!Send(r, <<Asgi!End>>)
  /\ UNCHANGED <<app, req, user, held, fwd>>

\* The await of the last send is over, and _relay_response returns.
RelayEnds(r) ==
  /\ Goto(r, "ending", "done")
  /\ Release(r, "data")
  /\ UNCHANGED <<app, req, user, fwd, sent>>

\* The total timeout raises a plain TimeoutError while the relay waits for more: it
\* passes the except clause of _relay_response and ends up in that of asgi_app.
RelayTimeout(r) ==
  /\ r \in LateTimeouts
  /\ r \in held["data"]
  /\ Goto(r, "relay", "done")
  /\ Release(r, "data")
  /\ SendError(r, ErrorStatus("TimeoutError"))
  /\ UNCHANGED <<app, req, user, fwd>>

-----------------------------------------------------------------------------
Dispatch(r) ==
  \E q \in Queries :
    NotReady(r, q) \/ UnknownRoute(r, q) \/ MissingAuth(r, q) \/ Admit(r, q)

ReadBody(r) == BodyAccepted(r) \/ BodyRejected(r) \/ Disconnected(r)

CallAuth(r) ==
  \/ VerifyConnect(r) \/ VerifyConnectTimeout(r) \/ VerifyOk(r)
  \/ \E why \in Failures : VerifyFails(r, why)

CallData(r) ==
  \/ Connect(r) \/ ConnectTimeout(r)
  \/ \E why \in Caught : ExchangeFails(r, why)
  \/ \E code \in DataStatuses : ResponseStart(r, code)
  \/ RelayChunk(r) \/ UpstreamEnds(r) \/ ClientReads(r)
  \/ RelayStops(r) \/ RelayEnds(r) \/ RelayTimeout(r)

Next ==
  \/ Startup
  \/ Shutdown
  \/ \E r \in Requests : Dispatch(r) \/ ReadBody(r) \/ CallAuth(r) \/ CallData(r)

Spec == Init /\ [][Next]_vars

(***************************************************************************)
(* aiohttp's timers fire, a relay that has all of the body comes to its    *)
(* end, and clients, but for the slow ones, read what they are sent.       *)
(* Nothing is assumed of the upstreams, nor of clients sending a body:     *)
(* read_body has no timeout.                                               *)
(***************************************************************************)
Fairness ==
  /\ \A r \in Requests :
       /\ WF_vars(VerifyConnectTimeout(r))
       /\ WF_vars(VerifyFails(r, "TimeoutError"))
       /\ WF_vars(ConnectTimeout(r))
       /\ WF_vars(ExchangeFails(r, "TimeoutError"))
       /\ WF_vars(RelayTimeout(r))
       /\ WF_vars(r \notin held["data"] /\ RelayStops(r))
  /\ \A r \in Requests \ SlowClients : WF_vars(ClientReads(r)) /\ WF_vars(RelayEnds(r))

FairSpec == Spec /\ Fairness

-----------------------------------------------------------------------------
(* Properties.                                                              *)

\* Every variable keeps to its type: in particular every status sent is one the gateway
\* or data-service produces.
TypeOK ==
  /\ app \in {"new", "ready", "closed"}
  /\ pc \in [Requests -> {"idle", "body", "authConnect", "verify", "connect", "exchange",
                         "relay", "sending", "ending", "done"}]
  /\ req \in [Requests -> Queries \cup {Nothing}]
  /\ user \in [Requests -> Users \cup {Nothing}]
  /\ held \in [Hosts -> SUBSET Requests]
  /\ fwd \in [Requests -> [authorization : Tokens \cup {Nothing},
                          user : Users \cup {Nothing}] \cup {Nothing}]
  /\ sent \in [Requests -> Seq([type : {"start", "chunk", "end"}, status : Statuses \cup {0}])]
  /\ \A r \in Requests : pc[r] # "idle" => req[r] # Nothing

\* Whatever way a request takes out of an exchange (answer, error, timeout before or after
\* the status line), its connection goes back to the pool, and no request holds one
\* connection while it waits for another: requests cannot block each other in a circle.
SlotsAccounted ==
  /\ held["auth"] = {r \in Requests : pc[r] = "verify"}
  /\ {r \in Requests : pc[r] = "exchange"} \subseteq held["data"]
  /\ held["data"] \subseteq {r \in Requests : pc[r] \in {"exchange", "relay", "sending", "ending"}}
  /\ \A h \in Hosts : Cardinality(held[h]) <= LimitPerHost

\* What data-service is told of the caller of /my-items is what auth-service said of the
\* caller's own token, whatever x-user-id the caller sent, and never the token itself.
MyItemsIdentity ==
  \A r \in Requests :
    fwd[r] # Nothing /\ req[r].route = "mine" =>
      fwd[r] = [authorization |-> Nothing, user |-> Owner[req[r].token]]

\* Every failure to establish the caller of /my-items, a dead or silent auth-service
\* included, is a 401 (503 before startup), never a 5xx of the proxy.
AuthFailuresCollapse ==
  \A r \in Requests :
    pc[r] = "done" /\ req[r].route = "mine" /\ user[r] = Nothing =>
      \E code \in {401, 503} : sent[r] = <<Asgi!Start(code), Asgi!End>>

\* No coroutine returns with its response open, and none returns without a response but
\* those whose client left while it was still sending its body.
NobodyLeftHanging ==
  \A r \in Requests :
    pc[r] = "done" =>
      IF sent[r] = <<>> THEN req[r].route \in {"search", "lookup"} /\ fwd[r] = Nothing
                        ELSE sent[r][Len(sent[r])] = Asgi!End

\* The messages sent in answer to each request are the ones ASGI allows, whatever becomes of
\* the requests beside it; a late total timeout alone breaks the rule (see SingleStart).
RefinesAsgi == Punctual!Spec

\* Once the body of a request is read, it is answered: hung upstreams, an exhausted pool
\* and clients that stop reading delay other requests, but never for ever.
Settled ==
  \A r \in Requests \ SlowClients :
    (InFlight(r) /\ pc[r] # "body") ~> pc[r] = "done"

\* gateway.py says of _relay_response: mid-stream upstream errors must not trigger a
\* fresh http.response.start.
SingleStart ==
  \A r \in Requests : Cardinality({i \in DOMAIN sent[r] : sent[r][i].type = "start"}) <= 1

\* settings.py and the README call AIOHTTP_LIMIT_PER_HOST a cap on idle connections: one
\* that would never make a request wait for another request's connection.
CapsIdleConnectionsOnly ==
  \A r \in Requests : pc[r] = "connect" => Cardinality(held["data"]) < LimitPerHost
=============================================================================
