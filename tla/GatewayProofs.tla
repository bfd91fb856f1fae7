--------------------------- MODULE GatewayProofs ----------------------------
(***************************************************************************)
(* Proofs about PyGateway, for any number of requests, any queries and any *)
(* connection limit, whichever requests total timeouts interrupt.          *)
(***************************************************************************)
EXTENDS PyGateway, FiniteSetTheorems, SequenceTheorems, TLAPS

Messages == [type : {"start", "chunk", "end"}, status : Statuses \cup {0}]

\* What sending does to a response, whatever was sent before.
LEMMA SendOne ==
  ASSUME NEW s \in Seq(Messages), NEW x \in Messages
  PROVE  /\ s \o <<x>> \in Seq(Messages)
         /\ s \o <<x>> # <<>>
         /\ (s \o <<x>>)[Len(s \o <<x>>)] = x
  OBVIOUS

LEMMA SendTwo ==
  ASSUME NEW s \in Seq(Messages), NEW x \in Messages, NEW y \in Messages
  PROVE  /\ s \o <<x, y>> \in Seq(Messages)
         /\ s \o <<x, y>> # <<>>
         /\ (s \o <<x, y>>)[Len(s \o <<x, y>>)] = y
         /\ s = <<>> => s \o <<x, y>> = <<x, y>>
<1>. DEFINE t == <<x, y>>
<1>1. t \in Seq(Messages) /\ Len(t) = 2 /\ t[2] = y
  <2>1. <<x, y>> \in Seq(Messages)
    OBVIOUS
  <2>2. Len(<<x, y>>) = 2
    OBVIOUS
  <2>3. <<x, y>>[2] = y
    OBVIOUS
  <2>. QED BY <2>1, <2>2, <2>3, Zenon
<1>2. Len(s) \in Nat
  BY LenProperties
<1>. HIDE DEF t
<1>3. s \o t \in Seq(Messages) /\ Len(s \o t) = Len(s) + 2
  <2>1. s \o t \in Seq(Messages) /\ Len(s \o t) = Len(s) + Len(t)
    BY <1>1, ConcatProperties, Zenon
  <2>. QED BY <1>1, <2>1
<1>4. (s \o t)[Len(s) + 2] = y
  <2>1. Len(s) + 2 \in 1 .. Len(s) + Len(t)
    BY <1>1, <1>2
  <2>2. (s \o t)[Len(s) + 2] = t[(Len(s) + 2) - Len(s)]
    BY <1>1, <1>2, <2>1, ConcatProperties
  <2>. QED BY <1>1, <1>2, <2>2
<1>5. s \o t # <<>>
  BY <1>2, <1>3
<1>6. s = <<>> => s \o t = t
  BY <1>1, ConcatEmptySeq
<1>. QED BY <1>3, <1>4, <1>5, <1>6 DEF t

LEMMA MessageTypes ==
  /\ \A code \in Statuses : Asgi!Start(code) \in Messages
  /\ Asgi!Chunk \in Messages /\ Asgi!End \in Messages /\ Asgi!Chunk # Asgi!End
  /\ \A code \in Statuses : Asgi!Start(code) # Asgi!End
  BY DEF Messages, Asgi!Start, Asgi!Chunk, Asgi!End

-----------------------------------------------------------------------------

\* How far the response is, and what is known of the caller, at each step of a request.
ResponseInv ==
  \A r \in Requests :
    /\ pc[r] \in {"idle", "body", "authConnect", "verify", "connect", "exchange"}
         => sent[r] = <<>>
    /\ pc[r] \in {"relay", "sending"} => Asgi!Open(r)
    /\ pc[r] = "ending" => sent[r] # <<>>
    /\ pc[r] \in {"ending", "done"} /\ sent[r] # <<>> => sent[r][Len(sent[r])] = Asgi!End

CallerInv ==
  \A r \in Requests :
    /\ pc[r] = "body" => req[r].route \in {"search", "lookup"}
    /\ pc[r] \in {"authConnect", "verify"} => req[r].route = "mine" /\ req[r].token \in Tokens
    /\ pc[r] \in {"idle", "body", "authConnect", "verify", "connect"} => fwd[r] = Nothing
    /\ user[r] # Nothing => user[r] = Owner[req[r].token]
    /\ pc[r] = "idle" => user[r] = Nothing
    /\ pc[r] \in {"connect", "exchange", "relay", "sending", "ending"} /\ req[r].route = "mine" =>
         user[r] = Owner[req[r].token] /\ user[r] # Nothing

SlotsFinite == \A h \in Hosts : IsFiniteSet(held[h])

GInv ==
  TypeOK /\ ResponseInv /\ CallerInv /\ SlotsFinite /\ SlotsAccounted /\ MyItemsIdentity
    /\ AuthFailuresCollapse /\ NobodyLeftHanging

\* The steps of one request.
Step(r) == Dispatch(r) \/ ReadBody(r) \/ CallAuth(r) \/ CallData(r)

\* Everything but the requests themselves: lifespan events and stuttering.
Idle == Startup \/ Shutdown \/ UNCHANGED vars

LEMMA IdleFrame ==
  ASSUME Idle
  PROVE  UNCHANGED <<pc, req, user, held, fwd, sent>>
  BY DEF Idle, Startup, Shutdown, vars

LEMMA NextSteps ==
  ASSUME [Next]_vars
  PROVE  Idle \/ \E r \in Requests : Step(r)
  BY DEF Next, Idle, Step

-----------------------------------------------------------------------------
(* Slots.                                                                   *)

LEMMA AcquireSlot ==
  ASSUME TypeOK, SlotsFinite, SlotsAccounted, NEW r \in Requests, NEW h \in Hosts,
         Acquire(r, h)
  PROVE  SlotsFinite' /\ \A k \in Hosts : Cardinality(held'[k]) <= LimitPerHost
<1>. USE DEF SlotsFinite
<1>1. /\ held'[h] = held[h] \cup {r}
      /\ \A k \in Hosts \ {h} : held'[k] = held[k]
      /\ Cardinality(held[h]) < LimitPerHost
  BY DEF Acquire, TypeOK
<1>2. /\ IsFiniteSet(held[h] \cup {r})
      /\ Cardinality(held[h] \cup {r}) =
           IF r \in held[h] THEN Cardinality(held[h]) ELSE Cardinality(held[h]) + 1
  BY FS_AddElement
<1>3. Cardinality(held[h]) \in Nat /\ LimitPerHost \in Nat
  BY FS_CardinalityType, GatewayAssumption
<1>4. Cardinality(held'[h]) <= LimitPerHost
  BY <1>1, <1>2, <1>3
<1>5. \A k \in Hosts \ {h} : Cardinality(held'[k]) <= LimitPerHost
  BY <1>1 DEF SlotsAccounted
<1>. QED BY <1>1, <1>2, <1>4, <1>5

LEMMA ReleaseSlot ==
  ASSUME TypeOK, SlotsFinite, SlotsAccounted, NEW r \in Requests, NEW h \in Hosts,
         Release(r, h)
  PROVE  SlotsFinite' /\ \A k \in Hosts : Cardinality(held'[k]) <= LimitPerHost
<1>. USE DEF SlotsFinite
<1>1. /\ held'[h] = held[h] \ {r}
      /\ \A k \in Hosts \ {h} : held'[k] = held[k]
  BY DEF Release, TypeOK
<1>2. /\ IsFiniteSet(held[h] \ {r})
      /\ Cardinality(held[h] \ {r}) =
           IF r \in held[h] THEN Cardinality(held[h]) - 1 ELSE Cardinality(held[h])
  BY FS_RemoveElement
<1>3. Cardinality(held[h]) \in Nat /\ LimitPerHost \in Nat /\ Cardinality(held[h]) <= LimitPerHost
  BY FS_CardinalityType, GatewayAssumption DEF SlotsAccounted
<1>4. Cardinality(held'[h]) <= LimitPerHost
  BY <1>1, <1>2, <1>3
<1>5. \A k \in Hosts \ {h} : Cardinality(held'[k]) <= LimitPerHost
  BY <1>1 DEF SlotsAccounted
<1>. QED BY <1>1, <1>2, <1>4, <1>5

\* SlotsAccounted without its limit.
Occupancy ==
  /\ held["auth"] = {r \in Requests : pc[r] = "verify"}
  /\ {r \in Requests : pc[r] = "exchange"} \subseteq held["data"]
  /\ held["data"] \subseteq {r \in Requests : pc[r] \in {"exchange", "relay", "sending", "ending"}}

\* Who occupies a connection after a step of r.
LEMMA SlotsStep ==
  ASSUME GInv, [Next]_vars
  PROVE  SlotsFinite' /\ SlotsAccounted'
<1>. USE DEF GInv
<1>1. CASE Idle
  BY <1>1, IdleFrame DEF SlotsFinite, SlotsAccounted
<1>2. ASSUME NEW r \in Requests, Step(r) PROVE SlotsFinite' /\ SlotsAccounted'
  <2>. USE DEF Goto, Hosts
  <2>1. CASE VerifyConnect(r)
    <3>1. Acquire(r, "auth")
      BY <2>1 DEF VerifyConnect
    <3>2. Occupancy'
      BY <2>1 DEF VerifyConnect, Acquire, TypeOK, SlotsAccounted, Occupancy
    <3>. QED BY <3>1, <3>2, AcquireSlot DEF SlotsAccounted, Occupancy
  <2>2. CASE Connect(r)
    <3>1. Acquire(r, "data")
      BY <2>2 DEF Connect
    <3>2. Occupancy'
      BY <2>2 DEF Connect, Acquire, TypeOK, SlotsAccounted, Occupancy
    <3>. QED BY <3>1, <3>2, AcquireSlot DEF SlotsAccounted, Occupancy
  <2>3. ASSUME VerifyOk(r) \/ \E why \in Failures : VerifyFails(r, why)
        PROVE  SlotsFinite' /\ SlotsAccounted'
    <3>1. Release(r, "auth") /\ pc[r] = "verify"
      BY <2>3 DEF VerifyOk, VerifyFails
    <3>2. pc' = [pc EXCEPT ![r] = "connect"] \/ pc' = [pc EXCEPT ![r] = "done"]
      BY <2>3 DEF VerifyOk, VerifyFails
    <3>3. Occupancy'
      BY <3>1, <3>2 DEF Release, TypeOK, SlotsAccounted, Occupancy
    <3>. QED BY <3>1, <3>3, ReleaseSlot DEF SlotsAccounted, Occupancy
  <2>4. ASSUME RelayEnds(r) \/ RelayTimeout(r) \/ \E why \in Caught : ExchangeFails(r, why)
        PROVE  SlotsFinite' /\ SlotsAccounted'
    <3>1. Release(r, "data") /\ pc[r] \in {"exchange", "relay", "ending"} /\ pc' = [pc EXCEPT ![r] = "done"]
      BY <2>4 DEF RelayEnds, RelayTimeout, ExchangeFails
    <3>2. Occupancy'
      BY <3>1 DEF Release, TypeOK, SlotsAccounted, Occupancy
    <3>. QED BY <3>1, <3>2, ReleaseSlot DEF SlotsAccounted, Occupancy
  <2>5. ASSUME \/ \E code \in DataStatuses : ResponseStart(r, code)
               \/ RelayChunk(r) \/ ClientReads(r) \/ RelayStops(r)
        PROVE  SlotsFinite' /\ SlotsAccounted'
    <3>1. /\ held' = held /\ pc[r] \in {"exchange", "relay", "sending"}
          /\ \E to \in {"relay", "sending", "ending"} :
               pc' = [pc EXCEPT ![r] = to] /\ (to = "ending" => pc[r] = "relay")
      BY <2>5 DEF ResponseStart, RelayChunk, ClientReads, RelayStops
    <3>. QED BY <3>1 DEF SlotsFinite, SlotsAccounted, TypeOK
  <2>6. ASSUME Dispatch(r) \/ ReadBody(r) \/ VerifyConnectTimeout(r) \/ ConnectTimeout(r)
        PROVE  SlotsFinite' /\ SlotsAccounted'
    <3>1. /\ held' = held
          /\ pc[r] \in {"idle", "body", "authConnect", "connect"}
          /\ \E to \in {"done", "body", "authConnect", "connect"} : pc' = [pc EXCEPT ![r] = to]
      <4>1. CASE Dispatch(r)
        BY <4>1, GatewayAssumption
           DEF Dispatch, NotReady, UnknownRoute, MissingAuth, Admit, TurnAway, Arrive,
               FirstAwait, Query, Routes
      <4>2. CASE ReadBody(r) \/ VerifyConnectTimeout(r) \/ ConnectTimeout(r)
        BY <4>2 DEF ReadBody, BodyAccepted, BodyRejected, Disconnected, VerifyConnectTimeout,
                    ConnectTimeout
      <4>. QED BY <2>6, <4>1, <4>2
    <3>. QED BY <3>1 DEF SlotsFinite, SlotsAccounted, TypeOK
  <2>7. CASE UpstreamEnds(r)
    <3>1. Release(r, "data") /\ pc[r] \in {"relay", "sending"} /\ pc' = pc
      BY <2>7 DEF UpstreamEnds
    <3>2. Occupancy'
      BY <3>1 DEF Release, TypeOK, SlotsAccounted, Occupancy
    <3>. QED BY <3>1, <3>2, ReleaseSlot DEF SlotsAccounted, Occupancy
  <2>. QED BY <1>2, <2>1, <2>2, <2>3, <2>4, <2>5, <2>6, <2>7 DEF Step, CallAuth, CallData
<1>. QED BY <1>1, <1>2, NextSteps

-----------------------------------------------------------------------------
(* Responses: each step leaves the response alone, sends a whole one, or    *)
(* sends one message of it.                                                 *)

Quiet(r) ==
  /\ sent' = sent
  /\ \/ /\ pc[r] \in {"idle", "body", "authConnect", "verify", "connect"}
        /\ \E to \in {"body", "authConnect", "verify", "connect", "exchange"} :
             pc' = [pc EXCEPT ![r] = to]
     \/ pc[r] \in {"body", "ending"} /\ pc' = [pc EXCEPT ![r] = "done"]
     \/ pc[r] = "sending" /\ pc' = [pc EXCEPT ![r] = "relay"]
     \/ pc[r] \in {"relay", "sending"} /\ pc' = pc

Whole(r) ==
  /\ pc[r] \notin {"done", "sending", "ending"}
  /\ pc[r] = "relay" => r \in LateTimeouts
  /\ pc' = [pc EXCEPT ![r] = "done"]
  /\ \E code \in Statuses : Asgi!Send(r, <<Asgi!Start(code), Asgi!End>>)

First(r) ==
  /\ pc[r] = "exchange" /\ pc' = [pc EXCEPT ![r] = "relay"]
  /\ \E code \in Statuses : Asgi!Send(r, <<Asgi!Start(code)>>)

More(r) ==
  /\ pc[r] = "relay" /\ pc' = [pc EXCEPT ![r] = "sending"]
  /\ Asgi!Send(r, <<Asgi!Chunk>>)

Last(r) ==
  /\ pc[r] = "relay" /\ pc' = [pc EXCEPT ![r] = "ending"]
  /\ Asgi!Send(r, <<Asgi!End>>)

LEMMA SendCases ==
  ASSUME NEW r \in Requests, Step(r)
  PROVE  Quiet(r) \/ Whole(r) \/ First(r) \/ More(r) \/ Last(r)
<1>. USE DEF Goto, SendError
<1>1. CASE Dispatch(r)
  <2>1. ASSUME NEW q \in Queries, NotReady(r, q) \/ UnknownRoute(r, q) \/ MissingAuth(r, q)
        PROVE  Whole(r)
    <3>1. PICK code \in {401, 404, 503} : TurnAway(r, q, code)
      BY <2>1 DEF NotReady, UnknownRoute, MissingAuth
    <3>. QED BY <3>1 DEF TurnAway, Arrive, Whole, Statuses, DataStatuses
  <2>2. ASSUME NEW q \in Queries, Admit(r, q)
        PROVE  Quiet(r)
    BY <2>2, GatewayAssumption DEF Admit, Arrive, FirstAwait, Query, Routes, Quiet
  <2>. QED BY <1>1, <2>1, <2>2 DEF Dispatch
<1>2. CASE ReadBody(r)
  BY <1>2 DEF ReadBody, BodyAccepted, BodyRejected, Disconnected, Statuses, DataStatuses, Quiet, Whole
<1>3. CASE CallAuth(r)
  BY <1>3 DEF CallAuth, VerifyConnect, VerifyConnectTimeout, VerifyOk, VerifyFails,
              AuthErrorStatus, Statuses, DataStatuses, Quiet, Whole
<1>4. CASE Connect(r) \/ ClientReads(r) \/ UpstreamEnds(r) \/ RelayEnds(r)
  BY <1>4 DEF Connect, ClientReads, UpstreamEnds, RelayEnds, Quiet
<1>5. CASE ConnectTimeout(r) \/ (\E why \in Caught : ExchangeFails(r, why)) \/ RelayTimeout(r)
  <2>1. \A why : ErrorStatus(why) \in Statuses
    BY DEF ErrorStatus, Statuses
  <2>. QED BY <1>5, <2>1 DEF ConnectTimeout, ExchangeFails, RelayTimeout, Whole
<1>6. CASE (\E code \in DataStatuses : ResponseStart(r, code)) \/ RelayChunk(r) \/ RelayStops(r)
  BY <1>6 DEF ResponseStart, RelayChunk, RelayStops, Statuses, First, More, Last
<1>. QED BY <1>1, <1>2, <1>3, <1>4, <1>5, <1>6 DEF Step, CallData

LEMMA SendTo ==
  ASSUME TypeOK, NEW r \in Requests, NEW m, Asgi!Send(r, m)
  PROVE  /\ sent'[r] = sent[r] \o m
         /\ \A x \in Requests \ {r} : sent'[x] = sent[x]
         /\ sent[r] \in Seq(Messages)
         /\ sent[r] \o m \in Seq(Messages) => sent' \in [Requests -> Seq(Messages)]
  BY DEF Asgi!Send, TypeOK, Messages

LEMMA SentOne ==
  ASSUME TypeOK, NEW r \in Requests, NEW x \in Messages, Asgi!Send(r, <<x>>)
  PROVE  /\ sent'[r] \in Seq(Messages) /\ sent'[r] # <<>> /\ sent'[r][Len(sent'[r])] = x
         /\ sent' \in [Requests -> Seq(Messages)]
         /\ \A y \in Requests \ {r} : sent'[y] = sent[y]
<1>. DEFINE s == sent[r]
<1>1. s \in Seq(Messages) /\ sent'[r] = s \o <<x>>
  BY SendTo
<1>. HIDE DEF s
<1>2. /\ s \o <<x>> \in Seq(Messages)
      /\ s \o <<x>> # <<>>
      /\ (s \o <<x>>)[Len(s \o <<x>>)] = x
  BY <1>1, SendOne, Zenon
<1>3. sent[r] \o <<x>> \in Seq(Messages)
  BY <1>2 DEF s
<1>. QED BY <1>1, <1>2, <1>3, SendTo, Zenon

LEMMA SentTwo ==
  ASSUME TypeOK, NEW r \in Requests, NEW x \in Messages, NEW y \in Messages,
         Asgi!Send(r, <<x, y>>)
  PROVE  /\ sent'[r] \in Seq(Messages) /\ sent'[r] # <<>> /\ sent'[r][Len(sent'[r])] = y
         /\ sent[r] = <<>> => sent'[r] = <<x, y>>
         /\ sent' \in [Requests -> Seq(Messages)]
         /\ \A z \in Requests \ {r} : sent'[z] = sent[z]
<1>. DEFINE s == sent[r]
<1>1. s \in Seq(Messages) /\ sent'[r] = s \o <<x, y>>
  BY SendTo
<1>. HIDE DEF s
<1>2. /\ s \o <<x, y>> \in Seq(Messages)
      /\ s \o <<x, y>> # <<>>
      /\ (s \o <<x, y>>)[Len(s \o <<x, y>>)] = y
      /\ s = <<>> => s \o <<x, y>> = <<x, y>>
  BY <1>1, SendTwo, Zenon
<1>3. /\ sent[r] \o <<x, y>> \in Seq(Messages)
      /\ sent[r] = <<>> => sent'[r] = <<x, y>>
  BY <1>1, <1>2 DEF s
<1>. QED BY <1>1, <1>2, <1>3, SendTo, Zenon

LEMMA ResponseStep ==
  ASSUME GInv, [Next]_vars
  PROVE  ResponseInv' /\ sent' \in [Requests -> Seq(Messages)]
<1>0. /\ TypeOK /\ ResponseInv
      /\ sent \in [Requests -> Seq(Messages)]
      /\ pc \in [Requests -> {"idle", "body", "authConnect", "verify", "connect", "exchange",
                              "relay", "sending", "ending", "done"}]
  BY DEF GInv, TypeOK, Messages
<1>1. CASE Idle
  BY <1>0, <1>1, IdleFrame DEF ResponseInv, Asgi!Open
<1>2. ASSUME NEW r \in Requests, Step(r)
      PROVE  ResponseInv' /\ sent' \in [Requests -> Seq(Messages)]
  <2>1. CASE Quiet(r)
    BY <1>0, <2>1 DEF Quiet, ResponseInv, Asgi!Open
  <2>2. CASE Whole(r)
    <3>1. PICK code \in Statuses : Asgi!Send(r, <<Asgi!Start(code), Asgi!End>>)
      BY <2>2 DEF Whole
    <3>2. /\ sent'[r] # <<>> /\ sent'[r][Len(sent'[r])] = Asgi!End
          /\ sent' \in [Requests -> Seq(Messages)]
          /\ \A x \in Requests \ {r} : sent'[x] = sent[x]
      <4>1. Asgi!Start(code) \in Messages /\ Asgi!End \in Messages
        BY MessageTypes
      <4>2. \A x, y \in Messages : Asgi!Send(r, <<x, y>>) =>
              /\ sent'[r] # <<>> /\ sent'[r][Len(sent'[r])] = y
              /\ sent' \in [Requests -> Seq(Messages)]
              /\ \A z \in Requests \ {r} : sent'[z] = sent[z]
        BY <1>0, SentTwo
      <4>. QED BY <3>1, <4>1, <4>2, Zenon
    <3>. QED BY <1>0, <2>2, <3>2 DEF Whole, ResponseInv, Asgi!Open
  <2>3. CASE First(r)
    <3>1. PICK code \in Statuses : Asgi!Send(r, <<Asgi!Start(code)>>)
      BY <2>3 DEF First
    <3>2. /\ sent'[r] # <<>> /\ sent'[r][Len(sent'[r])] # Asgi!End
          /\ sent' \in [Requests -> Seq(Messages)]
          /\ \A x \in Requests \ {r} : sent'[x] = sent[x]
      BY <1>0, <3>1, SentOne, MessageTypes, Zenon
    <3>. QED BY <1>0, <2>3, <3>2 DEF First, ResponseInv, Asgi!Open
  <2>4. CASE More(r)
    <3>1. /\ sent'[r] # <<>> /\ sent'[r][Len(sent'[r])] # Asgi!End
          /\ sent' \in [Requests -> Seq(Messages)]
          /\ \A x \in Requests \ {r} : sent'[x] = sent[x]
      BY <1>0, <2>4, SentOne, MessageTypes, Zenon DEF More
    <3>. QED BY <1>0, <2>4, <3>1 DEF More, ResponseInv, Asgi!Open
  <2>5. CASE Last(r)
    <3>1. /\ sent'[r] # <<>> /\ sent'[r][Len(sent'[r])] = Asgi!End
          /\ sent' \in [Requests -> Seq(Messages)]
          /\ \A x \in Requests \ {r} : sent'[x] = sent[x]
      BY <1>0, <2>5, SentOne, MessageTypes, Zenon DEF Last
    <3>. QED BY <1>0, <2>5, <3>1 DEF Last, ResponseInv, Asgi!Open
  <2>. QED BY <1>2, <2>1, <2>2, <2>3, <2>4, <2>5, SendCases
<1>. QED BY <1>1, <1>2, NextSteps

-----------------------------------------------------------------------------
(* Callers, and what data-service is told of them.                          *)

Callers == CallerInv /\ MyItemsIdentity

\* TypeOK without the messages.
StateTypes ==
  /\ app \in {"new", "ready", "closed"}
  /\ pc \in [Requests -> {"idle", "body", "authConnect", "verify", "connect", "exchange",
                         "relay", "sending", "ending", "done"}]
  /\ req \in [Requests -> Queries \cup {Nothing}]
  /\ user \in [Requests -> Users \cup {Nothing}]
  /\ held \in [Hosts -> SUBSET Requests]
  /\ fwd \in [Requests -> [authorization : Tokens \cup {Nothing},
                          user : Users \cup {Nothing}] \cup {Nothing}]
  /\ \A r \in Requests : pc[r] # "idle" => req[r] # Nothing

LEMMA Caller ==
  ASSUME GInv, NEW r \in Requests, Step(r)
  PROVE  StateTypes' /\ Callers'
<1>0. StateTypes /\ CallerInv /\ MyItemsIdentity
  BY DEF GInv, TypeOK, StateTypes
<1>. USE <1>0, GatewayAssumption DEF StateTypes, CallerInv, MyItemsIdentity, Callers, Goto, Query
<1>1. ASSUME NEW q \in Queries, NEW code, TurnAway(r, q, code) PROVE StateTypes' /\ Callers'
  BY <1>1 DEF TurnAway, Arrive
<1>2. ASSUME NEW q \in Queries, Admit(r, q) PROVE StateTypes' /\ Callers'
  <2>1. q \in Query
    OBVIOUS
  <2>. QED BY <1>2, <2>1 DEF Admit, Arrive, FirstAwait, Routes
<1>3. CASE ReadBody(r)
  BY <1>3 DEF ReadBody, BodyAccepted, BodyRejected, Disconnected
<1>4. CASE VerifyConnect(r)
  BY <1>4 DEF VerifyConnect, Acquire, Hosts
<1>5. CASE VerifyConnectTimeout(r) \/ ConnectTimeout(r)
  BY <1>5 DEF VerifyConnectTimeout, ConnectTimeout
<1>6. CASE VerifyOk(r)
  BY <1>6 DEF VerifyOk, Release, Hosts
<1>7. CASE \E why \in Failures : VerifyFails(r, why)
  BY <1>7 DEF VerifyFails, Release, Hosts
<1>8. CASE Connect(r)
  <2>1. req[r] \in Query
    BY <1>8 DEF Connect
  <2>2. IdentityHeaders(req[r], user[r])
          \in [authorization : Tokens \cup {Nothing}, user : Users \cup {Nothing}]
    BY <2>1 DEF IdentityHeaders
  <2>3. req[r].route = "mine" =>
          IdentityHeaders(req[r], user[r]) =
            [authorization |-> Nothing, user |-> Owner[req[r].token]]
    BY <1>8 DEF IdentityHeaders, Connect
  <2>. QED BY <1>8, <2>2, <2>3 DEF Connect, Acquire, Hosts
<1>9. CASE \E why \in Caught : ExchangeFails(r, why)
  BY <1>9 DEF ExchangeFails, Release, Hosts
<1>10. CASE \E code \in DataStatuses : ResponseStart(r, code)
  BY <1>10 DEF ResponseStart
<1>11. CASE RelayChunk(r) \/ ClientReads(r)
  BY <1>11 DEF RelayChunk, ClientReads
<1>12. CASE RelayStops(r) \/ RelayEnds(r) \/ RelayTimeout(r)
  BY <1>12 DEF RelayStops, RelayEnds, RelayTimeout, Release, Hosts
<1>13. CASE UpstreamEnds(r)
  BY <1>13 DEF UpstreamEnds, Release, Hosts
<1>14. CASE Dispatch(r)
  BY <1>1, <1>2, <1>14 DEF Dispatch, NotReady, UnknownRoute, MissingAuth
<1>. QED
  BY <1>3, <1>4, <1>5, <1>6, <1>7, <1>8, <1>9, <1>10, <1>11, <1>12, <1>13, <1>14
     DEF Step, CallAuth, CallData

\* A whole response is the start and the end, and nothing else, if none was begun.
LEMMA SentReply ==
  ASSUME GInv, NEW r \in Requests, NEW code \in Statuses, SendError(r, code),
         pc[r] \in {"idle", "body", "authConnect", "verify", "connect", "exchange"}
  PROVE  sent'[r] = <<Asgi!Start(code), Asgi!End>>
<1>1. TypeOK /\ sent[r] = <<>>
  BY DEF GInv, ResponseInv
<1>2. Asgi!Start(code) \in Messages /\ Asgi!End \in Messages
  BY MessageTypes
<1>3. \A x, y \in Messages : Asgi!Send(r, <<x, y>>) => sent'[r] = <<x, y>>
  BY <1>1, SentTwo
<1>. QED BY <1>2, <1>3, Zenon DEF SendError

LEMMA CollapseStep ==
  ASSUME GInv, [Next]_vars
  PROVE  AuthFailuresCollapse'
<1>0. StateTypes /\ CallerInv /\ AuthFailuresCollapse /\ TypeOK
  BY DEF GInv, TypeOK, StateTypes
<1>1. CASE Idle
  BY <1>0, <1>1, IdleFrame DEF AuthFailuresCollapse
<1>2. ASSUME NEW r \in Requests, Step(r) PROVE AuthFailuresCollapse'
  <2>1. \A x \in Requests \ {r} :
          pc'[x] = pc[x] /\ req'[x] = req[x] /\ user'[x] = user[x] /\ sent'[x] = sent[x]
    <3>1. \A x \in Requests \ {r} : pc'[x] = pc[x] /\ sent'[x] = sent[x]
      BY <1>0, <1>2, SendCases, SendTo DEF Quiet, Whole, First, More, Last, StateTypes
    <3>2. \A x \in Requests \ {r} : req'[x] = req[x] /\ user'[x] = user[x]
      BY <1>0, <1>2 DEF Step, Dispatch, NotReady, UnknownRoute, MissingAuth, TurnAway, Admit,
           Arrive, ReadBody, BodyAccepted, BodyRejected, Disconnected, CallAuth, VerifyConnect,
           VerifyConnectTimeout, VerifyOk, VerifyFails, CallData, Connect, ConnectTimeout,
           ExchangeFails, ResponseStart, RelayChunk, UpstreamEnds, ClientReads, RelayStops, RelayEnds,
           RelayTimeout,
           StateTypes
    <3>. QED BY <3>1, <3>2
  <2>2. ASSUME pc'[r] = "done", req'[r].route = "mine", user'[r] = Nothing
        PROVE  \E code \in {401, 503} : sent'[r] = <<Asgi!Start(code), Asgi!End>>
    <3>. USE DEF Goto, StateTypes, CallerInv
    <3>1. ASSUME NEW q \in Queries, NotReady(r, q) \/ MissingAuth(r, q) \/ UnknownRoute(r, q)
          PROVE  \E code \in {401, 503} : sent'[r] = <<Asgi!Start(code), Asgi!End>>
      <4>1. req'[r] = q /\ pc[r] = "idle"
        BY <1>0, <3>1 DEF NotReady, MissingAuth, UnknownRoute, TurnAway, Arrive
      <4>2. PICK code \in {401, 503} : SendError(r, code)
        BY <2>2, <3>1, <4>1 DEF NotReady, MissingAuth, UnknownRoute, TurnAway
      <4>. QED BY <4>1, <4>2, SentReply DEF Statuses, DataStatuses
    <3>2. CASE VerifyConnectTimeout(r) \/ \E why \in Failures : VerifyFails(r, why)
      <4>1. SendError(r, 401) /\ pc[r] \in {"authConnect", "verify"}
        BY <3>2 DEF VerifyConnectTimeout, VerifyFails, AuthErrorStatus
      <4>. QED BY <4>1, SentReply DEF Statuses, DataStatuses
    <3>3. ASSUME ReadBody(r) PROVE FALSE
      BY <1>0, <2>2, <3>3 DEF ReadBody, BodyAccepted, BodyRejected, Disconnected
    <3>4. ASSUME CallData(r) PROVE FALSE
      BY <1>0, <2>2, <3>4 DEF CallData, Connect, ConnectTimeout, ExchangeFails, ResponseStart,
           RelayChunk, UpstreamEnds, ClientReads, RelayStops, RelayEnds, RelayTimeout
    <3>5. ASSUME NEW q \in Queries, Admit(r, q) PROVE FALSE
      BY <1>0, <2>2, <3>5, GatewayAssumption DEF Admit, Arrive, FirstAwait, Query, Routes
    <3>6. ASSUME VerifyConnect(r) \/ VerifyOk(r) PROVE FALSE
      BY <1>0, <2>2, <3>6 DEF VerifyConnect, VerifyOk
    <3>. QED BY <1>2, <3>1, <3>2, <3>3, <3>4, <3>5, <3>6 DEF Step, Dispatch, CallAuth
  <2>. QED BY <1>0, <2>1, <2>2 DEF AuthFailuresCollapse
<1>. QED BY <1>1, <1>2, NextSteps

LEMMA HangingStep ==
  ASSUME GInv, [Next]_vars
  PROVE  NobodyLeftHanging'
<1>0. StateTypes /\ CallerInv /\ NobodyLeftHanging /\ TypeOK
  BY DEF GInv, TypeOK, StateTypes
<1>1. CASE Idle
  BY <1>0, <1>1, IdleFrame DEF NobodyLeftHanging
<1>2. ASSUME NEW r \in Requests, Step(r) PROVE NobodyLeftHanging'
  <2>1. ASSUME NEW x \in Requests, pc'[x] = "done", sent'[x] = <<>>
        PROVE  req'[x].route \in {"search", "lookup"} /\ fwd'[x] = Nothing
    <3>1. CASE x # r
      <4>1. pc'[x] = pc[x] /\ sent'[x] = sent[x]
        BY <1>0, <1>2, <3>1, SendCases, SendTo DEF Quiet, Whole, First, More, Last, StateTypes
      <4>2. req'[x] = req[x] /\ fwd'[x] = fwd[x]
        BY <1>0, <1>2, <3>1 DEF Step, Dispatch, NotReady, UnknownRoute, MissingAuth, TurnAway,
             Admit, Arrive, ReadBody, BodyAccepted, BodyRejected, Disconnected, CallAuth,
             VerifyConnect, VerifyConnectTimeout, VerifyOk, VerifyFails, CallData, Connect,
             ConnectTimeout, ExchangeFails, ResponseStart, RelayChunk, UpstreamEnds, ClientReads, RelayStops,
             RelayEnds, RelayTimeout, StateTypes
      <4>. QED BY <1>0, <2>1, <4>1, <4>2 DEF NobodyLeftHanging
    <3>2. CASE x = r
      <4>1. ~ (Whole(r) \/ First(r) \/ More(r) \/ Last(r))
        <5>1. ~ Whole(r)
          <6>1. ASSUME NEW code \in Statuses, Asgi!Send(r, <<Asgi!Start(code), Asgi!End>>)
                PROVE  FALSE
            <7>1. \A a, b \in Messages : Asgi!Send(r, <<a, b>>) => sent'[r] # <<>>
              BY <1>0, SentTwo
            <7>. QED BY <2>1, <3>2, <6>1, <7>1, MessageTypes
          <6>. QED BY <6>1 DEF Whole
        <5>2. \A a \in Messages : Asgi!Send(r, <<a>>) => sent'[r] # <<>>
          BY <1>0, SentOne
        <5>. QED BY <2>1, <3>2, <5>1, <5>2, MessageTypes DEF First, More, Last
      <4>2. pc[r] = "body"
        <5>1. pc[r] = "ending" => sent[r] # <<>>
          BY DEF GInv, ResponseInv
        <5>. QED BY <1>0, <1>2, <2>1, <3>2, <4>1, <5>1, SendCases DEF Quiet, StateTypes
      <4>3. ReadBody(r)
        BY <1>2, <4>2 DEF Step, Dispatch, NotReady, UnknownRoute, MissingAuth, TurnAway, Admit,
             Arrive, CallAuth, VerifyConnect, VerifyConnectTimeout, VerifyOk, VerifyFails,
             CallData, Connect, ConnectTimeout, ExchangeFails, ResponseStart, RelayChunk,
             UpstreamEnds, ClientReads, RelayStops, RelayEnds, RelayTimeout, Goto
      <4>. QED BY <1>0, <3>2, <4>2, <4>3 DEF ReadBody, BodyAccepted, BodyRejected, Disconnected,
                                            CallerInv
    <3>. QED BY <3>1, <3>2
  <2>2. ResponseInv'
    BY ResponseStep
  <2>. QED BY <2>1, <2>2 DEF NobodyLeftHanging, ResponseInv
<1>. QED BY <1>1, <1>2, NextSteps

-----------------------------------------------------------------------------
(* The inductive invariant, and what follows from it.                       *)

LEMMA Initially ==
  ASSUME Init
  PROVE  GInv
<1>1. TypeOK
  BY DEF Init, TypeOK, Hosts
<1>2. ResponseInv /\ CallerInv /\ MyItemsIdentity /\ AuthFailuresCollapse /\ NobodyLeftHanging
  BY DEF Init, ResponseInv, CallerInv, MyItemsIdentity, AuthFailuresCollapse, NobodyLeftHanging
<1>3. SlotsFinite /\ \A h \in Hosts : Cardinality(held[h]) <= LimitPerHost
  BY FS_EmptySet, GatewayAssumption DEF Init, SlotsFinite
<1>4. SlotsAccounted
  BY <1>3 DEF Init, SlotsAccounted, Hosts
<1>. QED BY <1>1, <1>2, <1>3, <1>4 DEF GInv

LEMMA Inductive ==
  ASSUME GInv, [Next]_vars
  PROVE  GInv'
<1>1. StateTypes' /\ Callers'
  <2>1. CASE Idle
    <3>1. StateTypes /\ Callers
      BY DEF GInv, TypeOK, StateTypes, Callers
    <3>2. app' \in {"new", "ready", "closed"}
      BY <2>1, <3>1 DEF Idle, Startup, Shutdown, vars, StateTypes
    <3>. QED BY <2>1, <3>1, <3>2, IdleFrame
             DEF StateTypes, Callers, CallerInv, MyItemsIdentity
  <2>. QED BY <2>1, NextSteps, Caller
<1>2. ResponseInv' /\ sent' \in [Requests -> Seq(Messages)]
  BY ResponseStep
<1>3. TypeOK'
  BY <1>1, <1>2 DEF StateTypes, TypeOK, Messages
<1>. QED BY <1>1, <1>2, <1>3, SlotsStep, CollapseStep, HangingStep DEF GInv, Callers

LEMMA Invariance == Spec => []GInv
  BY Initially, Inductive, PTL DEF Spec

\* The gateway's state keeps to its types, and it sends no status but those it makes
\* itself and those data-service answers with.
THEOREM TypeCorrect == Spec => []TypeOK
  BY Invariance, PTL DEF GInv

\* No way out of an exchange leaks a connection, or has a request wait for one connection
\* while it holds another.
THEOREM SlotsNeverLeak == Spec => []SlotsAccounted
  BY Invariance, PTL DEF GInv

\* data-service is told of the verified caller, never of the one the client claims to be.
THEOREM IdentityIsVerified == Spec => []MyItemsIdentity
  BY Invariance, PTL DEF GInv

\* Failures to authenticate, of whatever kind, end in 401.
THEOREM AuthFailuresAre401 == Spec => []AuthFailuresCollapse
  BY Invariance, PTL DEF GInv

\* A request that reaches the end of its coroutine was answered to the end, or its
\* client had left.
THEOREM ResponsesComplete == Spec => []NobodyLeftHanging
  BY Invariance, PTL DEF GInv

\* A response that no total timeout interrupts is a sequence of messages that ASGI allows.
THEOREM ImplementsAsgi == Spec => RefinesAsgi
<1>. DEFINE R == Requests \ LateTimeouts
            part == [r \in R |-> sent[r]]
<1>1. Init => Punctual!Init
  BY DEF Init, Punctual!Init
<1>2. ASSUME GInv, [Next]_vars PROVE [Punctual!Next]_part
  <2>1. CASE Idle
    BY <2>1, IdleFrame
  <2>2. ASSUME NEW r \in Requests, Step(r) PROVE [Punctual!Next]_part
    <3>1. ResponseInv /\ sent \in [Requests -> Seq(Messages)]
      BY <1>2 DEF GInv, TypeOK, Messages
    <3>2. CASE Quiet(r)
      BY <3>2 DEF Quiet
    <3>3. CASE r \in LateTimeouts
      <4>1. \A x \in R : sent'[x] = sent[x]
        BY <2>2, <3>1, <3>3, SendCases DEF Quiet, Whole, First, More, Last, Asgi!Send
      <4>. QED BY <4>1
    <3>4. ASSUME r \in R, NEW m, Asgi!Send(r, m) PROVE Punctual!Send(r, m)
      <4>1. sent' = [sent EXCEPT ![r] = sent[r] \o m]
        BY <3>4 DEF Asgi!Send
      <4>2. [x \in R |-> sent'[x]] = [part EXCEPT ![r] = part[r] \o m]
        BY <3>1, <3>4, <4>1
      <4>. QED BY <4>2 DEF Punctual!Send
    <3>5. ASSUME r \in R, Asgi!Open(r) PROVE Punctual!Open(r)
      BY <3>5 DEF Asgi!Open, Punctual!Open, Asgi!End, Punctual!End
    <3>6. CASE r \in R /\ Whole(r)
      <4>1. sent[r] = <<>>
        BY <1>2, <3>1, <3>6 DEF Whole, ResponseInv, GInv, TypeOK
      <4>. QED BY <3>4, <3>6, <4>1
           DEF Whole, Punctual!Next, Punctual!Reply, Asgi!Start, Asgi!End, Punctual!Start, Punctual!End
    <3>7. CASE r \in R /\ First(r)
      BY <3>1, <3>4, <3>7
         DEF First, ResponseInv, Punctual!Next, Punctual!Begin, Asgi!Start, Punctual!Start
    <3>8. CASE r \in R /\ More(r)
      BY <3>1, <3>4, <3>5, <3>8
         DEF More, ResponseInv, Punctual!Next, Punctual!Continue, Asgi!Chunk, Punctual!Chunk
    <3>9. CASE r \in R /\ Last(r)
      BY <3>1, <3>4, <3>5, <3>9
         DEF Last, ResponseInv, Punctual!Next, Punctual!Finish, Asgi!End, Punctual!End
    <3>. QED BY <2>2, <3>2, <3>3, <3>6, <3>7, <3>8, <3>9, SendCases
  <2>. QED BY <1>2, <2>1, <2>2, NextSteps
<1>. QED BY <1>1, <1>2, Invariance, PTL DEF Spec, RefinesAsgi, Punctual!Spec
=============================================================================
