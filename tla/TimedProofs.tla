---------------------------- MODULE TimedProofs -----------------------------
(***************************************************************************)
(* Proofs about TimedGateway: for any number of requests and any budgets,  *)
(* expiries and idle times.                                                *)
(***************************************************************************)
EXTENDS TimedGateway, GatewayProofs

TTypes ==
  /\ now \in Nat /\ keepalive \in Nat
  /\ entered \in [Requests -> Int] /\ began \in [Requests -> Int]
  /\ checked \in [Requests -> Int] /\ used \in [Requests -> Int]
  /\ link \in [Requests -> {"none", "sound", "lost"}]
  /\ \A c \in idle : c.since \in Int /\ c.closes \in Int

\* No call outlives its budget, and the call to data-service begins before the one to
\* auth-service would have had to end.
Deadlines ==
  \A r \in Requests :
    /\ pc[r] \in Stages => began[r] <= now /\ now <= began[r] + Budget(pc[r])
    /\ pc[r] \in {"authConnect", "verify"} => began[r] = entered[r]
    /\ pc[r] \in {"connect", "exchange"} => began[r] <= entered[r] + AuthTotal

\* When a token was looked at, and how long its verdict has been under way.
Verdicts ==
  \A r \in Requests :
    /\ pc[r] \in {"idle", "body", "authConnect"} => checked[r] = Never
    /\ pc[r] \in {"idle", "body", "authConnect", "verify", "connect"} => used[r] = Never
    /\ pc[r] = "verify" /\ checked[r] # Never => began[r] <= checked[r] /\ checked[r] <= now
    /\ pc[r] = "connect" /\ req[r].route = "mine" =>
         req[r].token \in Tokens /\ began[r] < Expiry[req[r].token] + AuthTotal

\* An answer takes no longer than its call: a pooled connection is not much younger for
\* the gateway than for auth-service.
Pooled == \A c \in idle : c.since + ServerIdle <= c.closes + AuthTotal

TInv == GInv /\ TTypes /\ Deadlines /\ Verdicts /\ BoundedStaleness /\ Pooled /\ KeepaliveMargin

-----------------------------------------------------------------------------

LEMMA Durations ==
  /\ AuthConnect \in Nat /\ AuthTotal \in Nat /\ UpConnect \in Nat /\ UpTotal \in Nat
  /\ ServerIdle \in Nat /\ Delay \in Nat
  /\ AuthConnect <= AuthTotal /\ UpConnect <= UpTotal
  /\ Budget("authConnect") = AuthConnect /\ Budget("verify") = AuthTotal
  /\ Budget("connect") = UpConnect /\ Budget("exchange") = UpTotal
  BY TimedAssumption DEF Budget

\* The steps of r that leave the timers alone.
Unclocked(r) ==
  /\ Untimed(r) \/ (Due(r) /\ TimesOut(r)) \/ \E q \in Queries : Admit(r, q) /\ q.route \notin {"items", "mine"}
  /\ UNCHANGED timers

\* Every step is one of the gateway's, or leaves its state alone.
LEMMA GatewayStep ==
  ASSUME [TNext]_tvars
  PROVE  [Next]_vars
<1>. USE DEF Next
<1>1. CASE Tick \/ UNCHANGED tvars
  BY <1>1 DEF Tick, tvars
<1>2. CASE Startup \/ Shutdown
  BY <1>2
<1>3. ASSUME NEW r \in Requests, NEW q \in Queries, TAdmit(r, q) PROVE Next
  BY <1>3 DEF TAdmit, Dispatch
<1>4. ASSUME NEW r \in Requests, TBodyAccepted(r) PROVE Next
  BY <1>4 DEF TBodyAccepted, ReadBody
<1>5. ASSUME NEW r \in Requests, VerifyOnNew(r) \/ \E c \in idle, d \in 0 .. Delay : VerifyReusing(r, c, d)
      PROVE  Next
  BY <1>5 DEF VerifyOnNew, VerifyReusing, CallAuth
<1>6. ASSUME NEW r \in Requests, Check(r) PROVE UNCHANGED vars
  BY <1>6 DEF Check
<1>7. ASSUME NEW r \in Requests, TVerifyOk(r) \/ \E why \in Failures : TVerifyFails(r, why) PROVE Next
  BY <1>7 DEF TVerifyOk, TVerifyFails, CallAuth
<1>8. ASSUME NEW r \in Requests, TConnect(r) PROVE Next
  BY <1>8 DEF TConnect, CallData
<1>9. ASSUME NEW r \in Requests, Untimed(r) PROVE Next
  BY <1>9 DEF Untimed, Dispatch, ReadBody, CallData, Caught
<1>10. ASSUME NEW r \in Requests, TimesOut(r) PROVE Next
  BY <1>10 DEF TimesOut, CallAuth, CallData, Caught
<1>. HIDE DEF Next
<1>. QED BY <1>1, <1>2, <1>3, <1>4, <1>5, <1>6, <1>7, <1>8, <1>9, <1>10 DEF TNext

\* The kinds of step, for the timers.
LEMMA Cases ==
  ASSUME [TNext]_tvars
  PROVE  \/ Tick \/ ((Startup \/ Shutdown) /\ UNCHANGED timers) \/ UNCHANGED tvars
         \/ \E r \in Requests :
              \/ \E q \in Queries : Admit(r, q) /\ q.route \in {"items", "mine"} /\ Enter(r)
              \/ TBodyAccepted(r)
              \/ \E c \in idle, d \in 0 .. Delay : VerifyReusing(r, c, d)
              \/ VerifyOnNew(r) \/ Check(r) \/ TVerifyOk(r) \/ TConnect(r)
              \/ \E why \in Failures : TVerifyFails(r, why)
              \/ Unclocked(r)
  BY DEF TNext, TAdmit, Unclocked

\* An unclocked step takes r out of the stages, or leaves it outside of them.
LEMMA UnclockedFrame ==
  ASSUME StateTypes, CallerInv, NEW r \in Requests, Unclocked(r)
  PROVE  /\ UNCHANGED timers
         /\ \A x \in Requests \ {r} : pc'[x] = pc[x] /\ req'[x] = req[x]
         /\ pc'[r] \notin Stages \cup {"idle"}
         /\ pc[r] # "idle" => req'[r] = req[r]
         /\ pc'[r] = "body" => pc[r] = "idle"
<1>. USE DEF Goto, StateTypes, Stages, CallerInv
<1>1. ASSUME NEW q \in Queries, NotReady(r, q) \/ UnknownRoute(r, q) \/ MissingAuth(r, q)
      PROVE  pc' = [pc EXCEPT ![r] = "done"] /\ req' = [req EXCEPT ![r] = q] /\ pc[r] = "idle"
  BY <1>1 DEF NotReady, UnknownRoute, MissingAuth, TurnAway, Arrive
<1>2. ASSUME NEW q \in Queries, Admit(r, q), q.route \notin {"items", "mine"}
      PROVE  pc' = [pc EXCEPT ![r] = "body"] /\ req' = [req EXCEPT ![r] = q] /\ pc[r] = "idle"
  BY <1>2, GatewayAssumption DEF Admit, Arrive, FirstAwait, Query, Routes
<1>3. CASE BodyRejected(r) \/ Disconnected(r)
  BY <1>3 DEF BodyRejected, Disconnected, Unclocked
<1>4. CASE TimesOut(r)
  BY <1>4 DEF TimesOut, VerifyConnectTimeout, ConnectTimeout, ExchangeFails, RelayTimeout, Unclocked
<1>5. CASE ExchangeFails(r, "ClientError") \/ \E code \in DataStatuses : ResponseStart(r, code)
  BY <1>5 DEF ExchangeFails, ResponseStart, Unclocked
<1>6. CASE RelayChunk(r) \/ UpstreamEnds(r) \/ ClientReads(r) \/ RelayStops(r) \/ RelayEnds(r)
  BY <1>6 DEF RelayChunk, UpstreamEnds, ClientReads, RelayStops, RelayEnds, Unclocked
<1>7. CASE \E q \in Queries : NotReady(r, q) \/ UnknownRoute(r, q) \/ MissingAuth(r, q)
  BY <1>1, <1>7 DEF Unclocked
<1>8. CASE \E q \in Queries : Admit(r, q) /\ q.route \notin {"items", "mine"}
  BY <1>2, <1>8 DEF Unclocked
<1>. QED BY <1>3, <1>4, <1>5, <1>6, <1>7, <1>8 DEF Unclocked, Untimed

LEMMA IdleSteps ==
  ASSUME ((Startup \/ Shutdown) /\ UNCHANGED timers) \/ UNCHANGED tvars
  PROVE  UNCHANGED <<pc, req, timers>>
  BY DEF Startup, Shutdown, tvars, vars

\* Where each step that touches a timer takes its request.
LEMMA EnterFrame ==
  ASSUME StateTypes, CallerInv, NEW r \in Requests,
         \/ \E q \in Queries : Admit(r, q) /\ q.route \in {"items", "mine"} /\ Enter(r)
         \/ TBodyAccepted(r)
  PROVE  /\ Enter(r) /\ pc[r] \in {"idle", "body"}
         /\ \E s \in {"authConnect", "connect"} : pc' = [pc EXCEPT ![r] = s]
         /\ \A x \in Requests \ {r} : req'[x] = req[x]
         /\ pc'[r] = "connect" => req'[r].route # "mine"
<1>. USE DEF Goto, StateTypes, CallerInv
<1>1. ASSUME NEW q \in Queries, Admit(r, q), q.route \in {"items", "mine"}, Enter(r)
      PROVE  /\ pc[r] = "idle" /\ req' = [req EXCEPT ![r] = q]
             /\ \E s \in {"authConnect", "connect"} :
                  pc' = [pc EXCEPT ![r] = s] /\ (s = "connect" => q.route # "mine")
  BY <1>1 DEF Admit, Arrive, FirstAwait
<1>2. CASE TBodyAccepted(r)
  BY <1>2 DEF TBodyAccepted, BodyAccepted
<1>3. CASE \E q \in Queries : Admit(r, q) /\ q.route \in {"items", "mine"} /\ Enter(r)
  BY <1>1, <1>3
<1>. QED BY <1>2, <1>3

LEMMA VerifyFrame ==
  ASSUME NEW r \in Requests,
         VerifyOnNew(r) \/ \E c \in idle, d \in 0 .. Delay : VerifyReusing(r, c, d)
  PROVE  /\ pc[r] = "authConnect" /\ pc' = [pc EXCEPT ![r] = "verify"] /\ req' = req
         /\ UNCHANGED <<now, keepalive, entered, began, checked, used>>
         /\ idle' \subseteq idle
  BY DEF VerifyOnNew, VerifyReusing, VerifyConnect, Goto

LEMMA OkFrame ==
  ASSUME NEW r \in Requests, TVerifyOk(r)
  PROVE  /\ pc[r] = "verify" /\ pc' = [pc EXCEPT ![r] = "connect"] /\ req' = req
         /\ checked[r] # Never /\ checked[r] < Expiry[req[r].token]
         /\ began' = [began EXCEPT ![r] = now] /\ link' = [link EXCEPT ![r] = "none"]
         /\ idle' = GivenBack(r)
         /\ UNCHANGED <<now, keepalive, entered, checked, used>>
  BY DEF TVerifyOk, VerifyOk, Goto

LEMMA FailsFrame ==
  ASSUME NEW r \in Requests, NEW why \in Failures, TVerifyFails(r, why)
  PROVE  /\ pc[r] = "verify" /\ pc' = [pc EXCEPT ![r] = "done"] /\ req' = req
         /\ link' = [link EXCEPT ![r] = "none"]
         /\ idle' = idle \/ (checked[r] # Never /\ idle' = GivenBack(r))
         /\ UNCHANGED <<now, keepalive, entered, began, checked, used>>
  BY DEF TVerifyFails, VerifyFails, Goto, Failures

LEMMA ConnectFrame ==
  ASSUME NEW r \in Requests, TConnect(r)
  PROVE  /\ pc[r] = "connect" /\ pc' = [pc EXCEPT ![r] = "exchange"] /\ req' = req
         /\ used' = [used EXCEPT ![r] = now]
         /\ UNCHANGED <<now, keepalive, entered, began, link, checked, idle>>
  BY DEF TConnect, Connect, Goto

LEMMA CheckFrame ==
  ASSUME NEW r \in Requests, Check(r)
  PROVE  /\ pc[r] = "verify" /\ UNCHANGED <<pc, req>>
         /\ checked' = [checked EXCEPT ![r] = now]
         /\ UNCHANGED <<now, keepalive, entered, began, link, used, idle>>
  BY DEF Check, vars

LEMMA TickFrame ==
  ASSUME Tick
  PROVE  /\ now' = now + 1 /\ \A r \in Requests : ~ Due(r)
         /\ UNCHANGED <<pc, req, keepalive, entered, began, link, checked, used, idle>>
  BY DEF Tick, vars

-----------------------------------------------------------------------------
(* Each part of the invariant.                                              *)

LEMMA TTypesStep ==
  ASSUME TInv, [TNext]_tvars
  PROVE  TTypes'
<1>. USE Durations DEF TTypes
<1>0. TTypes /\ StateTypes /\ CallerInv
  BY DEF TInv, GInv, TypeOK, StateTypes
<1>1. CASE Tick
  BY <1>0, <1>1, TickFrame
<1>2. CASE ((Startup \/ Shutdown) /\ UNCHANGED timers) \/ UNCHANGED tvars
  BY <1>0, <1>2, IdleSteps DEF timers
<1>3. ASSUME NEW r \in Requests,
             \/ \E q \in Queries : Admit(r, q) /\ q.route \in {"items", "mine"} /\ Enter(r)
             \/ TBodyAccepted(r)
      PROVE  TTypes'
  BY <1>0, <1>3, EnterFrame DEF Enter
<1>4. ASSUME NEW r \in Requests,
             VerifyOnNew(r) \/ \E c \in idle, d \in 0 .. Delay : VerifyReusing(r, c, d)
      PROVE  TTypes'
  <2>1. link' \in [Requests -> {"none", "sound", "lost"}]
    BY <1>0, <1>4 DEF VerifyOnNew, VerifyReusing, Arrives
  <2>. QED BY <1>0, <1>4, <2>1, VerifyFrame
<1>5. ASSUME NEW r \in Requests, Check(r) PROVE TTypes'
  BY <1>0, <1>5, CheckFrame
<1>6. ASSUME NEW r \in Requests, TVerifyOk(r) PROVE TTypes'
  BY <1>0, <1>6, OkFrame DEF GivenBack
<1>7. ASSUME NEW r \in Requests, NEW why \in Failures, TVerifyFails(r, why) PROVE TTypes'
  BY <1>0, <1>7, FailsFrame DEF GivenBack
<1>8. ASSUME NEW r \in Requests, TConnect(r) PROVE TTypes'
  BY <1>0, <1>8, ConnectFrame
<1>9. ASSUME NEW r \in Requests, Unclocked(r) PROVE TTypes'
  BY <1>0, <1>9 DEF Unclocked, timers
<1>. QED BY <1>1, <1>2, <1>3, <1>4, <1>5, <1>6, <1>7, <1>8, <1>9, Cases

LEMMA DeadlinesStep ==
  ASSUME TInv, [TNext]_tvars
  PROVE  Deadlines'
<1>. USE Durations DEF Deadlines, Stages
<1>0. TTypes /\ StateTypes /\ CallerInv /\ Deadlines
  BY DEF TInv, GInv, TypeOK, StateTypes
<1>1. CASE Tick
  <2>1. \A r \in Requests : pc[r] \in Stages => now < began[r] + Budget(pc[r])
    BY <1>0, <1>1, TickFrame DEF Due, TTypes
  <2>. QED BY <1>0, <1>1, <2>1, TickFrame DEF TTypes
<1>2. CASE ((Startup \/ Shutdown) /\ UNCHANGED timers) \/ UNCHANGED tvars
  BY <1>0, <1>2, IdleSteps DEF timers
<1>3. ASSUME NEW r \in Requests,
             \/ \E q \in Queries : Admit(r, q) /\ q.route \in {"items", "mine"} /\ Enter(r)
             \/ TBodyAccepted(r)
      PROVE  Deadlines'
  BY <1>0, <1>3, EnterFrame DEF Enter, TTypes, StateTypes
<1>4. ASSUME NEW r \in Requests,
             VerifyOnNew(r) \/ \E c \in idle, d \in 0 .. Delay : VerifyReusing(r, c, d)
      PROVE  Deadlines'
  BY <1>0, <1>4, VerifyFrame DEF TTypes, StateTypes
<1>5. ASSUME NEW r \in Requests, Check(r) PROVE Deadlines'
  BY <1>0, <1>5, CheckFrame
<1>6. ASSUME NEW r \in Requests, TVerifyOk(r) PROVE Deadlines'
  BY <1>0, <1>6, OkFrame DEF TTypes, StateTypes
<1>7. ASSUME NEW r \in Requests, NEW why \in Failures, TVerifyFails(r, why) PROVE Deadlines'
  BY <1>0, <1>7, FailsFrame DEF TTypes, StateTypes
<1>8. ASSUME NEW r \in Requests, TConnect(r) PROVE Deadlines'
  BY <1>0, <1>8, ConnectFrame DEF TTypes, StateTypes
<1>9. ASSUME NEW r \in Requests, Unclocked(r) PROVE Deadlines'
  BY <1>0, <1>9, UnclockedFrame DEF timers
<1>. QED BY <1>1, <1>2, <1>3, <1>4, <1>5, <1>6, <1>7, <1>8, <1>9, Cases

LEMMA VerdictsStep ==
  ASSUME TInv, [TNext]_tvars
  PROVE  Verdicts'
<1>. USE Durations DEF Verdicts, Stages
<1>0. TTypes /\ StateTypes /\ CallerInv /\ Deadlines /\ Verdicts
  BY DEF TInv, GInv, TypeOK, StateTypes
<1>1. CASE Tick
  BY <1>0, <1>1, TickFrame DEF TTypes
<1>2. CASE ((Startup \/ Shutdown) /\ UNCHANGED timers) \/ UNCHANGED tvars
  BY <1>0, <1>2, IdleSteps DEF timers
<1>3. ASSUME NEW r \in Requests,
             \/ \E q \in Queries : Admit(r, q) /\ q.route \in {"items", "mine"} /\ Enter(r)
             \/ TBodyAccepted(r)
      PROVE  Verdicts'
  BY <1>0, <1>3, EnterFrame DEF Enter, TTypes, StateTypes
<1>4. ASSUME NEW r \in Requests,
             VerifyOnNew(r) \/ \E c \in idle, d \in 0 .. Delay : VerifyReusing(r, c, d)
      PROVE  Verdicts'
  BY <1>0, <1>4, VerifyFrame DEF TTypes, StateTypes
<1>5. ASSUME NEW r \in Requests, Check(r) PROVE Verdicts'
  BY <1>0, <1>5, CheckFrame DEF TTypes, Deadlines
<1>6. ASSUME NEW r \in Requests, TVerifyOk(r) PROVE Verdicts'
  <2>1. req[r].token \in Tokens
    BY <1>0, <1>6, OkFrame DEF CallerInv
  <2>2. Expiry[req[r].token] \in Nat
    BY <2>1, TimedAssumption
  <2>3. began'[r] < Expiry[req'[r].token] + AuthTotal
    BY <1>0, <1>6, <2>2, OkFrame DEF TTypes, Deadlines
  <2>. QED BY <1>0, <1>6, <2>1, <2>3, OkFrame DEF TTypes, StateTypes
<1>7. ASSUME NEW r \in Requests, NEW why \in Failures, TVerifyFails(r, why) PROVE Verdicts'
  BY <1>0, <1>7, FailsFrame DEF TTypes, StateTypes
<1>8. ASSUME NEW r \in Requests, TConnect(r) PROVE Verdicts'
  BY <1>0, <1>8, ConnectFrame DEF TTypes, StateTypes
<1>9. ASSUME NEW r \in Requests, Unclocked(r) PROVE Verdicts'
  BY <1>0, <1>9, UnclockedFrame DEF timers
<1>. QED BY <1>1, <1>2, <1>3, <1>4, <1>5, <1>6, <1>7, <1>8, <1>9, Cases

LEMMA StaleStep ==
  ASSUME TInv, [TNext]_tvars
  PROVE  BoundedStaleness'
<1>. USE Durations DEF BoundedStaleness
<1>0. TTypes /\ StateTypes /\ CallerInv /\ Deadlines /\ Verdicts /\ BoundedStaleness
  BY DEF TInv, GInv, TypeOK, StateTypes
<1>1. ASSUME UNCHANGED <<req, used>> PROVE BoundedStaleness'
  BY <1>0, <1>1
<1>2. ASSUME NEW r \in Requests, pc[r] \in {"idle", "body"}, UNCHANGED used,
             \A x \in Requests \ {r} : req'[x] = req[x]
      PROVE  BoundedStaleness'
  BY <1>0, <1>2 DEF Verdicts
<1>3. ASSUME NEW r \in Requests, TConnect(r) PROVE BoundedStaleness'
  <2>1. CASE req[r].route = "mine"
    <3>1. req[r].token \in Tokens /\ began[r] < Expiry[req[r].token] + AuthTotal
      BY <1>0, <1>3, <2>1, ConnectFrame DEF Verdicts
    <3>2. Expiry[req[r].token] \in Nat
      BY <3>1, TimedAssumption
    <3>3. now <= began[r] + UpConnect
      BY <1>0, <1>3, ConnectFrame DEF Deadlines, Stages
    <3>4. now < Expiry[req[r].token] + AuthTotal + UpConnect
      BY <1>0, <3>1, <3>2, <3>3 DEF TTypes
    <3>. QED BY <1>0, <1>3, <3>4, ConnectFrame DEF TTypes
  <2>2. CASE req[r].route # "mine"
    BY <1>0, <1>3, <2>2, ConnectFrame DEF TTypes
  <2>. QED BY <2>1, <2>2
<1>4. ASSUME NEW r \in Requests,
             \/ \E q \in Queries : Admit(r, q) /\ q.route \in {"items", "mine"} /\ Enter(r)
             \/ TBodyAccepted(r)
      PROVE  BoundedStaleness'
  BY <1>0, <1>2, <1>4, EnterFrame DEF Enter
<1>5. ASSUME NEW r \in Requests, Unclocked(r) PROVE BoundedStaleness'
  <2>1. CASE pc[r] \in {"idle", "body"}
    BY <1>0, <1>2, <1>5, <2>1, UnclockedFrame DEF timers
  <2>2. CASE pc[r] \notin {"idle", "body"}
    <3>1. \A x \in Requests : req'[x] = req[x]
      BY <1>0, <1>5, <2>2, UnclockedFrame
    <3>. QED BY <1>0, <1>5, <3>1, UnclockedFrame DEF timers
  <2>. QED BY <2>1, <2>2
<1>6. ASSUME Tick \/ ((Startup \/ Shutdown) /\ UNCHANGED timers) \/ UNCHANGED tvars
      PROVE  BoundedStaleness'
  BY <1>1, <1>6, TickFrame, IdleSteps DEF timers
<1>7. ASSUME NEW r \in Requests,
             \/ VerifyOnNew(r) \/ \E c \in idle, d \in 0 .. Delay : VerifyReusing(r, c, d)
             \/ Check(r) \/ TVerifyOk(r)
      PROVE  BoundedStaleness'
  BY <1>1, <1>7, VerifyFrame, CheckFrame, OkFrame
<1>8. ASSUME NEW r \in Requests, NEW why \in Failures, TVerifyFails(r, why)
      PROVE  BoundedStaleness'
  BY <1>1, <1>8, FailsFrame
<1>. QED BY <1>3, <1>4, <1>5, <1>6, <1>7, <1>8, Cases

\* Pooled connections come from answers, and answers from calls within their budget.
LEMMA PooledStep ==
  ASSUME TInv, [TNext]_tvars
  PROVE  Pooled'
<1>. USE Durations DEF Pooled
<1>0. TTypes /\ StateTypes /\ CallerInv /\ Deadlines /\ Verdicts /\ Pooled
  BY DEF TInv, GInv, TypeOK, StateTypes
<1>1. ASSUME idle' \subseteq idle PROVE Pooled'
  BY <1>0, <1>1
<1>2. ASSUME NEW r \in Requests, pc[r] = "verify", checked[r] # Never, idle' = GivenBack(r)
      PROVE  Pooled'
  <2>1. now <= began[r] + AuthTotal /\ began[r] <= checked[r]
    BY <1>0, <1>2 DEF Deadlines, Verdicts, Stages
  <2>2. now + ServerIdle <= (checked[r] + ServerIdle) + AuthTotal
    BY <1>0, <2>1 DEF TTypes
  <2>. QED BY <1>0, <1>2, <2>2 DEF GivenBack
<1>3. ASSUME NEW r \in Requests, TVerifyOk(r) PROVE Pooled'
  BY <1>2, <1>3, OkFrame
<1>4. ASSUME NEW r \in Requests, NEW why \in Failures, TVerifyFails(r, why) PROVE Pooled'
  BY <1>1, <1>2, <1>4, FailsFrame
<1>5. ASSUME NEW r \in Requests,
             \/ \E q \in Queries : Admit(r, q) /\ q.route \in {"items", "mine"} /\ Enter(r)
             \/ TBodyAccepted(r)
      PROVE  Pooled'
  BY <1>0, <1>1, <1>5, EnterFrame DEF Enter
<1>6. ASSUME NEW r \in Requests,
             \/ VerifyOnNew(r) \/ \E c \in idle, d \in 0 .. Delay : VerifyReusing(r, c, d)
             \/ Check(r) \/ TConnect(r)
      PROVE  Pooled'
  BY <1>1, <1>6, VerifyFrame, CheckFrame, ConnectFrame
<1>7. ASSUME NEW r \in Requests, Unclocked(r) PROVE Pooled'
  BY <1>1, <1>7 DEF Unclocked, timers
<1>8. ASSUME Tick \/ ((Startup \/ Shutdown) /\ UNCHANGED timers) \/ UNCHANGED tvars PROVE Pooled'
  BY <1>1, <1>8, TickFrame, IdleSteps DEF timers
<1>. QED BY <1>3, <1>4, <1>5, <1>6, <1>7, <1>8, Cases

LEMMA MarginStep ==
  ASSUME TInv, [TNext]_tvars
  PROVE  KeepaliveMargin'
<1>. USE Durations DEF KeepaliveMargin
<1>0. TTypes /\ StateTypes /\ CallerInv /\ Pooled /\ KeepaliveMargin
  BY DEF TInv, GInv, TypeOK, StateTypes
<1>1. ASSUME keepalive' = keepalive,
             \A x \in Requests : link'[x] = link[x] \/ link'[x] # "lost"
      PROVE  KeepaliveMargin'
  BY <1>0, <1>1
<1>2. ASSUME NEW r \in Requests, VerifyOnNew(r) PROVE KeepaliveMargin'
  BY <1>0, <1>1, <1>2 DEF VerifyOnNew, TTypes
<1>3. ASSUME NEW r \in Requests, NEW c \in idle, NEW d \in 0 .. Delay, VerifyReusing(r, c, d)
      PROVE  KeepaliveMargin'
  <2>. SUFFICES ASSUME keepalive + AuthTotal + Delay < ServerIdle
                PROVE  \A x \in Requests : link'[x] # "lost"
    BY <1>3 DEF VerifyReusing
  <2>1. now - c.since <= keepalive /\ c.since + ServerIdle <= c.closes + AuthTotal
    BY <1>0, <1>3 DEF VerifyReusing, LooksOpen, Fresh, Pooled
  <2>2. now + d < c.closes
    <3>1. /\ now \in Int /\ keepalive \in Int /\ c.since \in Int /\ c.closes \in Int
          /\ d \in Int /\ d <= Delay
      BY <1>0 DEF TTypes
    <3>. QED BY <2>1, <3>1
  <2>3. link' = [link EXCEPT ![r] = "sound"]
    BY <1>3, <2>2 DEF VerifyReusing, Arrives
  <2>. QED BY <1>0, <2>3 DEF TTypes
<1>4. ASSUME NEW r \in Requests, TVerifyOk(r) PROVE KeepaliveMargin'
  BY <1>0, <1>1, <1>4, OkFrame DEF TTypes
<1>5. ASSUME NEW r \in Requests, NEW why \in Failures, TVerifyFails(r, why) PROVE KeepaliveMargin'
  BY <1>0, <1>1, <1>5, FailsFrame DEF TTypes
<1>6. ASSUME NEW r \in Requests,
             \/ \E q \in Queries : Admit(r, q) /\ q.route \in {"items", "mine"} /\ Enter(r)
             \/ TBodyAccepted(r)
      PROVE  KeepaliveMargin'
  BY <1>0, <1>1, <1>6, EnterFrame DEF Enter
<1>7. ASSUME NEW r \in Requests, Check(r) \/ TConnect(r) PROVE KeepaliveMargin'
  BY <1>1, <1>7, CheckFrame, ConnectFrame
<1>8. ASSUME NEW r \in Requests, Unclocked(r) PROVE KeepaliveMargin'
  BY <1>1, <1>8 DEF Unclocked, timers
<1>9. ASSUME Tick \/ ((Startup \/ Shutdown) /\ UNCHANGED timers) \/ UNCHANGED tvars
      PROVE  KeepaliveMargin'
  BY <1>1, <1>9, TickFrame, IdleSteps DEF timers
<1>. QED BY <1>2, <1>3, <1>4, <1>5, <1>6, <1>7, <1>8, <1>9, Cases

-----------------------------------------------------------------------------
(* The inductive invariant, and what follows from it.                       *)

LEMMA TInitially ==
  ASSUME TInit
  PROVE  TInv
<1>1. GInv
  BY Initially DEF TInit
<1>2. TTypes /\ Pooled /\ KeepaliveMargin
  BY TimedAssumption DEF TInit, TTypes, Never, Pooled, KeepaliveMargin
<1>3. Deadlines /\ Verdicts /\ BoundedStaleness
  BY DEF TInit, Init, Deadlines, Verdicts, BoundedStaleness, Stages
<1>. QED BY <1>1, <1>2, <1>3 DEF TInv

LEMMA TInductive ==
  ASSUME TInv, [TNext]_tvars
  PROVE  TInv'
<1>1. GInv'
  BY GatewayStep, Inductive DEF TInv
<1>. QED BY <1>1, TTypesStep, DeadlinesStep, VerdictsStep, StaleStep, PooledStep, MarginStep DEF TInv

LEMMA TInvariance == TSpec => []TInv
  BY TInitially, TInductive, PTL DEF TSpec

\* The clock restricts the gateway and adds nothing to it: whatever is proved of PyGateway
\* without a clock holds with it.
THEOREM TimedImplementsGateway == TSpec => Spec
<1>1. TInit => Init
  BY DEF TInit
<1>. QED BY <1>1, GatewayStep, PTL DEF TSpec, Spec

\* A handler waits for its upstreams no longer than both total timeouts together.
THEOREM WaitsAreBounded == TSpec => []BoundedWait
<1>1. TInv => BoundedWait
  <2>. SUFFICES ASSUME TInv, NEW r \in Requests, pc[r] \in Stages
               PROVE  now <= entered[r] + AuthTotal + UpTotal
    BY DEF BoundedWait
  <2>1. TTypes /\ now <= began[r] + Budget(pc[r])
    BY DEF TInv, Deadlines
  <2>2. CASE pc[r] \in {"authConnect", "verify"}
    BY <2>1, <2>2, Durations DEF TInv, Deadlines, TTypes
  <2>3. CASE pc[r] \in {"connect", "exchange"}
    BY <2>1, <2>3, Durations DEF TInv, Deadlines, TTypes
  <2>. QED BY <2>2, <2>3 DEF Stages
<1>. QED BY <1>1, TInvariance, PTL

\* An expired token is honoured for less than the time of verify and one wait for a
\* connection.
THEOREM StalenessIsBounded == TSpec => []BoundedStaleness
  BY TInvariance, PTL DEF TInv

\* Idle connections that the gateway drops a verify and a network delay before
\* auth-service does are never used too late.
THEOREM MarginSuffices == TSpec => []KeepaliveMargin
  BY TInvariance, PTL DEF TInv
=============================================================================
