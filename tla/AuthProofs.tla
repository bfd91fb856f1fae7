----------------------------- MODULE AuthProofs -----------------------------
(***************************************************************************)
(* Proofs about AuthService, for any number of goroutines, e-mails and     *)
(* passwords, and whatever the bounds that TLC needs.                      *)
(***************************************************************************)
EXTENDS AuthService, TLAPS

\* Who holds store.mu: the writer is the goroutine inside Create, the readers are the
\* ones inside the map read of Authenticate, and a writer that got through is alone.
LockInv ==
  /\ \A p \in Procs : writer = p <=> pc[p] \in {"drain", "check", "insert"}
  /\ readers = {p \in Procs : pc[p] = "lookup"}
  /\ \A p \in Procs : pc[p] \in {"check", "insert"} => readers = {}

\* What a goroutine has established by the time it gets to a step.
ProgressInv ==
  \A p \in Procs :
    /\ pc[p] \in Registering \cup {"compare", "issue"} => req[p].email \in Emails
    /\ pc[p] = "insert" => byEmail[req[p].email] = Nothing
    /\ pc[p] = "issue" => user[p].key = Key[req[p].password]
    /\ pc[p] \in Registering => req[p].op = "register"
    /\ pc[p] \in LoggingIn => req[p].op = "login"
    /\ pc[p] # "idle" => status[p] = 0

\* The store holds the accounts of this life of the process, and ids only grow.
StoreInv ==
  /\ \A e \in Emails :
       byEmail[e] # Nothing =>
         /\ byEmail[e].email = e
         /\ [id |-> byEmail[e].id, email |-> e, key |-> byEmail[e].key, epoch |-> epoch]
              \in accounts
  /\ \A a \in accounts :
       /\ a.epoch <= epoch
       /\ a.id < uuids
       /\ a.epoch = epoch =>
            byEmail[a.email] = [id |-> a.id, email |-> a.email, key |-> a.key]

\* Expiries are computed by ExpiresAt, answers by Decode.
ExpiryInv ==
  /\ \A t \in tokens : t.at \in Nat /\ t.exp = ExpiresAt(t.at)
  /\ verdict # Nothing =>
       /\ verdict.at \in Nat
       /\ verdict.token.at \in Nat
       /\ verdict.token.exp = ExpiresAt(verdict.token.at)
       /\ verdict.answer = Decode(verdict.token, verdict.at)

IInv ==
  TypeOK /\ LockInv /\ ProgressInv /\ StoreInv /\ UniqueAccounts /\ SnapshotCurrent
    /\ TokensBacked /\ ExpiryInv

-----------------------------------------------------------------------------

\* Truncation moves an expiry back by less than a second, never forward.
LEMMA ExpiryBounds ==
  ASSUME NEW t \in Nat
  PROVE  /\ ExpiresAt(t) \in Int
         /\ ExpiresAt(t) <= t + TTL * TicksPerSecond
         /\ ExpiresAt(t) > t + (TTL - 1) * TicksPerSecond
<1>. DEFINE x == t + TTL * TicksPerSecond
<1>1. x \in Nat /\ (TTL - 1) * TicksPerSecond = TTL * TicksPerSecond - TicksPerSecond
  BY TimeAssumption, SMT
<1>2. \A n \in Nat : n % TicksPerSecond \in Nat /\ n % TicksPerSecond < TicksPerSecond
  BY TimeAssumption, SMT
<1>3. ExpiresAt(t) = x - (x % TicksPerSecond)
  BY DEF ExpiresAt, NumericDate
<1>4. x % TicksPerSecond \in Nat /\ x % TicksPerSecond < TicksPerSecond
  BY <1>1, <1>2
<1>5. TTL * TicksPerSecond \in Nat
  BY TimeAssumption, SMT
<1>. QED BY <1>1, <1>3, <1>4, <1>5, TimeAssumption, SMT

LEMMA TypeStep ==
  ASSUME IInv, [Next]_vars
  PROVE  TypeOK'
<1>. USE AuthAssumption DEF IInv, TypeOK, User, Request, Registering, LoggingIn, Goto,
           Answer, store, issuer
<1>1. ASSUME NEW p \in Procs, Reject(p) PROVE TypeOK'
  BY <1>1 DEF Reject
<1>2. ASSUME NEW p \in Procs, NEW e \in Emails \cup {NoEmail}, NEW pw \in Passwords,
             Register(p, e, pw)
      PROVE  TypeOK'
  BY <1>2 DEF Register, Accept
<1>3. ASSUME NEW p \in Procs, NEW e \in Emails \cup {NoEmail}, NEW pw \in Passwords,
             Login(p, e, pw)
      PROVE  TypeOK'
  BY <1>3 DEF Login, Accept
<1>4. ASSUME NEW p \in Procs, Hash(p) PROVE TypeOK'
  BY <1>4 DEF Hash
<1>5. ASSUME NEW p \in Procs, Lock(p) PROVE TypeOK'
  BY <1>5 DEF Lock
<1>6. ASSUME NEW p \in Procs, Drain(p) PROVE TypeOK'
  BY <1>6 DEF Drain
<1>7. ASSUME NEW p \in Procs, EmailFree(p) PROVE TypeOK'
  BY <1>7 DEF EmailFree
<1>8. ASSUME NEW p \in Procs, EmailTaken(p) PROVE TypeOK'
  BY <1>8 DEF EmailTaken
<1>9. ASSUME NEW p \in Procs, Insert(p) PROVE TypeOK'
  BY <1>9 DEF Insert, ProgressInv, Account
<1>10. ASSUME NEW p \in Procs, RLock(p) PROVE TypeOK'
  BY <1>10 DEF RLock
<1>11. ASSUME NEW p \in Procs, Lookup(p) PROVE TypeOK'
  BY <1>11 DEF Lookup
<1>12. ASSUME NEW p \in Procs, Compare(p) PROVE TypeOK'
  BY <1>12 DEF Compare
<1>13. ASSUME NEW p \in Procs, Issue(p) PROVE TypeOK'
  <2>1. ExpiresAt(now) \in Int
    BY ExpiryBounds DEF IInv, TypeOK
  <2>. QED BY <1>13, <2>1 DEF Issue, Token
<1>14. ASSUME NEW tok \in tokens, Verify(tok) PROVE TypeOK'
  BY <1>14 DEF Verify, Verdict, Decode
<1>15. ASSUME Tick PROVE TypeOK'
  BY <1>15 DEF Tick
<1>16. ASSUME Restart PROVE TypeOK'
  BY <1>16 DEF Restart
<1>17. CASE UNCHANGED vars
  BY <1>17 DEF vars
<1>. QED
  BY <1>1, <1>2, <1>3, <1>4, <1>5, <1>6, <1>7, <1>8, <1>9, <1>10, <1>11, <1>12, <1>13,
     <1>14, <1>15, <1>16, <1>17 DEF Next, Arrive, Serve

\* What the arrival of a request may change.
LEMMA ArriveEffect ==
  ASSUME NEW p \in Procs, Arrive(p)
  PROVE  /\ pc[p] = "idle"
         /\ UNCHANGED <<store, issuer, user, epoch>>
         /\ \/ UNCHANGED <<pc, req>> /\ Answer(p, 400)
            \/ \E r \in Request :
                 /\ req' = [req EXCEPT ![p] = r]
                 /\ Answer(p, 0)
                 /\ \/ r.op = "login" /\ pc' = [pc EXCEPT ![p] = "rlock"]
                    \/ /\ r.op = "register" /\ r.email \in Emails
                       /\ pc' = [pc EXCEPT ![p] = "hash"]
<1>. USE DEF Goto
<1>1. CASE Reject(p)
  BY <1>1 DEF Reject
<1>2. ASSUME NEW e \in Emails \cup {NoEmail}, NEW pw \in Passwords, Login(p, e, pw)
      PROVE  /\ pc[p] = "idle"
             /\ UNCHANGED <<store, issuer, user, epoch>>
             /\ \E r \in Request :
                  /\ req' = [req EXCEPT ![p] = r]
                  /\ Answer(p, 0)
                  /\ r.op = "login" /\ pc' = [pc EXCEPT ![p] = "rlock"]
  <2>. DEFINE r == [op |-> "login", email |-> e, password |-> pw]
  <2>1. r \in Request /\ r.op = "login"
    BY DEF Request
  <2>. QED BY <1>2, <2>1 DEF Login, Accept
<1>3. ASSUME NEW e \in Emails \cup {NoEmail}, NEW pw \in Passwords, Register(p, e, pw)
      PROVE  /\ pc[p] = "idle"
             /\ UNCHANGED <<store, issuer, user, epoch>>
             /\ \E r \in Request :
                  /\ req' = [req EXCEPT ![p] = r]
                  /\ Answer(p, 0)
                  /\ r.op = "register" /\ r.email \in Emails
                  /\ pc' = [pc EXCEPT ![p] = "hash"]
  <2>. DEFINE r == [op |-> "register", email |-> e, password |-> pw]
  <2>1. r \in Request /\ r.op = "register" /\ r.email \in Emails
    BY <1>3 DEF Request, Register, ValidPayload
  <2>. QED BY <1>3, <2>1 DEF Register, Accept
<1>. QED BY <1>1, <1>2, <1>3 DEF Arrive

\* Actions that neither take, use nor release the lock: they move one goroutine between
\* steps outside it, or move none.
LEMMA LockStep ==
  ASSUME IInv, [Next]_vars
  PROVE  LockInv'
<1>. USE AuthAssumption DEF IInv, TypeOK, LockInv, Goto, Answer, store, issuer
<1>1. ASSUME NEW p \in Procs, Arrive(p) PROVE LockInv'
  BY <1>1, ArriveEffect
<1>2. ASSUME NEW p \in Procs, Hash(p) PROVE LockInv'
  BY <1>2 DEF Hash
<1>3. ASSUME NEW p \in Procs, Lock(p) PROVE LockInv'
  BY <1>3 DEF Lock
<1>4. ASSUME NEW p \in Procs, Drain(p) PROVE LockInv'
  BY <1>4 DEF Drain
<1>5. ASSUME NEW p \in Procs, EmailFree(p) PROVE LockInv'
  BY <1>5 DEF EmailFree
<1>6. ASSUME NEW p \in Procs, EmailTaken(p) PROVE LockInv'
  BY <1>6 DEF EmailTaken
<1>7. ASSUME NEW p \in Procs, Insert(p) PROVE LockInv'
  BY <1>7 DEF Insert
<1>8. ASSUME NEW p \in Procs, RLock(p) PROVE LockInv'
  BY <1>8 DEF RLock
<1>9. ASSUME NEW p \in Procs, Lookup(p) PROVE LockInv'
  BY <1>9 DEF Lookup
<1>10. ASSUME NEW p \in Procs, Compare(p) \/ Issue(p) PROVE LockInv'
  BY <1>10 DEF Compare, Issue
<1>11. ASSUME NEW tok \in tokens, Verify(tok) PROVE LockInv'
  BY <1>11 DEF Verify
<1>12. CASE Tick
  BY <1>12 DEF Tick
<1>13. CASE Restart
  BY <1>13 DEF Restart
<1>14. CASE UNCHANGED vars
  BY <1>14 DEF vars
<1>. QED
  BY <1>1, <1>2, <1>3, <1>4, <1>5, <1>6, <1>7, <1>8, <1>9, <1>10, <1>11, <1>12, <1>13,
     <1>14 DEF Next, Serve

LEMMA ProgressStep ==
  ASSUME IInv, [Next]_vars
  PROVE  ProgressInv'
<1>. USE AuthAssumption DEF IInv, TypeOK, ProgressInv, Registering, LoggingIn, Goto, Answer,
           store, issuer
<1>1. ASSUME NEW p \in Procs, Arrive(p) PROVE ProgressInv'
  BY <1>1, ArriveEffect
<1>2. ASSUME NEW p \in Procs, Hash(p) PROVE ProgressInv'
  BY <1>2 DEF Hash
<1>3. ASSUME NEW p \in Procs, Lock(p) \/ Drain(p) \/ EmailFree(p) \/ EmailTaken(p)
      PROVE  ProgressInv'
  BY <1>3 DEF Lock, Drain, EmailFree, EmailTaken
<1>4. ASSUME NEW p \in Procs, Insert(p) PROVE ProgressInv'
  <2>1. \A q \in Procs : q # p => pc[q] # "insert"
    BY <1>4 DEF Insert, LockInv
  <2>. QED BY <1>4, <2>1 DEF Insert
<1>5. ASSUME NEW p \in Procs, RLock(p) PROVE ProgressInv'
  BY <1>5 DEF RLock
<1>6. ASSUME NEW p \in Procs, Lookup(p) PROVE ProgressInv'
  BY <1>6 DEF Lookup
<1>7. ASSUME NEW p \in Procs, Compare(p) PROVE ProgressInv'
  BY <1>7 DEF Compare
<1>8. ASSUME NEW p \in Procs, Issue(p) PROVE ProgressInv'
  BY <1>8 DEF Issue
<1>9. ASSUME NEW tok \in tokens, Verify(tok) PROVE ProgressInv'
  BY <1>9 DEF Verify
<1>10. CASE Tick
  BY <1>10 DEF Tick
<1>11. CASE Restart
  BY <1>11 DEF Restart
<1>12. CASE UNCHANGED vars
  BY <1>12 DEF vars
<1>. QED
  BY <1>1, <1>2, <1>3, <1>4, <1>5, <1>6, <1>7, <1>8, <1>9, <1>10, <1>11, <1>12 DEF Next, Serve

\* Only Insert and Restart touch the store, the accounts or the epoch.
LEMMA StoreFrame ==
  ASSUME [Next]_vars
  PROVE  \/ \E p \in Procs : Insert(p)
         \/ Restart
         \/ UNCHANGED <<byEmail, uuids, accounts, epoch>>
<1>. USE DEF store, issuer
<1>1. ASSUME NEW p \in Procs, Arrive(p) PROVE UNCHANGED <<byEmail, uuids, accounts, epoch>>
  BY <1>1, ArriveEffect
<1>2. ASSUME NEW p \in Procs, Serve(p)
      PROVE  Insert(p) \/ UNCHANGED <<byEmail, uuids, accounts, epoch>>
  BY <1>2 DEF Serve, Hash, Lock, Drain, EmailFree, EmailTaken, RLock, Lookup, Compare, Issue
<1>3. ASSUME NEW tok \in tokens, Verify(tok)
      PROVE  UNCHANGED <<byEmail, uuids, accounts, epoch>>
  BY <1>3 DEF Verify
<1>4. Tick \/ UNCHANGED vars => UNCHANGED <<byEmail, uuids, accounts, epoch>>
  BY DEF Tick, vars
<1>. QED BY <1>1, <1>2, <1>3, <1>4 DEF Next

LEMMA StoreStep ==
  ASSUME IInv, [Next]_vars
  PROVE  StoreInv' /\ UniqueAccounts'
<1>. USE AuthAssumption DEF IInv, TypeOK, User, Account, StoreInv
<1>1. ASSUME NEW p \in Procs, Insert(p) PROVE StoreInv' /\ UniqueAccounts'
  <2>. DEFINE e == req[p].email
              a == [id |-> uuids, email |-> e, key |-> Key[req[p].password], epoch |-> epoch]
  <2>1. e \in Emails /\ byEmail[e] = Nothing
    BY <1>1 DEF Insert, Goto, ProgressInv, Registering
  <2>2. /\ byEmail' = [byEmail EXCEPT ![e] = [id |-> a.id, email |-> e, key |-> a.key]]
        /\ accounts' = accounts \cup {a}
        /\ uuids' = uuids + 1
        /\ epoch' = epoch
    BY <1>1 DEF Insert
  <2>3. Key[req[p].password] \in Nat
    BY <1>1 DEF Insert, Goto, Request
  <2>4. StoreInv'
    BY <2>1, <2>2, <2>3
  <2>5. ASSUME NEW b \in accounts
        PROVE  b.id # a.id /\ ~ (b.email = e /\ b.epoch = epoch)
    <3>1. b \in Account /\ b.id < uuids
      OBVIOUS
    <3>2. [id |-> b.id, email |-> b.email, key |-> b.key] # Nothing
      BY <3>1
    <3>3. b.epoch = epoch => byEmail[b.email] # Nothing
      BY <3>2
    <3>. QED BY <2>1, <3>1, <3>3
  <2>6. UniqueAccounts'
    BY <2>2, <2>5 DEF UniqueAccounts
  <2>. QED BY <2>4, <2>6
<1>2. ASSUME Restart PROVE StoreInv' /\ UniqueAccounts'
  BY <1>2 DEF Restart, UniqueAccounts
<1>3. CASE UNCHANGED <<byEmail, uuids, accounts, epoch>>
  BY <1>3 DEF UniqueAccounts
<1>. QED BY <1>1, <1>2, <1>3, StoreFrame

LEMMA SnapshotStep ==
  ASSUME IInv, [Next]_vars
  PROVE  SnapshotCurrent'
<1>. USE AuthAssumption DEF IInv, TypeOK, SnapshotCurrent, Goto, Answer, store, issuer
<1>1. ASSUME NEW p \in Procs, Arrive(p) PROVE SnapshotCurrent'
  BY <1>1, ArriveEffect
<1>2. ASSUME NEW p \in Procs, Hash(p) \/ Lock(p) \/ Drain(p) \/ EmailFree(p) \/ EmailTaken(p)
      PROVE  SnapshotCurrent'
  BY <1>2 DEF Hash, Lock, Drain, EmailFree, EmailTaken
<1>3. ASSUME NEW p \in Procs, Insert(p) PROVE SnapshotCurrent'
  <2>1. byEmail[req[p].email] = Nothing
    BY <1>3 DEF Insert, ProgressInv
  <2>2. ASSUME NEW q \in Procs, pc[q] \in {"compare", "issue"}
        PROVE  req[q].email # req[p].email
    BY <2>1, <2>2
  <2>. QED BY <1>3, <2>2 DEF Insert, ProgressInv
<1>4. ASSUME NEW p \in Procs, RLock(p) PROVE SnapshotCurrent'
  BY <1>4 DEF RLock
<1>5. ASSUME NEW p \in Procs, Lookup(p) PROVE SnapshotCurrent'
  BY <1>5 DEF Lookup
<1>6. ASSUME NEW p \in Procs, Compare(p) PROVE SnapshotCurrent'
  BY <1>6 DEF Compare
<1>7. ASSUME NEW p \in Procs, Issue(p) PROVE SnapshotCurrent'
  BY <1>7 DEF Issue
<1>8. ASSUME NEW tok \in tokens, Verify(tok) PROVE SnapshotCurrent'
  BY <1>8 DEF Verify
<1>9. CASE Tick
  BY <1>9 DEF Tick
<1>10. CASE Restart
  BY <1>10 DEF Restart
<1>11. CASE UNCHANGED vars
  BY <1>11 DEF vars
<1>. QED
  BY <1>1, <1>2, <1>3, <1>4, <1>5, <1>6, <1>7, <1>8, <1>9, <1>10, <1>11 DEF Next, Serve

\* Only Issue gives out a token, and it touches no account; only Insert adds an account.
LEMMA TokenFrame ==
  ASSUME [Next]_vars
  PROVE  \/ \E p \in Procs : Issue(p)
         \/ \E p \in Procs : Insert(p)
         \/ UNCHANGED <<tokens, accounts>>
<1>. USE DEF store, issuer
<1>1. ASSUME NEW p \in Procs, Arrive(p) PROVE UNCHANGED <<tokens, accounts>>
  BY <1>1, ArriveEffect
<1>2. ASSUME NEW p \in Procs, Serve(p)
      PROVE  Issue(p) \/ Insert(p) \/ UNCHANGED <<tokens, accounts>>
  BY <1>2 DEF Serve, Hash, Lock, Drain, EmailFree, EmailTaken, RLock, Lookup, Compare
<1>3. ASSUME NEW tok \in tokens, Verify(tok) PROVE UNCHANGED <<tokens, accounts>>
  BY <1>3 DEF Verify
<1>4. Tick \/ Restart \/ UNCHANGED vars => UNCHANGED <<tokens, accounts>>
  BY DEF Tick, Restart, vars
<1>. QED BY <1>1, <1>2, <1>3, <1>4 DEF Next

LEMMA TokensStep ==
  ASSUME IInv, [Next]_vars
  PROVE  TokensBacked'
<1>. USE DEF IInv
<1>1. ASSUME NEW p \in Procs, Issue(p) PROVE TokensBacked'
  <2>. DEFINE u == user[p]
              t == [sub |-> u.id, email |-> u.email, exp |-> ExpiresAt(now), at |-> now,
                    key |-> Key[req[p].password], epoch |-> epoch]
              a == [id |-> u.id, email |-> u.email, key |-> u.key, epoch |-> epoch]
  <2>1. tokens' = tokens \cup {t} /\ accounts' = accounts
    BY <1>1 DEF Issue, store
  <2>2. /\ pc[p] = "issue"
        /\ req[p].email \in Emails
        /\ u = byEmail[req[p].email]
        /\ u # Nothing
    BY <1>1 DEF Issue, Goto, TypeOK, SnapshotCurrent, ProgressInv
  <2>3. u.email = req[p].email /\ a \in accounts
    BY <2>2 DEF StoreInv
  <2>4. t.key = u.key
    BY <2>2 DEF ProgressInv
  <2>5. \A b \in accounts : b.id = u.id => b = a
    BY <2>3 DEF UniqueAccounts
  <2>6. /\ a = [id |-> t.sub, email |-> t.email, key |-> t.key, epoch |-> t.epoch]
        /\ \A b \in accounts : b.id = t.sub => b = a
    BY <2>4, <2>5
  <2>7. ASSUME NEW x \in tokens'
        PROVE  \E c \in accounts :
                 /\ c = [id |-> x.sub, email |-> x.email, key |-> x.key, epoch |-> x.epoch]
                 /\ \A b \in accounts : b.id = x.sub => b = c
    <3>. HIDE DEF t, a
    <3>1. CASE x = t
      BY <3>1, <2>3, <2>6
    <3>2. CASE x \in tokens
      BY <3>2 DEF TokensBacked
    <3>. QED BY <2>1, <3>1, <3>2
  <2>. QED BY <2>1, <2>7 DEF TokensBacked
<1>2. ASSUME NEW p \in Procs, Insert(p) PROVE TokensBacked'
  <2>. DEFINE new == [id |-> uuids, email |-> req[p].email, key |-> Key[req[p].password],
                      epoch |-> epoch]
  <2>1. accounts' = accounts \cup {new} /\ new.id = uuids
    BY <1>2 DEF Insert
  <2>. HIDE DEF new
  <2>2. tokens' = tokens
    BY <1>2 DEF Insert, issuer
  <2>3. \A b \in accounts : b \in Account /\ b.id < uuids
    BY DEF TypeOK, StoreInv
  <2>4. ASSUME NEW x \in tokens
        PROVE  \E c \in accounts' :
                 /\ c = [id |-> x.sub, email |-> x.email, key |-> x.key, epoch |-> x.epoch]
                 /\ \A b \in accounts' : b.id = x.sub => b = c
    <3>1. PICK c \in accounts :
            /\ c = [id |-> x.sub, email |-> x.email, key |-> x.key, epoch |-> x.epoch]
            /\ \A b \in accounts : b.id = x.sub => b = c
      BY DEF TokensBacked
    <3>2. new.id # x.sub
      <4>1. c.id = x.sub
        BY <3>1
      <4>2. c.id \in Nat /\ c.id < uuids
        BY <2>3 DEF Account
      <4>. QED BY <4>1, <4>2, <2>1 DEF TypeOK
    <3>. QED BY <3>1, <3>2, <2>1
  <2>. QED BY <2>2, <2>4 DEF TokensBacked
<1>3. CASE UNCHANGED <<tokens, accounts>>
  BY <1>3 DEF TokensBacked
<1>. QED BY <1>1, <1>2, <1>3, TokenFrame

LEMMA ExpiryStep ==
  ASSUME IInv, [Next]_vars
  PROVE  ExpiryInv'
<1>. USE DEF IInv, TypeOK, ExpiryInv, store, issuer
<1>1. ASSUME NEW p \in Procs, Arrive(p) PROVE ExpiryInv'
  BY <1>1, ArriveEffect
<1>2. ASSUME NEW p \in Procs, Issue(p) PROVE ExpiryInv'
  BY <1>2 DEF Issue
<1>3. ASSUME NEW p \in Procs, Serve(p), ~ Issue(p) PROVE ExpiryInv'
  BY <1>3 DEF Serve, Hash, Lock, Drain, EmailFree, EmailTaken, Insert, RLock, Lookup, Compare
<1>4. ASSUME NEW tok \in tokens, Verify(tok) PROVE ExpiryInv'
  BY <1>4 DEF Verify
<1>5. Tick \/ Restart \/ UNCHANGED vars => ExpiryInv'
  BY DEF Tick, Restart, vars
<1>. QED BY <1>1, <1>2, <1>3, <1>4, <1>5 DEF Next

-----------------------------------------------------------------------------

LEMMA Initially == Init => IInv
<1>. SUFFICES ASSUME Init PROVE IInv
  OBVIOUS
<1>. USE AuthAssumption DEF Init
<1>1. TypeOK
  BY DEF TypeOK
<1>2. LockInv /\ ProgressInv /\ StoreInv
  BY DEF LockInv, ProgressInv, StoreInv, Registering, LoggingIn
<1>3. UniqueAccounts /\ SnapshotCurrent /\ TokensBacked /\ ExpiryInv
  BY DEF UniqueAccounts, SnapshotCurrent, TokensBacked, ExpiryInv
<1>. QED BY <1>1, <1>2, <1>3 DEF IInv

LEMMA Inductive == IInv /\ [Next]_vars => IInv'
  BY TypeStep, LockStep, ProgressStep, StoreStep, SnapshotStep, TokensStep,
     ExpiryStep DEF IInv

LEMMA Invariance == Spec => []IInv
  BY Initially, Inductive, PTL DEF Spec

\* Statuses, pointers and stored e-mails keep to their types on every path.
THEOREM TypeCorrect == Spec => []TypeOK
  BY Invariance, PTL DEF IInv

\* The Go map in users.Store is never read or written by one goroutine while another
\* one writes it: the RWMutex discipline of Create and Authenticate suffices.
THEOREM MapAccessExclusive == Spec => []NoConcurrentMapAccess
<1>1. IInv => NoConcurrentMapAccess
  BY DEF IInv, LockInv, NoConcurrentMapAccess, TypeOK
<1>. QED BY <1>1, Invariance, PTL

\* However many registrations race, an e-mail gets one account in a life of the process.
THEOREM OneAccountPerEmail == Spec => []UniqueAccounts
  BY Invariance, PTL DEF IInv

\* The comment on Authenticate is right: bcrypt may run without the lock, because the
\* user that was read is still the stored one when its hash is compared and signed for.
THEOREM StaleReadImpossible == Spec => []SnapshotCurrent
  BY Invariance, PTL DEF IInv

\* Every token names exactly one account and was earned with that account's password.
THEOREM TokensNameTheirOwner == Spec => []TokensBacked
  BY Invariance, PTL DEF IInv

\* A token is honoured for less than TTL and for more than TTL less a second, however
\* finely the clock ticks.
THEOREM ExpiryWindow == Spec => []VerifyWindow
<1>1. ASSUME IInv PROVE VerifyWindow
  <2>. SUFFICES ASSUME verdict # Nothing
               PROVE  LET age == verdict.at - verdict.token.at
                      IN /\ verdict.answer = "ok" => age < TTL * TicksPerSecond
                         /\ verdict.answer = "expired" => age > (TTL - 1) * TicksPerSecond
    BY DEF VerifyWindow
  <2>. DEFINE at == verdict.at
              from == verdict.token.at
  <2>1. /\ at \in Nat /\ from \in Nat
        /\ verdict.answer = IF at < ExpiresAt(from) THEN "ok" ELSE "expired"
    BY <1>1 DEF IInv, ExpiryInv, Decode
  <2>2. /\ ExpiresAt(from) \in Int
        /\ ExpiresAt(from) <= from + TTL * TicksPerSecond
        /\ ExpiresAt(from) > from + (TTL - 1) * TicksPerSecond
    BY <2>1, ExpiryBounds
  <2>3. TTL * TicksPerSecond \in Int /\ (TTL - 1) * TicksPerSecond \in Int
    BY TimeAssumption, SMT
  <2>. HIDE DEF at, from
  <2>4. /\ verdict.answer = "ok" => at - from < TTL * TicksPerSecond
        /\ verdict.answer = "expired" => at - from > (TTL - 1) * TicksPerSecond
    BY <2>1, <2>2, <2>3
  <2>. QED BY <2>4 DEF at, from
<1>. QED BY <1>1, Invariance, PTL

-----------------------------------------------------------------------------
(* AuthService implements Registry: the mapped variables start as Registry  *)
(* does, and every step is a step of Registry or a stutter.                 *)

absAccounts == [e \in Emails |-> IF byEmail[e] = Nothing THEN Nothing ELSE byEmail[e].key]
absCall ==
  [p \in Procs |->
     IF req[p] = Nothing THEN Nothing
     ELSE [op |-> req[p].op, email |-> req[p].email, secret |-> Key[req[p].password]]]

\* One goroutine at a time is at work: nobody else's call or outcome changes.
LEMMA OutcomeOfOne ==
  ASSUME NEW p \in Procs,
         \A q \in Procs \ {p} :
           pc'[q] = pc[q] /\ req'[q] = req[q] /\ user'[q] = user[q] /\ status'[q] = status[q]
  PROVE  outcome' = [outcome EXCEPT ![p] = outcome'[p]]
<1>1. \A q \in Procs \ {p} : outcome'[q] = outcome[q]
  BY DEF outcome
<1>2. /\ outcome' = [q \in Procs |-> outcome'[q]]
      /\ outcome = [q \in Procs |-> outcome[q]]
  BY DEF outcome
<1>. HIDE DEF outcome
<1>. QED BY <1>1, <1>2

LEMMA Stutter ==
  ASSUME outcome' = outcome, absCall' = absCall, byEmail' = byEmail
  PROVE  UNCHANGED Abstract!vars
<1>1. absAccounts' = absAccounts
  BY DEF absAccounts
<1>. QED BY <1>1 DEF Abstract!vars, absAccounts, absCall

LEMMA ArriveRefines ==
  ASSUME IInv, NEW p \in Procs, Arrive(p)
  PROVE  [Abstract!Next]_(Abstract!vars)
<1>. USE AuthAssumption DEF IInv, TypeOK, Answer, store, issuer
<1>1. outcome' = [outcome EXCEPT ![p] = outcome'[p]]
  BY ArriveEffect, OutcomeOfOne
<1>2. pc[p] = "idle" /\ outcome[p] # "pending" /\ absAccounts' = absAccounts
  BY ArriveEffect DEF outcome, Registering, LoggingIn, absAccounts
<1>3. CASE UNCHANGED <<pc, req>> /\ Answer(p, 400)
  <2>1. outcome'[p] = "none"
    <3>1. pc'[p] = "idle" /\ status'[p] = 400
      BY <1>2, <1>3
    <3>. QED BY <3>1 DEF outcome, Registering
  <2>2. absCall' = absCall
    BY <1>3 DEF absCall
  <2>. QED BY <1>1, <1>2, <2>1, <2>2 DEF Abstract!Next, Abstract!Dismiss, absAccounts, absCall
<1>4. ASSUME NEW r \in Request, req' = [req EXCEPT ![p] = r], Answer(p, 0),
             pc' = [pc EXCEPT ![p] = "rlock"] \/ pc' = [pc EXCEPT ![p] = "hash"]
      PROVE  Abstract!Next
  <2>. DEFINE c == [op |-> r.op, email |-> r.email, secret |-> Key[r.password]]
  <2>1. c \in Abstract!Calls
    BY DEF Abstract!Calls, Request
  <2>2. outcome'[p] = "pending"
    BY <1>4 DEF outcome, Registering
  <2>3. absCall' = [absCall EXCEPT ![p] = c]
    <3>1. r # Nothing
      BY DEF Request
    <3>. QED BY <1>4, <3>1 DEF absCall
  <2>. HIDE DEF c
  <2>4. Abstract!Invoke(p, c)
    BY <1>1, <1>2, <2>2, <2>3 DEF Abstract!Invoke, absAccounts, absCall
  <2>. QED BY <2>1, <2>4 DEF Abstract!Next
<1>5. CASE ~ (UNCHANGED <<pc, req>> /\ Answer(p, 400))
  <2>1. PICK r \in Request :
          /\ req' = [req EXCEPT ![p] = r]
          /\ Answer(p, 0)
          /\ pc' = [pc EXCEPT ![p] = "rlock"] \/ pc' = [pc EXCEPT ![p] = "hash"]
    BY <1>5, ArriveEffect
  <2>. QED BY <1>4, <2>1
<1>. QED BY <1>3, <1>5

\* The steps that decide a call, each seen from the goroutine that takes it.
LEMMA DecideRefines ==
  ASSUME IInv, NEW p \in Procs, Serve(p)
  PROVE  [Abstract!Next]_(Abstract!vars)
<1>. USE AuthAssumption DEF IInv, TypeOK, Answer, Goto, store, issuer
<1>. DEFINE e == req[p].email
<1>1. /\ outcome' = [outcome EXCEPT ![p] = outcome'[p]]
      /\ absCall' = absCall
      /\ req'[p] = req[p] /\ req[p] # Nothing
      /\ absCall[p] = [op |-> req[p].op, email |-> e, secret |-> Key[req[p].password]]
  <2>1. \A q \in Procs \ {p} :
          pc'[q] = pc[q] /\ req'[q] = req[q] /\ user'[q] = user[q] /\ status'[q] = status[q]
    BY DEF Serve, Hash, Lock, Drain, EmailFree, EmailTaken, Insert, RLock, Lookup, Compare, Issue
  <2>2. req' = req
    BY DEF Serve, Hash, Lock, Drain, EmailFree, EmailTaken, Insert, RLock, Lookup, Compare, Issue
  <2>3. pc[p] # "idle"
    BY DEF Serve, Hash, Lock, Drain, EmailFree, EmailTaken, Insert, RLock, Lookup, Compare, Issue
  <2>. QED BY <2>1, <2>2, <2>3, OutcomeOfOne DEF absCall
<1>2. \A o : outcome'[p] = o => outcome' = [outcome EXCEPT ![p] = o]
  BY <1>1
<1>3. ASSUME outcome'[p] = outcome[p], byEmail' = byEmail
      PROVE  UNCHANGED Abstract!vars
  <2>1. outcome' = outcome
    <3>1. outcome = [q \in Procs |-> outcome[q]]
      BY DEF outcome
    <3>. QED BY <1>1, <1>3, <3>1
  <2>. HIDE DEF IInv
  <2>. QED BY <1>1, <1>3, <2>1, Stutter, Zenon
<1>4. CASE Hash(p)
  <2>1. /\ pc[p] = "hash" /\ pc'[p] \in {"idle", "lock"} /\ byEmail' = byEmail
        /\ status'[p] = IF pc'[p] = "idle" THEN 500 ELSE 0
    BY <1>4 DEF Hash
  <2>2. outcome[p] = "pending" /\ req[p].op = "register"
    BY <2>1 DEF outcome, Registering, ProgressInv
  <2>3. CASE pc'[p] = "lock"
    <3>1. outcome'[p] = "pending"
      BY <2>1, <2>3 DEF outcome, Registering
    <3>. QED BY <1>3, <2>1, <2>2, <3>1
  <2>4. CASE pc'[p] = "idle"
    <3>1. outcome'[p] = "failed"
      BY <2>1, <2>4 DEF outcome, Registering
    <3>2. Abstract!Fail(p)
      BY <1>1, <1>2, <2>1, <2>2, <3>1 DEF Abstract!Fail, Abstract!Decide, absAccounts, absCall
    <3>. QED BY <3>2 DEF Abstract!Next
  <2>. QED BY <2>1, <2>3, <2>4
<1>5. CASE Lock(p) \/ Drain(p) \/ EmailFree(p) \/ RLock(p)
  <2>1. /\ pc[p] \in Registering \cup {"rlock", "lookup"}
        /\ pc'[p] \in Registering \cup {"rlock", "lookup"}
        /\ byEmail' = byEmail /\ status[p] = 0 /\ status'[p] = 0
    BY <1>5 DEF Lock, Drain, EmailFree, RLock, Registering, ProgressInv
  <2>2. outcome[p] = "pending" /\ outcome'[p] = "pending"
    BY <2>1 DEF outcome, Registering
  <2>. QED BY <1>3, <2>1, <2>2
<1>6. CASE EmailTaken(p)
  <2>1. /\ pc[p] = "check" /\ pc'[p] = "idle" /\ status'[p] = 409
        /\ byEmail' = byEmail /\ byEmail[e] # Nothing
    BY <1>6 DEF EmailTaken
  <2>2. outcome[p] = "pending" /\ req[p].op = "register" /\ e \in Emails
    BY <2>1 DEF outcome, Registering, ProgressInv
  <2>3. outcome'[p] = "taken"
    BY <2>1 DEF outcome, Registering
  <2>4. absAccounts[e] # Nothing
    BY <2>1, <2>2 DEF absAccounts, User
  <2>5. Abstract!Refuse(p)
    BY <1>1, <1>2, <2>1, <2>2, <2>3, <2>4
       DEF Abstract!Refuse, Abstract!Decide, Abstract!Registered, absAccounts, absCall
  <2>. QED BY <2>5 DEF Abstract!Next
<1>7. CASE Insert(p)
  <2>1. /\ pc[p] = "insert" /\ pc'[p] = "idle" /\ status'[p] = 201
        /\ byEmail' = [byEmail EXCEPT ![e] =
                         [id |-> uuids, email |-> e, key |-> Key[req[p].password]]]
    BY <1>7 DEF Insert
  <2>2. outcome[p] = "pending" /\ req[p].op = "register" /\ e \in Emails /\ byEmail[e] = Nothing
    BY <2>1 DEF outcome, Registering, ProgressInv
  <2>3. outcome'[p] = "created"
    BY <2>1 DEF outcome, Registering
  <2>4. Key[req[p].password] \in Nat
    BY <1>1 DEF Request
  <2>5. absAccounts' = [absAccounts EXCEPT ![e] = Key[req[p].password]]
    <3>. DEFINE u == [id |-> uuids, email |-> e, key |-> Key[req[p].password]]
    <3>1. u \in User /\ u # Nothing /\ u.key = Key[req[p].password]
      BY <2>2, <2>4 DEF User
    <3>2. byEmail' = [byEmail EXCEPT ![e] = u]
      BY <2>1
    <3>. HIDE DEF u
    <3>. QED BY <3>1, <3>2, <2>2 DEF absAccounts
  <2>6. absAccounts[e] = Nothing
    BY <2>2 DEF absAccounts
  <2>7. Abstract!Create(p)
    BY <1>1, <1>2, <2>2, <2>3, <2>5, <2>6
       DEF Abstract!Create, Abstract!Decide, Abstract!Registered, absAccounts, absCall
  <2>. QED BY <2>7 DEF Abstract!Next
<1>8. CASE Lookup(p)
  <2>. DEFINE found == e \in Emails /\ byEmail[e] # Nothing
              same == byEmail[e].key = Key[req[p].password]
  <2>1. /\ pc[p] = "lookup" /\ byEmail' = byEmail
        /\ found => pc'[p] = "compare" /\ user'[p] = byEmail[e] /\ status'[p] = 0
        /\ ~ found => pc'[p] = "idle" /\ status'[p] = 401
    BY <1>8 DEF Lookup
  <2>2. outcome[p] = "pending" /\ req[p].op = "login"
    BY <2>1 DEF outcome, Registering, LoggingIn, ProgressInv
  <2>3. found /\ same => outcome'[p] = "granted"
    BY <1>1, <2>1 DEF outcome, Registering
  <2>4. ~ (found /\ same) => outcome'[p] = "denied"
    <3>1. CASE found /\ ~ same
      BY <1>1, <2>1, <3>1 DEF outcome, Registering
    <3>2. CASE ~ found
      BY <2>1, <3>2 DEF outcome, Registering
    <3>. QED BY <3>1, <3>2
  <2>5. Key[req[p].password] \in Nat
    BY <1>1 DEF Request
  <2>6. Abstract!Matches(absCall[p]) <=> found /\ same
    BY <1>1, <2>5 DEF Abstract!Matches, absAccounts
  <2>7. CASE found /\ same
    <3>1. Abstract!Grant(p)
      BY <1>1, <1>2, <2>1, <2>2, <2>3, <2>6, <2>7
         DEF Abstract!Grant, Abstract!Decide, absAccounts, absCall
    <3>. QED BY <3>1 DEF Abstract!Next
  <2>8. CASE ~ (found /\ same)
    <3>1. Abstract!Deny(p)
      BY <1>1, <1>2, <2>1, <2>2, <2>4, <2>6, <2>8
         DEF Abstract!Deny, Abstract!Decide, absAccounts, absCall
    <3>. QED BY <3>1 DEF Abstract!Next
  <2>. QED BY <2>7, <2>8
<1>9. CASE Compare(p)
  <2>. DEFINE same == user[p].key = Key[req[p].password]
  <2>1. /\ pc[p] = "compare" /\ byEmail' = byEmail
        /\ same => pc'[p] = "issue"
        /\ ~ same => pc'[p] = "idle" /\ status'[p] = 401
        /\ status[p] = 0 /\ (same => status'[p] = 0)
    BY <1>9 DEF Compare, ProgressInv
  <2>2. outcome[p] = IF same THEN "granted" ELSE "denied"
    BY <2>1 DEF outcome, Registering
  <2>3. outcome'[p] = IF same THEN "granted" ELSE "denied"
    BY <2>1 DEF outcome, Registering
  <2>. QED BY <1>3, <2>1, <2>2, <2>3
<1>10. CASE Issue(p)
  <2>1. pc[p] = "issue" /\ byEmail' = byEmail /\ pc'[p] = "idle" /\ status'[p] = 200
        /\ status[p] = 0
    BY <1>10 DEF Issue, ProgressInv
  <2>2. outcome[p] = "granted" /\ outcome'[p] = "granted"
    BY <2>1 DEF outcome, Registering
  <2>. QED BY <1>3, <2>1, <2>2
<1>. QED BY <1>4, <1>5, <1>6, <1>7, <1>8, <1>9, <1>10 DEF Serve

LEMMA CrashRefines ==
  ASSUME Restart
  PROVE  Abstract!Crash
<1>1. absAccounts' = [x \in Emails |-> Nothing] /\ absCall' = [p \in Procs |-> Nothing]
  BY DEF Restart, absAccounts, absCall
<1>2. outcome' = [p \in Procs |-> "none"]
  BY DEF Restart, outcome, Registering
<1>. QED BY <1>1, <1>2 DEF Abstract!Crash, absAccounts, absCall

LEMMA InitRefines == Init => Abstract!Init
<1>. SUFFICES ASSUME Init PROVE Abstract!Init
  OBVIOUS
<1>1. absAccounts = [x \in Emails |-> Nothing] /\ absCall = [p \in Procs |-> Nothing]
  BY DEF Init, absAccounts, absCall
<1>2. outcome = [p \in Procs |-> "none"]
  BY DEF Init, outcome, Registering
<1>. QED BY <1>1, <1>2 DEF Abstract!Init, absAccounts, absCall

LEMMA NextRefines == IInv /\ [Next]_vars => [Abstract!Next]_(Abstract!vars)
<1>. SUFFICES ASSUME IInv, [Next]_vars PROVE [Abstract!Next]_(Abstract!vars)
  OBVIOUS
<1>1. ASSUME UNCHANGED <<byEmail, pc, req, user, status>>
      PROVE  UNCHANGED Abstract!vars
  BY <1>1 DEF Abstract!vars, outcome
<1>2. ASSUME NEW tok \in tokens, Verify(tok) PROVE UNCHANGED Abstract!vars
  BY <1>1, <1>2 DEF Verify, store
<1>3. Tick \/ UNCHANGED vars => UNCHANGED Abstract!vars
  BY <1>1 DEF Tick, vars, store
<1>4. Restart => Abstract!Next
  BY CrashRefines DEF Abstract!Next
<1>. QED BY <1>2, <1>3, <1>4, ArriveRefines, DecideRefines DEF Next

\* Locks, hashing outside the lock and reading a user that may be stale are invisible:
\* auth-service behaves like an atomic map from e-mails to secrets that a crash empties.
THEOREM ImplementsRegistry == Spec => RefinesRegistry
<1>. SUFFICES Spec => Abstract!Init /\ [][Abstract!Next]_(Abstract!vars)
  BY DEF RefinesRegistry, Abstract!Spec
<1>. QED BY InitRefines, NextRefines, Invariance, PTL DEF Spec
=============================================================================
