---------------------------- MODULE AuthService -----------------------------
(***************************************************************************)
(* auth-service: users.Store behind its RWMutex, and the Register, Login   *)
(* and Verify handlers that use it and the token issuer.  Each fasthttp    *)
(* request runs on a goroutine of its own; a goroutine's steps are the     *)
(* stretches of code between the points where another one can interfere:   *)
(* bcrypt runs outside the lock, map accesses run inside it.  Nothing is   *)
(* persisted: a restart empties the store, while clients keep the tokens   *)
(* they were given.                                                        *)
(***************************************************************************)
EXTENDS Issuer, FiniteSets

CONSTANTS
  Procs,      \* goroutines serving /register and /login
  Emails,     \* non-empty e-mail strings
  NoEmail,    \* the empty string
  Passwords,  \* password strings
  Length,     \* Length[pw] = len(pw) in bytes
  Key,        \* Key[pw] = what bcrypt compares: it reads the first 72 bytes
  Nobody,     \* no goroutine holds the write lock
  Nothing,    \* nil
  MaxUuid, MaxTokens, MaxEpoch, MaxTime   \* bounds: accounts, tokens, restarts, clock

ASSUME AuthAssumption ==
  /\ NoEmail \notin Emails
  /\ \A pw \in Passwords : Length[pw] \in Nat /\ Key[pw] \in Nat
  /\ Nobody \notin Procs
  /\ Nothing \notin [op : {"register", "login"}, email : Emails \cup {NoEmail},
                     password : Passwords]
  /\ Nothing \notin [id : Nat, email : Emails, key : Nat]
  /\ Nothing \notin Nat

VARIABLES
  byEmail,   \* Store.byEmail: a user, or Nothing where the map has no entry
  writer,    \* Store.mu: the goroutine that announced itself as writer
  readers,   \* Store.mu: the goroutines that hold the read lock
  pc,        \* pc[p] = what goroutine p does next, "idle" between requests
  req,       \* req[p] = the request p serves or served last
  user,      \* user[p] = the *User pointer p took out of the map
  status,    \* status[p] = the HTTP status of p's last answer, 0 before it
  uuids,     \* uuids drawn so far: uuid.NewString never repeats one
  now,       \* the clock
  tokens,    \* tokens given out, with the circumstances they were made in
  verdict,   \* the latest answer of Verify
  \* history only
  epoch,     \* restarts so far
  accounts   \* every account ever created

store == <<byEmail, writer, readers, uuids, accounts>>
issuer == <<now, tokens, verdict>>
vars == <<byEmail, writer, readers, pc, req, user, status, uuids, now, tokens, verdict,
          epoch, accounts>>

User == [id : Nat, email : Emails, key : Nat]
Request == [op : {"register", "login"}, email : Emails \cup {NoEmail}, password : Passwords]
Account == [id : Nat, email : Emails, key : Nat, epoch : Nat]
Token == [sub : Nat, email : Emails, exp : Int, at : Nat, key : Nat, epoch : Nat]
Verdict == [token : Token, at : Nat, answer : {"ok", "expired"}]

Registering == {"hash", "lock", "drain", "check", "insert"}
LoggingIn == {"rlock", "lookup", "compare", "issue"}

Init ==
  /\ byEmail = [e \in Emails |-> Nothing]
  /\ writer = Nobody
  /\ readers = {}
  /\ pc = [p \in Procs |-> "idle"]
  /\ req = [p \in Procs |-> Nothing]
  /\ user = [p \in Procs |-> Nothing]
  /\ status = [p \in Procs |-> 0]
  /\ uuids = 0
  /\ now = 0
  /\ tokens = {}
  /\ verdict = Nothing
  /\ epoch = 0
  /\ accounts = {}

Goto(p, from, to) ==
  /\ pc[p] = from
  /\ pc' = [pc EXCEPT ![p] = to]

Answer(p, code) == status' = [status EXCEPT ![p] = code]

-----------------------------------------------------------------------------
(* POST /register: Handlers.Register and Store.Create.                      *)

ValidPayload(e, pw) == e # NoEmail /\ Length[pw] >= 6 /\ Length[pw] <= 128

Accept(p, op, e, pw) ==
  /\ req' = [req EXCEPT ![p] = [op |-> op, email |-> e, password |-> pw]]
  /\ Answer(p, 0)
  /\ UNCHANGED <<store, issuer, user, epoch>>

Register(p, e, pw) ==
  /\ ValidPayload(e, pw)
  /\ uuids + Cardinality({q \in Procs : pc[q] \in Registering}) < MaxUuid
  /\ Goto(p, "idle", "hash")
  /\ Accept(p, "register", e, pw)

\* A body that is not JSON, or a payload out of range, never reaches the store.
Reject(p) ==
  /\ pc[p] = "idle"
  /\ Answer(p, 400)
  /\ UNCHANGED <<store, issuer, pc, req, user, epoch>>

\* bcrypt.GenerateFromPassword refuses passwords of more than 72 bytes.
Hash(p) ==
  /\ pc[p] = "hash"
  /\ LET tooLong == Length[req[p].password] > 72
     IN /\ Goto(p, "hash", IF tooLong THEN "idle" ELSE "lock")
        /\ Answer(p, IF tooLong THEN 500 ELSE 0)
  /\ UNCHANGED <<store, issuer, req, user, epoch>>

\* Mutant of Lock: a mutex that lets a second writer in.
LockShared(p) ==
  /\ Goto(p, "lock", "drain")
  /\ writer' = p
  /\ UNCHANGED <<byEmail, readers, uuids, accounts, issuer, req, user, status, epoch>>

\* RWMutex.Lock announces the writer, which stops new readers ...
Lock(p) ==
  /\ writer = Nobody
  /\ Goto(p, "lock", "drain")
  /\ writer' = p
  /\ UNCHANGED <<byEmail, readers, uuids, accounts, issuer, req, user, status, epoch>>

\* ... and then waits for the readers that are inside to leave.
Drain(p) ==
  /\ readers = {}
  /\ Goto(p, "drain", "check")
  /\ UNCHANGED <<store, issuer, req, user, status, epoch>>

\* Mutant of EmailFree: the check under the lock is forgotten.
EmailFreeUnchecked(p) ==
  /\ Goto(p, "check", "insert")
  /\ UNCHANGED <<store, issuer, req, user, status, epoch>>

EmailFree(p) ==
  /\ Goto(p, "check", "insert")
  /\ byEmail[req[p].email] = Nothing
  /\ UNCHANGED <<store, issuer, req, user, status, epoch>>

\* Mutant of EmailTaken: the early return forgets the lock (no defer).
EmailTakenHolding(p) ==
  /\ Goto(p, "check", "idle")
  /\ byEmail[req[p].email] # Nothing
  /\ Answer(p, 409)
  /\ UNCHANGED <<store, issuer, req, user, epoch>>

EmailTaken(p) ==
  /\ Goto(p, "check", "idle")
  /\ byEmail[req[p].email] # Nothing
  /\ writer' = Nobody
  /\ Answer(p, 409)
  /\ UNCHANGED <<byEmail, readers, uuids, accounts, issuer, req, user, epoch>>

Insert(p) ==
  /\ Goto(p, "insert", "idle")
  /\ LET e == req[p].email
         u == [id |-> uuids, email |-> e, key |-> Key[req[p].password]]
     IN /\ byEmail' = [byEmail EXCEPT ![e] = u]
        /\ accounts' = accounts \cup
             {[id |-> u.id, email |-> u.email, key |-> u.key, epoch |-> epoch]}
  /\ uuids' = uuids + 1
  /\ writer' = Nobody
  /\ Answer(p, 201)
  /\ UNCHANGED <<readers, issuer, req, user, epoch>>

-----------------------------------------------------------------------------
(* POST /login: Handlers.Login, Store.Authenticate and Issuer.Issue.        *)

Login(p, e, pw) ==
  /\ Cardinality(tokens) + Cardinality({q \in Procs : pc[q] \in LoggingIn}) < MaxTokens
  /\ Goto(p, "idle", "rlock")
  /\ Accept(p, "login", e, pw)

\* Mutant of RLock: the map is read without the lock.
RLockSkipped(p) ==
  /\ Goto(p, "rlock", "lookup")
  /\ UNCHANGED <<store, issuer, req, user, status, epoch>>

RLock(p) ==
  /\ writer = Nobody
  /\ Goto(p, "rlock", "lookup")
  /\ readers' = readers \cup {p}
  /\ UNCHANGED <<byEmail, writer, uuids, accounts, issuer, req, user, status, epoch>>

\* Mutant of Lookup: the ok of the map read is ignored.
LookupUnchecked(p) ==
  /\ Goto(p, "lookup", "compare")
  /\ LET e == req[p].email
     IN user' = [user EXCEPT ![p] = IF e \in Emails THEN byEmail[e] ELSE Nothing]
  /\ readers' = readers \ {p}
  /\ UNCHANGED <<byEmail, writer, uuids, accounts, issuer, req, status, epoch>>

\* The map read and the RUnlock after it.
Lookup(p) ==
  /\ pc[p] = "lookup"
  /\ LET e == req[p].email
         found == e \in Emails /\ byEmail[e] # Nothing
     IN /\ Goto(p, "lookup", IF found THEN "compare" ELSE "idle")
        /\ user' = [user EXCEPT ![p] = IF found THEN byEmail[e] ELSE Nothing]
        /\ Answer(p, IF found THEN 0 ELSE 401)
  /\ readers' = readers \ {p}
  /\ UNCHANGED <<byEmail, writer, uuids, accounts, issuer, req, epoch>>

\* Mutant of Compare: a failed comparison is not an error.
CompareIgnored(p) ==
  /\ Goto(p, "compare", "issue")
  /\ UNCHANGED <<store, issuer, req, user, status, epoch>>

\* bcrypt.CompareHashAndPassword, with no lock held.
Compare(p) ==
  /\ pc[p] = "compare"
  /\ LET same == user[p].key = Key[req[p].password]
     IN /\ Goto(p, "compare", IF same THEN "issue" ELSE "idle")
        /\ user' = [user EXCEPT ![p] = IF same THEN @ ELSE Nothing]
        /\ Answer(p, IF same THEN 0 ELSE 401)
  /\ UNCHANGED <<store, issuer, req, epoch>>

Issue(p) ==
  /\ Goto(p, "issue", "idle")
  /\ tokens' = tokens \cup
       {[sub |-> user[p].id, email |-> user[p].email, exp |-> ExpiresAt(now), at |-> now,
         key |-> Key[req[p].password], epoch |-> epoch]}
  /\ user' = [user EXCEPT ![p] = Nothing]
  /\ Answer(p, 200)
  /\ UNCHANGED <<store, now, verdict, req, epoch>>

-----------------------------------------------------------------------------
(* POST /verify.  It touches no shared state but the clock.  A header that  *)
(* is missing, or that carries no token of this issuer, is answered 401     *)
(* and changes nothing.  Issued subjects and e-mails are never empty, so    *)
(* the "malformed token" branch stays closed.                               *)

Verify(tok) ==
  /\ verdict' = [token |-> tok, at |-> now, answer |-> Decode(tok, now)]
  /\ UNCHANGED <<store, pc, req, user, status, now, tokens, epoch>>

Tick ==
  /\ now < MaxTime
  /\ now' = now + 1
  /\ UNCHANGED <<store, tokens, verdict, pc, req, user, status, epoch>>

\* Mutant of Restart: ids are numbered from zero again.
RestartReusingIds ==
  /\ epoch < MaxEpoch
  /\ byEmail' = [e \in Emails |-> Nothing]
  /\ writer' = Nobody
  /\ readers' = {}
  /\ pc' = [p \in Procs |-> "idle"]
  /\ req' = [p \in Procs |-> Nothing]
  /\ user' = [p \in Procs |-> Nothing]
  /\ status' = [p \in Procs |-> 0]
  /\ epoch' = epoch + 1
  /\ uuids' = 0
  /\ UNCHANGED <<issuer, accounts>>

\* The process dies and starts again with NewStore(): requests in flight are lost.
Restart ==
  /\ epoch < MaxEpoch
  /\ byEmail' = [e \in Emails |-> Nothing]
  /\ writer' = Nobody
  /\ readers' = {}
  /\ pc' = [p \in Procs |-> "idle"]
  /\ req' = [p \in Procs |-> Nothing]
  /\ user' = [p \in Procs |-> Nothing]
  /\ status' = [p \in Procs |-> 0]
  /\ epoch' = epoch + 1
  /\ UNCHANGED <<issuer, uuids, accounts>>

Serve(p) ==
  \/ Hash(p) \/ Lock(p) \/ Drain(p) \/ EmailFree(p) \/ EmailTaken(p) \/ Insert(p)
  \/ RLock(p) \/ Lookup(p) \/ Compare(p) \/ Issue(p)

Arrive(p) ==
  \/ Reject(p)
  \/ \E e \in Emails \cup {NoEmail}, pw \in Passwords : Register(p, e, pw) \/ Login(p, e, pw)

Next ==
  \/ \E p \in Procs : Arrive(p) \/ Serve(p)
  \/ \E tok \in tokens : Verify(tok)
  \/ Tick
  \/ Restart

Spec == Init /\ [][Next]_vars

(***************************************************************************)
(* Every goroutine keeps running, and Go's RWMutex starves nobody: a       *)
(* waiting writer gets the mutex in turn (sync.Mutex starvation mode), a   *)
(* writer that leaves hands the read lock to the readers it kept waiting.  *)
(* Nothing makes clients send requests.                                    *)
(***************************************************************************)
Fairness ==
  \A p \in Procs : WF_vars(Serve(p)) /\ SF_vars(Lock(p)) /\ SF_vars(RLock(p))

FairSpec == Spec /\ Fairness

-----------------------------------------------------------------------------
(* Properties.                                                              *)

\* Every variable keeps to its type: statuses are the ones the handlers write, only
\* registrable e-mails reach the store, and a pointer is only followed once it is set.
TypeOK ==
  /\ byEmail \in [Emails -> User \cup {Nothing}]
  /\ writer \in Procs \cup {Nobody}
  /\ readers \subseteq Procs
  /\ pc \in [Procs -> {"idle"} \cup Registering \cup LoggingIn]
  /\ req \in [Procs -> Request \cup {Nothing}]
  /\ user \in [Procs -> User \cup {Nothing}]
  /\ status \in [Procs -> {0, 200, 201, 400, 401, 409, 500}]
  /\ uuids \in Nat
  /\ now \in Nat
  /\ tokens \subseteq Token
  /\ verdict \in Verdict \cup {Nothing}
  /\ epoch \in Nat
  /\ accounts \subseteq Account
  /\ \A p \in Procs : pc[p] # "idle" => req[p] # Nothing
  /\ \A p \in Procs : pc[p] \in {"compare", "issue"} => user[p] # Nothing

\* Store.byEmail is a plain Go map: no goroutine touches it while another one writes
\* it, however registrations and logins overlap.
NoConcurrentMapAccess ==
  \A p, q \in Procs :
    p # q /\ pc[p] = "insert" => pc[q] \notin {"check", "insert", "lookup"}

\* Two registrations racing for one e-mail (both hashed before either took the lock)
\* never both create it: within one life of the process an e-mail has one account,
\* and no two accounts ever share an id.
UniqueAccounts ==
  \A a, b \in accounts : a.id = b.id \/ (a.email = b.email /\ a.epoch = b.epoch) => a = b

\* Authenticate compares the hash, and Login signs the token, long after the read lock
\* was dropped: the user they work on is still the one the store holds.
SnapshotCurrent ==
  \A p \in Procs : pc[p] \in {"compare", "issue"} => user[p] = byEmail[req[p].email]

\* Every token ever given out names exactly one account, registered in the same life of
\* the process, and was given to a caller who presented that account's password; so it
\* keeps naming one person after a restart has handed the e-mail to a new account.
TokensBacked ==
  \A t \in tokens : \E a \in accounts :
    /\ a = [id |-> t.sub, email |-> t.email, key |-> t.key, epoch |-> t.epoch]
    /\ \A b \in accounts : b.id = t.sub => b = a

\* Whole-second expiry against a finer clock: a token is never honoured TTL after it was
\* signed, and never called expired before TTL less one second.
VerifyWindow ==
  verdict # Nothing =>
    LET age == verdict.at - verdict.token.at
    IN /\ verdict.answer = "ok" => age < TTL * TicksPerSecond
       /\ verdict.answer = "expired" => age > (TTL - 1) * TicksPerSecond

\* Every request that reached the store is answered, or lost to a restart: no lock is
\* left held and no goroutine is starved of it.
Answered == \A p \in Procs : pc[p] # "idle" ~> pc[p] = "idle"

\* Seen from outside, register and login are the atomic steps of Registry.
outcome ==
  [p \in Procs |->
     CASE pc[p] \in Registering \cup {"rlock", "lookup"} -> "pending"
       [] pc[p] = "compare" ->
            IF user[p].key = Key[req[p].password] THEN "granted" ELSE "denied"
       [] pc[p] = "issue" \/ status[p] = 200 -> "granted"
       [] status[p] = 201 -> "created"
       [] status[p] = 409 -> "taken"
       [] status[p] = 500 -> "failed"
       [] status[p] = 401 -> "denied"
       [] OTHER -> "none"]

Abstract == INSTANCE Registry WITH
  Secrets <- {Key[pw] : pw \in Passwords},
  accounts <- [e \in Emails |-> IF byEmail[e] = Nothing THEN Nothing ELSE byEmail[e].key],
  call <- [p \in Procs |->
             IF req[p] = Nothing THEN Nothing
             ELSE [op |-> req[p].op, email |-> req[p].email, secret |-> Key[req[p].password]]]

RefinesRegistry == Abstract!Spec

\* auth-service/README.md promises of POST /register: 201, or 409 if the user exists.
\* Payloads the handler itself turns down are left out.
RegisterAnswers201Or409 ==
  \A p \in Procs :
    (req[p] # Nothing /\ req[p].op = "register" /\ pc[p] = "idle") =>
      status[p] \in {201, 409, 400}
=============================================================================
