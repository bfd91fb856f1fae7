------------------------------ MODULE Registry ------------------------------
(***************************************************************************)
(* What auth-service promises of its accounts, without locks, hashing or   *)
(* tokens: registering and logging in are single atomic steps on a map     *)
(* from e-mail to secret.  A call is pending until the one step that       *)
(* decides it; a crash forgets the accounts and every call.                *)
(***************************************************************************)
CONSTANTS
  Procs,      \* request-serving goroutines
  Emails,     \* registrable e-mail addresses
  Secrets,    \* what a password is compared by
  NoEmail,    \* an address nobody can register
  Nothing     \* no account, no call: not a secret, not a call

VARIABLES
  accounts,   \* accounts[e] = the secret registered for e, or Nothing
  call,       \* call[p] = the latest call of p, or Nothing
  outcome     \* outcome[p] = the fate of that call

vars == <<accounts, call, outcome>>

Calls == [op : {"register", "login"}, email : Emails \cup {NoEmail}, secret : Secrets]
Outcomes == {"none", "pending", "created", "taken", "failed", "granted", "denied"}

Init ==
  /\ accounts = [e \in Emails |-> Nothing]
  /\ call = [p \in Procs |-> Nothing]
  /\ outcome = [p \in Procs |-> "none"]

Invoke(p, c) ==
  /\ outcome[p] # "pending"
  /\ call' = [call EXCEPT ![p] = c]
  /\ outcome' = [outcome EXCEPT ![p] = "pending"]
  /\ UNCHANGED accounts

\* A request turned away before it becomes a call.
Dismiss(p) ==
  /\ outcome[p] # "pending"
  /\ outcome' = [outcome EXCEPT ![p] = "none"]
  /\ UNCHANGED <<accounts, call>>

Decide(p, op, o) ==
  /\ outcome[p] = "pending"
  /\ call[p].op = op
  /\ outcome' = [outcome EXCEPT ![p] = o]
  /\ UNCHANGED call

Registered(c) == c.email \in Emails /\ accounts[c.email] # Nothing
Matches(c) == c.email \in Emails /\ accounts[c.email] = c.secret

Create(p) ==
  /\ Decide(p, "register", "created")
  /\ call[p].email \in Emails
  /\ ~ Registered(call[p])
  /\ accounts' = [accounts EXCEPT ![call[p].email] = call[p].secret]

Refuse(p) ==
  /\ Decide(p, "register", "taken")
  /\ Registered(call[p])
  /\ UNCHANGED accounts

Fail(p) ==
  /\ Decide(p, "register", "failed")
  /\ UNCHANGED accounts

Grant(p) ==
  /\ Decide(p, "login", "granted")
  /\ Matches(call[p])
  /\ UNCHANGED accounts

Deny(p) ==
  /\ Decide(p, "login", "denied")
  /\ ~ Matches(call[p])
  /\ UNCHANGED accounts

Crash ==
  /\ accounts' = [e \in Emails |-> Nothing]
  /\ call' = [p \in Procs |-> Nothing]
  /\ outcome' = [p \in Procs |-> "none"]

Next ==
  \/ \E p \in Procs :
       \/ \E c \in Calls : Invoke(p, c)
       \/ Dismiss(p) \/ Create(p) \/ Refuse(p) \/ Fail(p) \/ Grant(p) \/ Deny(p)
  \/ Crash

Spec == Init /\ [][Next]_vars
=============================================================================
