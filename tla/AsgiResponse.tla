---------------------------- MODULE AsgiResponse ----------------------------
(***************************************************************************)
(* What an ASGI application promises the server of each HTTP request: one  *)
(* http.response.start, then body messages, the last of them marked as     *)
(* such, and nothing after it.  A request may also go unanswered.          *)
(***************************************************************************)
EXTENDS Sequences

CONSTANTS
  Requests,   \* HTTP requests
  Statuses    \* HTTP status codes

VARIABLE sent   \* sent[r] = the messages sent in answer to r

Start(code) == [type |-> "start", status |-> code]
Chunk == [type |-> "chunk", status |-> 0]
End == [type |-> "end", status |-> 0]

Send(r, messages) == sent' = [sent EXCEPT ![r] = @ \o messages]

Open(r) == sent[r] # <<>> /\ sent[r][Len(sent[r])] # End

Init == sent = [r \in Requests |-> <<>>]

Begin(r, code) == sent[r] = <<>> /\ Send(r, <<Start(code)>>)

Continue(r) == Open(r) /\ Send(r, <<Chunk>>)

Finish(r) == Open(r) /\ Send(r, <<End>>)

\* Start and only body message sent back to back.
Reply(r, code) == sent[r] = <<>> /\ Send(r, <<Start(code), End>>)

Next ==
  \E r \in Requests :
    \/ \E code \in Statuses : Begin(r, code) \/ Reply(r, code)
    \/ Continue(r)
    \/ Finish(r)

Spec == Init /\ [][Next]_sent
=============================================================================
