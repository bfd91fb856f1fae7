---------------------------- MODULE MCPyGateway -----------------------------
(* Small instances of PyGateway for TLC.                                    *)
EXTENDS PyGateway, TLC

CONSTANTS t1, t2, u1, u2

MCOwner == (t1 :> u1) @@ (t2 :> u2)

Ask(route, token, claimed) == [route |-> route, token |-> token, claimed |-> claimed]

\* One query of each kind; the callers of /my-items also claim to be somebody.
MCQueries ==
  {Ask("items", t1, Nothing), Ask("mine", t1, u2), Ask("mine", t2, Nothing),
   Ask("mine", Nothing, u1), Ask("search", Nothing, Nothing), Ask("other", Nothing, Nothing)}

\* The routes that call both upstreams, one of them, or none.
MCFewQueries == {Ask("items", t1, Nothing), Ask("mine", t1, u2)}

\* Requests are alike where total timeouts interrupt all of them or none.
Symmetry == Permutations(LateTimeouts) \cup Permutations(Requests \ LateTimeouts)
=============================================================================
