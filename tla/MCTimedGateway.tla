--------------------------- MODULE MCTimedGateway ---------------------------
(* Small instances of TimedGateway for TLC.                                 *)
EXTENDS TimedGateway, TLC

CONSTANTS t1, u1

MCOwner == t1 :> u1
MCExpiry == t1 :> 2

Ask(route, token) == [route |-> route, token |-> token, claimed |-> Nothing]

MCQueries ==
  {Ask("mine", t1), Ask("mine", Nothing), Ask("search", Nothing), Ask("other", Nothing)}

Symmetry == Permutations(Requests)
=============================================================================
