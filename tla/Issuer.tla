------------------------------- MODULE Issuer -------------------------------
(***************************************************************************)
(* The JWT arithmetic of auth-service (internal/security).  A signed token *)
(* is represented by its claims: signing with the configured secret and    *)
(* checking the HS256 signature (jwt/v5) only decide whether a string is a *)
(* token of this issuer at all; a string that is not one is never decoded. *)
(*                                                                         *)
(* Time is counted in ticks finer than a second because jwt.NumericDate    *)
(* keeps whole seconds only: the expiry is truncated, the clock is not.    *)
(***************************************************************************)
EXTENDS Integers

CONSTANTS
  TicksPerSecond,  \* clock ticks in a second
  TTL              \* Issuer.TTL in seconds; config.Load never yields less than a minute

ASSUME TimeAssumption ==
  /\ TicksPerSecond \in Nat \ {0}
  /\ TTL \in Nat \ {0}

\* jwt.NewNumericDate: down to whole seconds.
NumericDate(t) == t - (t % TicksPerSecond)

\* Issuer.Issue: the ExpiresAt claim of a token signed at clock reading now.
ExpiresAt(now) == NumericDate(now + TTL * TicksPerSecond)

\* Mutant of Decode: the last instant still counts.
DecodeInclusive(claims, now) == IF now <= claims.exp THEN "ok" ELSE "expired"

\* Issuer.Decode: jwt/v5 accepts a token strictly before its expiry, no leeway.
Decode(claims, now) == IF now < claims.exp THEN "ok" ELSE "expired"
=============================================================================
