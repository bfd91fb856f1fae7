--------------------------- MODULE MCAuthService ----------------------------
(* Small instances of AuthService for TLC.                                  *)
EXTENDS AuthService, TLC

\* Two ordinary passwords, one of exactly the 72 bytes bcrypt reads, one that only
\* differs from it behind them, and one the handler finds too short.
MCPasswords == {"pen", "hunter22", "72", "72+"}
MCLength == [pw \in MCPasswords |->
  CASE pw = "pen" -> 3 [] pw = "hunter22" -> 8 [] pw = "72" -> 72 [] pw = "72+" -> 73]
MCKey == [pw \in MCPasswords |->
  CASE pw = "pen" -> 1 [] pw = "hunter22" -> 2 [] OTHER -> 3]

MCOne == {"hunter22"}
MCEdges == {"pen", "72", "72+"}
MCTwo == {"hunter22", "72"}

Symmetry == Permutations(Procs)
=============================================================================
