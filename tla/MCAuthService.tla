----------------------------- MODULE MCAuthService -----------------------------
(***************************************************************************)
(* Instances of AuthService for TLC: symmetry.                             *)
(***************************************************************************)
EXTENDS AuthServiceProofs, TLC

\* The tokens, the requests and the passwords are interchangeable.
TokenSymmetry ==
  Permutations(Tokens) \cup Permutations(Requests) \cup Permutations(Passwords)
================================================================================
