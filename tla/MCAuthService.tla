--------------------------- MODULE MCAuthService ---------------------------
(* Model checking of AuthService: one token slot, a default password and   *)
(* two others, and a flashed file that may belong to another user.         *)
EXTENDS AuthService, TLC

CONSTANTS t1, t2, pw1, pw2, default, admin, other

MCTokens    == {t1, t2}
MCPasswords == {default, pw1, pw2}
MCUsernames == {admin, other}

(* Tokens and the passwords other than the default are interchangeable. *)
Symmetry == Permutations(MCTokens) \cup Permutations({pw1, pw2})

=============================================================================
