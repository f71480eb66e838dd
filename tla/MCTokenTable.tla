---------------------------- MODULE MCTokenTable ----------------------------
(* Model checking of TokenTable: three slots, so that a login can find the *)
(* table empty, partly expired and full, and can displace twice.           *)
EXTENDS TokenTable, TLC

CONSTANTS t1, t2, t3, t4, t5

MCTokens == {t1, t2, t3, t4, t5}

(* Tokens are drawn at random: any permutation gives the same behaviours. *)
Symmetry == Permutations(MCTokens)

=============================================================================
