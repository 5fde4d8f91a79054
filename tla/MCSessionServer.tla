--------------------------- MODULE MCSessionServer ---------------------------
(***************************************************************************)
(* Instances of SessionServer for TLC.                                     *)
(***************************************************************************)
EXTENDS SessionServerProps, TLC

CONSTANTS s1, s2, s3, a, b

SidSymmetry == Permutations(Sids)
Symmetry    == SidSymmetry \union Permutations(Token)

Budgets     == {-1, 1}     \* "max_tokens" of a request; -1 wraps in uint32_t
ShortBudget == {1}

=============================================================================
