------------------------------ MODULE MCSession ------------------------------
(* Instances of Session for TLC. *)
EXTENDS Session, TLC

CONSTANTS t1, t2

\* Tokens are interchangeable.
TokenSymmetry == Permutations(Token)
=============================================================================
