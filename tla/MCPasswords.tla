----------------------------- MODULE MCPasswords -----------------------------
(***************************************************************************)
(* Small instances of Passwords for TLC: words are interchangeable.        *)
(***************************************************************************)
EXTENDS Passwords

Symmetry == Permutations(Words)

=============================================================================
