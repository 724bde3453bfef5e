------------------------------ MODULE MCTerminal ------------------------------
(***************************************************************************)
(* Terminal for TLC.  The fetches of the page are interchangeable.         *)
(***************************************************************************)
EXTENDS Terminal, TLC

Symmetry == Permutations(Slots)

================================================================================
