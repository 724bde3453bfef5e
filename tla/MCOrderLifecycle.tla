--------------------------- MODULE MCOrderLifecycle ---------------------------
(***************************************************************************)
(* The life of orders, instantiated for TLC.                               *)
(***************************************************************************)
EXTENDS OrderLifecycle, TLC

\* Orders, request handlers and instances are interchangeable.
Symmetry == Permutations(Orders) \union Permutations(Requests) \union Permutations(Workers)
==============================================================================
