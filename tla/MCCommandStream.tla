--------------------------- MODULE MCCommandStream ---------------------------
(***************************************************************************)
(* The order command stream, instantiated for TLC.                         *)
(***************************************************************************)
EXTENDS CommandStream, TLC

\* Instances of the execution service are interchangeable.
Symmetry == Permutations(Consumers)
==============================================================================
