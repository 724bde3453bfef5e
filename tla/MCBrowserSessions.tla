--------------------------- MODULE MCBrowserSessions ---------------------------
(***************************************************************************)
(* Refresh sessions, instantiated for TLC.                                 *)
(***************************************************************************)
EXTENDS BrowserSessions, TLC

\* Tabs and calls are interchangeable.
Symmetry == Permutations(Tabs) \union Permutations(Calls)
==============================================================================
