-------------------------------- MODULE MCAccount --------------------------------
(***************************************************************************)
(* Account for TLC: the configuration gives every constant its value.      *)
(***************************************************************************)
EXTENDS Account

================================================================================
