--------------------------- MODULE MCParamBridge ---------------------------
(* Small instances of ParamBridge. *)
EXTENDS ParamBridge

CONSTANTS gain, freq   \* two parameter ids

MCParam    == {gain, freq}
MCOneParam == {gain}
============================================================================
