-------------------------------- MODULE MCMemory --------------------------------
(* An array that starts at 0 and one that does not, and functions with one *)
(* parameter of each mode.                                                 *)
EXTENDS Memory, TLC

CONSTANTS a, b, p, q

MCLo      == a :> 0 @@ b :> 1
MCHi      == a :> 0 @@ b :> 1
MCFormals == p :> <<"var">> @@ q :> <<"value">>
================================================================================
