----------------------------- MODULE MCResults -----------------------------
(***************************************************************************)
(* The instance of Results for TLC: two numbers that tell the places of an *)
(* offset apart, and a negative one.                                       *)
(***************************************************************************)
EXTENDS Results, TLC

MCNumbers == ("7" :> 7) @@ ("30" :> 30) @@ ("-5" :> -5)
=============================================================================
