-------------------------- MODULE MCServiceCalls ----------------------------
(***************************************************************************)
(* Values for model-checking ServiceCalls.                                 *)
(***************************************************************************)
EXTENDS ServiceCalls, TLC

CONSTANTS e1, e2, e3, locA, locB

\* Two events at one address, and a third at another.
Places == (e1 :> locA) @@ (e2 :> locA) @@ (e3 :> locB)
=============================================================================
