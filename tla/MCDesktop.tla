------------------------------- MODULE MCDesktop -------------------------------
(***************************************************************************)
(* Two clients below a shell whose process ID may be used again.           *)
(***************************************************************************)
EXTENDS Desktop, TLC

CONSTANTS c1, c2

MCProcessOf == c1 :> 3 @@ c2 :> 4

==============================================================================
