---------------------------- MODULE MCController ----------------------------
(***************************************************************************)
(* Two processes of a solution, and a controller that may ask for a third.   *)
(***************************************************************************)
EXTENDS Controller

=============================================================================
