--------------------------- MODULE MCNonLocalExit ---------------------------
(***************************************************************************)
(* NonLocalExit for TLC.                                                   *)
(***************************************************************************)
EXTENDS NonLocalExit

(* A form in which an exit went astray ends: what else it may do is not      *)
(* looked at, what it leaves to the next form is.                          *)
FormEnds == astray => Close \/ EnterToplevel
=============================================================================
