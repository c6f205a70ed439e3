-------------------------- MODULE MCFanControls ---------------------------
(* Two workers, of which the code runs one at a time, and one click: the   *)
(* two questions that can meet in the dialog are the slider's and that of  *)
(* a button.                                                               *)
EXTENDS FanControls
=============================================================================
