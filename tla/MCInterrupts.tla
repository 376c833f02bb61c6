---------------------------- MODULE MCInterrupts ----------------------------
(***************************************************************************)
(* The timer, the keyboard, a line of the master behind the cascade, and   *)
(* the mouse and a disk on the slave.                                      *)
(***************************************************************************)
EXTENDS Interrupts

MCBiosMasks == <<{3, 4, 5, 7}, {1, 2, 3, 5}>>
=============================================================================
