---------------------------- MODULE MCConditions ----------------------------
(* An instance of Conditions for TLC. *)
EXTENDS Conditions

ThreeTexts == 0..2
TwoNumbers == 0..1
===============================================================================
