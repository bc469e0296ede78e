---------------------------- MODULE MCLoginFlow ----------------------------
(* Instances of LoginFlow for TLC. *)
EXTENDS LoginFlow

CONSTANTS tab1, tab2, boot
=============================================================================
