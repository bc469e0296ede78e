------------------------------- MODULE MCChat -------------------------------
(* One chat, a message with one link and one with two. *)
EXTENDS ChatServices

CONSTANTS m1, m2, chat

Album == [m \in Messages |-> IF m = m2 THEN 2 ELSE 1]
OneChat == [m \in Messages |-> chat]
=============================================================================
