---------------------------- MODULE ChatServices ----------------------------
(***************************************************************************)
(* The two services the event loop of the application offers to chats, the *)
(* notices about new tasks and the command bot, over one life of the       *)
(* process and the next: a crash takes both.                               *)
(***************************************************************************)
EXTENDS EnqueueNotices, BotPolling

ChatInit == NoticesInit /\ BotInit

ChatNext ==
  \/ NoticesNext /\ UNCHANGED botVars
  \/ BotNext /\ UNCHANGED noticeVars
  \/ NoticesCrash /\ BotCrash

chatVars == <<noticeVars, botVars>>
ChatSafety == ChatInit /\ [][ChatNext]_chatVars
ChatSpec == ChatSafety /\ NoticesFairness

(* Type invariant of both. *)
ChatTypeOK == NoticesTypeOK /\ BotTypeOK
=============================================================================
