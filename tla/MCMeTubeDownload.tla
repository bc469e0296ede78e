------------------------- MODULE MCMeTubeDownload -------------------------
(* Instances of MeTubeDownload for TLC. *)
EXTENDS MeTubeDownload

CONSTANTS short, clip, bili

(* Two links to one video, which share a key and the download at MeTube, and a
   short link whose expanded form has another key. *)
SharedUrls ==
  short :> [host |-> <<"youtu", "be">>, path |-> <<"v1">>, v |-> ""] @@
  clip :> [host |-> <<"m", "youtube", "com">>, path |-> <<"shorts", "v1">>, v |-> ""] @@
  bili :> [host |-> <<"b23", "tv">>, path |-> <<"v2">>, v |-> ""]

(* Each link task lives as TaskLifecycle promises, the progress it promises
   included, though links share downloads, MeTube keeps old entries, loses
   answers and goes away: it runs, ends, or goes on to one more retry than those
   charged, never past the limit, and never stays where it is. *)
ShortLife == INSTANCE TaskLifecycle
             WITH MaxRetries <- MaxTries - 1, stage <- Stage(short), attempts <- Retried(short)
ClipLife == INSTANCE TaskLifecycle
            WITH MaxRetries <- MaxTries - 1, stage <- Stage(clip), attempts <- Retried(clip)
BiliLife == INSTANCE TaskLifecycle
            WITH MaxRetries <- MaxTries - 1, stage <- Stage(bili), attempts <- Retried(bili)
LivesAsPromised == ShortLife!LLives /\ ClipLife!LLives /\ BiliLife!LLives
=============================================================================
