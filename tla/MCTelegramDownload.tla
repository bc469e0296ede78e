------------------------- MODULE MCTelegramDownload -------------------------
(* Bounds for TLC: an old and a new name of the media, and a size that tells
   nothing, a part and the whole apart. *)
EXTENDS TelegramDownload

CONSTANTS old, new

MCNames == {old, new}
=============================================================================
