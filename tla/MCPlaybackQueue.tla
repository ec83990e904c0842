--------------------------- MODULE MCPlaybackQueue --------------------------
(* A turn of up to three chunks with up to two events each and gaps of one, *)
(* stopped once; a clip lasts longer than the lead.                         *)
EXTENDS PlaybackQueue
=============================================================================
