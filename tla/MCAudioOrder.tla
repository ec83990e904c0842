---------------------------- MODULE MCAudioOrder ----------------------------
(* AudioOrder with three chunks of up to two pieces: a chunk can be ahead   *)
(* of, at and behind the cursor at the same time, and be caught half sent.  *)
EXTENDS AudioOrder
=============================================================================
