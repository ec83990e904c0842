------------------------------- MODULE MCTurn -------------------------------
(* Turn with two lines: two chunks that can run, fail and be cancelled side *)
(* by side, or one chunk of two lines; with two messages there can be a     *)
(* boundary between them.  Chunks of several pieces are MCAudioOrder's.     *)
EXTENDS Turn
=============================================================================
