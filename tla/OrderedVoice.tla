---------------------------- MODULE OrderedVoice ----------------------------
(***************************************************************************)
(* What the ordering queue of a turn promises, with no lock, no buffer and *)
(* no cursor: chunks of speech are made out of order and heard in order.   *)
(*                                                                         *)
(* A chunk makes pieces until it is closed.  A piece is sent when every    *)
(* earlier piece of its chunk has been sent and every earlier chunk is     *)
(* closed and completely sent.                                             *)
(***************************************************************************)
EXTENDS Integers

CONSTANTS
  MaxChunks,  (* chunks are numbered 0 .. MaxChunks - 1                     *)
  MaxPieces   (* the most pieces one chunk makes                            *)

Chunk == 0 .. (MaxChunks - 1)

VARIABLES
  made,    (* made[c]: how many pieces chunk c has made                     *)
  closed,  (* the chunks that make nothing more                             *)
  sent     (* sent[c]: how many of its pieces have been sent                *)

vars == <<made, closed, sent>>

Init ==
  /\ made = [c \in Chunk |-> 0]
  /\ closed = {}
  /\ sent = [c \in Chunk |-> 0]

Make(c) ==
  /\ c \notin closed
  /\ made[c] < MaxPieces
  /\ made' = [made EXCEPT ![c] = @ + 1]
  /\ UNCHANGED <<closed, sent>>

Close(c) ==
  /\ c \notin closed
  /\ closed' = closed \cup {c}
  /\ UNCHANGED <<made, sent>>

CompletelySent(c) == c \in closed /\ sent[c] = made[c]

Send(c) ==
  /\ sent[c] < made[c]
  /\ \A d \in Chunk : d < c => CompletelySent(d)
  /\ sent' = [sent EXCEPT ![c] = @ + 1]
  /\ UNCHANGED <<made, closed>>

Next == \E c \in Chunk : Make(c) \/ Close(c) \/ Send(c)

Spec == Init /\ [][Next]_vars /\ \A c \in Chunk : WF_vars(Send(c))
=============================================================================
