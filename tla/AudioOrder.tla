----------------------------- MODULE AudioOrder -----------------------------
(***************************************************************************)
(* _AudioOrder of pipeline.py: synthesis workers hand it pieces of audio   *)
(* in whatever order they finish, and it hands them to its sink strictly   *)
(* by chunk index.                                                         *)
(*                                                                         *)
(* The worker of chunk c calls piece(c, data) any number of times and then *)
(* finish(c) once.  Both take the lock, record the call and run _release   *)
(* under the lock.  _release is modelled one iteration at a time, because  *)
(* the sink it calls reads a flag that other threads set meanwhile: the    *)
(* thread that holds the lock hands over one piece (HandOver), moves the   *)
(* cursor past a finished chunk (Advance), or leaves the loop and the lock *)
(* (Unlock).  The bytes of a piece are abstracted to its position in its   *)
(* chunk.                                                                  *)
(***************************************************************************)
EXTENDS Integers, Sequences

CONSTANTS
  MaxChunks,  (* chunks are numbered 0 .. MaxChunks - 1                     *)
  MaxPieces   (* the most pieces one chunk makes: bounds the model          *)

ASSUME OrderAssumption == MaxChunks \in Nat /\ MaxPieces \in Nat

Chunk == 0 .. (MaxChunks - 1)
Cursor == 0 .. MaxChunks
Nobody == -1

VARIABLES
  next,      (* _next: the chunk whose audio is being handed over           *)
  finished,  (* _finished: the chunks that will produce nothing more        *)
  waiting,   (* _waiting[c]: the pieces of c that have arrived and were not *)
             (* handed over                                                 *)
  holder,    (* who is inside _lock                                         *)
  made,      (* history: how many pieces each chunk has passed to piece()   *)
  handed     (* history: what the sink was called with, in order            *)

vars == <<next, finished, waiting, holder, made, handed>>

Init ==
  /\ next = 0
  /\ finished = {}
  /\ waiting = [c \in Cursor |-> <<>>]
  /\ holder = Nobody
  /\ made = [c \in Chunk |-> 0]
  /\ handed = <<>>

(* with self._lock: self._waiting.setdefault(idx, []).append(data)          *)
Piece(c) ==
  /\ holder = Nobody
  /\ c \notin finished
  /\ made[c] < MaxPieces
  /\ made' = [made EXCEPT ![c] = @ + 1]
  /\ waiting' = [waiting EXCEPT ![c] = Append(@, made[c] + 1)]
  /\ holder' = c
  /\ UNCHANGED <<next, finished, handed>>

(* with self._lock: self._finished.add(idx)                                 *)
Finish(c) ==
  /\ holder = Nobody
  /\ c \notin finished
  /\ finished' = finished \cup {c}
  /\ holder' = c
  /\ UNCHANGED <<next, waiting, made, handed>>

(* Bugs the properties below are there to catch.                            *)

(* The pieces are handed over whatever the cursor says.                     *)
HandOverOwn(c) ==
  /\ holder = c
  /\ waiting[c] # <<>>
  /\ handed' = Append(handed, [idx |-> c, piece |-> Head(waiting[c])])
  /\ waiting' = [waiting EXCEPT ![c] = Tail(@)]
  /\ UNCHANGED <<next, finished, holder, made>>

(* The lock is let go with the cursor at a finished chunk: what is ready    *)
(* behind it waits for the next caller, and there may be none.              *)
UnlockEarly(c) ==
  /\ holder = c
  /\ waiting[next] = <<>>
  /\ holder' = Nobody
  /\ UNCHANGED <<next, finished, waiting, made, handed>>

(* The buffer is dropped with the chunk although it was not handed over.    *)
AdvanceDropping(c) ==
  /\ holder = c
  /\ next \in finished
  /\ waiting' = [waiting EXCEPT ![next] = <<>>]
  /\ next' = next + 1
  /\ UNCHANGED <<finished, holder, made, handed>>

(* The newest piece is sent and the older ones are left in the buffer.      *)
HandOverNewest(c) ==
  /\ holder = c
  /\ waiting[next] # <<>>
  /\ handed' =
       Append(handed, [idx |-> next, piece |-> waiting[next][Len(waiting[next])]])
  /\ waiting' = [waiting EXCEPT ![next] = SubSeq(@, 1, Len(@) - 1)]
  /\ UNCHANGED <<next, finished, holder, made>>

(* One call of the sink inside _release.  The code clears the list after    *)
(* the last of them; nobody else can look in between.                       *)
HandOver(c) ==
  /\ holder = c
  /\ waiting[next] # <<>>
  /\ handed' = Append(handed, [idx |-> next, piece |-> Head(waiting[next])])
  /\ waiting' = [waiting EXCEPT ![next] = Tail(@)]
  /\ UNCHANGED <<next, finished, holder, made>>

(* if self._next in self._finished: pop, self._next += 1, continue          *)
Advance(c) ==
  /\ holder = c
  /\ waiting[next] = <<>>
  /\ next \in finished
  /\ next' = next + 1
  /\ UNCHANGED <<finished, waiting, holder, made, handed>>

(* break, and the with block ends                                           *)
Unlock(c) ==
  /\ holder = c
  /\ waiting[next] = <<>>
  /\ next \notin finished
  /\ holder' = Nobody
  /\ UNCHANGED <<next, finished, waiting, made, handed>>

Release(c) == HandOver(c) \/ Advance(c) \/ Unlock(c)

Next == \E c \in Chunk : Piece(c) \/ Finish(c) \/ Release(c)

(* Fairness: a thread inside the lock is never blocked, so it gets out of   *)
(* the loop.  Nothing makes a worker call piece() or finish().              *)
Spec == Init /\ [][Next]_vars /\ \A c \in Chunk : WF_vars(Release(c))

-----------------------------------------------------------------------------
HandedPiece == [idx : Chunk, piece : 1 .. MaxPieces]

TypeOK ==
  /\ next \in Cursor
  /\ finished \in SUBSET Chunk
  /\ waiting \in [Cursor -> Seq(1 .. MaxPieces)]
  /\ holder \in Chunk \cup {Nobody}
  /\ made \in [Chunk -> 0 .. MaxPieces]
  /\ handed \in Seq(HandedPiece)

(* How many pieces of each chunk the sink has been given.                   *)
sent == [c \in Chunk |-> made[c] - Len(waiting[c])]

Before(a, b) ==
  \/ a.idx < b.idx
  \/ a.idx = b.idx /\ a.piece < b.piece

(* Audio leaves strictly in chunk order, and in the order it was made       *)
(* within a chunk, however the workers interleave (_AudioOrder, and the     *)
(* first invariant of the module docstring).                                *)
StrictOrder ==
  \A i, j \in DOMAIN handed : i < j => Before(handed[i], handed[j])

(* No sound is left behind: once nobody is inside the lock, a chunk all of  *)
(* whose predecessors have finished has nothing in the buffer.  Its         *)
(* violation is the voice that stops mid-sentence of the class docstring.   *)
NothingStranded ==
  holder = Nobody =>
    \A c \in Chunk : (\A d \in Chunk : d < c => d \in finished) => waiting[c] = <<>>

(* Nothing is lost, doubled or made up: the sink has been given exactly the *)
(* pieces that were made and are not in the buffer.                         *)
NothingLost ==
  \A c \in Chunk, k \in 1 .. MaxPieces :
    (\E i \in DOMAIN handed : handed[i] = [idx |-> c, piece |-> k]) <=> k <= sent[c]

(* The inductive invariant.  CursorInv: chunks behind the cursor are over   *)
(* and empty, chunks ahead of it have sent nothing, and the cursor rests    *)
(* only where there is nothing to do.  BufferInv: a buffer is the tail end  *)
(* of what its chunk made.  HandedInv: the sink has been given nothing from *)
(* beyond the cursor or beyond what has left the buffer.                    *)
CursorInv ==
  /\ waiting[MaxChunks] = <<>>
  /\ \A c \in Chunk : c < next => c \in finished /\ waiting[c] = <<>>
  /\ \A c \in Chunk : next < c => sent[c] = 0
  /\ holder = Nobody => waiting[next] = <<>> /\ next \notin finished

BufferInv ==
  \A c \in Chunk :
    /\ Len(waiting[c]) <= made[c]
    /\ \A k \in 1 .. Len(waiting[c]) : waiting[c][k] = sent[c] + k

HandedInv ==
  \A i \in DOMAIN handed :
    /\ handed[i].idx <= next
    /\ handed[i].piece <= sent[handed[i].idx]

OrderInv == TypeOK /\ CursorInv /\ BufferInv /\ HandedInv /\ StrictOrder /\ NothingLost

(* _AudioOrder implements the queue without lock and buffer of OrderedVoice:*)
(* a chunk's pieces count as sent when they are no longer in the buffer.    *)
Voice == INSTANCE OrderedVoice WITH
           closed <- finished

ImplementsVoice == Voice!Spec
=============================================================================
