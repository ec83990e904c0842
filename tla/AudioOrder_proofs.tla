-------------------------- MODULE AudioOrder_proofs --------------------------
(***************************************************************************)
(* Proofs about the ordering queue, for any number of chunks and pieces.   *)
(* The argument is the inductive invariant OrderInv: what a thread finds   *)
(* when it takes the lock is a cursor with nothing to do, whatever the     *)
(* other threads did before.                                               *)
(***************************************************************************)
EXTENDS AudioOrder, SequenceTheorems, TLAPS

(* The three kinds of sequence step the actions take.                       *)
LEMMA AppendFacts ==
  ASSUME NEW S, NEW s \in Seq(S), NEW e \in S
  PROVE  /\ Append(s, e) \in Seq(S)
         /\ Append(s, e) # <<>>
         /\ Len(Append(s, e)) = Len(s) + 1
         /\ \A i \in 1 .. Len(s) : Append(s, e)[i] = s[i]
         /\ Append(s, e)[Len(s) + 1] = e
  OBVIOUS

LEMMA TailFacts ==
  ASSUME NEW S, NEW s \in Seq(S), s # <<>>
  PROVE  /\ Tail(s) \in Seq(S)
         /\ Len(s) \in Nat \ {0}
         /\ Len(Tail(s)) = Len(s) - 1
         /\ \A i \in 1 .. Len(Tail(s)) : Tail(s)[i] = s[i + 1]
         /\ Head(s) = s[1]
         /\ Head(s) \in S
  BY HeadTailProperties, EmptySeq

LEMMA OneFewer ==
  ASSUME NEW a \in Int, NEW b \in Int
  PROVE  a - (b - 1) = (a - b) + 1
  OBVIOUS

LEMMA NotBelowZero ==
  ASSUME NEW a \in Int, NEW b \in Int, b <= a
  PROVE  a - b \in Nat
  OBVIOUS

(* Every variable keeps its type.                                           *)
LEMMA TypeStep == TypeOK /\ CursorInv /\ [Next]_vars => TypeOK'
<1> SUFFICES ASSUME TypeOK, CursorInv, [Next]_vars PROVE TypeOK'
  OBVIOUS
<1> USE OrderAssumption DEF TypeOK, Chunk, Cursor, Nobody
<1>1. ASSUME NEW c \in Chunk, Piece(c) PROVE TypeOK'
  <2>1. made[c] + 1 \in 1 .. MaxPieces
    BY <1>1 DEF Piece
  <2>2. Append(waiting[c], made[c] + 1) \in Seq(1 .. MaxPieces)
    BY <2>1
  <2>3. /\ made' \in [Chunk -> 0 .. MaxPieces]
        /\ waiting' \in [Cursor -> Seq(1 .. MaxPieces)]
    BY <1>1, <2>1, <2>2 DEF Piece
  <2> QED
    BY <1>1, <2>3 DEF Piece
<1>2. ASSUME NEW c \in Chunk, Finish(c) PROVE TypeOK'
  BY <1>2 DEF Finish
<1>3. ASSUME NEW c \in Chunk, HandOver(c) PROVE TypeOK'
  <2>1. next \in Chunk
    BY <1>3 DEF HandOver, CursorInv
  <2>2. /\ Head(waiting[next]) \in 1 .. MaxPieces
        /\ Tail(waiting[next]) \in Seq(1 .. MaxPieces)
    BY <1>3, TailFacts DEF HandOver
  <2>3. [idx |-> next, piece |-> Head(waiting[next])] \in HandedPiece
    BY <2>1, <2>2 DEF HandedPiece
  <2>4. /\ waiting' \in [Cursor -> Seq(1 .. MaxPieces)]
        /\ handed' \in Seq(HandedPiece)
    BY <1>3, <2>1, <2>2, <2>3, AppendFacts DEF HandOver
  <2> QED
    BY <1>3, <2>4 DEF HandOver
<1>4. ASSUME NEW c \in Chunk, Advance(c) PROVE TypeOK'
  <2>1. next \in Chunk /\ next' = next + 1
    BY <1>4 DEF Advance
  <2>2. next' \in Cursor
    BY <2>1
  <2> QED
    BY <1>4, <2>2 DEF Advance
<1>5. ASSUME NEW c \in Chunk, Unlock(c) PROVE TypeOK'
  BY <1>5 DEF Unlock
<1>6. CASE UNCHANGED vars
  BY <1>6 DEF vars, HandedPiece
<1> QED
  BY <1>1, <1>2, <1>3, <1>4, <1>5, <1>6 DEF Next, Release

(* How the actions move the number of pieces sent: only a hand-over does,   *)
(* and only for the chunk at the cursor.                                    *)
LEMMA SentSteps ==
  ASSUME TypeOK, NEW c \in Chunk
  PROVE  /\ sent \in [Chunk -> Int]
         /\ Piece(c) \/ Finish(c) \/ Advance(c) \/ Unlock(c) => sent' = sent
         /\ HandOver(c) /\ next \in Chunk => sent' = [sent EXCEPT ![next] = @ + 1]
<1> USE OrderAssumption DEF TypeOK, Chunk, Cursor, sent
<1>1. ASSUME Piece(c) PROVE sent' = sent
  <2>1. /\ waiting' = [waiting EXCEPT ![c] = Append(@, made[c] + 1)]
        /\ made' = [made EXCEPT ![c] = @ + 1]
    BY <1>1 DEF Piece
  <2>2. Len(Append(waiting[c], made[c] + 1)) = Len(waiting[c]) + 1
    BY <1>1, AppendFacts DEF Piece
  <2>3. ASSUME NEW d \in Chunk
        PROVE  made'[d] - Len(waiting'[d]) = made[d] - Len(waiting[d])
    <3>1. CASE d = c
      BY <2>1, <2>2, <3>1
    <3>2. CASE d # c
      BY <2>1, <3>2
    <3> QED
      BY <3>1, <3>2
  <2> QED
    BY <2>3
<1>2. ASSUME HandOver(c), next \in Chunk
      PROVE  sent' = [sent EXCEPT ![next] = @ + 1]
  <2>1. waiting' = [waiting EXCEPT ![next] = Tail(@)] /\ made' = made
    BY <1>2 DEF HandOver
  <2>2. /\ waiting'[next] = Tail(waiting[next])
        /\ \A d \in Chunk : d # next => waiting'[d] = waiting[d]
    BY <1>2, <2>1
  <2>3. Len(waiting'[next]) = Len(waiting[next]) - 1 /\ Len(waiting[next]) \in Nat
    BY <1>2, <2>2, TailFacts DEF HandOver
  <2>4. /\ sent \in [Chunk -> Int]
        /\ sent[next] = made[next] - Len(waiting[next])
        /\ \A d \in Chunk : d # next => made'[d] - Len(waiting'[d]) = sent[d]
    BY <1>2, <2>1, <2>2
  <2>5. made'[next] - Len(waiting'[next]) = sent[next] + 1
    <3>1. made[next] \in Int /\ made'[next] = made[next]
      BY <1>2, <2>1
    <3>2. made[next] - (Len(waiting[next]) - 1) = (made[next] - Len(waiting[next])) + 1
      <4>1. made[next] \in Int /\ Len(waiting[next]) \in Int
        BY <2>3, <3>1
      <4> QED
        BY ONLY <4>1, OneFewer
    <3> HIDE DEF sent
    <3> QED
      BY <2>3, <2>4, <3>1, <3>2
  <2>6. ASSUME NEW d \in Chunk
        PROVE  made'[d] - Len(waiting'[d]) = [sent EXCEPT ![next] = @ + 1][d]
    <3> HIDE DEF sent
    <3> QED
      BY <2>4, <2>5
  <2>7. [sent EXCEPT ![next] = @ + 1] = [d \in Chunk |-> [sent EXCEPT ![next] = @ + 1][d]]
    <3> HIDE DEF sent
    <3> QED
      BY <2>4
  <2> QED
    BY <2>6, <2>7
<1>3. ASSUME Finish(c) \/ Advance(c) \/ Unlock(c) PROVE sent' = sent
  BY <1>3 DEF Finish, Advance, Unlock
<1> QED
  BY <1>1, <1>2, <1>3

(* The cursor: behind it all is over and empty, ahead of it nothing has     *)
(* been sent, and nobody leaves it where there is something to do.          *)
LEMMA CursorStep ==
  TypeOK /\ CursorInv /\ BufferInv /\ [Next]_vars => CursorInv'
<1> SUFFICES ASSUME TypeOK, CursorInv, BufferInv, [Next]_vars PROVE CursorInv'
  OBVIOUS
<1> USE OrderAssumption DEF TypeOK, Chunk, Cursor, Nobody
<1>1. ASSUME NEW c \in Chunk, Piece(c) PROVE CursorInv'
  <2>1. \A d \in Cursor : d # c => waiting'[d] = waiting[d]
    BY <1>1 DEF Piece
  <2>2. c \notin finished /\ holder' = c /\ next' = next /\ finished' = finished
    BY <1>1 DEF Piece
  <2>3. sent' = sent
    BY <1>1, SentSteps
  <2>4. waiting'[MaxChunks] = <<>>
    BY <2>1 DEF CursorInv
  <2>5. ASSUME NEW d \in Chunk, d < next' PROVE d \in finished' /\ waiting'[d] = <<>>
    <3>1. d \in finished /\ waiting[d] = <<>>
      BY <2>2, <2>5 DEF CursorInv
    <3>2. d # c /\ d \in Cursor
      BY <2>2, <3>1
    <3> QED
      BY <2>1, <2>2, <3>1, <3>2
  <2>6. \A d \in Chunk : next' < d => sent'[d] = 0
    BY <2>2, <2>3 DEF CursorInv
  <2>7. holder' # Nobody
    BY <2>2
  <2> QED
    BY <2>4, <2>5, <2>6, <2>7 DEF CursorInv
<1>2. ASSUME NEW c \in Chunk, Finish(c) PROVE CursorInv'
  <2>1. sent' = sent
    BY <1>2, SentSteps
  <2>2. /\ finished' = finished \cup {c}
        /\ holder' = c /\ next' = next /\ waiting' = waiting
    BY <1>2 DEF Finish
  <2> QED
    BY <2>1, <2>2 DEF CursorInv
<1>3. ASSUME NEW c \in Chunk, HandOver(c) PROVE CursorInv'
  <2>1. next \in Chunk
    BY <1>3 DEF HandOver, CursorInv
  <2>2. sent' = [sent EXCEPT ![next] = @ + 1] /\ sent \in [Chunk -> Int]
    BY <1>3, <2>1, SentSteps
  <2>3. \A d \in Cursor : d # next => waiting'[d] = waiting[d]
    BY <1>3 DEF HandOver
  <2>4. holder' = c /\ next' = next /\ finished' = finished
    BY <1>3 DEF HandOver
  <2>5. waiting'[MaxChunks] = <<>>
    BY <2>1, <2>3 DEF CursorInv
  <2>6. ASSUME NEW d \in Chunk, d < next' PROVE d \in finished' /\ waiting'[d] = <<>>
    <3>1. d < next /\ d # next /\ d \in Cursor
      BY <2>1, <2>4, <2>6
    <3> QED
      BY <2>3, <2>4, <3>1 DEF CursorInv
  <2>7. ASSUME NEW d \in Chunk, next' < d PROVE sent'[d] = 0
    <3>1. next < d /\ d # next
      BY <2>1, <2>4, <2>7
    <3> QED
      BY <2>2, <3>1 DEF CursorInv
  <2> QED
    BY <2>4, <2>5, <2>6, <2>7 DEF CursorInv
<1>4. ASSUME NEW c \in Chunk, Advance(c) PROVE CursorInv'
  <2>1. sent' = sent
    BY <1>4, SentSteps
  <2>2. /\ waiting[next] = <<>> /\ next \in finished /\ next' = next + 1
        /\ finished' = finished /\ waiting' = waiting /\ holder' = c
    BY <1>4 DEF Advance
  <2>3. \A d \in Chunk : d < next' => d = next \/ d < next
    BY <2>2
  <2>4. \A d \in Chunk : next' < d => next < d
    BY <2>2
  <2>5. ASSUME NEW d \in Chunk, d < next' PROVE d \in finished' /\ waiting'[d] = <<>>
    <3>1. CASE d = next
      BY <2>2, <3>1
    <3>2. CASE d < next
      BY <2>2, <3>2 DEF CursorInv
    <3> QED
      BY <2>3, <2>5, <3>1, <3>2
  <2>6. ASSUME NEW d \in Chunk, next' < d PROVE sent'[d] = 0
    <3>1. next < d
      BY <2>4, <2>6
    <3> QED
      BY <2>1, <3>1 DEF CursorInv
  <2>7. waiting'[MaxChunks] = <<>> /\ holder' # Nobody
    BY <2>2 DEF CursorInv
  <2> HIDE DEF Chunk, TypeOK
  <2> QED
    BY <2>5, <2>6, <2>7 DEF CursorInv
<1>5. ASSUME NEW c \in Chunk, Unlock(c) PROVE CursorInv'
  <2>1. sent' = sent
    BY <1>5, SentSteps
  <2>2. /\ waiting[next] = <<>> /\ next \notin finished /\ next' = next
        /\ finished' = finished /\ waiting' = waiting
    BY <1>5 DEF Unlock
  <2> QED
    BY <2>1, <2>2 DEF CursorInv
<1>6. CASE UNCHANGED vars
  <2>1. /\ next' = next /\ finished' = finished /\ waiting' = waiting
        /\ holder' = holder /\ sent' = sent
    BY <1>6 DEF vars, sent
  <2> QED
    BY <2>1 DEF CursorInv
<1> QED
  BY <1>1, <1>2, <1>3, <1>4, <1>5, <1>6 DEF Next, Release

(* The buffers: each holds the tail end of what its chunk made.             *)
LEMMA BufferStep ==
  TypeOK /\ CursorInv /\ BufferInv /\ [Next]_vars => BufferInv'
<1> SUFFICES ASSUME TypeOK, CursorInv, BufferInv, [Next]_vars PROVE BufferInv'
  OBVIOUS
<1> USE OrderAssumption DEF TypeOK, Chunk, Cursor, Nobody
<1>1. ASSUME NEW c \in Chunk, Piece(c) PROVE BufferInv'
  <2>1. sent' = sent
    BY <1>1, SentSteps
  <2>2. /\ waiting'[c] = Append(waiting[c], made[c] + 1)
        /\ made'[c] = made[c] + 1
        /\ \A d \in Chunk : d # c => waiting'[d] = waiting[d] /\ made'[d] = made[d]
    BY <1>1 DEF Piece
  <2>3. /\ Len(waiting'[c]) = Len(waiting[c]) + 1
        /\ \A k \in 1 .. Len(waiting[c]) : waiting'[c][k] = waiting[c][k]
        /\ waiting'[c][Len(waiting[c]) + 1] = made[c] + 1
    BY <1>1, <2>2, AppendFacts DEF Piece
  <2>4. made[c] + 1 = sent[c] + (Len(waiting[c]) + 1)
    BY DEF sent
  <2>5. ASSUME NEW k \in 1 .. Len(waiting'[c]) PROVE waiting'[c][k] = sent[c] + k
    <3>1. CASE k = Len(waiting[c]) + 1
      BY <2>3, <2>4, <3>1
    <3>2. CASE k \in 1 .. Len(waiting[c])
      BY <2>3, <3>2 DEF BufferInv
    <3> QED
      BY <2>3, <3>1, <3>2
  <2>6. Len(waiting'[c]) <= made'[c]
    BY <2>2, <2>3 DEF BufferInv
  <2>7. ASSUME NEW d \in Chunk, d # c
        PROVE  /\ Len(waiting'[d]) <= made'[d]
               /\ \A k \in 1 .. Len(waiting'[d]) : waiting'[d][k] = sent[d] + k
    BY <2>2, <2>7 DEF BufferInv
  <2> HIDE DEF Chunk, TypeOK
  <2> QED
    BY <2>1, <2>5, <2>6, <2>7 DEF BufferInv
<1>2. ASSUME NEW c \in Chunk, HandOver(c) PROVE BufferInv'
  <2>1. next \in Chunk
    BY <1>2 DEF HandOver, CursorInv
  <2>2. sent' = [sent EXCEPT ![next] = @ + 1] /\ sent \in [Chunk -> Int]
    BY <1>2, <2>1, SentSteps
  <2>3. /\ waiting'[next] = Tail(waiting[next])
        /\ \A d \in Chunk : d # next => waiting'[d] = waiting[d]
        /\ made' = made
    BY <1>2, <2>1 DEF HandOver
  <2>4. /\ Len(waiting'[next]) = Len(waiting[next]) - 1
        /\ Len(waiting[next]) \in Nat \ {0}
        /\ \A k \in 1 .. Len(waiting'[next]) : waiting'[next][k] = waiting[next][k + 1]
    BY <1>2, <2>1, <2>3, TailFacts DEF HandOver
  <2>5. sent'[next] = sent[next] + 1 /\ sent[next] \in Int
    BY <2>1, <2>2
  <2>6. ASSUME NEW k \in 1 .. Len(waiting'[next])
        PROVE  waiting'[next][k] = sent'[next] + k
    <3>1. k + 1 \in 1 .. Len(waiting[next])
      BY <2>4
    <3>2. waiting[next][k + 1] = sent[next] + (k + 1)
      BY <2>1, <3>1 DEF BufferInv
    <3>3. waiting'[next][k] = waiting[next][k + 1]
      BY <2>4
    <3>4. k \in Int
      BY <2>4
    <3>5. sent'[next] + k = sent[next] + (k + 1)
      BY <2>5, <3>4
    <3> QED
      BY <3>2, <3>3, <3>5
  <2>7. Len(waiting'[next]) <= made'[next]
    BY <2>1, <2>3, <2>4 DEF BufferInv
  <2>8. ASSUME NEW d \in Chunk, d # next
        PROVE  /\ Len(waiting'[d]) <= made'[d]
               /\ \A k \in 1 .. Len(waiting'[d]) : waiting'[d][k] = sent'[d] + k
    BY <2>2, <2>3, <2>8 DEF BufferInv
  <2> QED
    BY <2>6, <2>7, <2>8 DEF BufferInv
<1>3. ASSUME NEW c \in Chunk, Finish(c) \/ Advance(c) \/ Unlock(c) PROVE BufferInv'
  <2>1. sent' = sent
    BY <1>3, SentSteps
  <2>2. waiting' = waiting /\ made' = made
    BY <1>3 DEF Finish, Advance, Unlock
  <2> QED
    BY <2>1, <2>2 DEF BufferInv
<1>4. CASE UNCHANGED vars
  BY <1>4 DEF vars, BufferInv, sent
<1> QED
  BY <1>1, <1>2, <1>3, <1>4 DEF Next, Release

(* What the sink has been given: a hand-over appends the piece next in      *)
(* line, which is beyond everything given so far, and every other step      *)
(* leaves both sides alone.                                                 *)
LEMMA HandOverPiece ==
  ASSUME TypeOK, CursorInv, BufferInv, NEW c \in Chunk, HandOver(c)
  PROVE  /\ next \in Chunk /\ next' = next
         /\ sent[next] \in Nat /\ sent[next] + 1 \in 1 .. MaxPieces
         /\ sent \in [Chunk -> Int]
         /\ sent' = [sent EXCEPT ![next] = @ + 1]
         /\ handed' = Append(handed, [idx |-> next, piece |-> sent[next] + 1])
         /\ [idx |-> next, piece |-> sent[next] + 1] \in HandedPiece
<1> USE OrderAssumption DEF TypeOK, Chunk, Cursor, Nobody
<1>1. next \in Chunk /\ next' = next
  BY DEF HandOver, CursorInv
<1>2. sent \in [Chunk -> Int] /\ sent' = [sent EXCEPT ![next] = @ + 1]
  BY <1>1, SentSteps
<1>3. /\ Len(waiting[next]) \in Nat \ {0}
      /\ Head(waiting[next]) = waiting[next][1]
      /\ Head(waiting[next]) \in 1 .. MaxPieces
  BY <1>1, TailFacts DEF HandOver
<1>4. waiting[next][1] = sent[next] + 1
  <2>1. 1 \in 1 .. Len(waiting[next])
    BY <1>3
  <2> QED
    BY <1>1, <2>1 DEF BufferInv
<1>5. sent[next] \in Nat
  <2>1. Len(waiting[next]) <= made[next]
    BY <1>1 DEF BufferInv
  <2>2. sent[next] = made[next] - Len(waiting[next]) /\ made[next] \in Nat
    BY <1>1 DEF sent
  <2>3. made[next] \in Int /\ Len(waiting[next]) \in Int
    BY <1>3, <2>2
  <2> QED
    BY ONLY <2>1, <2>2, <2>3, NotBelowZero
<1>6. sent[next] + 1 \in 1 .. MaxPieces
  BY <1>3, <1>4
<1>7. handed' = Append(handed, [idx |-> next, piece |-> sent[next] + 1])
  BY <1>3, <1>4 DEF HandOver
<1>8. [idx |-> next, piece |-> sent[next] + 1] \in HandedPiece
  BY <1>1, <1>6 DEF HandedPiece
<1> QED
  BY <1>1, <1>2, <1>5, <1>6, <1>7, <1>8

(* The steps that give the sink nothing.                                    *)
LEMMA QuietSteps ==
  ASSUME TypeOK, [Next]_vars, \A c \in Chunk : ~ HandOver(c)
  PROVE  handed' = handed /\ sent' = sent /\ (next' = next \/ next' = next + 1)
<1>1. ASSUME NEW c \in Chunk, Piece(c) \/ Finish(c) \/ Advance(c) \/ Unlock(c)
      PROVE  handed' = handed /\ sent' = sent /\ (next' = next \/ next' = next + 1)
  <2>1. sent' = sent
    BY <1>1, SentSteps
  <2> QED
    BY <1>1, <2>1 DEF Piece, Finish, Advance, Unlock
<1>2. CASE UNCHANGED vars
  BY <1>2 DEF vars, sent
<1> QED
  BY <1>1, <1>2 DEF Next, Release

LEMMA HandedStep ==
  TypeOK /\ CursorInv /\ BufferInv /\ HandedInv /\ [Next]_vars => HandedInv'
<1> SUFFICES ASSUME TypeOK, CursorInv, BufferInv, HandedInv, [Next]_vars
             PROVE  HandedInv'
  OBVIOUS
<1>1. ASSUME NEW c \in Chunk, HandOver(c) PROVE HandedInv'
  <2> DEFINE e == [idx |-> next, piece |-> sent[next] + 1]
  <2>1. /\ next \in Chunk /\ next' = next
        /\ sent \in [Chunk -> Int] /\ sent' = [sent EXCEPT ![next] = @ + 1]
        /\ handed' = Append(handed, e) /\ e \in HandedPiece
    BY <1>1, HandOverPiece
  <2>2. handed \in Seq(HandedPiece) /\ handed' \in Seq(HandedPiece)
    BY TypeStep DEF TypeOK
  <2>3. /\ Len(handed') = Len(handed) + 1 /\ Len(handed) \in Nat
        /\ \A i \in 1 .. Len(handed) : handed'[i] = handed[i]
        /\ handed'[Len(handed) + 1] = e
    BY <2>1, <2>2, AppendFacts
  <2>4. ASSUME NEW i \in 1 .. Len(handed')
        PROVE  handed'[i].idx <= next' /\ handed'[i].piece <= sent'[handed'[i].idx]
    <3>1. CASE i = Len(handed) + 1
      <4>1. handed'[i] = e
        BY <2>3, <3>1
      <4>2. sent'[next] = sent[next] + 1
        BY <2>1
      <4>3. next \in Int /\ sent[next] + 1 \in Int
        BY <2>1 DEF Chunk
      <4> QED
        BY <2>1, <4>1, <4>2, <4>3
    <3>2. CASE i \in 1 .. Len(handed)
      <4>1. handed'[i] = handed[i] /\ handed[i] \in HandedPiece /\ i \in DOMAIN handed
        BY <2>2, <2>3, <3>2
      <4>2. handed[i].idx <= next /\ handed[i].piece <= sent[handed[i].idx]
        BY <4>1 DEF HandedInv
      <4>3. handed[i].idx \in Chunk /\ handed[i].piece \in Int
        BY <4>1 DEF HandedPiece
      <4>4. sent[handed[i].idx] <= sent'[handed[i].idx]
        BY <2>1, <4>3
      <4>5. handed[i].piece <= sent'[handed[i].idx]
        BY <2>1, <4>2, <4>3, <4>4
      <4> QED
        BY <2>1, <4>1, <4>2, <4>5
    <3> QED
      BY <2>3, <3>1, <3>2
  <2> QED
    BY <2>2, <2>4 DEF HandedInv
<1>2. CASE \A c \in Chunk : ~ HandOver(c)
  <2>1. handed' = handed /\ sent' = sent /\ (next' = next \/ next' = next + 1)
    BY <1>2, QuietSteps
  <2>2. ASSUME NEW i \in DOMAIN handed
        PROVE  handed[i].idx <= next' /\ handed[i].piece <= sent[handed[i].idx]
    <3>1. handed[i].idx <= next /\ handed[i].piece <= sent[handed[i].idx]
      BY DEF HandedInv
    <3>2. handed[i] \in HandedPiece /\ next \in Int
      BY OrderAssumption DEF TypeOK, Cursor
    <3>3. handed[i].idx \in Int
      BY <3>2 DEF HandedPiece, Chunk
    <3> QED
      BY <2>1, <3>1, <3>2, <3>3
  <2> QED
    BY <2>1, <2>2 DEF HandedInv
<1> QED
  BY <1>1, <1>2

LEMMA OrderStep ==
  ASSUME TypeOK, CursorInv, BufferInv, HandedInv, StrictOrder, [Next]_vars
  PROVE  StrictOrder'
<1>1. ASSUME NEW c \in Chunk, HandOver(c) PROVE StrictOrder'
  <2> DEFINE e == [idx |-> next, piece |-> sent[next] + 1]
  <2>1. /\ next \in Chunk
        /\ sent \in [Chunk -> Int] /\ sent[next] \in Nat
        /\ handed' = Append(handed, e) /\ e \in HandedPiece
    BY <1>1, HandOverPiece
  <2>2. handed \in Seq(HandedPiece) /\ handed' \in Seq(HandedPiece)
    BY TypeStep DEF TypeOK
  <2>3. /\ Len(handed') = Len(handed) + 1 /\ Len(handed) \in Nat
        /\ \A i \in 1 .. Len(handed) : handed'[i] = handed[i]
        /\ handed'[Len(handed) + 1] = e
    BY <2>1, <2>2, AppendFacts
  <2>4. ASSUME NEW i \in 1 .. Len(handed) PROVE Before(handed[i], e)
    <3>1. handed[i] \in HandedPiece /\ i \in DOMAIN handed
      BY <2>2
    <3>2. handed[i].idx <= next /\ handed[i].piece <= sent[handed[i].idx]
      BY <3>1 DEF HandedInv
    <3>3. handed[i].idx \in Int /\ handed[i].piece \in Int /\ next \in Int
      BY <2>1, <3>1 DEF HandedPiece, Chunk
    <3>4. e.idx = next /\ e.piece = sent[next] + 1
      OBVIOUS
    <3>5. handed[i].idx = next => handed[i].piece < sent[next] + 1
      BY <2>1, <3>2, <3>3
    <3> QED
      BY <3>2, <3>3, <3>4, <3>5 DEF Before
  <2>5. ASSUME NEW i \in 1 .. Len(handed'), NEW j \in 1 .. Len(handed'), i < j
        PROVE  Before(handed'[i], handed'[j])
    <3>1. i \in 1 .. Len(handed) /\ handed'[i] = handed[i]
      BY <2>3, <2>5
    <3>2. CASE j = Len(handed) + 1
      BY <2>3, <2>4, <3>1, <3>2
    <3>3. CASE j \in 1 .. Len(handed)
      BY <2>2, <2>3, <2>5, <3>1, <3>3 DEF StrictOrder
    <3> QED
      BY <2>3, <3>2, <3>3
  <2> QED
    BY <2>2, <2>5 DEF StrictOrder
<1>2. CASE \A c \in Chunk : ~ HandOver(c)
  BY <1>2, QuietSteps DEF StrictOrder, Before
<1> QED
  BY <1>1, <1>2

LEMMA LostStep ==
  ASSUME TypeOK, CursorInv, BufferInv, NothingLost, [Next]_vars
  PROVE  NothingLost'
<1>1. ASSUME NEW o \in Chunk, HandOver(o) PROVE NothingLost'
  <2> DEFINE e == [idx |-> next, piece |-> sent[next] + 1]
  <2>1. /\ next \in Chunk
        /\ sent \in [Chunk -> Int] /\ sent[next] \in Nat
        /\ sent' = [sent EXCEPT ![next] = @ + 1]
        /\ handed' = Append(handed, e) /\ e \in HandedPiece
    BY <1>1, HandOverPiece
  <2>2. handed \in Seq(HandedPiece) /\ handed' \in Seq(HandedPiece)
    BY TypeStep DEF TypeOK
  <2>3. /\ Len(handed') = Len(handed) + 1 /\ Len(handed) \in Nat
        /\ \A i \in 1 .. Len(handed) : handed'[i] = handed[i]
        /\ handed'[Len(handed) + 1] = e
    BY <2>1, <2>2, AppendFacts
  <2>4. ASSUME NEW c \in Chunk, NEW k \in 1 .. MaxPieces
        PROVE  (\E i \in 1 .. Len(handed') : handed'[i] = [idx |-> c, piece |-> k])
                 <=> (\E i \in 1 .. Len(handed) : handed[i] = [idx |-> c, piece |-> k])
                       \/ (c = next /\ k = sent[next] + 1)
    <3>1. (\E i \in 1 .. Len(handed') : handed'[i] = [idx |-> c, piece |-> k])
            <=> (\E i \in 1 .. Len(handed) : handed[i] = [idx |-> c, piece |-> k])
                  \/ e = [idx |-> c, piece |-> k]
      BY <2>3
    <3>2. e = [idx |-> c, piece |-> k] <=> c = next /\ k = sent[next] + 1
      OBVIOUS
    <3> QED
      BY <3>1, <3>2
  <2>5. ASSUME NEW c \in Chunk, NEW k \in 1 .. MaxPieces
        PROVE  k <= sent'[c] <=> k <= sent[c] \/ (c = next /\ k = sent[next] + 1)
    <3>1. CASE c = next
      <4>1. sent'[c] = sent[next] + 1 /\ k \in Int
        BY <2>1, <3>1
      <4> QED
        BY <2>1, <3>1, <4>1
    <3>2. CASE c # next
      BY <2>1, <3>2
    <3> QED
      BY <3>1, <3>2
  <2>6. DOMAIN handed = 1 .. Len(handed) /\ DOMAIN handed' = 1 .. Len(handed')
    BY <2>2
  <2>7. ASSUME NEW c \in Chunk, NEW k \in 1 .. MaxPieces
        PROVE  (\E i \in DOMAIN handed' : handed'[i] = [idx |-> c, piece |-> k])
                 <=> k <= sent'[c]
    <3>1. (\E i \in DOMAIN handed : handed[i] = [idx |-> c, piece |-> k]) <=> k <= sent[c]
      BY DEF NothingLost
    <3> HIDE DEF e
    <3> QED
      BY <2>4, <2>5, <2>6, <3>1
  <2> QED
    BY <2>7 DEF NothingLost
<1>2. CASE \A c \in Chunk : ~ HandOver(c)
  BY <1>2, QuietSteps DEF NothingLost
<1> QED
  BY <1>1, <1>2

LEMMA InitOrder == Init => OrderInv
<1> SUFFICES ASSUME Init PROVE OrderInv
  OBVIOUS
<1> USE OrderAssumption DEF Init, Chunk, Cursor, Nobody
<1>1. TypeOK
  BY DEF TypeOK
<1>2. \A c \in Chunk : sent[c] = 0
  BY DEF sent
<1>3. CursorInv
  BY <1>2 DEF CursorInv
<1>4. BufferInv
  BY DEF BufferInv
<1>5. handed = <<>> /\ DOMAIN handed = {}
  OBVIOUS
<1>6. HandedInv /\ StrictOrder
  BY <1>5 DEF HandedInv, StrictOrder
<1>7. NothingLost
  BY <1>2, <1>5 DEF NothingLost
<1> QED
  BY <1>1, <1>3, <1>4, <1>6, <1>7 DEF OrderInv

LEMMA StepOrder == OrderInv /\ [Next]_vars => OrderInv'
<1> SUFFICES ASSUME OrderInv, [Next]_vars PROVE OrderInv'
  OBVIOUS
<1>1. TypeOK /\ CursorInv /\ BufferInv /\ HandedInv /\ StrictOrder /\ NothingLost
  BY DEF OrderInv
<1>2. TypeOK' /\ CursorInv' /\ BufferInv'
  BY <1>1, TypeStep, CursorStep, BufferStep
<1>3. HandedInv' /\ StrictOrder' /\ NothingLost'
  BY <1>1, HandedStep, OrderStep, LostStep
<1> QED
  BY <1>2, <1>3 DEF OrderInv

(* The inductive invariant holds in every state of _AudioOrder, for any     *)
(* number of chunks and of pieces.                                          *)
THEOREM OrderInvariant == Spec => []OrderInv
<1>1. Init => OrderInv
  BY InitOrder
<1>2. OrderInv /\ [Next]_vars => OrderInv'
  BY StepOrder
<1> QED
  BY <1>1, <1>2, PTL DEF Spec

(* Every variable of _AudioOrder keeps its type.                            *)
THEOREM TypeCorrect == Spec => []TypeOK
<1>1. OrderInv => TypeOK
  BY DEF OrderInv
<1> QED
  BY <1>1, OrderInvariant, PTL

(* The sink hears the chunks in order, however the workers interleave.      *)
THEOREM InOrder == Spec => []StrictOrder
<1>1. OrderInv => StrictOrder
  BY DEF OrderInv
<1> QED
  BY <1>1, OrderInvariant, PTL

(* The sink has heard what was made and is not in the buffer, once each.    *)
THEOREM Complete == Spec => []NothingLost
<1>1. OrderInv => NothingLost
  BY DEF OrderInv
<1> QED
  BY <1>1, OrderInvariant, PTL

(* A thread that leaves the lock leaves no audio behind that could have     *)
(* been handed over.                                                        *)
THEOREM NoneStranded == Spec => []NothingStranded
<1>1. OrderInv => NothingStranded
  <2> SUFFICES ASSUME OrderInv, holder = Nobody,
                      NEW c \in Chunk, \A d \in Chunk : d < c => d \in finished
               PROVE  waiting[c] = <<>>
    BY DEF NothingStranded
  <2>1. TypeOK /\ CursorInv /\ BufferInv
    BY DEF OrderInv
  <2>2. waiting[next] = <<>> /\ next \notin finished
    BY <2>1 DEF CursorInv
  <2>3. next \in Int /\ c \in Int
    BY <2>1, OrderAssumption DEF TypeOK, Cursor, Chunk
  <2>4. CASE c < next
    BY <2>1, <2>4 DEF CursorInv
  <2>5. CASE c = next
    BY <2>2, <2>5
  <2>6. CASE next < c
    <3>1. next \in Chunk
      BY <2>1, <2>3, <2>6, OrderAssumption DEF TypeOK, Cursor, Chunk
    <3> QED
      BY <2>2, <2>6, <3>1
  <2> QED
    BY <2>3, <2>4, <2>5, <2>6
<1> QED
  BY <1>1, OrderInvariant, PTL

(* Every step of _AudioOrder is a step of the queue without lock and buffer *)
(* of OrderedVoice, or none: piece() makes, finish() closes, a hand-over    *)
(* sends, and the steps on the lock and the cursor are not to be seen.      *)
THEOREM RefinesVoice == Spec => Voice!Init /\ [][Voice!Next]_Voice!vars
<1>1. Init => Voice!Init
  <2> SUFFICES ASSUME Init PROVE Voice!Init
    OBVIOUS
  <2>1. ASSUME NEW c \in Chunk PROVE made[c] - Len(waiting[c]) = 0
    BY OrderAssumption DEF Init, Chunk, Cursor
  <2>2. sent = [c \in Chunk |-> 0]
    BY <2>1 DEF sent
  <2> QED
    BY <2>2 DEF Init, Voice!Init, Voice!Chunk, Chunk
<1>2. OrderInv /\ [Next]_vars => [Voice!Next]_Voice!vars
  <2> SUFFICES ASSUME OrderInv, [Next]_vars PROVE [Voice!Next]_Voice!vars
    OBVIOUS
  <2>1. TypeOK /\ CursorInv /\ BufferInv
    BY DEF OrderInv
  <2>2. ASSUME NEW c \in Chunk, Piece(c) PROVE Voice!Make(c)
    <3>1. sent' = sent
      BY <2>1, <2>2, SentSteps
    <3> QED
      BY <2>2, <3>1 DEF Piece, Voice!Make
  <2>3. ASSUME NEW c \in Chunk, Finish(c) PROVE Voice!Close(c)
    <3>1. sent' = sent
      BY <2>1, <2>3, SentSteps
    <3> QED
      BY <2>3, <3>1 DEF Finish, Voice!Close
  <2>4. ASSUME NEW c \in Chunk, HandOver(c) PROVE Voice!Send(next) /\ next \in Chunk
    <3>1. /\ next \in Chunk /\ sent \in [Chunk -> Int]
          /\ sent' = [sent EXCEPT ![next] = @ + 1]
      BY <2>1, <2>4, HandOverPiece
    <3>2. sent[next] < made[next]
      <4>1. Len(waiting[next]) \in Nat \ {0} /\ made[next] \in Nat
        BY <2>1, <2>4, <3>1, TailFacts, OrderAssumption
        DEF HandOver, TypeOK, Cursor, Chunk
      <4>2. sent[next] = made[next] - Len(waiting[next])
        BY <3>1 DEF sent
      <4> QED
        BY <4>1, <4>2
    <3>3. ASSUME NEW d \in Chunk, d < next PROVE d \in finished /\ sent[d] = made[d]
      <4>1. d \in finished /\ waiting[d] = <<>>
        BY <2>1, <3>3 DEF CursorInv
      <4>2. made[d] \in Int /\ sent[d] = made[d] - 0
        BY <2>1, <4>1, OrderAssumption DEF TypeOK, sent
      <4> QED
        BY <4>1, <4>2
    <3> QED
      BY <2>4, <3>1, <3>2, <3>3
      DEF HandOver, Voice!Send, Voice!CompletelySent, Voice!Chunk, Chunk
  <2>5. ASSUME NEW c \in Chunk, Advance(c) \/ Unlock(c) PROVE UNCHANGED Voice!vars
    <3>1. sent' = sent
      BY <2>1, <2>5, SentSteps
    <3> QED
      BY <2>5, <3>1 DEF Advance, Unlock, Voice!vars
  <2>6. CASE UNCHANGED vars
    BY <2>6 DEF vars, Voice!vars, sent
  <2> QED
    BY <2>2, <2>3, <2>4, <2>5, <2>6
    DEF Next, Release, Voice!Next, Voice!Chunk, Chunk
<1> QED
  BY <1>1, <1>2, OrderInvariant, PTL DEF Spec
=============================================================================
