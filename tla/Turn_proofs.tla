----------------------------- MODULE Turn_proofs -----------------------------
(***************************************************************************)
(* For any number of lines, messages, pieces and workers: the ordering     *)
(* queue keeps its order in the turn; after an abort no more is asked for  *)
(* than the pool has threads; a chunk that has been heard is not requested *)
(* again; the invariant of TurnInvariant holds, and with it everything the *)
(* turn keeps of its text, its sound and its end; and the events it yields *)
(* follow EventStream.                                                     *)
(***************************************************************************)
EXTENDS TurnInvariant, SequencesExt, SequenceTheorems, FiniteSetTheorems,
        WellFoundedInduction, TLAPS

Queue == INSTANCE AudioOrder_proofs

(******************************* Induction *******************************)

(* The induction is the least element of a set of natural numbers: sets     *)
(* and functions take the place of the predicates and operators of the      *)
(* library's induction theorems.                                            *)
LEMMA LeastNat ==
  ASSUME NEW T \in SUBSET Nat, T # {}
  PROVE  \E x \in T : \A y \in T : x <= y
<1>1. PICK x \in T : \A y \in T : ~ (<<y, x>> \in OpToRel(<, Nat))
  BY NatLessThanWellFounded, WFMin, Zenon
<1>2. \A y \in T : ~ (y < x)
  BY <1>1 DEF OpToRel
<1> QED
  BY <1>2

LEMMA InductionUpTo ==
  ASSUME NEW n \in Nat, NEW T, 0 \in T, \A i \in 1 .. n : i - 1 \in T => i \in T
  PROVE  0 .. n \subseteq T
<1> SUFFICES ASSUME ~(0 .. n \subseteq T) PROVE FALSE
  OBVIOUS
<1>1. PICK x \in (0 .. n) \ T : \A y \in (0 .. n) \ T : x <= y
  <2>1. (0 .. n) \ T # {} /\ (0 .. n) \ T \in SUBSET Nat
    OBVIOUS
  <2> QED
    BY <2>1, LeastNat
<1>2. x \in 1 .. n /\ x - 1 \in T
  BY <1>1
<1> QED
  BY <1>1, <1>2

(* Two functions that begin alike and go on alike are alike.                *)
LEMMA SameRecursion ==
  ASSUME NEW n \in Nat, NEW f, NEW g, f[0] = g[0],
         \A i \in 1 .. n : f[i - 1] = g[i - 1] => f[i] = g[i]
  PROVE  \A i \in 0 .. n : f[i] = g[i]
<1> DEFINE T == {i \in 0 .. n : f[i] = g[i]}
<1>1. 0 \in T /\ \A i \in 1 .. n : i - 1 \in T => i \in T
  OBVIOUS
<1> HIDE DEF T
<1>2. 0 .. n \subseteq T
  BY <1>1, InductionUpTo
<1> QED
  BY <1>2 DEF T

(* A function that is computed step by step exists.                         *)
LEMMA Recursion ==
  ASSUME NEW D, NEW base \in D, NEW n \in Nat, NEW step \in [1 .. n -> [D -> D]]
  PROVE  \E f \in [0 .. n -> D] : f[0] = base /\ \A i \in 1 .. n : f[i] = step[i][f[i - 1]]
<1> DEFINE Good(m) == \E f \in [0 .. m -> D] :
                        f[0] = base /\ \A i \in 1 .. m : f[i] = step[i][f[i - 1]]
           T == {m \in 0 .. n : Good(m)}
<1>1. 0 \in T
  <2>1. /\ [i \in 0 .. 0 |-> base] \in [0 .. 0 -> D]
        /\ [i \in 0 .. 0 |-> base][0] = base
        /\ 1 .. 0 = {}
    OBVIOUS
  <2>2. Good(0)
    BY <2>1
  <2> QED
    BY <2>2
<1>2. ASSUME NEW m \in 1 .. n, m - 1 \in T PROVE m \in T
  <2>1. PICK f \in [0 .. m - 1 -> D] :
          f[0] = base /\ \A i \in 1 .. m - 1 : f[i] = step[i][f[i - 1]]
    BY <1>2
  <2> DEFINE g == [i \in 0 .. m |-> IF i = m THEN step[m][f[m - 1]] ELSE f[i]]
  <2>2. step[m][f[m - 1]] \in D
    <3>1. f[m - 1] \in D /\ step[m] \in [D -> D]
      BY <1>2
    <3> QED
      BY <3>1
  <2>3. g \in [0 .. m -> D] /\ g[0] = base
    BY <2>1, <2>2
  <2>4. ASSUME NEW i \in 1 .. m PROVE g[i] = step[i][g[i - 1]]
    <3>1. i - 1 \in 0 .. m /\ i \in 0 .. m /\ i - 1 # m
      BY <1>2
    <3>2. g[i - 1] = f[i - 1] /\ g[i] = IF i = m THEN step[m][f[m - 1]] ELSE f[i]
      BY <3>1
    <3>3. i = m \/ i \in 1 .. m - 1
      BY <1>2
    <3> QED
      BY <2>1, <3>2, <3>3
  <2>5. Good(m)
    <3> HIDE DEF g
    <3> QED
      BY <2>3, <2>4
  <2> HIDE DEF Good
  <2>6. m \in 0 .. n
    OBVIOUS
  <2> QED
    BY <2>5, <2>6
<1> HIDE DEF T
<1>3. 0 .. n \subseteq T
  BY <1>1, <1>2, InductionUpTo
<1>4. n \in T
  BY <1>3
<1> QED
  BY <1>4 DEF T

(* What holds of <<>> and goes on to hold with one more element holds of    *)
(* every sequence.                                                          *)
LEMMA SequenceInduction ==
  ASSUME NEW S, NEW T, <<>> \in T,
         \A s \in Seq(S), e \in S : s \in T => Append(s, e) \in T
  PROVE  Seq(S) \subseteq T
<1> SUFFICES ASSUME NEW s \in Seq(S) PROVE s \in T
  OBVIOUS
<1> DEFINE n == Len(s)
           front(i) == SubSeq(s, 1, i)
           U == {i \in 0 .. n : front(i) \in T}
<1>0. n \in Nat /\ \A i \in 1 .. n : s[i] \in S
  OBVIOUS
<1>1. 0 \in U
  <2>1. SubSeq(s, 1, 0) = <<>>
    BY SubSeqEmpty
  <2>2. front(0) \in T
    BY <2>1
  <2> HIDE DEF front, n
  <2> QED
    BY <1>0, <2>2
<1>2. ASSUME NEW i \in 1 .. n, i - 1 \in U PROVE i \in U
  <2> DEFINE a == SubSeq(s, 1, i - 1)
  <2>1. a \in Seq(S)
    BY <1>0, SubSeqProperties
  <2>2. SubSeq(s, 1, i) = a \o <<s[i]>>
    BY <1>0, SubSeqRecursiveSecond
  <2>3. a \o <<s[i]>> = Append(a, s[i]) /\ s[i] \in S
    BY <1>0, <2>1, AppendIsConcat
  <2>4. a \in T
    BY <1>2
  <2> HIDE DEF a
  <2>5. Append(a, s[i]) \in T
    BY <2>1, <2>3, <2>4
  <2>6. front(i) \in T
    BY <2>2, <2>3, <2>5
  <2> HIDE DEF front, n
  <2> QED
    BY <1>0, <2>6
<1> HIDE DEF U
<1>3. 0 .. n \subseteq U
  BY <1>0, <1>1, <1>2, InductionUpTo
<1>4. SubSeq(s, 1, n) \in T
  BY <1>0, <1>3 DEF U
<1> QED
  BY <1>4, SubSeqFull

(**************************** A queue's moves ****************************)

LEMMA Appended ==
  ASSUME NEW S, NEW s \in Seq(S), NEW e \in S
  PROVE  /\ Len(s) \in Nat /\ DOMAIN s = 1 .. Len(s)
         /\ Append(s, e) \in Seq(S) /\ Len(Append(s, e)) = Len(s) + 1
         /\ DOMAIN Append(s, e) = 1 .. Len(s) + 1
         /\ \A i \in 1 .. Len(s) : Append(s, e)[i] = s[i]
         /\ Append(s, e)[Len(s) + 1] = e
  BY AppendProperties, LenProperties

LEMMA PutBehind ==
  ASSUME NEW S, NEW o \in Seq(S), NEW q \in Seq(S), NEW e \in S
  PROVE  o \o Append(q, e) = Append(o \o q, e)
  OBVIOUS

LEMMA MoveOn ==
  ASSUME NEW S, NEW o \in Seq(S), NEW q \in Seq(S), q # <<>>
  PROVE  Append(o, Head(q)) \o Tail(q) = o \o q
<1> DEFINE h == Head(q)
           r == Tail(q)
<1>1. h \in S /\ r \in Seq(S) /\ <<h>> \in Seq(S) /\ Len(q) \in Nat \ {0} /\ h = q[1]
  BY HeadTailProperties, EmptySeq
<1>2. q = <<h>> \o r
  <2>1. SubSeq(q, 1, Len(q)) = <<q[1]>> \o SubSeq(q, 2, Len(q))
    BY <1>1, SubSeqRecursiveFirst
  <2>2. r = SubSeq(q, 2, Len(q)) /\ SubSeq(q, 1, Len(q)) = q
    BY TailIsSubSeq, SubSeqFull
  <2> QED
    BY <1>1, <2>1, <2>2
<1>3. Append(o, h) = o \o <<h>>
  BY <1>1, AppendIsConcat
<1> HIDE DEF h, r
<1>4. (o \o <<h>>) \o r = o \o (<<h>> \o r)
  BY <1>1, ConcatAssociative
<1> QED
  BY <1>2, <1>3, <1>4 DEF h, r

(************************** Events of one type ***************************)

Kept(events, t) ==
  CHOOSE kept : kept = [i \in 0 .. Len(events) |->
    IF i = 0 THEN <<>>
    ELSE IF events[i].type = t THEN Append(kept[i - 1], events[i])
    ELSE kept[i - 1]]

LEMMA OfTypeIsKept == \A s, t : OfType(s, t) = Kept(s, t)[Len(s)]
  BY DEF OfType, Kept

LEMMA KeptDef ==
  ASSUME NEW S, NEW s \in Seq(S), NEW t
  PROVE  /\ Kept(s, t)[0] = <<>>
         /\ \A i \in 1 .. Len(s) :
              Kept(s, t)[i] = IF s[i].type = t THEN Append(Kept(s, t)[i - 1], s[i])
                              ELSE Kept(s, t)[i - 1]
         /\ \A i \in 0 .. Len(s) : Kept(s, t)[i] \in Seq(S)
<1> DEFINE n == Len(s)
           more(i, k) == IF s[i].type = t THEN Append(k, s[i]) ELSE k
           step == [i \in 1 .. n |-> [k \in Seq(S) |-> more(i, k)]]
           Eq(k) == k = [i \in 0 .. n |-> IF i = 0 THEN <<>>
                            ELSE IF s[i].type = t THEN Append(k[i - 1], s[i])
                            ELSE k[i - 1]]
<1>1. n \in Nat /\ <<>> \in Seq(S)
  OBVIOUS
<1>2. step \in [1 .. n -> [Seq(S) -> Seq(S)]]
  <2>1. ASSUME NEW i \in 1 .. n, NEW k \in Seq(S) PROVE more(i, k) \in Seq(S)
    <3>1. s[i] \in S
      OBVIOUS
    <3> QED
      BY <3>1, AppendProperties
  <2> HIDE DEF more
  <2> QED
    BY <2>1
<1> HIDE DEF step
<1>3. PICK f \in [0 .. n -> Seq(S)] : f[0] = <<>> /\ \A i \in 1 .. n : f[i] = step[i][f[i - 1]]
  <2> DEFINE D == Seq(S)
             base == <<>>
  <2>1. base \in D /\ n \in Nat /\ step \in [1 .. n -> [D -> D]]
    BY <1>1, <1>2
  <2> HIDE DEF n, D, base
  <2>2. \E f \in [0 .. n -> D] : f[0] = base /\ \A i \in 1 .. n : f[i] = step[i][f[i - 1]]
    BY <2>1, Recursion
  <2> QED
    BY <2>2 DEF D, base
<1>4. \A i \in 1 .. n : f[i] = more(i, f[i - 1])
  <2>1. ASSUME NEW i \in 1 .. n PROVE f[i] = more(i, f[i - 1])
    <3>1. f[i - 1] \in Seq(S)
      BY <1>1
    <3>2. step[i][f[i - 1]] = more(i, f[i - 1])
      BY <3>1 DEF step
    <3> QED
      BY <1>3, <3>2
  <2> QED
    BY <2>1
<1>5. Eq(f)
  <2> DEFINE g == [i \in 0 .. n |-> IF i = 0 THEN <<>>
                        ELSE IF s[i].type = t THEN Append(f[i - 1], s[i])
                        ELSE f[i - 1]]
  <2>1. f = [i \in 0 .. n |-> f[i]]
    BY <1>3
  <2>2. ASSUME NEW i \in 0 .. n PROVE f[i] = g[i]
    <3>1. i = 0 \/ i \in 1 .. n
      BY <1>1
    <3> QED
      BY <1>3, <1>4, <3>1
  <2>3. f = g
    BY <2>1, <2>2
  <2> QED
    BY <2>3
<1>6. Eq(Kept(s, t))
  <2>1. \E k : Eq(k)
    BY <1>5
  <2> HIDE DEF Eq
  <2>2. Eq(CHOOSE k : Eq(k))
    BY <2>1
  <2>3. Kept(s, t) = CHOOSE k : Eq(k)
    BY DEF Eq, Kept
  <2> QED
    BY <2>2, <2>3
<1> DEFINE K == Kept(s, t)
<1>7. /\ K[0] = <<>>
      /\ \A i \in 1 .. n : K[i] = more(i, K[i - 1])
  <2> HIDE DEF K
  <2>1. K = [i \in 0 .. n |-> IF i = 0 THEN <<>>
                            ELSE IF s[i].type = t THEN Append(K[i - 1], s[i])
                            ELSE K[i - 1]]
    BY <1>6 DEF K
  <2>2. K[0] = <<>>
    BY <1>1, <2>1
  <2>3. ASSUME NEW i \in 1 .. n PROVE K[i] = more(i, K[i - 1])
    <3>1. i \in 0 .. n /\ i # 0
      BY <1>1
    <3> QED
      BY <2>1, <3>1
  <2> QED
    BY <2>2, <2>3
<1>8. \A i \in 0 .. n : K[i] = f[i]
  <2> HIDE DEF K
  <2>1. K[0] = f[0] /\ \A i \in 1 .. n : K[i - 1] = f[i - 1] => K[i] = f[i]
    BY <1>3, <1>4, <1>7
  <2> QED
    BY <1>1, <2>1, SameRecursion
<1>9. \A i \in 0 .. n : f[i] \in Seq(S)
  BY <1>3
<1> QED
  BY <1>7, <1>8, <1>9

LEMMA OfTypeEmpty ==
  ASSUME NEW S, NEW s \in Seq(S), NEW t
  PROVE  Len(s) = 0 => OfType(s, t) = <<>>
<1>1. Kept(s, t)[0] = <<>>
  BY KeptDef
<1>2. OfType(s, t) = Kept(s, t)[Len(s)]
  BY OfTypeIsKept
<1> QED
  BY <1>1, <1>2

LEMMA OfTypeNone == \A t : OfType(<<>>, t) = <<>>
<1> TAKE t
<1>1. <<>> \in Seq({}) /\ Len(<<>>) = 0
  OBVIOUS
<1> QED
  BY <1>1, OfTypeEmpty, Zenon

LEMMA OfTypeSequence ==
  ASSUME NEW S, NEW s \in Seq(S), NEW t
  PROVE  OfType(s, t) \in Seq(S)
<1>1. Len(s) \in 0 .. Len(s)
  OBVIOUS
<1> QED
  BY <1>1, KeptDef, OfTypeIsKept

LEMMA OfTypeAppend ==
  ASSUME NEW S, NEW s \in Seq(S), NEW e \in S, NEW t
  PROVE  OfType(Append(s, e), t) = IF e.type = t THEN Append(OfType(s, t), e) ELSE OfType(s, t)
<1> DEFINE n == Len(s)
           more == Append(s, e)
           f == Kept(s, t)
           g == Kept(more, t)
<1>1. /\ n \in Nat /\ more \in Seq(S) /\ Len(more) = n + 1 /\ more[n + 1] = e
      /\ \A i \in 1 .. n : more[i] = s[i]
  BY AppendProperties, LenProperties
<1>2. /\ f[0] = <<>>
      /\ \A i \in 1 .. n : f[i] = IF s[i].type = t THEN Append(f[i - 1], s[i]) ELSE f[i - 1]
  BY KeptDef
<1> HIDE DEF more
<1>3. /\ g[0] = <<>>
      /\ \A i \in 1 .. n + 1 : g[i] = IF more[i].type = t THEN Append(g[i - 1], more[i])
                                      ELSE g[i - 1]
  BY <1>1, KeptDef
<1> HIDE DEF n, f, g
<1>4. \A i \in 0 .. n : f[i] = g[i]
  <2>1. ASSUME NEW i \in 1 .. n, f[i - 1] = g[i - 1] PROVE f[i] = g[i]
    <3>1. i \in 1 .. n + 1 /\ more[i] = s[i]
      BY <1>1
    <3> QED
      BY <1>2, <1>3, <2>1, <3>1
  <2>2. f[0] = g[0] /\ n \in Nat
    BY <1>1, <1>2, <1>3
  <2> QED
    BY <2>1, <2>2, SameRecursion
<1>5. g[n + 1] = IF e.type = t THEN Append(f[n], e) ELSE f[n]
  <2>1. n + 1 \in 1 .. n + 1 /\ (n + 1) - 1 = n /\ n \in 0 .. n
    BY <1>1
  <2> QED
    BY <1>1, <1>3, <1>4, <2>1
<1> QED
  BY <1>1, <1>5, OfTypeIsKept DEF f, g, more, n

LEMMA OfTypeConcat ==
  ASSUME NEW S, NEW s \in Seq(S), NEW q \in Seq(S), NEW t
  PROVE  OfType(s \o q, t) = OfType(s, t) \o OfType(q, t)
<1> DEFINE T == {r \in Seq(S) : OfType(s \o r, t) = OfType(s, t) \o OfType(r, t)}
<1>1. <<>> \in T
  BY OfTypeNone, OfTypeSequence, ConcatEmptySeq, EmptySeq
<1>2. ASSUME NEW r \in Seq(S), NEW e \in S, r \in T PROVE Append(r, e) \in T
  <2>1. /\ s \o r \in Seq(S) /\ Append(r, e) \in Seq(S)
        /\ s \o Append(r, e) = Append(s \o r, e)
    OBVIOUS
  <2>2. OfType(s, t) \in Seq(S) /\ OfType(r, t) \in Seq(S)
    BY OfTypeSequence
  <2>3. OfType(s, t) \o Append(OfType(r, t), e) = Append(OfType(s, t) \o OfType(r, t), e)
    BY <2>2
  <2>4. /\ OfType(Append(r, e), t) = IF e.type = t THEN Append(OfType(r, t), e) ELSE OfType(r, t)
        /\ OfType(Append(s \o r, e), t) = IF e.type = t THEN Append(OfType(s \o r, t), e)
                                          ELSE OfType(s \o r, t)
    BY <2>1, OfTypeAppend
  <2>5. OfType(s \o r, t) = OfType(s, t) \o OfType(r, t)
    BY <1>2
  <2>6. OfType(s \o Append(r, e), t) = OfType(s, t) \o OfType(Append(r, e), t)
    BY <2>1, <2>3, <2>4, <2>5
  <2> QED
    BY <2>1, <2>6
<1> HIDE DEF T
<1>3. Seq(S) \subseteq T
  BY <1>1, <1>2, SequenceInduction
<1> QED
  BY <1>3 DEF T

(* A sequence is one of the set its members are in.                         *)
LEMMA Narrower ==
  ASSUME NEW S, NEW T, NEW s \in Seq(S), \A i \in DOMAIN s : s[i] \in T
  PROVE  s \in Seq(T)
<1>1. Len(s) \in Nat /\ DOMAIN s = 1 .. Len(s) /\ s = [i \in 1 .. Len(s) |-> s[i]]
  OBVIOUS
<1>2. s \in [1 .. Len(s) -> T]
  BY <1>1
<1> QED
  BY <1>1, <1>2, SeqDef

USE DEF hostVars, producerVars, workerVars, consumerVars, Working

Elsewhere == ModelAnswers \/ ProducerStep \/ ConsumerStep \/ HostStep

LEMMA SameOrder ==
  ASSUME Elsewhere
  PROVE  UNCHANGED <<orderVars, spoken>>
<1>1. CASE ModelAnswers
  BY <1>1 DEF ModelAnswers, NextLine, StreamEnds, StreamFails
<1>2. CASE ProducerStep
  BY <1>2 DEF ProducerStep, PutSentence, Boundary, Flush, Finally, WaitForChunks
<1>3. CASE ConsumerStep
  BY <1>3 DEF ConsumerStep, YieldAck, YieldSink, StartProducer, CheckStop, PassOn,
              GetEnd, CancelQueued
<1>4. CASE HostStep
  BY <1>4 DEF HostStep, Cancel, Close
<1> QED
  BY <1>1, <1>2, <1>3, <1>4 DEF Elsewhere

(**************************** The ordering queue ***************************)

(* Every step of the turn is a step of the ordering queue, or none.         *)
LEMMA QueueStep ==
  ASSUME [Next]_vars
  PROVE  [Order!Next]_orderVars
<1>1. ASSUME NEW c \in Chunk, MakePiece(c) PROVE Order!Next
  BY <1>1 DEF MakePiece, Order!Next, Chunk, Order!Chunk
<1>2. ASSUME NEW c \in Chunk, FinishChunk(c) PROVE Order!Next
  BY <1>2 DEF FinishChunk, Order!Next, Chunk, Order!Chunk
<1>3. ASSUME NEW c \in Chunk, EmitAudio(c) \/ AdvanceCursor(c) \/ LeaveOrder(c) PROVE Order!Next
  BY <1>3 DEF EmitAudio, AdvanceCursor, LeaveOrder, Order!Next, Order!Release, Chunk, Order!Chunk
<1>4. ASSUME NEW c \in Chunk, Start(c) \/ Enter(c) \/ Ask(c) \/ SpeechEnds(c) PROVE UNCHANGED orderVars
  BY <1>4 DEF Start, Enter, Ask, SpeechEnds, SpeakReturns, SpeakRaises
<1>5. CASE UNCHANGED vars
  BY <1>5 DEF vars
<1> QED
  BY <1>1, <1>2, <1>3, <1>4, <1>5, SameOrder DEF Next, WorkerStep, Elsewhere

LEMMA SameQueue ==
  /\ (Order!Init <=> Queue!Init)
  /\ ([Order!Next]_orderVars <=> [Queue!Next]_(Queue!vars))
  BY DEF Order!Init, Queue!Init, Order!Next, Queue!Next, Order!Piece, Queue!Piece,
         Order!Finish, Queue!Finish, Order!Release, Queue!Release, Order!HandOver,
         Queue!HandOver, Order!Advance, Queue!Advance, Order!Unlock, Queue!Unlock,
         orderVars, Queue!vars, Order!Chunk, Queue!Chunk, Order!Cursor, Queue!Cursor,
         Order!Nobody, Queue!Nobody

LEMMA QueueAssumption == Queue!OrderAssumption
  BY TurnAssumption DEF Queue!OrderAssumption, MaxChunks

LEMMA InitQueue == Init => Queue!OrderInv
  BY QueueAssumption, SameQueue, Queue!InitOrder DEF Init

LEMMA StepQueue == Queue!OrderInv /\ [Next]_vars => Queue!OrderInv'
<1>1. Queue!OrderInv /\ [Order!Next]_orderVars => Queue!OrderInv'
  BY QueueAssumption, SameQueue, Queue!StepOrder
<1> QED
  BY <1>1, QueueStep

(* The sound of a turn leaves the queue strictly in order.                  *)
THEOREM SoundInOrder == Spec => []Order!StrictOrder
<1>1. Queue!OrderInv /\ [Next]_vars => Queue!OrderInv'
  BY StepQueue
<1>2. Init => Queue!OrderInv
  BY InitQueue
<1>3. Queue!OrderInv => Order!StrictOrder
  BY DEF Queue!OrderInv, Queue!StrictOrder, Order!StrictOrder, Queue!Before, Order!Before
<1> QED
  BY <1>1, <1>2, <1>3, PTL DEF Spec

(******************************** The requests *****************************)

LEMMA SameRequests ==
  ASSUME Elsewhere
  PROVE  UNCHANGED <<attempts, late>>
<1>1. CASE ModelAnswers
  BY <1>1 DEF ModelAnswers, NextLine, StreamEnds, StreamFails
<1>2. CASE ProducerStep
  BY <1>2 DEF ProducerStep, PutSentence, Boundary, Flush, Finally, WaitForChunks
<1>3. CASE ConsumerStep
  BY <1>3 DEF ConsumerStep, YieldAck, YieldSink, StartProducer, CheckStop, PassOn,
              GetEnd, CancelQueued
<1>4. CASE HostStep
  BY <1>4 DEF HostStep, Cancel, Close
<1> QED
  BY <1>1, <1>2, <1>3, <1>4 DEF Elsewhere

(* A request is made by a worker that has set out to make one.              *)
LEMMA WhoRequests ==
  ASSUME [Next]_vars
  PROVE  \/ UNCHANGED <<attempts, late>>
         \/ \E c \in Chunk : Ask(c)
<1>1. ASSUME NEW c \in Chunk,
             \/ Start(c) \/ Enter(c) \/ FinishChunk(c) \/ EmitAudio(c) \/ AdvanceCursor(c)
             \/ LeaveOrder(c) \/ MakePiece(c) \/ SpeechEnds(c)
      PROVE  UNCHANGED <<attempts, late>>
  BY <1>1 DEF Start, Enter, FinishChunk, EmitAudio, AdvanceCursor, LeaveOrder, MakePiece,
              SpeechEnds, SpeakReturns, SpeakRaises
<1>2. CASE UNCHANGED vars
  BY <1>2 DEF vars
<1> QED
  BY <1>1, <1>2, SameRequests DEF Next, WorkerStep, Elsewhere

(********************************* The text ********************************)

LEMMA LineType ==
  ASSUME TextTypes, ppc \in {"put", "boundary"}
  PROVE  lines[Len(lines)] \in Message /\ Len(lines) \in Nat
<1>1. lines \in Seq(Message) /\ lines # <<>>
  BY DEF TextTypes
<1> QED
  BY <1>1

LEMMA SubmitText ==
  ASSUME TextTypes
  PROVE  /\ Append(chunks, [text |-> buffer, message |-> current])
             \in Seq([text : Seq(Nat), message : Message])
         /\ Len(Append(chunks, [text |-> buffer, message |-> current])) = Len(chunks) + 1
         /\ Len(chunks) \in Nat
<1>1. [text |-> buffer, message |-> current] \in [text : Seq(Nat), message : Message]
  BY DEF TextTypes
<1>2. chunks \in Seq([text : Seq(Nat), message : Message])
  BY DEF TextTypes
<1> QED
  BY <1>1, <1>2, AppendProperties, LenProperties

LEMMA TextStep ==
  ASSUME TextTypes, [Next]_vars
  PROVE  TextTypes'
<1> DEFINE more == Append(chunks, [text |-> buffer, message |-> current])
<1>0. /\ lines \in Seq(Message) /\ current \in Message /\ buffer \in Seq(Nat)
      /\ chunks \in Seq([text : Seq(Nat), message : Message])
      /\ more \in Seq([text : Seq(Nat), message : Message])
      /\ <<>> \in Seq(Nat)
  BY SubmitText DEF TextTypes
<1> HIDE DEF more
<1>1. ASSUME NEW m \in Message, NextLine(m) PROVE TextTypes'
  <2>1. Append(lines, m) \in Seq(Message) /\ Append(lines, m) # <<>>
    BY <1>0, <1>1, AppendProperties
  <2> QED
    BY <1>0, <1>1, <2>1 DEF NextLine, TextTypes
<1>2. CASE PutSentence
  <2>1. lines[Len(lines)] \in Message /\ Append(buffer, Len(lines)) \in Seq(Nat)
    BY <1>0, <1>2, LineType, AppendProperties DEF PutSentence
  <2>2. lines' = lines /\ chunks' = chunks /\ (ppc' \in {"put", "boundary"} => ppc = "put")
    BY <1>2 DEF PutSentence
  <2>3. \/ buffer' = buffer /\ current' = current
        \/ buffer' = Append(buffer, Len(lines)) /\ current' = lines[Len(lines)]
    BY <1>2 DEF PutSentence, JoinBuffer
  <2> QED
    BY <1>0, <2>1, <2>2, <2>3 DEF TextTypes
<1>3. CASE Boundary
  <2>1. lines[Len(lines)] \in Message /\ Append(<<>>, Len(lines)) \in Seq(Nat)
    BY <1>0, <1>3, LineType, AppendProperties DEF Boundary
  <2>2. lines' = lines /\ chunks' = more /\ ppc' \notin {"put", "boundary"}
    BY <1>3 DEF Boundary, Submit, Refuse, more
  <2>3. \/ buffer' = buffer /\ current' = current
        \/ buffer' = Append(<<>>, Len(lines)) /\ current' = lines[Len(lines)]
    BY <1>3 DEF Boundary, JoinBuffer, Refuse
  <2> QED
    BY <1>0, <2>1, <2>2, <2>3 DEF TextTypes
<1>4. CASE Flush \/ StreamEnds
  <2>1. lines' = lines /\ chunks' \in {chunks, more} /\ ppc' \notin {"put", "boundary"}
    BY <1>4 DEF Flush, StreamEnds, Submit, Refuse, more
  <2>2. buffer' \in {buffer, <<>>} /\ current' = current
    BY <1>4 DEF Flush, StreamEnds, Refuse
  <2> QED
    BY <1>0, <2>1, <2>2 DEF TextTypes
<1>5. ASSUME StreamFails \/ Finally \/ WaitForChunks \/ StartProducer PROVE TextTypes'
  BY <1>5 DEF StreamFails, Finally, WaitForChunks, StartProducer, TextTypes
<1>6. ASSUME \/ YieldAck \/ YieldSink \/ CheckStop \/ PassOn \/ GetEnd \/ CancelQueued \/ HostStep
             \/ UNCHANGED vars
      PROVE  TextTypes'
  <2>1. UNCHANGED producerVars
    BY <1>6 DEF YieldAck, YieldSink, CheckStop, PassOn, GetEnd, CancelQueued, HostStep,
                Cancel, Close, vars
  <2> QED
    BY <2>1 DEF TextTypes
<1>7. ASSUME NEW c \in Chunk, WorkerStep(c) \/ MakePiece(c) \/ SpeechEnds(c) PROVE TextTypes'
  <2>1. UNCHANGED producerVars
    BY <1>7 DEF WorkerStep, Start, Enter, Ask, FinishChunk, EmitAudio, AdvanceCursor, LeaveOrder,
                MakePiece, SpeechEnds, SpeakReturns, SpeakRaises
  <2> QED
    BY <2>1 DEF TextTypes
<1> QED
  BY <1>1, <1>2, <1>3, <1>4, <1>5, <1>6, <1>7
  DEF Next, ModelAnswers, ProducerStep, ConsumerStep

(****************************** Heard and asked ****************************)

LEMMA ChunksGrow ==
  ASSUME TextTypes, [Next]_vars
  PROVE  Len(chunks) \in Nat /\ Len(chunks') \in Nat /\ Len(chunks) <= Len(chunks')
<1> DEFINE more == Append(chunks, [text |-> buffer, message |-> current])
<1>1. Len(more) = Len(chunks) + 1 /\ Len(chunks) \in Nat
  BY SubmitText
<1>2. chunks' \in {chunks, more}
  <2>1. CASE ModelAnswers \/ ProducerStep
    BY <2>1 DEF ModelAnswers, NextLine, StreamEnds, StreamFails, ProducerStep, PutSentence,
                Boundary, Flush, Finally, WaitForChunks, Submit, Refuse
  <2>2. CASE ConsumerStep \/ HostStep \/ UNCHANGED vars
    BY <2>2 DEF ConsumerStep, YieldAck, YieldSink, StartProducer, CheckStop, PassOn, GetEnd,
                CancelQueued, HostStep, Cancel, Close, vars
  <2>3. CASE \E c \in Chunk : WorkerStep(c) \/ MakePiece(c) \/ SpeechEnds(c)
    BY <2>3 DEF WorkerStep, Start, Enter, Ask, FinishChunk, EmitAudio, AdvanceCursor, LeaveOrder,
                MakePiece, SpeechEnds, SpeakReturns, SpeakRaises
  <2> QED
    BY <2>1, <2>2, <2>3 DEF Next
<1> QED
  BY <1>1, <1>2

(* Outside of the workers a chunk is queued when it is submitted, and       *)
(* cancelled when it still is.                                              *)
LEMMA TasksElsewhere ==
  ASSUME SpeechInv, [Next]_vars, Elsewhere \/ UNCHANGED vars
  PROVE  WorkTypes' /\ SilentUntilAsked'
<1>1. UNCHANGED <<made, holder, spoken, attempts>>
  BY SameOrder, SameRequests DEF orderVars, vars
<1>2. \/ task' = task
      \/ task' = [task EXCEPT ![Len(chunks)] = "queued"] /\ Len(chunks') = Len(chunks) + 1
      \/ task' = [c \in Chunk |-> IF task[c] = "queued" THEN "cancelled" ELSE task[c]]
  <2>1. CASE ModelAnswers \/ ProducerStep
    BY <2>1, SubmitText DEF ModelAnswers, NextLine, StreamEnds, StreamFails, ProducerStep,
                PutSentence, Boundary, Flush, Finally, WaitForChunks, Submit, Refuse, SpeechInv
  <2>2. CASE ConsumerStep \/ HostStep \/ UNCHANGED vars
    BY <2>2 DEF ConsumerStep, YieldAck, YieldSink, StartProducer, CheckStop, PassOn, GetEnd,
                CancelQueued, HostStep, Cancel, Close, vars
  <2> QED
    BY <2>1, <2>2 DEF Elsewhere
<1>3. Len(chunks) \in Nat /\ Len(chunks') \in Nat /\ Len(chunks) <= Len(chunks')
  BY ChunksGrow DEF SpeechInv
<1>4. WorkTypes'
  BY <1>1, <1>2 DEF SpeechInv, WorkTypes
<1>5. ASSUME NEW c \in Chunk
      PROVE  /\ c >= Len(chunks') => task'[c] = "none"
             /\ task'[c] \in Unasked => made[c] = 0
  <2>1. c \in Int /\ (c >= Len(chunks) => task[c] = "none") /\ (task[c] \in Unasked => made[c] = 0)
    BY DEF SpeechInv, SilentUntilAsked, Chunk
  <2>2. c >= Len(chunks') => c >= Len(chunks)
    BY <1>3, <2>1
  <2>3. CASE task'[c] = task[c]
    BY <2>1, <2>2, <2>3
  <2>4. CASE task'[c] = "queued" /\ c = Len(chunks) /\ Len(chunks') = Len(chunks) + 1
    BY <1>3, <2>1, <2>4 DEF Unasked
  <2>5. CASE task[c] = "queued" /\ task'[c] = "cancelled"
    BY <2>1, <2>2, <2>5 DEF Unasked
  <2> QED
    BY <1>2, <2>3, <2>4, <2>5 DEF SpeechInv, WorkTypes
<1>6. ASSUME NEW c \in Chunk
      PROVE  (made[c] # 0 => c \in spoken) /\ (holder = c => c < Len(chunks'))
  <2>1. holder = c => c < Len(chunks)
    BY DEF SpeechInv, SilentUntilAsked
  <2>2. c \in Int /\ (made[c] # 0 => c \in spoken)
    BY DEF SpeechInv, SilentUntilAsked, Chunk
  <2> QED
    BY <1>3, <2>1, <2>2
<1> QED
  BY <1>1, <1>4, <1>5, <1>6 DEF SilentUntilAsked

(* A worker makes sound for a chunk that was asked for, and says so first.  *)
LEMMA TasksOfWorkers ==
  ASSUME SpeechInv, NEW c \in Chunk, WorkerStep(c) \/ MakePiece(c) \/ SpeechEnds(c)
  PROVE  WorkTypes' /\ SilentUntilAsked'
<1>0. /\ TextTypes /\ WorkTypes /\ SilentUntilAsked /\ c \in Int /\ Len(chunks) \in Nat
      /\ chunks' = chunks
  <2>1. TextTypes
    BY DEF SpeechInv
  <2>2. chunks' = chunks
    BY DEF WorkerStep, Start, Enter, Ask, FinishChunk, EmitAudio, AdvanceCursor, LeaveOrder,
           MakePiece, SpeechEnds, SpeakReturns, SpeakRaises
  <2> QED
    BY <2>1, <2>2, SubmitText DEF SpeechInv, Chunk
<1>1. CASE Start(c)
  BY <1>0, <1>1 DEF Start, orderVars, WorkTypes, SilentUntilAsked, Unasked
<1>2. CASE Enter(c) \/ Ask(c)
  BY <1>0, <1>2 DEF Enter, Ask, orderVars, WorkTypes, SilentUntilAsked, Unasked
<1>3. CASE FinishChunk(c)
  BY <1>0, <1>3 DEF FinishChunk, Order!Finish, WorkTypes, SilentUntilAsked, Unasked
<1>4. CASE EmitAudio(c) \/ AdvanceCursor(c)
  BY <1>0, <1>4 DEF EmitAudio, AdvanceCursor, Order!HandOver, Order!Advance, WorkTypes,
                    SilentUntilAsked, Unasked
<1>5. CASE LeaveOrder(c)
  <2>1. /\ holder = c /\ holder' \notin Chunk /\ UNCHANGED <<made, spoken, attempts>>
        /\ task' = [task EXCEPT ![c] = IF task[c] = "piecing" THEN "speaking" ELSE "done"]
    BY <1>5 DEF LeaveOrder, Order!Unlock, Order!Nobody, Chunk
  <2> QED
    BY <1>0, <2>1 DEF WorkTypes, SilentUntilAsked, Unasked
<1>6. CASE MakePiece(c)
  <2>1. /\ task[c] = "speaking" /\ task' = [task EXCEPT ![c] = "piecing"]
        /\ made' = [made EXCEPT ![c] = made[c] + 1] /\ holder' = c
        /\ spoken' = spoken \cup {c} /\ attempts' = attempts
    BY <1>6 DEF MakePiece, Order!Piece
  <2>2. made' \in [Chunk -> Nat]
    BY <1>0, <2>1 DEF WorkTypes
  <2> QED
    BY <1>0, <2>1, <2>2 DEF WorkTypes, SilentUntilAsked, Unasked
<1>7. CASE SpeechEnds(c)
  BY <1>0, <1>7 DEF SpeechEnds, SpeakReturns, SpeakRaises, orderVars, WorkTypes,
                    SilentUntilAsked, Unasked
<1> QED
  BY <1>1, <1>2, <1>3, <1>4, <1>5, <1>6, <1>7 DEF WorkerStep

LEMMA StepSpeech ==
  ASSUME SpeechInv, [Next]_vars
  PROVE  SpeechInv'
<1>1. TextTypes'
  BY TextStep DEF SpeechInv
<1> QED
  BY <1>1, TasksElsewhere, TasksOfWorkers DEF SpeechInv, Next, Elsewhere

LEMMA InitSpeech == Init => SpeechInv
<1> SUFFICES ASSUME Init PROVE SpeechInv
  OBVIOUS
<1>1. TextTypes
  <2>1. /\ <<>> \in Seq(Message) /\ <<>> \in Seq(Nat)
        /\ <<>> \in Seq([text : Seq(Nat), message : Message])
    OBVIOUS
  <2>2. 0 \in Message
    BY TurnAssumption DEF Message
  <2> QED
    BY <2>1, <2>2 DEF Init, TextTypes
<1>2. WorkTypes
  BY DEF Init, Order!Init, WorkTypes, Chunk, Order!Chunk
<1>3. SilentUntilAsked
  BY DEF Init, Order!Init, SilentUntilAsked, Chunk, Order!Chunk, Order!Nobody
<1> QED
  BY <1>1, <1>2, <1>3 DEF SpeechInv

(* A chunk of which anything was heard is not requested again.              *)
THEOREM SaidOnce == Spec => NeverSaidTwice
<1>1. SpeechInv /\ [Next]_vars => SpeechInv'
  BY StepSpeech
<1>2. SpeechInv /\ [Next]_vars => [\A c \in Chunk : attempts'[c] > attempts[c] => made[c] = 0]_vars
  <2> SUFFICES ASSUME SpeechInv, [Next]_vars, NEW d \in Chunk, attempts'[d] > attempts[d]
               PROVE  made[d] = 0
    OBVIOUS
  <2>1. attempts \in [Chunk -> Nat] /\ attempts' # attempts
    BY DEF SpeechInv, WorkTypes
  <2>2. PICK c \in Chunk : Ask(c)
    BY <2>1, WhoRequests
  <2>3. d = c /\ task[c] = "asking"
    BY <2>1, <2>2 DEF Ask
  <2> QED
    BY <2>3 DEF SpeechInv, SilentUntilAsked, Unasked
<1> QED
  BY <1>1, <1>2, InitSpeech, PTL DEF Spec, NeverSaidTwice

(***************************** Late requests *******************************)

Busies == {c \in Chunk : Busy(c)}
Asking == {c \in Chunk : task[c] = "asking"}

LEMMA FewWorkers ==
  /\ IsFiniteSet(Chunk)
  /\ \A S \in SUBSET Chunk : IsFiniteSet(S) /\ Cardinality(S) \in Nat
  /\ \A S \in SUBSET Chunk : \A T \in SUBSET S : Cardinality(T) <= Cardinality(S)
<1>1. 0 \in Int /\ MaxChunks - 1 \in Int
  BY TurnAssumption DEF MaxChunks
<1>2. IsFiniteSet(Chunk)
  BY <1>1, FS_Interval DEF Chunk
<1>3. ASSUME NEW S \in SUBSET Chunk PROVE IsFiniteSet(S) /\ Cardinality(S) \in Nat
  BY <1>2, FS_Subset, FS_CardinalityType
<1>4. ASSUME NEW S \in SUBSET Chunk, NEW T \in SUBSET S PROVE Cardinality(T) <= Cardinality(S)
  BY <1>3, FS_Subset
<1> QED
  BY <1>2, <1>3, <1>4

(* Whoever is not a worker starts nothing and asks for nothing.             *)
LEMMA NobodyElseWorks ==
  ASSUME SpeechInv, [Next]_vars, Elsewhere \/ UNCHANGED vars
  PROVE  /\ UNCHANGED <<attempts, late>>
         /\ \A c \in Chunk : \/ task'[c] = task[c]
                             \/ /\ task[c] \in {"none", "queued"}
                                /\ task'[c] \in {"queued", "cancelled"}
         /\ StoppingWanted => StoppingWanted'
<1>1. UNCHANGED <<attempts, late>>
  BY SameRequests DEF vars
<1>2. CASE ModelAnswers \/ ProducerStep
  <2>1. /\ task' = task \/ task' = [task EXCEPT ![Len(chunks)] = "queued"]
        /\ UNCHANGED <<cancel, stopping>>
    BY <1>2 DEF ModelAnswers, NextLine, StreamEnds, StreamFails, ProducerStep, PutSentence,
                Boundary, Flush, Finally, WaitForChunks, Submit, Refuse
  <2>2. Len(chunks) \in Chunk => task[Len(chunks)] = "none"
    BY SubmitText DEF SpeechInv, SilentUntilAsked
  <2> QED
    BY <1>1, <2>1, <2>2 DEF SpeechInv, WorkTypes, StoppingWanted
<1>3. CASE ConsumerStep \/ HostStep \/ UNCHANGED vars
  <2>1. \/ task' = task
        \/ task' = [c \in Chunk |-> IF task[c] = "queued" THEN "cancelled" ELSE task[c]]
    BY <1>3 DEF ConsumerStep, YieldAck, YieldSink, StartProducer, CheckStop, PassOn, GetEnd,
                CancelQueued, HostStep, Cancel, Close, vars
  <2>2. StoppingWanted => StoppingWanted'
    BY <1>3 DEF ConsumerStep, YieldAck, YieldSink, StartProducer, CheckStop, PassOn, GetEnd,
                CancelQueued, HostStep, Cancel, Close, vars, StoppingWanted
  <2> QED
    BY <1>1, <2>1, <2>2
<1> QED
  BY <1>2, <1>3 DEF Elsewhere

(* A worker sets out to ask only while the turn goes on.                    *)
LEMMA WhoWorks ==
  ASSUME SpeechInv, NEW c \in Chunk, WorkerStep(c) \/ MakePiece(c) \/ SpeechEnds(c)
  PROVE  /\ UNCHANGED <<cancel, stopping>>
         /\ \A d \in Chunk : d # c => task'[d] = task[d] /\ attempts'[d] = attempts[d]
         /\ \/ Start(c) /\ UNCHANGED <<attempts, late>>
            \/ Ask(c)
            \/ /\ Busy(c)' => Busy(c)
               /\ UNCHANGED <<attempts, late>>
               /\ task'[c] \notin {"none", "queued", "entered"}
               /\ task'[c] = "asking" =>
                    /\ ~StoppingWanted
                    /\ task[c] = "entered" \/ (task[c] = "speaking" /\ attempts[c] = 1)
            \/ UNCHANGED <<task, attempts, late>>
<1>0. task \in [Chunk -> {"none", "queued", "cancelled", "done"} \cup Working]
      /\ attempts \in [Chunk -> Nat]
  BY DEF SpeechInv, WorkTypes
<1>1. CASE Start(c) \/ Ask(c)
  BY <1>0, <1>1 DEF Start, Ask, workerVars
<1>2. CASE Enter(c) \/ FinishChunk(c) \/ LeaveOrder(c)
  <2>1. UNCHANGED <<cancel, stopping, attempts, late>>
    BY <1>2 DEF Enter, FinishChunk, LeaveOrder, workerVars, hostVars
  <2>2. \A d \in Chunk : d # c => task'[d] = task[d]
    BY <1>0, <1>2 DEF Enter, FinishChunk, LeaveOrder
  <2>3. /\ Busy(c)' => Busy(c)
        /\ task'[c] \notin {"none", "queued", "entered"}
        /\ task'[c] = "asking" => ~StoppingWanted /\ task[c] = "entered"
    BY <1>0, <1>2 DEF Enter, FinishChunk, LeaveOrder, Busy, Working
  <2> QED
    BY <2>1, <2>2, <2>3
<1>3. CASE EmitAudio(c) \/ AdvanceCursor(c)
  BY <1>0, <1>3 DEF EmitAudio, AdvanceCursor, workerVars, hostVars
<1>4. CASE MakePiece(c) \/ SpeechEnds(c)
  BY <1>0, <1>4 DEF MakePiece, SpeechEnds, SpeakReturns, SpeakRaises, workerVars, hostVars, Busy,
                    Working
<1> QED
  BY <1>1, <1>2, <1>3, <1>4 DEF WorkerStep

LEMMA InitRequests == Init => RequestInv
<1> SUFFICES ASSUME Init PROVE RequestInv
  OBVIOUS
<1>1. \A c \in Chunk : task[c] = "none" /\ attempts[c] = 0
  BY DEF Init
<1>2. {c \in Chunk : Busy(c)} = {} /\ {c \in Chunk : task[c] = "asking"} = {}
  BY <1>1 DEF Busy, Working
<1>3. Cardinality({}) = 0 /\ Workers \in Nat /\ late = 0
  BY FS_EmptySet, TurnAssumption DEF Init
<1> QED
  BY <1>1, <1>2, <1>3 DEF RequestInv

LEMMA StepRequests ==
  ASSUME SpeechInv, RequestInv, [Next]_vars
  PROVE  RequestInv'
<1> DEFINE B == Cardinality(Busies)
           A == Cardinality(Asking)
<1>0. /\ task \in [Chunk -> {"none", "queued", "cancelled", "done"} \cup Working]
      /\ attempts \in [Chunk -> Nat] /\ late \in Nat /\ Workers \in Nat \ {0}
      /\ Busies \in SUBSET Chunk /\ Asking \in SUBSET Busies /\ Asking \in SUBSET Chunk
      /\ Busies' \in SUBSET Chunk /\ Asking' \in SUBSET Busies' /\ Asking' \in SUBSET Chunk
      /\ Cardinality(Busies) <= Workers /\ late + Cardinality(Asking) <= Workers
      /\ ~StoppingWanted => late = 0
      /\ \A S \in SUBSET Chunk : IsFiniteSet(S) /\ Cardinality(S) \in Nat
  BY FewWorkers, TurnAssumption
     DEF SpeechInv, WorkTypes, RequestInv, Busies, Asking, Busy, Working
<1>1. CASE Elsewhere \/ UNCHANGED vars
  <2>1. /\ UNCHANGED <<attempts, late>>
        /\ \A c \in Chunk : \/ task'[c] = task[c]
                            \/ /\ task[c] \in {"none", "queued"}
                               /\ task'[c] \in {"queued", "cancelled"}
        /\ StoppingWanted => StoppingWanted'
    BY <1>1, NobodyElseWorks
  <2>2. Busies' = Busies /\ Asking' = Asking
    BY <2>1 DEF Busies, Asking, Busy, Working
  <2>3. \A c \in Chunk :
          /\ task'[c] \in {"none", "queued", "entered"} => attempts'[c] = 0
          /\ task'[c] = "asking" => attempts'[c] <= 1
    BY <2>1 DEF RequestInv
  <2> QED
    BY <1>0, <2>1, <2>2, <2>3 DEF RequestInv, Busies, Asking
<1>2. ASSUME NEW c \in Chunk, WorkerStep(c) \/ MakePiece(c) \/ SpeechEnds(c) PROVE RequestInv'
  <2>0. /\ StoppingWanted' = StoppingWanted
        /\ \A d \in Chunk : d # c => task'[d] = task[d] /\ attempts'[d] = attempts[d]
    BY <1>2, WhoWorks DEF StoppingWanted
  <2>1. CASE Start(c) /\ UNCHANGED <<attempts, late>>
    <3>1. task[c] = "queued" /\ task'[c] = "entered" /\ B < Workers
      BY <1>0, <2>1 DEF Start, Busies
    <3>2. Busies' = Busies \cup {c} /\ c \notin Busies /\ Asking' = Asking
      BY <2>0, <3>1 DEF Busies, Asking, Busy, Working
    <3>3. Cardinality(Busies') = Cardinality(Busies) + 1
      BY <1>0, <3>2, FS_AddElement
    <3>4. Cardinality(Busies') <= Workers
      BY <1>0, <3>1, <3>3
    <3>5. \A d \in Chunk :
            /\ task'[d] \in {"none", "queued", "entered"} => attempts'[d] = 0
            /\ task'[d] = "asking" => attempts'[d] <= 1
      BY <2>0, <2>1, <3>1 DEF RequestInv
    <3> QED
      BY <1>0, <2>0, <2>1, <3>2, <3>4, <3>5 DEF RequestInv, Busies, Asking
  <2>2. CASE Ask(c)
    <3>1. /\ task[c] = "asking" /\ task'[c] = "speaking"
          /\ late' = IF StoppingWanted THEN late + 1 ELSE late
      BY <1>0, <2>2 DEF Ask
    <3>2. Busies' = Busies /\ Asking' = Asking \ {c} /\ c \in Asking
      BY <2>0, <3>1 DEF Busies, Asking, Busy, Working
    <3>3. Cardinality(Asking') = Cardinality(Asking) - 1
      BY <1>0, <3>2, FS_RemoveElement
    <3>4. late' \in Nat /\ late' + Cardinality(Asking') <= Workers
          /\ (~StoppingWanted' => late' = 0)
      BY <1>0, <2>0, <3>1, <3>3
    <3>5. \A d \in Chunk :
            /\ task'[d] \in {"none", "queued", "entered"} => attempts'[d] = 0
            /\ task'[d] = "asking" => attempts'[d] <= 1
      BY <2>0, <3>1 DEF RequestInv
    <3> QED
      BY <1>0, <3>2, <3>4, <3>5 DEF RequestInv, Busies, Asking
  <2>3. CASE /\ Busy(c)' => Busy(c)
             /\ UNCHANGED <<attempts, late>>
             /\ task'[c] \notin {"none", "queued", "entered"}
             /\ task'[c] = "asking" =>
                  /\ ~StoppingWanted
                  /\ task[c] = "entered" \/ (task[c] = "speaking" /\ attempts[c] = 1)
    <3>1. Busies' \in SUBSET Busies
      BY <2>0, <2>3 DEF Busies, Busy
    <3>2. Cardinality(Busies') <= Workers
      BY <1>0, <3>1, FewWorkers
    <3>3. late' + Cardinality(Asking') <= Workers
      <4>1. CASE StoppingWanted
        <5>1. Asking' \in SUBSET Asking
          BY <2>0, <2>3, <4>1 DEF Asking
        <5>2. Cardinality(Asking') <= Cardinality(Asking)
          BY <1>0, <5>1, FewWorkers
        <5> QED
          BY <1>0, <2>3, <5>2
      <4>2. CASE ~StoppingWanted
        <5>1. Cardinality(Asking') <= Cardinality(Busies')
          BY <1>0, FewWorkers
        <5> QED
          BY <1>0, <2>3, <3>2, <4>2, <5>1
      <4> QED
        BY <4>1, <4>2
    <3>4. \A d \in Chunk :
            /\ task'[d] \in {"none", "queued", "entered"} => attempts'[d] = 0
            /\ task'[d] = "asking" => attempts'[d] <= 1
      BY <2>0, <2>3 DEF RequestInv
    <3> QED
      BY <1>0, <2>0, <2>3, <3>2, <3>3, <3>4 DEF RequestInv, Busies, Asking
  <2>4. CASE UNCHANGED <<task, attempts, late>>
    <3>1. Busies' = Busies /\ Asking' = Asking
      BY <2>4 DEF Busies, Asking, Busy
    <3> QED
      BY <1>0, <2>0, <2>4, <3>1 DEF RequestInv, Busies, Asking
  <2> QED
    BY <1>2, <2>1, <2>2, <2>3, <2>4, WhoWorks
<1> QED
  BY <1>1, <1>2 DEF Next, Elsewhere

(* After the turn is to be stopped, no more requests go out than the pool   *)
(* has threads.                                                             *)
THEOREM FewLateRequests == Spec => []LateRequests
<1>1. SpeechInv /\ RequestInv /\ [Next]_vars => (SpeechInv /\ RequestInv)'
  BY StepSpeech, StepRequests
<1>2. SpeechInv /\ RequestInv => LateRequests
  <2> SUFFICES ASSUME RequestInv PROVE LateRequests
    OBVIOUS
  <2>1. Cardinality({c \in Chunk : task[c] = "asking"}) \in Nat
    BY FewWorkers
  <2> QED
    BY <2>1, TurnAssumption DEF RequestInv, LateRequests
<1> QED
  BY <1>1, <1>2, InitSpeech, InitRequests, PTL DEF Spec

(************************* Who touches what ********************************)

LEMMA ProducerFrame ==
  ASSUME ModelAnswers \/ ProducerStep
  PROVE  UNCHANGED <<out, cpc, failed, cancel, stopping, speaking, attempts, spoken,
                     warnings, next, finished, waiting, holder, made, handed>>
<1>1. CASE ModelAnswers
  BY <1>1 DEF ModelAnswers, NextLine, StreamEnds, StreamFails, orderVars
<1>2. CASE ProducerStep
  BY <1>2 DEF ProducerStep, PutSentence, Boundary, Flush, Finally, WaitForChunks, orderVars
<1> QED
  BY <1>1, <1>2

WorkerActs(c) == WorkerStep(c) \/ MakePiece(c) \/ SpeechEnds(c)

LEMMA WorkerFrame ==
  ASSUME NEW c \in Chunk, WorkerActs(c)
  PROVE  UNCHANGED <<out, cpc, failed, cancel, stopping, speaking, ppc, lines, current,
                     buffer, chunks>>
  BY DEF WorkerActs, WorkerStep, Start, Enter, Ask, FinishChunk, EmitAudio, AdvanceCursor, LeaveOrder,
         MakePiece, SpeechEnds, SpeakReturns, SpeakRaises

LEMMA ConsumerFrame ==
  ASSUME ConsumerStep
  PROVE  /\ UNCHANGED <<cancel, speaking, lines, current, buffer, chunks, attempts,
                        spoken, warnings, next, finished, waiting, holder, made, handed>>
         /\ StartProducer \/ ppc' = ppc
         /\ CancelQueued \/ task' = task
  BY DEF ConsumerStep, YieldAck, YieldSink, StartProducer, CheckStop, PassOn, GetEnd,
         CancelQueued, orderVars

LEMMA HostFrame ==
  ASSUME HostStep \/ UNCHANGED vars
  PROVE  UNCHANGED <<speaking, ppc, lines, current, buffer, chunks, task, attempts, spoken,
                     warnings, queue, failed, out, next, finished, waiting, holder, made, handed>>
  BY DEF HostStep, Cancel, Close, orderVars, vars

LEMMA Actors ==
  ASSUME [Next]_vars
  PROVE  \/ ModelAnswers \/ ProducerStep
         \/ \E c \in Chunk : WorkerActs(c)
         \/ ConsumerStep
         \/ HostStep \/ UNCHANGED vars
  BY DEF Next, WorkerActs

LEMMA LiveBefore ==
  ASSUME [Next]_vars, Live'
  PROVE  Live
<1>1. CASE ConsumerStep
  BY <1>1 DEF ConsumerStep, YieldAck, YieldSink, StartProducer, CheckStop, PassOn, GetEnd,
              CancelQueued, Live
<1>2. CASE HostStep \/ UNCHANGED vars
  BY <1>2 DEF HostStep, Cancel, Close, vars, Live
<1> QED
  BY <1>1, <1>2, Actors, ProducerFrame, WorkerFrame DEF Live

LEMMA FlagsStay ==
  ASSUME [Next]_vars, QueueTypes
  PROVE  /\ speaking' = speaking
         /\ cancel => cancel'
         /\ stopping => stopping'
         /\ StoppingWanted => StoppingWanted'
<1>1. CASE ConsumerStep
  BY <1>1, ConsumerFrame DEF ConsumerStep, YieldAck, YieldSink, StartProducer, CheckStop, PassOn,
                             GetEnd, CancelQueued, StoppingWanted
<1>2. CASE HostStep
  BY <1>2, HostFrame DEF HostStep, Cancel, Close, StoppingWanted
<1>3. CASE UNCHANGED vars
  BY <1>3 DEF vars, StoppingWanted
<1> QED
  BY <1>1, <1>2, <1>3, Actors, ProducerFrame, WorkerFrame DEF StoppingWanted

(******************************** Types ************************************)

LEMMA Typed ==
  ASSUME TurnInv
  PROVE  /\ out \in Seq(Event) /\ queue \in Seq(Event) /\ Issued \in Seq(Event)
         /\ Len(out) \in Nat /\ Len(queue) \in Nat /\ Len(Issued) = Len(out) + Len(queue)
         /\ lines \in Seq(Message) /\ Len(lines) \in Nat /\ Len(lines) <= MaxLines
         /\ buffer \in Seq(Nat) /\ Len(buffer) \in Nat /\ current \in Message
         /\ chunks \in Seq([text : Seq(Nat), message : Message]) /\ Len(chunks) \in Nat
         /\ task \in [Chunk -> {"none", "queued", "cancelled", "done"} \cup Working]
<1>1. out \in Seq(Event)
  <2>1. out \in Seq(Event \ {EndMark})
    BY DEF TurnInv, QueueTypes
  <2> QED
    BY <2>1, SeqMonotonic
<1>2. queue \in Seq(Event)
  BY DEF TurnInv, QueueTypes
<1>3. Issued \in Seq(Event) /\ Len(Issued) = Len(out) + Len(queue)
  BY <1>1, <1>2, ConcatProperties DEF Issued
<1> QED
  BY <1>1, <1>2, <1>3, LenProperties DEF TurnInv, QueueTypes, SpeechInv, TextTypes, WorkTypes

LEMMA Bounds == MaxLines \in Nat /\ MaxMessages \in Nat \ {0} /\ MaxPieces \in Nat
                /\ 0 \in Message
  BY TurnAssumption DEF Message

LEMMA MessageOfType ==
  ASSUME TurnInv, NEW c \in Chunk
  PROVE  /\ MessageOf(c) \in Message
         /\ c < Len(chunks) => c + 1 \in DOMAIN chunks /\ MessageOf(c) = chunks[c + 1].message
<1>1. c \in Nat /\ chunks \in Seq([text : Seq(Nat), message : Message]) /\ Len(chunks) \in Nat
  BY Typed, Bounds DEF Chunk, MaxChunks
<1>2. CASE c < Len(chunks)
  <2>1. c + 1 \in 1 .. Len(chunks) /\ DOMAIN chunks = 1 .. Len(chunks)
    BY <1>1, <1>2
  <2>2. chunks[c + 1] \in [text : Seq(Nat), message : Message]
    BY <1>1, <2>1, ElementOfSeq
  <2> QED
    BY <1>2, <2>1, <2>2 DEF MessageOf
<1>3. CASE ~(c < Len(chunks))
  BY <1>3, Bounds DEF MessageOf
<1> QED
  BY <1>2, <1>3

LEMMA ChunkTypes ==
  ASSUME TurnInv
  PROVE  /\ DOMAIN chunks = 1 .. Len(chunks) /\ Len(chunks) \in Nat
         /\ \A i \in DOMAIN chunks :
              /\ chunks[i].text \in Seq(Nat) /\ chunks[i].message \in Message
              /\ Len(chunks[i].text) \in Nat /\ DOMAIN chunks[i].text = 1 .. Len(chunks[i].text)
              /\ i \in Nat /\ i >= 1
<1>1. chunks \in Seq([text : Seq(Nat), message : Message])
  BY Typed
<1>2. DOMAIN chunks = 1 .. Len(chunks) /\ Len(chunks) \in Nat
  BY <1>1, LenProperties
<1>3. ASSUME NEW i \in DOMAIN chunks PROVE chunks[i] \in [text : Seq(Nat), message : Message]
  BY <1>1, <1>2, ElementOfSeq
<1> QED
  BY <1>2, <1>3, LenProperties

LEMMA EventTypes ==
  /\ {AckEvent, SinkEvent, ErrorEvent, AbortedEvent, EndMark} \subseteq Event
  /\ \A m \in Message, n \in 1 .. MaxLines : Sentence(m, n) \in Event
  /\ \A c \in Chunk, m \in Message, k \in 1 .. MaxPieces : Audio(c, m, k) \in Event
  /\ \A q \in SUBSET Message, w \in SUBSET Chunk : DoneEvent(q, w) \in Event
  BY DEF Event

(* What the producer puts out, and what a worker does.                      *)
LEMMA SentenceType ==
  ASSUME TurnInv, ppc = "put"
  PROVE  /\ Sentence(lines[Len(lines)], Len(lines)) \in Event
         /\ Len(lines) \in 1 .. MaxLines /\ lines[Len(lines)] \in Message
<1>1. lines \in Seq(Message) /\ lines # <<>>
  BY DEF TurnInv, SpeechInv, TextTypes
<1>2. Len(lines) \in 1 .. Len(lines) /\ Len(lines) \in 1 .. MaxLines
  BY <1>1, Typed, Bounds
<1>3. lines[Len(lines)] \in Message
  BY <1>1, <1>2, ElementOfSeq
<1> QED
  BY <1>2, <1>3, EventTypes

(* The next piece that leaves the ordering queue.                           *)
LEMMA NextPieceType ==
  ASSUME TurnInv, Queue!OrderInv, NEW c \in Chunk, EmitAudio(c)
  PROVE  /\ next \in Chunk /\ next < Len(chunks) /\ made[next] # 0
         /\ Head(waiting[next]) \in 1 .. MaxPieces
         /\ Audio(next, MessageOf(next), Head(waiting[next])) \in Event
         /\ handed' = Append(handed, [idx |-> next, piece |-> Head(waiting[next])])
         /\ [idx |-> next, piece |-> Head(waiting[next])] \in Queue!HandedPiece
         /\ holder = c
<1>1. /\ waiting[next] # <<>> /\ holder = c
      /\ handed' = Append(handed, [idx |-> next, piece |-> Head(waiting[next])])
  BY DEF EmitAudio, Order!HandOver
<1>2. /\ next \in Queue!Cursor /\ waiting \in [Queue!Cursor -> Seq(1 .. MaxPieces)]
      /\ waiting[MaxChunks] = <<>>
  BY DEF Queue!OrderInv, Queue!TypeOK, Queue!CursorInv
<1>3. next \in Chunk /\ Queue!Chunk = Chunk
  BY <1>1, <1>2, Bounds DEF Queue!Cursor, Chunk, MaxChunks, Queue!Chunk
<1>4. Head(waiting[next]) \in 1 .. MaxPieces
  BY <1>1, <1>2, HeadTailProperties
<1>5. made[next] # 0 /\ next < Len(chunks)
  <2>1. Len(waiting[next]) <= made[next]
    BY <1>3 DEF Queue!OrderInv, Queue!BufferInv
  <2>2. Len(waiting[next]) \in Nat \ {0}
    BY <1>1, <1>2, EmptySeq
  <2>3. made[next] # 0
    BY <1>3, <2>1, <2>2 DEF TurnInv, SpeechInv, WorkTypes
  <2>4. task[next] # "none"
    BY <1>3, <2>3 DEF TurnInv, SpeechInv, SilentUntilAsked, Unasked
  <2> QED
    BY <1>3, <2>3, <2>4, Typed, Bounds DEF TurnInv, SpeechInv, SilentUntilAsked, Chunk, MaxChunks
<1> QED
  BY <1>1, <1>3, <1>4, <1>5, MessageOfType, EventTypes DEF Queue!HandedPiece

LEMMA EmitsHand ==
  ASSUME TurnInv, Queue!OrderInv, NEW c \in Chunk, EmitAudio(c)
  PROVE  handed' # handed
<1>1. /\ handed' = Append(handed, [idx |-> next, piece |-> Head(waiting[next])])
      /\ [idx |-> next, piece |-> Head(waiting[next])] \in Queue!HandedPiece
  BY NextPieceType
<1>2. handed \in Seq(Queue!HandedPiece)
  BY DEF Queue!OrderInv, Queue!TypeOK
<1>3. Len(handed') = Len(handed) + 1 /\ Len(handed) \in Nat
  BY <1>1, <1>2, AppendProperties, LenProperties
<1> QED
  BY <1>3

(***************************** What is issued ******************************)

(* An event e is issued in a step.                                          *)
Grows(e) ==
  \/ e = AckEvent /\ YieldAck
  \/ e = SinkEvent /\ YieldSink
  \/ e = Sentence(lines[Len(lines)], Len(lines)) /\ PutSentence
  \/ e = ErrorEvent /\ ppc \in {"read", "boundary", "flush"} /\ ppc' = "finally"
  \/ e = EndMark /\ (Finally \/ WaitForChunks) /\ ppc' = "gone"
  \/ \E c \in Chunk :
       /\ EmitAudio(c) /\ ~StoppingWanted
       /\ e = Audio(next, MessageOf(next), Head(waiting[next]))

(* Nothing is issued.                                                       *)
Stays == Issued' = Issued /\ ~PutSentence /\ \A c \in Chunk : EmitAudio(c) => StoppingWanted

(* The turn ends.                                                           *)
Ends ==
  \/ GetEnd /\ queue = <<EndMark>> /\ queue' = <<>> /\ ~Live'
  \/ CancelQueued /\ cpc' = "over" /\ out' = Append(out, AbortedEvent) /\ queue' = queue

(* What has been issued stays, and one event comes behind it or none, until *)
(* the turn ends.                                                           *)
LEMMA IssuedStep ==
  ASSUME TurnInv, Queue!OrderInv, [Next]_vars
  PROVE  \/ Stays
         \/ \E e \in Event : Issued' = Append(Issued, e) /\ Grows(e)
         \/ Ends
<1>0. /\ out \in Seq(Event) /\ queue \in Seq(Event)
      /\ \A c \in Chunk : EmitAudio(c) => handed' # handed
  BY Typed, EmitsHand
<1>1. CASE ModelAnswers \/ ProducerStep
  <2>0. out' = out /\ \A c \in Chunk : ~EmitAudio(c)
    <3>1. out' = out /\ handed' = handed
      BY <1>1, ProducerFrame
    <3> QED
      BY <1>0, <3>1
  <2>1. CASE PutSentence
    <3>1. queue' = Append(queue, Sentence(lines[Len(lines)], Len(lines))) /\ ppc = "put"
      BY <2>1 DEF PutSentence
    <3>2. Sentence(lines[Len(lines)], Len(lines)) \in Event
      BY <3>1, SentenceType
    <3>3. Issued' = Append(Issued, Sentence(lines[Len(lines)], Len(lines)))
      BY <1>0, <2>0, <3>1, <3>2, PutBehind DEF Issued
    <3> QED
      BY <2>1, <3>2, <3>3 DEF Grows
  <2>2. ASSUME ~PutSentence
        PROVE  \/ queue' = queue
               \/ /\ queue' = Append(queue, ErrorEvent)
                  /\ ppc \in {"read", "boundary", "flush"} /\ ppc' = "finally"
               \/ queue' = Append(queue, EndMark) /\ (Finally \/ WaitForChunks) /\ ppc' = "gone"
    BY <1>1, <2>2 DEF ModelAnswers, NextLine, StreamEnds, StreamFails, ProducerStep, Boundary,
                     Flush, Finally, WaitForChunks, Submit, Refuse
  <2>3. ASSUME NEW e \in Event, queue' = Append(queue, e) PROVE Issued' = Append(Issued, e)
    BY <1>0, <2>0, <2>3, PutBehind DEF Issued
  <2>4. queue' = queue => Issued' = Issued
    BY <2>0 DEF Issued
  <2> QED
    BY <2>0, <2>1, <2>2, <2>3, <2>4, EventTypes DEF Grows, Stays
<1>2. ASSUME NEW c \in Chunk, WorkerActs(c)
      PROVE  \/ Stays
             \/ \E e \in Event : Issued' = Append(Issued, e) /\ Grows(e)
  <2>0. out' = out /\ ~PutSentence
    <3>1. ppc' = ppc /\ out' = out
      BY <1>2, WorkerFrame
    <3> QED
      BY <3>1 DEF PutSentence
  <2>1. ASSUME NEW d \in Chunk, EmitAudio(d), ~StoppingWanted
        PROVE  \E e \in Event : Issued' = Append(Issued, e) /\ Grows(e)
    <3> DEFINE e == Audio(next, MessageOf(next), Head(waiting[next]))
    <3>1. e \in Event
      BY <2>1, NextPieceType
    <3>2. queue' = Append(queue, e)
      BY <2>1 DEF EmitAudio
    <3>3. Issued' = Append(Issued, e)
      BY <1>0, <2>0, <3>1, <3>2, PutBehind DEF Issued
    <3>4. Grows(e)
      BY <2>1 DEF Grows
    <3> QED
      BY <3>1, <3>3, <3>4
  <2>2. ASSUME \A d \in Chunk : EmitAudio(d) => StoppingWanted
        PROVE  queue' = queue
    <3>1. CASE EmitAudio(c)
      BY <2>2, <3>1 DEF EmitAudio
    <3>2. CASE ~EmitAudio(c)
      BY <1>2, <3>2 DEF WorkerActs, WorkerStep, Start, Enter, Ask, FinishChunk, AdvanceCursor,
                        LeaveOrder, MakePiece, SpeechEnds, SpeakReturns, SpeakRaises
    <3> QED
      BY <3>1, <3>2
  <2> QED
    BY <2>0, <2>1, <2>2 DEF Issued, Stays
<1>3. CASE ConsumerStep
  <2>0. ~PutSentence /\ \A c \in Chunk : ~EmitAudio(c)
    <3>1. handed' = handed /\ speaking' = speaking /\ (StartProducer \/ ppc' = ppc)
      BY <1>3, ConsumerFrame
    <3>2. ppc \in {"unborn"} \/ ppc' = ppc
      BY <3>1 DEF StartProducer, TurnInv, ConsumerInv, Opening
    <3> QED
      BY <1>0, <3>1, <3>2 DEF PutSentence
  <2>1. CASE YieldAck \/ YieldSink
    <3>1. queue = <<>> /\ queue' = queue
      BY <2>1 DEF YieldAck, YieldSink, TurnInv, ConsumerInv, Opening
    <3>2. PICK e \in {AckEvent, SinkEvent} : out' = Append(out, e) /\ Grows(e)
      BY <2>1 DEF YieldAck, YieldSink, Yield, Grows
    <3>3. e \in Event
      BY EventTypes
    <3>4. Append(out, e) \in Seq(Event)
      BY <1>0, <3>3, AppendProperties
    <3>5. Issued' = Append(Issued, e)
      BY <1>0, <3>1, <3>2, <3>4, ConcatEmptySeq DEF Issued
    <3> QED
      BY <3>2, <3>3, <3>5
  <2>2. CASE PassOn
    <3>1. queue # <<>> /\ out' = Append(out, Head(queue)) /\ queue' = Tail(queue)
      BY <2>2 DEF PassOn, Yield
    <3> QED
      BY <1>0, <2>0, <3>1, MoveOn DEF Issued, Stays
  <2>3. CASE StartProducer \/ CheckStop
    BY <2>0, <2>3 DEF StartProducer, CheckStop, Issued, Stays
  <2>4. CASE GetEnd
    <3>1. queue # <<>> /\ Head(queue) = EndMark /\ queue' = Tail(queue) /\ ~Live'
      BY <2>4 DEF GetEnd, Live
    <3>2. 1 \in DOMAIN queue /\ queue[1] = EndMark
      <4>1. DOMAIN queue = 1 .. Len(queue) /\ Len(queue) \in Nat \ {0}
        BY <1>0, <3>1, EmptySeq, LenProperties
      <4>2. queue[1] = Head(queue)
        BY <1>0
      <4> QED
        BY <3>1, <4>1, <4>2
    <3>3. Len(queue) = 1
      BY <3>2 DEF TurnInv, EndInv
    <3>4. queue = <<EndMark>> /\ Tail(queue) = <<>>
      <4>1. Tail(queue) \in Seq(Event) /\ Len(Tail(queue)) = 0
        BY <1>0, <3>1, <3>3, HeadTailProperties
      <4>2. Tail(queue) = <<>>
        BY <4>1, EmptySeq
      <4>3. <<EndMark>> \in Seq(Event) /\ Len(<<EndMark>>) = 1 /\ <<EndMark>>[1] = EndMark
        BY EventTypes
      <4>4. \A i \in 1 .. Len(queue) : queue[i] = <<EndMark>>[i]
        BY <3>2, <3>3, <4>3
      <4> QED
        BY <1>0, <3>3, <4>2, <4>3, <4>4, SeqEqual
    <3> QED
      BY <2>4, <3>1, <3>4 DEF Ends
  <2>5. CASE CancelQueued
    BY <2>0, <2>5 DEF CancelQueued, Ends, Stays, Issued, Yield
  <2> QED
    BY <1>3, <2>1, <2>2, <2>3, <2>4, <2>5 DEF ConsumerStep
<1>4. CASE HostStep \/ UNCHANGED vars
  <2>1. UNCHANGED <<out, queue, ppc, handed>>
    BY <1>4, HostFrame
  <2> QED
    BY <1>0, <2>1 DEF PutSentence, Issued, Stays
<1> QED
  BY <1>1, <1>2, <1>3, <1>4, Actors

LEMMA StepQueueTypes ==
  ASSUME TurnInv, Queue!OrderInv, [Next]_vars
  PROVE  QueueTypes'
<1>0. QueueTypes
  BY DEF TurnInv
<1>1. {speaking, cancel, stopping, failed}' \subseteq BOOLEAN
  <2>1. CASE ConsumerStep
    BY <1>0, <2>1, ConsumerFrame DEF QueueTypes, ConsumerStep, YieldAck, YieldSink,
       StartProducer, CheckStop, PassOn, GetEnd, CancelQueued
  <2>2. CASE HostStep
    BY <1>0, <2>2, HostFrame DEF QueueTypes, HostStep, Cancel, Close
  <2>3. CASE UNCHANGED vars
    BY <1>0, <2>3 DEF QueueTypes, vars
  <2>4. CASE ModelAnswers \/ ProducerStep
    BY <1>0, <2>4, ProducerFrame DEF QueueTypes
  <2>5. ASSUME NEW c \in Chunk, WorkerActs(c)
        PROVE  {speaking, cancel, stopping, failed}' \subseteq BOOLEAN
    BY <1>0, <2>5, WorkerFrame DEF QueueTypes
  <2> QED
    BY <2>1, <2>2, <2>3, <2>4, <2>5, Actors
<1>2. /\ ppc' \in {"unborn", "read", "put", "boundary", "flush"} \cup Closing
      /\ cpc' \in Opening \cup {"check", "get", "yielded", "superseded", "failing",
                                "closing", "over"}
  <2>1. CASE ConsumerStep
    BY <1>0, <2>1 DEF QueueTypes, ConsumerStep, YieldAck, YieldSink,
       StartProducer, CheckStop, PassOn, GetEnd, CancelQueued, Opening
  <2>2. CASE HostStep
    BY <1>0, <2>2 DEF QueueTypes, HostStep, Cancel, Close
  <2>3. CASE UNCHANGED vars
    BY <1>0, <2>3 DEF QueueTypes, vars
  <2>4. CASE ModelAnswers \/ ProducerStep
    BY <1>0, <2>4, ProducerFrame DEF QueueTypes, ModelAnswers, NextLine, StreamEnds, StreamFails,
       ProducerStep, PutSentence, Boundary, Flush, Finally, WaitForChunks, Submit, Refuse, Closing
  <2> QED
    BY <1>0, <2>1, <2>2, <2>3, <2>4, WorkerFrame, Actors DEF QueueTypes
<1>3. Len(lines') <= MaxLines
  <2>1. ASSUME NEW m \in Message, NextLine(m) PROVE Len(lines') <= MaxLines
    <3>1. Len(Append(lines, m)) = Len(lines) + 1
      BY Typed, AppendProperties
    <3> QED
      BY <1>0, <2>1, <3>1, Typed, Bounds DEF NextLine, QueueTypes
  <2>2. (\E m \in Message : NextLine(m)) \/ lines' = lines
    BY Actors, ProducerFrame, WorkerFrame, ConsumerFrame, HostFrame
    DEF ModelAnswers, StreamEnds, StreamFails, ProducerStep, PutSentence, Boundary, Flush, Finally,
        WaitForChunks
  <2> QED
    BY <1>0, <2>1, <2>2 DEF QueueTypes
<1>4. warnings' \in SUBSET Chunk /\ spoken' \in SUBSET Chunk /\ attempts' \in [Chunk -> 0 .. 2]
  <2>1. ASSUME NEW c \in Chunk, WorkerActs(c)
        PROVE  warnings' \in SUBSET Chunk /\ spoken' \in SUBSET Chunk
               /\ attempts' \in [Chunk -> 0 .. 2]
    <3>1. CASE Ask(c)
      <4>1. attempts[c] \in 0 .. 1
        BY <1>0, <3>1 DEF Ask, TurnInv, RequestInv, QueueTypes
      <4> QED
        BY <1>0, <3>1, <4>1 DEF Ask, QueueTypes
    <3>2. CASE ~Ask(c)
      BY <1>0, <2>1, <3>2 DEF QueueTypes, WorkerActs, WorkerStep, Start, Enter, FinishChunk,
         EmitAudio, AdvanceCursor, LeaveOrder, MakePiece, SpeechEnds, SpeakReturns, SpeakRaises
    <3> QED
      BY <3>1, <3>2
  <2> QED
    BY <1>0, <2>1, Actors, ProducerFrame, ConsumerFrame, HostFrame DEF QueueTypes
<1>5. queue' \in Seq(Event)
  <2>1. queue \in Seq(Event)
    BY Typed
  <2>2. \/ queue' = queue
        \/ queue # <<>> /\ queue' = Tail(queue)
        \/ \E e \in Event : queue' = Append(queue, e)
    <3>1. CASE ConsumerStep
      BY <3>1 DEF ConsumerStep, YieldAck, YieldSink, StartProducer, CheckStop, PassOn, GetEnd,
         CancelQueued
    <3>2. CASE ModelAnswers \/ ProducerStep
      <4>1. CASE PutSentence
        BY <4>1, SentenceType DEF PutSentence
      <4>2. CASE ~PutSentence
        BY <3>2, <4>2, EventTypes DEF ModelAnswers, NextLine, StreamEnds, StreamFails, ProducerStep,
           Boundary, Flush, Finally, WaitForChunks, Submit, Refuse
      <4> QED
        BY <4>1, <4>2
    <3>3. ASSUME NEW c \in Chunk, WorkerActs(c)
          PROVE  queue' = queue \/ \E e \in Event : queue' = Append(queue, e)
      <4>1. CASE EmitAudio(c)
        BY <4>1, NextPieceType DEF EmitAudio
      <4>2. CASE ~EmitAudio(c)
        BY <3>3, <4>2 DEF WorkerActs, WorkerStep, Start, Enter, Ask, FinishChunk, AdvanceCursor,
           LeaveOrder, MakePiece, SpeechEnds, SpeakReturns, SpeakRaises
      <4> QED
        BY <4>1, <4>2
    <3> QED
      BY <3>1, <3>2, <3>3, Actors, HostFrame
  <2> QED
    BY <2>1, <2>2, AppendProperties, HeadTailProperties
<1>6. out' \in Seq(Event \ {EndMark})
  <2>1. out \in Seq(Event \ {EndMark}) /\ queue \in Seq(Event)
    BY <1>0 DEF QueueTypes
  <2>2. out' = out \/ \E e \in Event \ {EndMark} : out' = Append(out, e)
    <3>1. CASE ConsumerStep
      <4>1. CASE GetEnd
        <5>1. Finish \in Event /\ Finish # EndMark
          <6>1. Unspoken \in SUBSET Message
            BY ChunkTypes DEF Unspoken
          <6>2. warnings \in SUBSET Chunk
            BY <1>0 DEF QueueTypes
          <6> QED
            BY <6>1, <6>2, EventTypes DEF Finish, DoneEvent, EndMark
        <5> QED
          BY <4>1, <5>1 DEF GetEnd, Yield
      <4>2. CASE PassOn
        <5>1. Head(queue) \in Event /\ Head(queue) # EndMark
          BY <2>1, <4>2, HeadTailProperties DEF PassOn
        <5> QED
          BY <4>2, <5>1 DEF PassOn, Yield
      <4>3. CASE YieldAck \/ YieldSink \/ CancelQueued
        <5>1. {AckEvent, SinkEvent, AbortedEvent} \subseteq Event \ {EndMark}
          BY EventTypes DEF AckEvent, SinkEvent, AbortedEvent, EndMark
        <5> QED
          BY <4>3, <5>1 DEF YieldAck, YieldSink, CancelQueued, Yield
      <4>4. CASE StartProducer \/ CheckStop
        BY <4>4 DEF StartProducer, CheckStop
      <4> QED
        BY <3>1, <4>1, <4>2, <4>3, <4>4 DEF ConsumerStep
    <3> QED
      BY <3>1, Actors, ProducerFrame, WorkerFrame, HostFrame
  <2> QED
    BY <2>1, <2>2, AppendProperties
<1> QED
  BY <1>1, <1>2, <1>3, <1>4, <1>5, <1>6 DEF QueueTypes

LEMMA OutGrows ==
  ASSUME TurnInv, NEW e \in Event, out' = Append(out, e)
  PROVE  /\ Len(out') = Len(out) + 1
         /\ (\E i \in DOMAIN out' : out'[i].type = "error")
              <=> ((\E i \in DOMAIN out : out[i].type = "error") \/ e.type = "error")
<1>1. /\ DOMAIN out = 1 .. Len(out) /\ Len(out) \in Nat
      /\ Len(out') = Len(out) + 1 /\ DOMAIN out' = 1 .. Len(out) + 1
      /\ \A i \in 1 .. Len(out) : out'[i] = out[i]
      /\ out'[Len(out) + 1] = e
  BY Typed, AppendProperties, LenProperties
<1> QED
  BY <1>1

LEMMA StepConsumer ==
  ASSUME TurnInv, Queue!OrderInv, [Next]_vars
  PROVE  ConsumerInv'
<1>0. ConsumerInv /\ Len(out) \in Nat
  BY Typed DEF TurnInv
<1>1. CASE ModelAnswers \/ ProducerStep
  <2>1. UNCHANGED <<out, cpc, failed, stopping>>
    BY <1>1, ProducerFrame
  <2>2. ppc # "unborn" /\ ppc' # "unborn"
    BY <1>1 DEF ModelAnswers, NextLine, StreamEnds, StreamFails,
       ProducerStep, PutSentence, Boundary, Flush, Finally, WaitForChunks, Submit, Refuse
  <2> QED
    BY <1>0, <2>1, <2>2 DEF ConsumerInv, Opening
<1>2. ASSUME NEW c \in Chunk, WorkerActs(c) PROVE ConsumerInv'
  <2>1. UNCHANGED <<out, cpc, failed, stopping, ppc, lines, chunks, buffer>>
    BY <1>2, WorkerFrame
  <2>2. ppc = "unborn" => queue' = queue
    <3>1. ppc = "unborn" => task[c] = "none" /\ \A d \in Chunk : holder # d
      BY <1>0, Typed DEF ConsumerInv, TurnInv, SpeechInv, SilentUntilAsked, Chunk
    <3>2. ppc = "unborn" => ~EmitAudio(c)
      BY <3>1 DEF EmitAudio, Order!HandOver
    <3> QED
      BY <1>2, <3>2 DEF WorkerActs, WorkerStep, Start, Enter, Ask, FinishChunk, AdvanceCursor,
           LeaveOrder, MakePiece, SpeechEnds, SpeakReturns, SpeakRaises
  <2> QED
    BY <1>0, <2>1, <2>2 DEF ConsumerInv, Opening
<1>3. CASE ConsumerStep
  <2>0. UNCHANGED <<lines, chunks, buffer>> /\ (StartProducer \/ ppc' = ppc)
    BY <1>3, ConsumerFrame
  <2>1. CASE YieldAck \/ YieldSink
    <3>1. PICK e \in {AckEvent, SinkEvent} : out' = Append(out, e)
      BY <2>1 DEF YieldAck, YieldSink, Yield
    <3>2. e \in Event /\ e.type # "error"
      BY EventTypes DEF AckEvent, SinkEvent
    <3>3. /\ Len(out') = Len(out) + 1
          /\ (\E i \in DOMAIN out' : out'[i].type = "error")
               <=> \E i \in DOMAIN out : out[i].type = "error"
      BY <3>1, <3>2, OutGrows
    <3>4. \/ cpc = "ack" /\ cpc' = "sink" /\ out = <<>> /\ Len(out) = 0
          \/ cpc = "sink" /\ cpc' = "begin" /\ Len(out) = 1
      BY <1>0, <2>1 DEF YieldAck, YieldSink, ConsumerInv
    <3> QED
      BY <1>0, <2>0, <2>1, <3>3, <3>4 DEF YieldAck, YieldSink, ConsumerInv, Opening
  <2>2. CASE StartProducer \/ CheckStop
    BY <1>0, <2>0, <2>2 DEF StartProducer, CheckStop, ConsumerInv, Opening, StoppingWanted
  <2>3. CASE PassOn
    <3>1. Head(queue) \in Event /\ out' = Append(out, Head(queue))
      BY <2>3, Typed, HeadTailProperties DEF PassOn, Yield
    <3>2. Head(queue).type = "error" <=> Head(queue) = ErrorEvent
      BY <3>1 DEF Event, AckEvent, SinkEvent, ErrorEvent, AbortedEvent, EndMark, Sentence, Audio,
                  DoneEvent
    <3>3. /\ Len(out') = Len(out) + 1
          /\ (\E i \in DOMAIN out' : out'[i].type = "error")
               <=> ((\E i \in DOMAIN out : out[i].type = "error") \/ Head(queue) = ErrorEvent)
      BY <3>1, <3>2, OutGrows
    <3>4. failed' <=> (failed \/ Head(queue) = ErrorEvent)
      BY <2>3 DEF PassOn
    <3>5. ppc # "unborn" /\ ppc' = ppc /\ cpc = "get" /\ cpc' = "yielded" /\ stopping' = stopping
      BY <1>0, <2>3 DEF PassOn, ConsumerInv, Opening
    <3> QED
      BY <1>0, <3>3, <3>4, <3>5 DEF ConsumerInv, Opening
  <2>4. CASE GetEnd \/ CancelQueued
    <3>1. Finish \in Event /\ Finish.type # "error" /\ AbortedEvent \in Event
          /\ AbortedEvent.type # "error"
      <4>1. Finish \in Event
        BY ChunkTypes, EventTypes DEF Finish, Unspoken, TurnInv, QueueTypes
      <4> QED
        BY <4>1, EventTypes DEF Finish, DoneEvent, AbortedEvent
    <3>2. out' = out \/ out' = Append(out, Finish) \/ out' = Append(out, AbortedEvent)
      BY <2>4 DEF GetEnd, CancelQueued, Yield
    <3>3. /\ Len(out') >= Len(out)
          /\ (\E i \in DOMAIN out' : out'[i].type = "error")
               <=> \E i \in DOMAIN out : out[i].type = "error"
      BY <1>0, <3>1, <3>2, OutGrows
    <3>4. /\ cpc \in {"get", "superseded", "failing", "closing"} /\ failed' = failed
          /\ \/ cpc' = "failing" /\ stopping' = TRUE /\ out' = out
             \/ cpc' = "over"
          /\ stopping => cpc' = "over"
      BY <1>0, <2>4 DEF GetEnd, CancelQueued, ConsumerInv
    <3>5. ppc # "unborn" /\ ppc' = ppc
      BY <1>0, <2>4 DEF GetEnd, CancelQueued, ConsumerInv, Opening
    <3> QED
      BY <1>0, <3>3, <3>4, <3>5 DEF ConsumerInv, Opening
  <2> QED
    BY <1>3, <2>1, <2>2, <2>3, <2>4 DEF ConsumerStep
<1>4. CASE HostStep \/ UNCHANGED vars
  <2>1. UNCHANGED <<ppc, lines, chunks, buffer, queue, out, failed>>
    BY <1>4, HostFrame
  <2> QED
    BY <1>0, <1>4, <2>1 DEF ConsumerInv, HostStep, Cancel, Close, vars, Opening
<1> QED
  BY <1>1, <1>2, <1>3, <1>4, Actors

(******************************** The end **********************************)

LEMMA EventKinds ==
  ASSUME NEW e \in Event
  PROVE  /\ e.type = "error" <=> e = ErrorEvent
         /\ e.type = "end" <=> e = EndMark
         /\ e.type \in {"ack", "sink", "error", "aborted", "end", "sentence", "audio", "done"}
  BY DEF Event, AckEvent, SinkEvent, ErrorEvent, AbortedEvent, EndMark, Sentence, Audio, DoneEvent

LEMMA GrowsKind ==
  ASSUME NEW e, Grows(e)
  PROVE  /\ e.type \notin {"done", "aborted"}
         /\ e.type = "error" => ppc \in {"read", "boundary", "flush"} /\ ppc' = "finally"
         /\ e.type = "end" => (Finally \/ WaitForChunks) /\ ppc' = "gone"
         /\ e.type = "sentence" => e = Sentence(lines[Len(lines)], Len(lines)) /\ PutSentence
         /\ e.type = "audio" => \E c \in Chunk :
              /\ EmitAudio(c) /\ ~StoppingWanted
              /\ e = Audio(next, MessageOf(next), Head(waiting[next]))
  BY DEF Grows, AckEvent, SinkEvent, ErrorEvent, AbortedEvent, EndMark, Sentence, Audio

LEMMA AppendedIssue ==
  ASSUME TurnInv, NEW e \in Event, Issued' = Append(Issued, e)
  PROVE  /\ DOMAIN Issued = 1 .. Len(Issued) /\ Len(Issued) \in Nat
         /\ DOMAIN Issued' = 1 .. Len(Issued) + 1 /\ Len(Issued') = Len(Issued) + 1
         /\ \A i \in DOMAIN Issued : Issued'[i] = Issued[i] /\ Issued[i] \in Event
         /\ Issued'[Len(Issued) + 1] = e
  BY Typed, AppendProperties, LenProperties

(* Where the events of a turn that ends are.                                *)
LEMMA IssuedParts ==
  ASSUME TurnInv
  PROVE  /\ DOMAIN Issued = 1 .. Len(out) + Len(queue)
         /\ DOMAIN out = 1 .. Len(out) /\ DOMAIN queue = 1 .. Len(queue)
         /\ \A i \in DOMAIN out : i \in DOMAIN Issued /\ Issued[i] = out[i]
         /\ \A i \in DOMAIN queue :
              Len(out) + i \in DOMAIN Issued /\ Issued[Len(out) + i] = queue[i]
         /\ \A i \in DOMAIN Issued :
              \/ i \in DOMAIN out
              \/ i - Len(out) \in DOMAIN queue /\ Issued[i] = queue[i - Len(out)]
         /\ Len(out) \in Nat /\ Len(queue) \in Nat
<1>1. /\ out \in Seq(Event) /\ queue \in Seq(Event) /\ Len(out) \in Nat /\ Len(queue) \in Nat
      /\ DOMAIN out = 1 .. Len(out) /\ DOMAIN queue = 1 .. Len(queue)
  BY Typed, LenProperties
<1>2. /\ DOMAIN Issued = 1 .. Len(out) + Len(queue)
      /\ \A i \in 1 .. Len(out) + Len(queue) :
           Issued[i] = IF i <= Len(out) THEN out[i] ELSE queue[i - Len(out)]
  BY <1>1, ConcatProperties, LenProperties DEF Issued
<1> QED
  BY <1>1, <1>2

LEMMA ErrorStep ==
  ASSUME TurnInv, Queue!OrderInv, [Next]_vars
  PROVE  /\ ErrorIssued => ErrorIssued'
         /\ ErrorIssued' => ErrorIssued \/ (ppc \in {"read", "boundary", "flush"} /\ ppc' = "finally")
<1>1. CASE Stays
  BY <1>1 DEF Stays, ErrorIssued
<1>2. ASSUME NEW e \in Event, Issued' = Append(Issued, e), Grows(e)
      PROVE  /\ ErrorIssued => ErrorIssued'
             /\ ErrorIssued' => ErrorIssued \/ (ppc \in {"read", "boundary", "flush"} /\ ppc' = "finally")
  BY <1>2, AppendedIssue, GrowsKind DEF ErrorIssued
<1>3. CASE Ends
  <2>1. ErrorIssued <=> \/ \E i \in DOMAIN out : out[i].type = "error"
                        \/ \E i \in DOMAIN queue : queue[i].type = "error"
    BY IssuedParts DEF ErrorIssued
  <2>2. PICK e \in Event \ {ErrorEvent} : out' = out \/ out' = Append(out, e)
    <3>1. Finish \in Event /\ Finish # ErrorEvent
      <4>1. Finish \in Event
        BY ChunkTypes, EventTypes DEF Finish, Unspoken, TurnInv, QueueTypes
      <4> QED
        BY <4>1 DEF Finish, DoneEvent, ErrorEvent
    <3>2. AbortedEvent \in Event /\ AbortedEvent # ErrorEvent
      BY EventTypes DEF AbortedEvent, ErrorEvent
    <3> QED
      BY <1>3, <3>1, <3>2 DEF Ends, GetEnd, Yield
  <2>3. /\ DOMAIN out = 1 .. Len(out) /\ Len(out) \in Nat /\ out \in Seq(Event)
        /\ \/ out' = out
           \/ /\ DOMAIN out' = 1 .. Len(out) + 1 /\ out'[Len(out) + 1] = e
              /\ \A i \in 1 .. Len(out) : out'[i] = out[i]
        /\ out' \in Seq(Event)
    <3>1. DOMAIN out = 1 .. Len(out) /\ Len(out) \in Nat /\ out \in Seq(Event)
      BY Typed, LenProperties
    <3> DEFINE more == Append(out, e)
    <3>2. /\ more \in Seq(Event) /\ DOMAIN more = 1 .. Len(out) + 1 /\ more[Len(out) + 1] = e
          /\ \A i \in 1 .. Len(out) : more[i] = out[i]
      BY <3>1, Appended
    <3>3. out' = out \/ out' = more
      BY <2>2
    <3> HIDE DEF more
    <3> QED
      BY <3>1, <3>2, <3>3
  <2>4. queue' = queue \/ (queue = <<EndMark>> /\ queue' = <<>>)
    BY <1>3 DEF Ends
  <2>5. ErrorIssued' <=> \/ \E i \in DOMAIN out' : out'[i].type = "error"
                         \/ \E i \in DOMAIN queue' : queue'[i].type = "error"
    <3>1. queue' \in Seq(Event)
      BY <2>4, Typed, EmptySeq
    <3>2. /\ Issued' = out' \o queue' /\ DOMAIN Issued' = 1 .. Len(out') + Len(queue')
          /\ DOMAIN out' = 1 .. Len(out') /\ DOMAIN queue' = 1 .. Len(queue')
          /\ \A i \in 1 .. Len(out') + Len(queue') :
               Issued'[i] = IF i <= Len(out') THEN out'[i] ELSE queue'[i - Len(out')]
          /\ Len(out') \in Nat /\ Len(queue') \in Nat
      BY <2>3, <3>1, ConcatProperties, LenProperties DEF Issued
    <3>3. \A i \in DOMAIN out' : i \in DOMAIN Issued' /\ Issued'[i] = out'[i]
      BY <3>2
    <3>4. \A i \in DOMAIN queue' :
            Len(out') + i \in DOMAIN Issued' /\ Issued'[Len(out') + i] = queue'[i]
      BY <3>2
    <3>5. \A i \in DOMAIN Issued' :
              \/ i \in DOMAIN out' /\ Issued'[i] = out'[i]
              \/ i - Len(out') \in DOMAIN queue' /\ Issued'[i] = queue'[i - Len(out')]
      BY <3>2
    <3> QED
      BY <3>3, <3>4, <3>5 DEF ErrorIssued
  <2>6. (\E i \in DOMAIN out' : out'[i].type = "error") <=> \E i \in DOMAIN out : out[i].type = "error"
    BY <2>2, <2>3, EventKinds
  <2>7. (\E i \in DOMAIN queue' : queue'[i].type = "error")
          <=> \E i \in DOMAIN queue : queue[i].type = "error"
    BY <2>4 DEF EndMark
  <2> QED
    BY <2>1, <2>5, <2>6, <2>7
<1> QED
  BY <1>1, <1>2, <1>3, IssuedStep

LEMMA ClosingStays ==
  ASSUME TurnInv, [Next]_vars
  PROVE  /\ ppc \in Closing => ppc' \in Closing
         /\ ppc = "gone" => ppc' = "gone"
<1>1. CASE ModelAnswers \/ ProducerStep
  BY <1>1 DEF ModelAnswers, NextLine, StreamEnds, StreamFails,
       ProducerStep, PutSentence, Boundary, Flush, Finally, WaitForChunks, Submit, Refuse, Closing
<1>2. CASE ConsumerStep
  BY <1>2, ConsumerFrame DEF StartProducer, TurnInv, ConsumerInv, Opening, Closing
<1> QED
  BY <1>1, <1>2, Actors, WorkerFrame, HostFrame

(* Once the producer is gone nothing is put behind the end mark.            *)
LEMMA GoneQuiet ==
  ASSUME TurnInv, Queue!OrderInv, [Next]_vars, ppc = "gone"
  PROVE  \A e : Grows(e) => FALSE
<1> SUFFICES ASSUME NEW e, Grows(e) PROVE FALSE
  OBVIOUS
<1>1. cpc \notin Opening
  BY DEF TurnInv, ConsumerInv
<1>2. CASE \E c \in Chunk : EmitAudio(c) /\ ~StoppingWanted
  <2>1. PICK c \in Chunk : EmitAudio(c) /\ ~StoppingWanted
    BY <1>2
  <2>2. holder = c
    BY <2>1 DEF EmitAudio, Order!HandOver
  <2> QED
    BY <2>1, <2>2 DEF TurnInv, EndInv, WorkInv
<1> QED
  BY <1>1, <1>2 DEF Grows, YieldAck, YieldSink, PutSentence, Finally, WaitForChunks, Opening

LEMMA StepEnd ==
  ASSUME TurnInv, Queue!OrderInv, [Next]_vars
  PROVE  EndInv'
<1>0. EndInv
  BY DEF TurnInv
<1>1. \A i \in DOMAIN queue' : queue'[i] = EndMark => ppc' = "gone" /\ i = Len(queue')
  <2>0. /\ queue \in Seq(Event) /\ Len(queue) \in Nat /\ DOMAIN queue = 1 .. Len(queue)
        /\ \A i \in DOMAIN queue : queue[i] = EndMark => ppc = "gone" /\ i = Len(queue)
    BY <1>0, Typed, LenProperties DEF EndInv
  <2>1. \/ queue' = queue
        \/ queue # <<>> /\ queue' = Tail(queue)
        \/ \E e \in Event : queue' = Append(queue, e) /\ Grows(e)
    <3>1. CASE ConsumerStep
      BY <3>1 DEF ConsumerStep, YieldAck, YieldSink, StartProducer, CheckStop, PassOn, GetEnd,
         CancelQueued
    <3>2. CASE ModelAnswers \/ ProducerStep
      <4>1. CASE PutSentence
        BY <4>1, SentenceType DEF PutSentence, Grows
      <4>2. CASE ~PutSentence
        BY <3>2, <4>2, EventTypes DEF ModelAnswers, NextLine, StreamEnds, StreamFails, ProducerStep,
           Boundary, Flush, Finally, WaitForChunks, Submit, Refuse, Grows
      <4> QED
        BY <4>1, <4>2
    <3>3. ASSUME NEW c \in Chunk, WorkerActs(c)
          PROVE  queue' = queue \/ \E e \in Event : queue' = Append(queue, e) /\ Grows(e)
      <4>1. CASE EmitAudio(c)
        BY <4>1, NextPieceType DEF EmitAudio, Grows
      <4>2. CASE ~EmitAudio(c)
        BY <3>3, <4>2 DEF WorkerActs, WorkerStep, Start, Enter, Ask, FinishChunk, AdvanceCursor,
           LeaveOrder, MakePiece, SpeechEnds, SpeakReturns, SpeakRaises
      <4> QED
        BY <4>1, <4>2
    <3> QED
      BY <3>1, <3>2, <3>3, Actors, HostFrame
  <2>2. CASE queue' = queue
    BY <2>0, <2>2, ClosingStays
  <2>3. CASE queue # <<>> /\ queue' = Tail(queue)
    <3>1. /\ Len(queue') = Len(queue) - 1 /\ DOMAIN queue' = 1 .. Len(queue')
          /\ \A i \in 1 .. Len(queue') : queue'[i] = queue[i + 1]
      BY <2>0, <2>3, HeadTailProperties, LenProperties
    <3>2. \A i \in DOMAIN queue' : i + 1 \in DOMAIN queue /\ i \in Nat
      BY <2>0, <3>1
    <3> QED
      BY <2>0, <3>1, <3>2, ClosingStays
  <2>4. ASSUME NEW e \in Event, queue' = Append(queue, e), Grows(e)
        PROVE  \A i \in DOMAIN queue' : queue'[i] = EndMark => ppc' = "gone" /\ i = Len(queue')
    <3>1. ppc # "gone"
      BY <2>4, GoneQuiet
    <3>2. /\ DOMAIN queue' = 1 .. Len(queue) + 1 /\ Len(queue') = Len(queue) + 1
          /\ \A i \in 1 .. Len(queue) : queue'[i] = queue[i]
          /\ queue'[Len(queue) + 1] = e
      BY <2>0, <2>4, Appended
    <3>3. e = EndMark => ppc' = "gone"
      BY <2>4, GrowsKind DEF EndMark
    <3> QED
      BY <2>0, <3>1, <3>2, <3>3
  <2> QED
    BY <2>1, <2>2, <2>3, <2>4
<1>2. ErrorIssued' => ppc' \in Closing
  BY <1>0, ErrorStep, ClosingStays DEF EndInv, Closing
<1>3. Live' => \A i \in DOMAIN Issued' : Issued'[i].type \notin {"done", "aborted"}
  <2>1. Live' => Live
    BY LiveBefore
  <2>2. CASE Stays
    BY <1>0, <2>1, <2>2 DEF Stays, EndInv
  <2>3. ASSUME NEW e \in Event, Issued' = Append(Issued, e), Grows(e)
        PROVE  Live' => \A i \in DOMAIN Issued' : Issued'[i].type \notin {"done", "aborted"}
    BY <1>0, <2>1, <2>3, AppendedIssue, GrowsKind DEF EndInv
  <2>4. CASE Ends
    BY <2>4 DEF Ends, Live
  <2> QED
    BY <2>2, <2>3, <2>4, IssuedStep
<1>4. ppc' = "gone" /\ ~StoppingWanted' =>
        \A c \in Chunk : task'[c] \in {"none", "cancelled", "done"}
  <2> SUFFICES ASSUME ppc' = "gone", ~StoppingWanted'
               PROVE  \A c \in Chunk : task'[c] \in {"none", "cancelled", "done"}
    OBVIOUS
  <2>0. ~StoppingWanted
    BY FlagsStay DEF TurnInv
  <2>1. CASE ModelAnswers \/ ProducerStep
    BY <1>0, <2>0, <2>1 DEF ModelAnswers, NextLine, StreamEnds, StreamFails, ProducerStep,
       PutSentence, Boundary, Flush, Finally, WaitForChunks, Submit, Refuse, EndInv
  <2>2. ASSUME NEW c \in Chunk, WorkerActs(c)
        PROVE  FALSE
    <3>1. ppc = "gone"
      BY <2>2, WorkerFrame
    <3>2. \A d \in Chunk : task[d] \in {"none", "cancelled", "done"} /\ holder # d
      BY <1>0, <2>0, <3>1 DEF EndInv, TurnInv, WorkInv
    <3> QED
      BY <2>2, <3>2 DEF WorkerActs, WorkerStep, Start, Enter, Ask, FinishChunk, EmitAudio,
         AdvanceCursor, LeaveOrder, MakePiece, SpeechEnds, SpeakReturns, SpeakRaises,
         Order!HandOver, Order!Advance, Order!Unlock
  <2>3. CASE ConsumerStep
    <3>1. ppc = "gone"
      BY <2>3, ConsumerFrame DEF StartProducer
    <3>2. \A d \in Chunk : task[d] \in {"none", "cancelled", "done"}
      BY <1>0, <2>0, <3>1 DEF EndInv
    <3> QED
      BY <2>3, <3>2, ConsumerFrame DEF CancelQueued
  <2>4. CASE HostStep \/ UNCHANGED vars
    BY <1>0, <2>0, <2>4, HostFrame DEF EndInv
  <2> QED
    BY <2>1, <2>2, <2>3, <2>4, Actors
<1> QED
  BY <1>1, <1>2, <1>3, <1>4 DEF EndInv

(******************************* The workers *******************************)

LEMMA StepWork ==
  ASSUME TurnInv, Queue!OrderInv, [Next]_vars
  PROVE  WorkInv'
<1>0. /\ WorkInv /\ (~Live => ~Live')
      /\ task \in [Chunk -> {"none", "queued", "cancelled", "done"} \cup Working]
      /\ made \in [Chunk -> Nat] /\ Order!Nobody \notin Chunk
  BY LiveBefore, Typed DEF TurnInv, SpeechInv, WorkTypes, Order!Nobody, Chunk
<1>1. ASSUME UNCHANGED <<finished, holder, spoken, made>>,
             \A c \in Chunk : \/ task'[c] = task[c]
                              \/ task[c] \in {"none", "queued"} /\ task'[c] \in {"queued", "entered"}
                              \/ task[c] = "queued" /\ task'[c] = "cancelled" /\ ~Live'
                              \/ task[c] \in {"entered", "asking", "speaking"}
                                   /\ task'[c] \in {"asking", "speaking", "finishing"}
      PROVE  WorkInv'
  BY <1>0, <1>1 DEF WorkInv
<1>2. CASE ModelAnswers \/ ProducerStep
  <2>1. UNCHANGED <<finished, holder, spoken, made>>
    BY <1>2, ProducerFrame
  <2>2. task' = task \/ task' = [task EXCEPT ![Len(chunks)] = "queued"]
    BY <1>2 DEF ModelAnswers, NextLine, StreamEnds, StreamFails, ProducerStep,
       PutSentence, Boundary, Flush, Finally, WaitForChunks, Submit, Refuse
  <2>3. Len(chunks) \in Chunk => task[Len(chunks)] = "none"
    BY Typed DEF TurnInv, SpeechInv, SilentUntilAsked
  <2>4. \A c \in Chunk : \/ task'[c] = task[c]
                         \/ task[c] \in {"none", "queued"} /\ task'[c] \in {"queued", "entered"}
    BY <1>0, <2>2, <2>3
  <2> QED
    BY <1>1, <2>1, <2>4
<1>3. ASSUME NEW c \in Chunk, WorkerActs(c) PROVE WorkInv'
  <2>0. UNCHANGED cpc
    BY <1>3, WorkerFrame
  <2>1. CASE Start(c) \/ Enter(c) \/ Ask(c) \/ SpeechEnds(c)
    <3>1. UNCHANGED <<finished, holder, spoken, made>>
      BY <2>1 DEF Start, Enter, Ask, SpeechEnds, SpeakReturns, SpeakRaises, orderVars
    <3>2. \A d \in Chunk : \/ task'[d] = task[d]
                           \/ task[d] = "queued" /\ task'[d] = "entered"
                           \/ task[d] \in {"entered", "asking", "speaking"}
                                /\ task'[d] \in {"asking", "speaking", "finishing"}
      BY <1>0, <2>1 DEF Start, Enter, Ask, SpeechEnds, SpeakReturns, SpeakRaises
    <3> QED
      BY <1>1, <3>1, <3>2
  <2>2. CASE FinishChunk(c)
    <3>1. /\ task[c] = "finishing" /\ task' = [task EXCEPT ![c] = "ending"] /\ holder = Order!Nobody
          /\ finished' = finished \cup {c} /\ holder' = c /\ UNCHANGED <<made, spoken>>
      BY <2>2 DEF FinishChunk, Order!Finish
    <3> QED
      BY <1>0, <2>0, <3>1 DEF WorkInv, Live
  <2>3. CASE MakePiece(c)
    <3>1. /\ task[c] = "speaking" /\ task' = [task EXCEPT ![c] = "piecing"] /\ holder = Order!Nobody
          /\ made' = [made EXCEPT ![c] = made[c] + 1] /\ holder' = c
          /\ spoken' = spoken \cup {c} /\ finished' = finished
      BY <2>3 DEF MakePiece, Order!Piece
    <3>2. made[c] + 1 # 0
      BY <1>0
    <3> QED
      BY <1>0, <2>0, <3>1, <3>2 DEF WorkInv, Live
  <2>4. CASE EmitAudio(c) \/ AdvanceCursor(c)
    <3>1. UNCHANGED <<task, made, finished, holder, spoken>>
      BY <2>4 DEF EmitAudio, AdvanceCursor, Order!HandOver, Order!Advance
    <3> QED
      BY <1>1, <3>1
  <2>5. CASE LeaveOrder(c)
    <3>1. /\ task' = [task EXCEPT ![c] = IF task[c] = "piecing" THEN "speaking" ELSE "done"]
          /\ holder = c /\ holder' = Order!Nobody /\ UNCHANGED <<made, finished, spoken>>
      BY <2>5 DEF LeaveOrder, Order!Unlock
    <3> QED
      BY <1>0, <2>0, <3>1 DEF WorkInv, Live
  <2> QED
    BY <1>3, <2>1, <2>2, <2>3, <2>4, <2>5 DEF WorkerActs, WorkerStep
<1>4. CASE ConsumerStep
  <2>1. UNCHANGED <<finished, holder, spoken, made>>
    BY <1>4, ConsumerFrame
  <2>2. \A c \in Chunk : \/ task'[c] = task[c]
                         \/ task[c] = "queued" /\ task'[c] = "cancelled" /\ ~Live'
    BY <1>4, ConsumerFrame DEF CancelQueued, Live
  <2> QED
    BY <1>1, <2>1, <2>2
<1>5. CASE HostStep \/ UNCHANGED vars
  BY <1>1, <1>5, HostFrame
<1> QED
  BY <1>2, <1>3, <1>4, <1>5, Actors

(********************************* The text ********************************)

(* What a submitted chunk leaves behind.                                    *)
LEMMA Submitted ==
  ASSUME TurnInv, chunks' = Append(chunks, [text |-> buffer, message |-> current])
  PROVE  /\ Len(chunks') = Len(chunks) + 1 /\ DOMAIN chunks' = 1 .. Len(chunks) + 1
         /\ \A i \in DOMAIN chunks : chunks'[i] = chunks[i]
         /\ chunks'[Len(chunks) + 1].text = buffer
         /\ chunks'[Len(chunks) + 1].message = current
         /\ DOMAIN chunks = 1 .. Len(chunks) /\ Len(chunks) \in Nat
<1> DEFINE S == [text : Seq(Nat), message : Message]
           e == [text |-> buffer, message |-> current]
<1>1. chunks \in Seq(S) /\ e \in S /\ e.text = buffer /\ e.message = current
  BY Typed
<1> HIDE DEF S, e
<1>2. /\ Len(Append(chunks, e)) = Len(chunks) + 1
      /\ DOMAIN Append(chunks, e) = 1 .. Len(chunks) + 1
      /\ \A i \in 1 .. Len(chunks) : Append(chunks, e)[i] = chunks[i]
      /\ Append(chunks, e)[Len(chunks) + 1] = e
      /\ DOMAIN chunks = 1 .. Len(chunks) /\ Len(chunks) \in Nat
  BY <1>1, Appended
<1>3. chunks' = Append(chunks, e)
  BY DEF e
<1> QED
  BY <1>1, <1>2, <1>3

(* The ways in which the producer changes the text it has not submitted.    *)
NewText ==
  \/ UNCHANGED <<lines, current, buffer, chunks>>
  \/ \E m \in Message : NextLine(m) /\ ~StoppingWanted /\ UNCHANGED <<current, buffer, chunks, task>>
  \/ PutSentence /\ JoinBuffer(buffer) /\ UNCHANGED <<chunks, task>>
  \/ Boundary /\ Submit("flush") /\ JoinBuffer(<<>>)
  \/ (Boundary \/ Flush \/ StreamEnds) /\ Refuse
  \/ (Flush \/ StreamEnds) /\ buffer' = <<>> /\ UNCHANGED <<current, lines>>
       /\ chunks' = Append(chunks, [text |-> buffer, message |-> current])
       /\ task' = [task EXCEPT ![Len(chunks)] = "queued"]

LEMMA TextSteps ==
  ASSUME [Next]_vars
  PROVE  NewText
<1>1. CASE ModelAnswers \/ ProducerStep
  BY <1>1 DEF ModelAnswers, NextLine, StreamEnds, StreamFails, ProducerStep,
     PutSentence, Boundary, Flush, Finally, WaitForChunks, Submit, Refuse, NewText
<1> QED
  BY <1>1, Actors, WorkerFrame, ConsumerFrame, HostFrame DEF NewText

(* Lines and chunks are only added; a line is out when its sentence is.     *)
LEMMA OldText ==
  ASSUME TurnInv, [Next]_vars
  PROVE  /\ DOMAIN lines = 1 .. Len(lines) /\ Len(lines) \in Nat
         /\ \A n \in DOMAIN lines : lines[n] \in Message /\ lines[n] \in Int
         /\ \/ lines' = lines
            \/ /\ ppc = "read" /\ ppc' = "put"
               /\ Len(lines') = Len(lines) + 1 /\ DOMAIN lines' = 1 .. Len(lines) + 1
               /\ \A n \in 1 .. Len(lines) : lines'[n] = lines[n]
               /\ lines'[Len(lines) + 1] \in Message /\ lines'[Len(lines) + 1] \in Int
               /\ lines # <<>> => lines[Len(lines)] <= lines'[Len(lines) + 1]
         /\ Put \in Nat /\ Put' \in Nat /\ Put <= Len(lines) /\ Put' <= Len(lines')
         /\ \/ Put' = Put /\ ~PutSentence
            \/ Put' = Put + 1 /\ Put' = Len(lines) /\ PutSentence /\ lines' = lines
<1>1. /\ lines \in Seq(Message) /\ DOMAIN lines = 1 .. Len(lines) /\ Len(lines) \in Nat
      /\ \A n \in DOMAIN lines : lines[n] \in Message /\ lines[n] \in Int
      /\ \A m \in Message : m \in Int
  <2>1. \A m \in Message : m \in Int
    BY Bounds DEF Message
  <2> QED
    BY <2>1, Typed, LenProperties, ElementOfSeq
<1>2. ppc = "put" => Len(lines) >= 1
  BY <1>1, EmptySeq DEF TurnInv, SpeechInv, TextTypes
<1>3. ASSUME NEW m \in Message, NextLine(m), ~StoppingWanted
      PROVE  /\ ppc = "read" /\ ppc' = "put"
             /\ Len(lines') = Len(lines) + 1 /\ DOMAIN lines' = 1 .. Len(lines) + 1
             /\ \A n \in 1 .. Len(lines) : lines'[n] = lines[n]
             /\ lines'[Len(lines) + 1] \in Message /\ lines'[Len(lines) + 1] \in Int
             /\ lines # <<>> => lines[Len(lines)] <= lines'[Len(lines) + 1]
  <2>1. ppc = "read" /\ ppc' = "put" /\ lines' = Append(lines, m) /\ (lines # <<>> => m >= lines[Len(lines)])
    BY <1>3 DEF NextLine
  <2>2. /\ Len(Append(lines, m)) = Len(lines) + 1 /\ DOMAIN Append(lines, m) = 1 .. Len(lines) + 1
        /\ \A n \in 1 .. Len(lines) : Append(lines, m)[n] = lines[n]
        /\ Append(lines, m)[Len(lines) + 1] = m
    BY <1>1, Appended
  <2>3. lines # <<>> => Len(lines) \in DOMAIN lines
    BY <1>1, EmptySeq
  <2> QED
    BY <1>1, <2>1, <2>2, <2>3
<1>4. (\E m \in Message : NextLine(m) /\ ~StoppingWanted) \/ lines' = lines
  BY Actors, ProducerFrame, WorkerFrame, ConsumerFrame, HostFrame
  DEF ModelAnswers, NextLine, StreamEnds, StreamFails, ProducerStep, PutSentence, Boundary, Flush,
      Finally, WaitForChunks
<1>5. CASE \E m \in Message : NextLine(m) /\ ~StoppingWanted
  BY <1>1, <1>3, <1>5 DEF Put, PutSentence
<1>6. CASE lines' = lines /\ ~(\E m \in Message : NextLine(m) /\ ~StoppingWanted)
  <2>1. (ppc = "put" /\ ppc' # "put" /\ PutSentence) \/ ((ppc' = "put" <=> ppc = "put") /\ ~PutSentence)
    <3>1. CASE ModelAnswers \/ ProducerStep
      BY <1>6, <3>1 DEF ModelAnswers, NextLine, StreamEnds, StreamFails, ProducerStep,
         PutSentence, Boundary, Flush, Finally, WaitForChunks, Submit, Refuse
    <3>2. CASE ConsumerStep
      BY <3>2, ConsumerFrame DEF StartProducer, PutSentence, TurnInv, ConsumerInv, Opening
    <3> QED
      BY <3>1, <3>2, Actors, WorkerFrame, HostFrame DEF PutSentence
  <2>2. Put \in Nat /\ Put <= Len(lines)
    BY <1>1, <1>2 DEF Put
  <2>3. Put' = IF ppc' = "put" THEN Len(lines) - 1 ELSE Len(lines)
    BY <1>6 DEF Put
  <2>4. CASE ppc = "put" /\ ppc' # "put" /\ PutSentence
    <3>1. Put = Len(lines) - 1
      BY <2>4 DEF Put
    <3>2. Put' = Len(lines)
      BY <2>3, <2>4
    <3> QED
      BY <1>1, <1>6, <2>2, <2>4, <3>1, <3>2
  <2>5. CASE (ppc' = "put" <=> ppc = "put") /\ ~PutSentence
    <3>1. Put' = Put
      BY <2>3, <2>5 DEF Put
    <3> QED
      BY <1>1, <1>6, <2>2, <2>5, <3>1
  <2> QED
    BY <2>1, <2>4, <2>5
<1> QED
  BY <1>1, <1>4, <1>5, <1>6

LEMMA BufferTypes ==
  ASSUME TurnInv
  PROVE  DOMAIN buffer = 1 .. Len(buffer) /\ Len(buffer) \in Nat /\ (buffer # <<>> => Len(buffer) >= 1)
  BY Typed, LenProperties, EmptySeq

LEMMA Joined ==
  ASSUME TurnInv, NEW t \in Seq(Nat), JoinBuffer(t)
  PROVE  /\ Len(buffer') = Len(t) + 1 /\ DOMAIN buffer' = 1 .. Len(t) + 1 /\ Len(t) \in Nat
         /\ \A j \in 1 .. Len(t) : buffer'[j] = t[j]
         /\ buffer'[Len(t) + 1] = Len(lines)
         /\ current' = lines[Len(lines)]
  BY Typed, Appended DEF JoinBuffer

(* The text of one message is joined.                                       *)
LEMMA JoinedAlike ==
  ASSUME TurnInv, PutSentence, JoinBuffer(buffer), buffer # <<>>
  PROVE  lines[Len(lines)] = current
<1>1. buffer' # buffer
  BY Typed, Joined
<1> QED
  BY <1>1 DEF PutSentence

LEMMA StepMessages ==
  ASSUME TurnInv, [Next]_vars
  PROVE  MessagesInv'
<1>0. /\ MessagesInv /\ LinesInv /\ current \in Int /\ DOMAIN lines = 1 .. Len(lines) /\ Len(lines) \in Nat
      /\ \A n \in DOMAIN lines : lines[n] \in Int
      /\ Put \in Nat /\ Put' \in Nat /\ Put <= Len(lines) /\ Put <= Put'
      /\ Len(buffer) \in Nat /\ DOMAIN buffer = 1 .. Len(buffer)
  BY Typed, Bounds, OldText, BufferTypes DEF TurnInv, Message
<1>1. \A i, j \in DOMAIN lines' : i <= j => lines'[i] <= lines'[j]
  <2>1. CASE lines' = lines
    BY <1>0, <2>1 DEF MessagesInv
  <2>2. CASE /\ Len(lines') = Len(lines) + 1 /\ DOMAIN lines' = 1 .. Len(lines) + 1
             /\ \A n \in 1 .. Len(lines) : lines'[n] = lines[n]
             /\ lines'[Len(lines) + 1] \in Int
             /\ lines # <<>> => lines[Len(lines)] <= lines'[Len(lines) + 1]
    <3>1. SUFFICES ASSUME NEW i \in DOMAIN lines', NEW j \in DOMAIN lines', i <= j
                   PROVE  lines'[i] <= lines'[j]
      OBVIOUS
    <3>2. CASE j <= Len(lines)
      BY <1>0, <2>2, <3>1, <3>2 DEF MessagesInv
    <3>3. CASE i = Len(lines) + 1
      BY <1>0, <2>2, <3>1, <3>3
    <3>4. CASE i <= Len(lines) /\ j = Len(lines) + 1
      <4>1. i \in DOMAIN lines /\ Len(lines) \in DOMAIN lines /\ lines # <<>>
        BY <1>0, <2>2, <3>4
      <4>2. lines[i] <= lines[Len(lines)]
        BY <1>0, <4>1 DEF MessagesInv
      <4> QED
        BY <1>0, <2>2, <3>4, <4>1, <4>2
    <3> QED
      BY <1>0, <2>2, <3>1, <3>2, <3>3, <3>4
  <2> QED
    BY <2>1, <2>2, OldText
<1>2. \A n \in 1 .. Put : n \in 1 .. Put' /\ lines'[n] = lines[n] /\ n \in DOMAIN lines
  <2>1. lines' = lines \/ \A n \in 1 .. Len(lines) : lines'[n] = lines[n]
    BY OldText
  <2> QED
    BY <1>0, <2>1
(* What is in chunks or in the buffer is at most of the newest message.     *)
<1>3. ASSUME NEW n \in 1 .. Put PROVE lines[n] <= lines[Len(lines)]
  BY <1>0 DEF MessagesInv
<1>4. \A i \in DOMAIN chunks : chunks[i].text # <<>> /\ chunks[i].message \in Int
        /\ chunks[i].message <= lines[Len(lines)]
  <2>1. ASSUME NEW i \in DOMAIN chunks
        PROVE  chunks[i].text # <<>> /\ chunks[i].message \in Int
                 /\ chunks[i].message <= lines[Len(lines)]
    <3>1. 1 \in DOMAIN chunks[i].text /\ chunks[i].message \in Message /\ chunks[i].text # <<>>
      BY <1>0, ChunkTypes, EmptySeq DEF LinesInv
    <3>2. chunks[i].text[1] \in 1 .. Put /\ lines[chunks[i].text[1]] = chunks[i].message
      BY <1>0, <3>1 DEF MessagesInv
    <3> QED
      BY <1>3, <3>1, <3>2, Bounds DEF Message
  <2> QED
    BY <2>1
<1> DEFINE Chunks(cs, cur) ==
             \A i \in DOMAIN cs :
               /\ cs[i].message <= cur
               /\ \A j \in DOMAIN cs : i <= j => cs[i].message <= cs[j].message
               /\ \A j \in DOMAIN cs[i].text :
                    cs[i].text[j] \in 1 .. Put' /\ lines'[cs[i].text[j]] = cs[i].message
           Buffer(b, cur) == \A j \in DOMAIN b : b[j] \in 1 .. Put' /\ lines'[b[j]] = cur
           more == Append(chunks, [text |-> buffer, message |-> current])
<1>5. Chunks(chunks, current) /\ Buffer(buffer, current)
  BY <1>0, <1>2 DEF MessagesInv
<1>6. Chunks(chunks, lines[Len(lines)])
  BY <1>4, <1>5
<1>7. Buffer(<<>>, current)
  OBVIOUS
<1>8. ASSUME chunks' = more
      PROVE  /\ Chunks(chunks', current)
             /\ buffer # <<>> => Chunks(chunks', lines[Len(lines)])
  <2>1. /\ DOMAIN chunks' = 1 .. Len(chunks) + 1 /\ \A i \in DOMAIN chunks : chunks'[i] = chunks[i]
        /\ chunks'[Len(chunks) + 1].text = buffer /\ chunks'[Len(chunks) + 1].message = current
        /\ DOMAIN chunks = 1 .. Len(chunks) /\ Len(chunks) \in Nat
    BY <1>8, Submitted
  <2>2. ASSUME NEW i \in DOMAIN chunks'
        PROVE  /\ chunks'[i].message <= current
               /\ \A j \in DOMAIN chunks' : i <= j => chunks'[i].message <= chunks'[j].message
               /\ \A j \in DOMAIN chunks'[i].text :
                    chunks'[i].text[j] \in 1 .. Put' /\ lines'[chunks'[i].text[j]] = chunks'[i].message
    <3>1. CASE i \in DOMAIN chunks
      BY <1>5, <2>1, <3>1
    <3>2. CASE i = Len(chunks) + 1
      BY <1>0, <1>5, <2>1, <3>2
    <3> QED
      BY <2>1, <3>1, <3>2
  <2>3. ASSUME buffer # <<>>, NEW i \in DOMAIN chunks' PROVE chunks'[i].message <= lines[Len(lines)]
    <3>1. current <= lines[Len(lines)]
      <4>1. 1 \in DOMAIN buffer
        BY <2>3, BufferTypes
      <4>2. buffer[1] \in 1 .. Put /\ lines[buffer[1]] = current
        BY <1>0, <4>1 DEF MessagesInv
      <4> QED
        BY <1>3, <4>2
    <3>2. i \in DOMAIN chunks \/ i = Len(chunks) + 1
      BY <2>1
    <3> QED
      BY <1>4, <2>1, <3>1, <3>2
  <2> QED
    BY <2>2, <2>3
<1>9. ASSUME NEW t \in {buffer, <<>>}, JoinBuffer(t), t = buffer /\ t # <<>> => lines[Len(lines)] = current,
             Put' = Len(lines), lines' = lines, Len(lines) >= 1
      PROVE  Buffer(buffer', lines[Len(lines)])
  <2>1. t \in Seq(Nat)
    BY Typed, EmptySeq
  <2>2. /\ DOMAIN buffer' = 1 .. Len(t) + 1 /\ Len(t) \in Nat
        /\ \A j \in 1 .. Len(t) : buffer'[j] = t[j]
        /\ buffer'[Len(t) + 1] = Len(lines)
    BY <1>9, <2>1, Joined
  <2>3. \A j \in 1 .. Len(t) : t = buffer /\ t # <<>> /\ j \in DOMAIN buffer
    BY <1>0, <1>9, <2>1, EmptySeq
  <2>4. \A j \in 1 .. Len(t) : t[j] \in 1 .. Put' /\ lines'[t[j]] = lines[Len(lines)]
    BY <1>5, <1>9, <2>3
  <2> QED
    BY <1>0, <1>9, <2>2, <2>4
<1> HIDE DEF Chunks, Buffer, more
<1>10. Chunks(chunks', current') /\ Buffer(buffer', current')
  <2>1. CASE UNCHANGED <<current, buffer, chunks>>
    BY <1>5, <2>1
  <2>2. CASE PutSentence /\ JoinBuffer(buffer) /\ UNCHANGED <<chunks, task>>
    <3>1. Put' = Len(lines) /\ lines' = lines /\ Len(lines) >= 1 /\ current' = lines[Len(lines)]
      BY <1>0, <2>2, OldText DEF JoinBuffer
    <3>2. buffer # <<>> => lines[Len(lines)] = current
      BY <2>2, <3>1, JoinedAlike DEF PutSentence
    <3> QED
      BY <1>6, <1>9, <2>2, <3>1, <3>2
  <2>3. CASE Boundary /\ Submit("flush") /\ JoinBuffer(<<>>)
    <3>1. Put' = Put /\ lines' = lines /\ Put = Len(lines) /\ current' = lines[Len(lines)] /\ chunks' = more
      BY <1>0, <2>3, OldText DEF JoinBuffer, Boundary, Put, PutSentence, Submit, more
    <3>2. buffer # <<>> /\ Len(lines) >= 1
      BY <1>0, <2>3, EmptySeq, Typed DEF Boundary, LinesInv, TurnInv, SpeechInv, TextTypes
    <3> QED
      BY <1>8, <1>9, <2>3, <3>1, <3>2
  <2>4. CASE (Boundary \/ Flush \/ StreamEnds) /\ Refuse
    <3>1. chunks' = more /\ UNCHANGED <<buffer, current>>
      BY <2>4 DEF Refuse, more
    <3> QED
      BY <1>5, <1>8, <3>1
  <2>5. CASE buffer' = <<>> /\ current' = current /\ chunks' = more
    BY <1>7, <1>8, <2>5
  <2> QED
    BY <2>1, <2>2, <2>3, <2>4, <2>5, TextSteps DEF NewText, more
<1> QED
  BY <1>1, <1>10 DEF MessagesInv, Chunks, Buffer

(* The chunks hold no more lines than are out, and no more chunks.          *)
LEMMA LineBounds ==
  ASSUME TurnInv
  PROVE  /\ \A i \in 0 .. Len(chunks) : LastLine(i) \in Nat /\ LastLine(i) <= Put /\ LastLine(i) >= i
         /\ Len(chunks) <= Put /\ Put <= MaxLines /\ Put \in Nat
         /\ \A i \in DOMAIN chunks : i - 1 \in Chunk /\ i - 1 \in Nat
<1>0. Put \in Nat /\ Put <= Len(lines) /\ Len(lines) <= MaxLines /\ Len(lines) \in Nat
  BY Typed, LenProperties, EmptySeq DEF Put, TurnInv, SpeechInv, TextTypes
<1>1. DOMAIN chunks = 1 .. Len(chunks) /\ Len(chunks) \in Nat
  BY ChunkTypes
<1>2. ASSUME NEW i \in 0 .. Len(chunks)
      PROVE  LastLine(i) \in Nat /\ LastLine(i) <= Put /\ LastLine(i) >= i
  <2>1. CASE i = 0
    BY <1>0, <2>1 DEF LastLine
  <2>2. CASE i # 0
    <3>1. i \in DOMAIN chunks
      BY <1>1, <2>2
    <3>2. chunks[i].text # <<>> /\ chunks[i].text \in Seq(Nat) /\ LastLine(i) >= i
      BY <3>1, ChunkTypes DEF TurnInv, LinesInv
    <3>3. Len(chunks[i].text) \in DOMAIN chunks[i].text
      BY <3>2, EmptySeq, LenProperties
    <3>4. chunks[i].text[Len(chunks[i].text)] \in 1 .. Put
      BY <3>1, <3>3 DEF TurnInv, MessagesInv
    <3> QED
      BY <1>0, <2>2, <3>2, <3>4 DEF LastLine
  <2> QED
    BY <2>1, <2>2
<1>3. Len(chunks) <= Put
  <2>1. Len(chunks) \in 0 .. Len(chunks)
    BY <1>1
  <2> QED
    BY <1>0, <1>1, <1>2, <2>1
<1> QED
  BY <1>0, <1>1, <1>2, <1>3, Bounds DEF Chunk, MaxChunks

LEMMA TaskKept ==
  ASSUME TurnInv, [Next]_vars, NEW c \in Chunk, task'[c] = "none"
  PROVE  task[c] = "none"
<1>0. task \in [Chunk -> {"none", "queued", "cancelled", "done"} \cup Working]
  BY Typed
<1>1. CASE ModelAnswers \/ ProducerStep
  <2>1. task' = task \/ task' = [task EXCEPT ![Len(chunks)] = "queued"]
    BY <1>1 DEF ModelAnswers, NextLine, StreamEnds, StreamFails, ProducerStep,
       PutSentence, Boundary, Flush, Finally, WaitForChunks, Submit, Refuse
  <2> QED
    BY <1>0, <2>1
<1>2. ASSUME NEW d \in Chunk, WorkerActs(d) PROVE task[c] = "none"
  BY <1>0, <1>2 DEF WorkerActs, WorkerStep, Start, Enter, Ask, FinishChunk, EmitAudio,
         AdvanceCursor, LeaveOrder, MakePiece, SpeechEnds, SpeakReturns, SpeakRaises
<1>3. CASE ConsumerStep
  BY <1>0, <1>3, ConsumerFrame DEF CancelQueued
<1> QED
  BY <1>1, <1>2, <1>3, Actors, HostFrame

LEMMA NotSubmitted ==
  ASSUME TurnInv
  PROVE  chunks # Append(chunks, [text |-> buffer, message |-> current])
<1> DEFINE more == Append(chunks, [text |-> buffer, message |-> current])
<1>1. Len(more) = Len(chunks) + 1 /\ Len(chunks) \in Nat
  BY SubmitText DEF TurnInv, SpeechInv
<1> HIDE DEF more
<1>2. chunks # more
  BY <1>1
<1> QED
  BY <1>2 DEF more

LEMMA NoneKept ==
  ASSUME TurnInv, [Next]_vars, chunks' = chunks, NEW c \in Chunk, task[c] = "none"
  PROVE  task'[c] = "none"
<1>0. task \in [Chunk -> {"none", "queued", "cancelled", "done"} \cup Working]
  BY Typed
<1>1. CASE ModelAnswers \/ ProducerStep
  <2>1. task' = task \/ chunks' = Append(chunks, [text |-> buffer, message |-> current])
    BY <1>1 DEF ModelAnswers, NextLine, StreamEnds, StreamFails, ProducerStep,
       PutSentence, Boundary, Flush, Finally, WaitForChunks, Submit, Refuse
  <2>2. chunks # Append(chunks, [text |-> buffer, message |-> current])
    BY NotSubmitted
  <2> QED
    BY <2>1, <2>2
<1>2. ASSUME NEW d \in Chunk, WorkerActs(d) PROVE task'[c] = "none"
  <2>1. holder = d => task[d] \in {"piecing", "ending"}
    BY DEF TurnInv, WorkInv
  <2> QED
    BY <1>0, <1>2, <2>1 DEF WorkerActs, WorkerStep, Start, Enter, Ask, FinishChunk, EmitAudio,
         AdvanceCursor, LeaveOrder, MakePiece, SpeechEnds, SpeakReturns, SpeakRaises, Order!Unlock
<1>3. CASE ConsumerStep
  BY <1>0, <1>3, ConsumerFrame DEF CancelQueued
<1> QED
  BY <1>1, <1>2, <1>3, Actors, HostFrame

(* The chunks are still what they were, or the buffer is a chunk now.       *)
ChunksInv ==
  \A i \in DOMAIN chunks :
    chunks[i].text # <<>> /\ GoesOn(chunks[i].text, LastLine(i - 1)) /\ LastLine(i) >= i

LEMMA Accumulated ==
  ASSUME TurnInv, buffer # <<>>, GoesOn(buffer, LastLine(Len(chunks))),
         chunks' = Append(chunks, [text |-> buffer, message |-> current])
  PROVE  /\ ChunksInv'
         /\ LastLine(Len(chunks))' = LastLine(Len(chunks)) + Len(buffer)
<1>1. /\ Len(chunks') = Len(chunks) + 1 /\ DOMAIN chunks' = 1 .. Len(chunks) + 1
      /\ \A i \in DOMAIN chunks : chunks'[i] = chunks[i]
      /\ chunks'[Len(chunks) + 1].text = buffer
      /\ DOMAIN chunks = 1 .. Len(chunks) /\ Len(chunks) \in Nat
  BY Submitted
<1>2. Len(buffer) \in DOMAIN buffer /\ Len(buffer) \in Nat /\ Len(buffer) >= 1
  BY BufferTypes
<1>3. \A i \in 0 .. Len(chunks) : LastLine(i)' = LastLine(i) /\ LastLine(i) \in Nat /\ LastLine(i) >= i
  BY <1>1, LineBounds DEF LastLine
<1>4. \A n : n = Len(chunks) + 1 => LastLine(n)' = LastLine(Len(chunks)) + Len(buffer)
  <2>1. buffer[Len(buffer)] = LastLine(Len(chunks)) + Len(buffer)
    BY <1>2 DEF GoesOn
  <2> QED
    BY <1>1, <2>1 DEF LastLine
<1>5. ASSUME NEW i \in DOMAIN chunks'
      PROVE  /\ chunks'[i].text # <<>> /\ GoesOn(chunks'[i].text, LastLine(i - 1)')
             /\ LastLine(i)' >= i
  <2>1. CASE i \in DOMAIN chunks
    <3>1. chunks[i].text # <<>> /\ GoesOn(chunks[i].text, LastLine(i - 1)) /\ LastLine(i) >= i
      BY <2>1 DEF TurnInv, LinesInv
    <3>2. i - 1 \in 0 .. Len(chunks) /\ i \in 0 .. Len(chunks)
      BY <1>1, <2>1
    <3> QED
      BY <1>1, <1>3, <2>1, <3>1, <3>2
  <2>2. CASE i = Len(chunks) + 1
    <3>1. i - 1 = Len(chunks) /\ Len(chunks) \in 0 .. Len(chunks)
      BY <1>1, <2>2
    <3> QED
      BY <1>1, <1>2, <1>3, <1>4, <2>2, <3>1
  <2> QED
    BY <1>1, <2>1, <2>2
<1> QED
  BY <1>1, <1>4, <1>5 DEF ChunksInv, GoesOn, LastLine

(* Where the producer stands when the text it holds has not changed.        *)
LEMMA SameText ==
  ASSUME TurnInv, Queue!OrderInv, [Next]_vars, UNCHANGED <<lines, current, buffer, chunks>>
  PROVE  \/ ppc' = ppc
         \/ ppc \in Closing /\ ppc' \in Closing
         \/ ppc = "unborn" /\ ppc' = "read"
         \/ ppc = "flush" /\ ppc' = "read"
         \/ ppc = "put" /\ ppc' = "read" /\ ~speaking
         \/ ppc = "put" /\ ppc' = "boundary" /\ speaking /\ buffer # <<>>
         \/ ppc = "read" /\ ppc' = "finally" /\ (StoppingWanted' \/ ErrorIssued' \/ ~speaking \/ buffer = <<>>)
<1>0. Len(buffer) \in Nat /\ chunks \in Seq([text : Seq(Nat), message : Message]) /\ lines \in Seq(Message)
  BY Typed
<1>1. chunks # Append(chunks, [text |-> buffer, message |-> current])
  BY NotSubmitted
<1>2. CASE StreamFails
  <2>1. queue' = Append(queue, ErrorEvent) /\ out' = out /\ ppc = "read" /\ ppc' = "finally"
    BY <1>2 DEF StreamFails
  <2>2. queue \in Seq(Event) /\ out \in Seq(Event) /\ ErrorEvent \in Event
    BY Typed, EventTypes
  <2>3. Issued' = Append(Issued, ErrorEvent)
    BY <2>1, <2>2, PutBehind DEF Issued
  <2>4. ErrorIssued'
    BY <2>2, <2>3, AppendedIssue DEF ErrorIssued, ErrorEvent
  <2> QED
    BY <2>1, <2>4
<1>3. CASE \E m \in Message : NextLine(m)
  <2>1. PICK m \in Message : NextLine(m)
    BY <1>3
  <2>2. lines # Append(lines, m)
    <3>1. Len(Append(lines, m)) = Len(lines) + 1
      BY <1>0, AppendProperties
    <3> QED
      BY <3>1, Typed
  <2>3. StoppingWanted'
    BY <2>1, <2>2, FlagsStay DEF NextLine, TurnInv
  <2> QED
    BY <2>1, <2>2, <2>3 DEF NextLine
<1>4. CASE StreamEnds
  <2>1. StoppingWanted => StoppingWanted'
    BY FlagsStay DEF TurnInv
  <2> QED
    BY <1>1, <1>4, <2>1 DEF StreamEnds, Submit, Refuse
<1>5. CASE PutSentence
  <2>1. ~JoinBuffer(buffer)
    <3>1. JoinBuffer(buffer) => Len(buffer') = Len(buffer) + 1
      BY Joined, Typed
    <3> QED
      BY <1>0, <3>1
  <2> QED
    BY <1>5, <2>1 DEF PutSentence
<1>6. CASE Boundary \/ Flush
  BY <1>1, <1>6 DEF Boundary, Flush, Submit, Refuse
<1>7. CASE Finally \/ WaitForChunks
  BY <1>7 DEF Finally, WaitForChunks, Closing
<1>8. CASE ConsumerStep
  BY <1>8, ConsumerFrame DEF StartProducer, TurnInv, ConsumerInv, Opening
<1> QED
  BY <1>2, <1>3, <1>4, <1>5, <1>6, <1>7, <1>8, Actors, WorkerFrame, HostFrame
  DEF ModelAnswers, ProducerStep

LEMMA StepLines ==
  ASSUME TurnInv, Queue!OrderInv, [Next]_vars
  PROVE  LinesInv'
<1>0. /\ LinesInv /\ Len(chunks) \in Nat /\ LastLine(Len(chunks)) \in Nat /\ Len(lines) \in Nat
      /\ DOMAIN chunks = 1 .. Len(chunks) /\ Put \in Nat /\ Len(buffer) \in Nat /\ Len(lines) <= MaxLines
      /\ speaking' = speaking /\ (StoppingWanted => StoppingWanted')
      /\ LastLine(Len(chunks)) >= Len(chunks) /\ MaxLines \in Nat
      /\ \A i \in DOMAIN chunks : i - 1 \in Chunk
  <2>1. Len(chunks) \in 0 .. Len(chunks)
    BY ChunkTypes
  <2> QED
    BY <2>1, ChunkTypes, LineBounds, Typed, FlagsStay, Bounds DEF TurnInv
<1>1. (ppc \in Closing => ppc' \in Closing) /\ (ErrorIssued => ErrorIssued')
  BY ClosingStays, ErrorStep
<1>2. ppc \notin Closing => ~Refused /\ GoesOn(buffer, LastLine(Len(chunks)))
  BY <1>0 DEF LinesInv
<1>3. CASE UNCHANGED <<lines, current, buffer, chunks>>
  <2>1. Refused' <=> Refused
    BY <1>0, <1>3, TaskKept, NoneKept DEF Refused
  <2>2. \A i \in 0 .. Len(chunks) : LastLine(i)' = LastLine(i)
    BY <1>3 DEF LastLine
  <2>3. LastLine(Len(chunks))' = LastLine(Len(chunks))
    BY <1>3 DEF LastLine
  <2>4. ChunksInv'
    <3>1. ChunksInv /\ \A i \in DOMAIN chunks : i \in 0 .. Len(chunks) /\ i - 1 \in 0 .. Len(chunks)
      BY <1>0 DEF ChunksInv, LinesInv
    <3> QED
      BY <1>3, <2>2, <3>1 DEF ChunksInv, GoesOn
  <2>5. ~Refused' => GoesOn(buffer', LastLine(Len(chunks))')
    BY <1>0, <1>3, <2>1, <2>3 DEF LinesInv
  <2>6. Put' = IF ppc' = "put" THEN Len(lines) - 1 ELSE Len(lines)
    BY <1>3 DEF Put
  <2>7. speaking' /\ ppc' \notin Closing =>
          LastLine(Len(chunks))' + Len(buffer') = IF ppc' = "boundary" THEN Len(lines') - 1 ELSE Put'
    <3> SUFFICES ASSUME speaking, ppc' \notin Closing
                 PROVE  LastLine(Len(chunks)) + Len(buffer) = IF ppc' = "boundary" THEN Len(lines) - 1 ELSE Put'
      BY <1>0, <1>3, <2>3
    <3>1. LastLine(Len(chunks)) + Len(buffer) = IF ppc = "boundary" THEN Len(lines) - 1 ELSE Put
      BY <1>0, <1>1 DEF LinesInv
    <3>2. \/ ppc' = ppc
          \/ ppc = "unborn" /\ ppc' = "read"
          \/ ppc = "flush" /\ ppc' = "read"
          \/ ppc = "put" /\ ppc' = "boundary" /\ speaking /\ buffer # <<>>
      BY <1>3, SameText DEF Closing
    <3> QED
      BY <1>0, <2>6, <3>1, <3>2 DEF Put
  <2>8. speaking' /\ ppc' \in Closing /\ ~StoppingWanted' /\ ~ErrorIssued' =>
          LastLine(Len(chunks))' = Len(lines')
    <3> SUFFICES ASSUME speaking, ppc' \in Closing, ~StoppingWanted', ~ErrorIssued'
                 PROVE  LastLine(Len(chunks)) = Len(lines)
      BY <1>0, <1>3, <2>3
    <3>1. CASE ppc \in Closing
      BY <1>0, <1>1, <3>1 DEF LinesInv
    <3>2. CASE ppc \notin Closing
      <4>1. ppc = "read" /\ buffer = <<>> /\ Put = Len(lines)
        BY <1>3, <3>2, SameText DEF Closing, Put
      <4>2. LastLine(Len(chunks)) + Len(buffer) = Put /\ Len(buffer) = 0
        BY <1>0, <3>2, <4>1 DEF LinesInv
      <4> QED
        BY <1>0, <4>1, <4>2
    <3> QED
      BY <3>1, <3>2
  <2>9. Refused' => ppc' \in Closing /\ ErrorIssued'
    BY <1>0, <1>1, <2>1 DEF LinesInv
  <2>10. ppc' \in {"boundary", "flush"} => speaking' /\ buffer' # <<>>
    BY <1>0, <1>3, SameText DEF LinesInv, Closing
  <2> QED
    BY <1>0, <1>3, <2>4, <2>5, <2>7, <2>8, <2>9, <2>10 DEF LinesInv, ChunksInv
<1>4. ASSUME NEW m \in Message, NextLine(m), ~StoppingWanted, UNCHANGED <<current, buffer, chunks, task>>
      PROVE  LinesInv'
  <2>1. ppc = "read" /\ ppc' = "put" /\ Len(lines') = Len(lines) + 1 /\ Put = Len(lines)
    BY <1>4, Typed, AppendProperties DEF NextLine, Put
  <2>2. Put' = Len(lines)
    BY <1>0, <2>1 DEF Put
  <2> QED
    BY <1>0, <1>4, <2>1, <2>2 DEF LinesInv, Closing, Refused, LastLine, GoesOn
<1>5. CASE PutSentence /\ JoinBuffer(buffer) /\ UNCHANGED <<chunks, task>>
  <2>1. /\ Len(buffer') = Len(buffer) + 1 /\ DOMAIN buffer' = 1 .. Len(buffer) + 1
        /\ \A j \in 1 .. Len(buffer) : buffer'[j] = buffer[j]
        /\ buffer'[Len(buffer) + 1] = Len(lines)
    BY <1>5, Typed, Joined
  <2>2. speaking /\ ppc = "put" /\ ppc' = "flush" /\ lines' = lines
    BY <1>0, <1>5, <2>1 DEF PutSentence
  <2>3. Put = Len(lines) - 1 /\ Put' = Len(lines)
    BY <2>2 DEF Put
  <2>4. LastLine(Len(chunks)) + Len(buffer) = Len(lines) - 1
    BY <1>0, <2>2, <2>3 DEF LinesInv, Closing
  <2>5. GoesOn(buffer', LastLine(Len(chunks)))
    <3>1. GoesOn(buffer, LastLine(Len(chunks)))
      BY <1>2, <2>2 DEF Closing
    <3>2. \A j \in 1 .. Len(buffer) : buffer[j] = LastLine(Len(chunks)) + j
      BY <3>1, BufferTypes DEF GoesOn
    <3>3. \A j \in 1 .. Len(buffer) + 1 : buffer'[j] = LastLine(Len(chunks)) + j
      <4> DEFINE n == LastLine(Len(chunks))
                 b == Len(buffer)
      <4>1. /\ n \in Nat /\ b \in Nat /\ Len(lines) \in Nat /\ n + b = Len(lines) - 1
            /\ \A j \in 1 .. b : buffer'[j] = n + j
            /\ buffer'[b + 1] = Len(lines)
        BY <1>0, <2>1, <2>4, <3>2
      <4> HIDE DEF n, b
      <4>2. \A j \in 1 .. b + 1 : buffer'[j] = n + j
        BY <4>1
      <4> QED
        BY <4>2 DEF n, b
    <3> QED
      BY <2>1, <3>3 DEF GoesOn
  <2>6. buffer' # <<>> /\ LastLine(Len(chunks))' = LastLine(Len(chunks))
    BY <1>0, <1>5, <2>1 DEF LastLine
  <2> QED
    BY <1>0, <1>2, <1>5, <2>1, <2>2, <2>3, <2>4, <2>5, <2>6 DEF LinesInv, Closing, Refused, LastLine, GoesOn
<1>6. ASSUME ppc \in {"boundary", "flush", "read"}, speaking, buffer # <<>>, lines' = lines,
             chunks' = Append(chunks, [text |-> buffer, message |-> current])
      PROVE  /\ ChunksInv' /\ Len(chunks) \in Chunk /\ Len(chunks') = Len(chunks) + 1
             /\ DOMAIN chunks' = 1 .. Len(chunks) + 1
             /\ LastLine(Len(chunks))' = IF ppc = "boundary" THEN Len(lines) - 1 ELSE Len(lines)
             /\ chunks' # <<>>
  <2>1. GoesOn(buffer, LastLine(Len(chunks)))
    BY <1>2, <1>6 DEF Closing
  <2>2. ChunksInv' /\ LastLine(Len(chunks))' = LastLine(Len(chunks)) + Len(buffer)
    BY <1>6, <2>1, Accumulated
  <2>3. LastLine(Len(chunks)) + Len(buffer) = IF ppc = "boundary" THEN Len(lines) - 1 ELSE Len(lines)
    BY <1>0, <1>6 DEF LinesInv, Closing, Put
  <2>4. Len(buffer) >= 1
    BY <1>6, BufferTypes
  <2>5. Len(chunks) + 1 <= MaxLines
    BY <1>0, <2>3, <2>4
  <2> QED
    BY <1>0, <1>6, <2>2, <2>3, <2>5, Submitted DEF Chunk, MaxChunks
<1>7. CASE (Boundary \/ Flush \/ StreamEnds) /\ Refuse
  <2>1. /\ ppc \in {"boundary", "flush", "read"} /\ speaking /\ buffer # <<>> /\ lines' = lines
        /\ buffer' = buffer /\ ppc' = "finally"
        /\ chunks' = Append(chunks, [text |-> buffer, message |-> current])
        /\ queue' = Append(queue, ErrorEvent) /\ out' = out
    <3>1. Refuse => chunks' # chunks
      <4>1. Refuse => Len(chunks') = Len(chunks) + 1
        BY Submitted DEF Refuse
      <4> QED
        BY <1>0, <4>1
    <3> QED
      BY <1>0, <1>7, <3>1 DEF Boundary, Flush, StreamEnds, Refuse, LinesInv
  <2>2. ErrorIssued'
    <3>1. queue \in Seq(Event) /\ out \in Seq(Event) /\ ErrorEvent \in Event
      BY Typed, EventTypes
    <3>2. Issued' = Append(Issued, ErrorEvent)
      BY <2>1, <3>1, PutBehind DEF Issued
    <3> QED
      BY <3>1, <3>2, AppendedIssue DEF ErrorIssued, ErrorEvent
  <2>3. Refused'
    <3>1. Len(chunks) \in Chunk /\ Len(chunks) + 1 \in DOMAIN chunks' /\ Len(chunks) + 1 - 1 = Len(chunks)
      BY <1>0, <1>6, <2>1
    <3>2. task[Len(chunks)] = "none" /\ task' = task
      BY <1>0, <1>7, <3>1 DEF Refuse, TurnInv, SpeechInv, SilentUntilAsked
    <3>3. task'[Len(chunks) + 1 - 1] = "none"
      BY <3>1, <3>2
    <3> QED
      BY <3>1, <3>3 DEF Refused
  <2> QED
    BY <1>0, <1>6, <2>1, <2>2, <2>3 DEF LinesInv, ChunksInv, Closing
<1>8. ASSUME ppc \in {"boundary", "flush", "read"}, speaking, buffer # <<>>, lines' = lines,
             chunks' = Append(chunks, [text |-> buffer, message |-> current]),
             task' = [task EXCEPT ![Len(chunks)] = "queued"]
      PROVE  ~Refused'
  <2>1. Len(chunks) \in Chunk /\ DOMAIN chunks' = 1 .. Len(chunks) + 1
    BY <1>6, <1>8
  <2>2. \A i \in DOMAIN chunks : task[i - 1] # "none"
    BY <1>2, <1>8 DEF Closing, Refused
  <2>3. ASSUME NEW i \in DOMAIN chunks' PROVE task'[i - 1] # "none"
    <3>1. CASE i \in DOMAIN chunks
      <4>1. task[i - 1] # "none" /\ i - 1 \in Chunk
        BY <1>0, <2>2, <3>1
      <4> QED
        BY <4>1, TaskKept
    <3>2. CASE i = Len(chunks) + 1
      <4>1. i - 1 = Len(chunks)
        BY <1>0, <3>2
      <4> QED
        BY <1>8, <2>1, <4>1, Typed
    <3> QED
      BY <1>0, <2>1, <3>1, <3>2
  <2> QED
    BY <2>3 DEF Refused
<1>9. CASE Boundary /\ Submit("flush") /\ JoinBuffer(<<>>)
  <2>1. /\ ppc = "boundary" /\ speaking /\ buffer # <<>> /\ lines' = lines /\ ppc' = "flush"
        /\ chunks' = Append(chunks, [text |-> buffer, message |-> current])
        /\ task' = [task EXCEPT ![Len(chunks)] = "queued"]
    BY <1>0, <1>9 DEF Boundary, Submit, LinesInv
  <2>2. Len(buffer') = 1 /\ DOMAIN buffer' = 1 .. 1 /\ buffer'[1] = Len(lines)
    <3>1. <<>> \in Seq(Nat) /\ Len(<<>>) = 0
      OBVIOUS
    <3>2. JoinBuffer(<<>>)
      BY <1>9
    <3> DEFINE none == <<>>
    <3>3. none \in Seq(Nat) /\ Len(none) = 0 /\ JoinBuffer(none)
      BY <3>1, <3>2
    <3> HIDE DEF none
    <3>4. Len(buffer') = Len(none) + 1 /\ DOMAIN buffer' = 1 .. Len(none) + 1 /\ buffer'[Len(none) + 1] = Len(lines)
      BY <3>3, Joined
    <3> QED
      BY <3>3, <3>4
  <2>3. ChunksInv' /\ LastLine(Len(chunks))' = Len(lines) - 1 /\ chunks' # <<>>
    BY <1>6, <2>1
  <2>4. GoesOn(buffer', LastLine(Len(chunks))')
    BY <1>0, <2>2, <2>3 DEF GoesOn
  <2>5. Put' = Len(lines) /\ ~Refused' /\ buffer' # <<>>
    <3>1. ~Refused'
      BY <1>8, <2>1
    <3>2. Put' = Len(lines)
      BY <2>1 DEF Put
    <3> QED
      BY <2>2, <3>1, <3>2
  <2> QED
    BY <1>0, <2>1, <2>2, <2>3, <2>4, <2>5 DEF LinesInv, ChunksInv, Closing
<1>10. CASE (Flush \/ StreamEnds) /\ buffer' = <<>> /\ UNCHANGED <<current, lines>>
              /\ chunks' = Append(chunks, [text |-> buffer, message |-> current])
              /\ task' = [task EXCEPT ![Len(chunks)] = "queued"]
  <2>1. /\ ppc \in {"flush", "read"} /\ speaking /\ buffer # <<>> /\ lines' = lines
        /\ ppc' \in {"read", "finally"}
        /\ chunks' = Append(chunks, [text |-> buffer, message |-> current])
        /\ task' = [task EXCEPT ![Len(chunks)] = "queued"]
    <3>1. chunks' # chunks
      <4>1. Len(chunks') = Len(chunks) + 1
        BY <1>10, Submitted
      <4> QED
        BY <1>0, <4>1
    <3> QED
      BY <1>0, <1>10, <3>1 DEF Flush, StreamEnds, Submit, Refuse, LinesInv
  <2>3. ChunksInv' /\ LastLine(Len(chunks))' = Len(lines) /\ chunks' # <<>>
    BY <1>6, <2>1
  <2>4. GoesOn(buffer', LastLine(Len(chunks))') /\ Len(buffer') = 0
    BY <1>10 DEF GoesOn
  <2>5. Put' = Len(lines) /\ ~Refused'
    BY <1>8, <2>1 DEF Put
  <2> QED
    BY <1>0, <2>1, <2>3, <2>4, <2>5 DEF LinesInv, ChunksInv, Closing
<1> QED
  BY <1>3, <1>4, <1>5, <1>7, <1>9, <1>10, TextSteps DEF NewText

(***************************** Text and sound ******************************)

(* What an event put behind a stream changes of what is seen of it.         *)
LEMMA Behind ==
  ASSUME NEW s, NEW r, NEW n \in Nat, DOMAIN s = 1 .. n, DOMAIN r = 1 .. n + 1,
         \A i \in 1 .. n : r[i] = s[i], NEW t
  PROVE  /\ Stream!Newest(r, t) = IF r[n + 1].type = t THEN {n + 1} ELSE Stream!Newest(s, t)
         /\ Stream!Seen(r, t) <=> (Stream!Seen(s, t) \/ r[n + 1].type = t)
<1>1. n + 1 \in DOMAIN r /\ \A i \in DOMAIN r : i \in DOMAIN s \/ i = n + 1
  OBVIOUS
<1>2. \A i \in DOMAIN s : i \in DOMAIN r /\ r[i] = s[i] /\ i <= n + 1 /\ i < n + 1
  OBVIOUS
<1>3. CASE r[n + 1].type = t
  BY <1>1, <1>2, <1>3 DEF Stream!Newest, Stream!Seen
<1>4. CASE r[n + 1].type # t
  BY <1>1, <1>2, <1>4 DEF Stream!Newest, Stream!Seen
<1> QED
  BY <1>3, <1>4

LEMMA OneSentence ==
  ASSUME TurnInv, NEW e \in Event, Issued' = Append(Issued, e), PutSentence
  PROVE  e = Sentence(lines[Len(lines)], Len(lines))
<1> DEFINE x == Sentence(lines[Len(lines)], Len(lines))
<1>1. queue' = Append(queue, x) /\ out' = out /\ x \in Event
  BY SentenceType DEF PutSentence
<1>2. Append(Issued, e) = Append(Issued, x)
  BY <1>1, Typed, PutBehind DEF Issued
<1>3. Append(Issued, e)[Len(Issued) + 1] = e /\ Append(Issued, x)[Len(Issued) + 1] = x
  BY <1>1, Typed, Appended
<1> QED
  BY <1>2, <1>3

LEMMA StepSentences ==
  ASSUME TurnInv, Queue!OrderInv, [Next]_vars
  PROVE  SentencesInv'
<1> SUFFICES ASSUME Live'
             PROVE  /\ \A i \in DOMAIN Issued' : Issued'[i].type = "sentence" =>
                         Issued'[i].line \in 1 .. Put' /\ Issued'[i].message = lines'[Issued'[i].line]
                    /\ \A n \in 1 .. Put' : \E i \in DOMAIN Issued' : Issued'[i] = Sentence(lines'[n], n)
                    /\ Put' # 0 => \E i \in Stream!Newest(Issued', "sentence") :
                                     Issued'[i] = Sentence(lines'[Put'], Put')
  BY DEF SentencesInv, Sentence, Stream!Newest
<1>1. /\ \A i \in DOMAIN Issued : Issued[i].type = "sentence" =>
           Issued[i].line \in 1 .. Put /\ Issued[i].message = lines[Issued[i].line]
      /\ \A n \in 1 .. Put : \E i \in DOMAIN Issued : Issued[i] = Sentence(lines[n], n)
      /\ Put # 0 => \E i \in Stream!Newest(Issued, "sentence") : Issued[i] = Sentence(lines[Put], Put)
  BY LiveBefore DEF TurnInv, SentencesInv
<1>2. /\ Put \in Nat /\ Put' \in Nat /\ Put <= Len(lines)
      /\ \/ Put' = Put /\ ~PutSentence
         \/ Put' = Put + 1 /\ Put' = Len(lines) /\ PutSentence /\ lines' = lines
      /\ \A n \in 1 .. Put : lines'[n] = lines[n]
  <2>1. lines' = lines \/ \A n \in 1 .. Len(lines) : lines'[n] = lines[n]
    BY OldText
  <2>2. Put \in Nat /\ Put <= Len(lines) /\ Len(lines) \in Nat
    BY OldText
  <2>3. \A n \in 1 .. Put : n \in 1 .. Len(lines)
    BY <2>2
  <2> QED
    BY <2>1, <2>2, <2>3, OldText
<1>3. CASE Stays
  <2>1. Put' = Put /\ Issued' = Issued
    BY <1>2, <1>3 DEF Stays
  <2>2. Put # 0 => Put \in 1 .. Put
    BY <1>2
  <2> QED
    BY <1>1, <1>2, <2>1, <2>2
<1>4. ASSUME NEW e \in Event, Issued' = Append(Issued, e), Grows(e)
      PROVE  /\ \A i \in DOMAIN Issued' : Issued'[i].type = "sentence" =>
                  Issued'[i].line \in 1 .. Put' /\ Issued'[i].message = lines'[Issued'[i].line]
             /\ \A n \in 1 .. Put' : \E i \in DOMAIN Issued' : Issued'[i] = Sentence(lines'[n], n)
             /\ Put' # 0 => \E i \in Stream!Newest(Issued', "sentence") :
                              Issued'[i] = Sentence(lines'[Put'], Put')
  <2> DEFINE n == Len(Issued)
  <2>1. /\ DOMAIN Issued = 1 .. n /\ n \in Nat /\ DOMAIN Issued' = 1 .. n + 1
        /\ \A i \in 1 .. n : Issued'[i] = Issued[i]
        /\ Issued'[n + 1] = e
    BY <1>4, AppendedIssue
  <2> HIDE DEF n
  <2>2. Stream!Newest(Issued', "sentence") =
          IF e.type = "sentence" THEN {n + 1} ELSE Stream!Newest(Issued, "sentence")
    <3>1. Stream!Newest(Issued', "sentence") =
            IF Issued'[n + 1].type = "sentence" THEN {n + 1} ELSE Stream!Newest(Issued, "sentence")
      <4> DEFINE r == Issued'
      <4>1. DOMAIN r = 1 .. n + 1 /\ \A i \in 1 .. n : r[i] = Issued[i]
        BY <2>1
      <4> HIDE DEF r
      <4>2. Stream!Newest(r, "sentence") =
              IF r[n + 1].type = "sentence" THEN {n + 1} ELSE Stream!Newest(Issued, "sentence")
        BY <2>1, <4>1, Behind
      <4> QED
        BY <4>2 DEF r
    <3> QED
      BY <2>1, <3>1
  <2>3. CASE PutSentence
    <3>1. e = Sentence(lines[Put'], Put') /\ e.type = "sentence" /\ e.line = Put' /\ e.message = lines'[Put']
      BY <1>2, <1>4, <2>3, OneSentence DEF Sentence
    <3>2. Put' = Put + 1 /\ lines' = lines
      BY <1>2, <2>3
    <3>3. ASSUME NEW k \in 1 .. Put' PROVE \E i \in DOMAIN Issued' : Issued'[i] = Sentence(lines'[k], k)
      <4>1. CASE k = Put'
        BY <2>1, <3>1, <3>2, <4>1
      <4>2. CASE k # Put'
        <5>1. k \in 1 .. Put
          BY <1>2, <3>2, <4>2
        <5> QED
          BY <1>1, <2>1, <3>2, <5>1
      <4> QED
        BY <4>1, <4>2
    <3>4. ASSUME NEW i \in DOMAIN Issued', Issued'[i].type = "sentence"
          PROVE  Issued'[i].line \in 1 .. Put' /\ Issued'[i].message = lines'[Issued'[i].line]
      <4>1. CASE i = n + 1
        BY <1>2, <2>1, <3>1, <3>2, <4>1
      <4>2. CASE i \in 1 .. n
        BY <1>1, <1>2, <2>1, <3>2, <3>4, <4>2
      <4> QED
        BY <2>1, <4>1, <4>2
    <3> QED
      BY <2>1, <2>2, <3>1, <3>2, <3>3, <3>4
  <2>4. CASE ~PutSentence
    <3>1. Put' = Put /\ e.type # "sentence"
      BY <1>2, <1>4, <2>4, GrowsKind
    <3>2. \A k \in 1 .. Put' : \E i \in DOMAIN Issued' : Issued'[i] = Sentence(lines'[k], k)
      BY <1>1, <1>2, <2>1, <3>1
    <3>3. \A i \in DOMAIN Issued' : Issued'[i].type = "sentence" =>
                  Issued'[i].line \in 1 .. Put' /\ Issued'[i].message = lines'[Issued'[i].line]
      BY <1>1, <1>2, <2>1, <3>1
    <3>4. ASSUME Put' # 0
          PROVE  \E i \in Stream!Newest(Issued', "sentence") : Issued'[i] = Sentence(lines'[Put'], Put')
      <4>1. PICK i \in Stream!Newest(Issued, "sentence") : Issued[i] = Sentence(lines[Put], Put)
        BY <1>1, <3>1, <3>4
      <4>2. i \in DOMAIN Issued /\ Put \in 1 .. Put
        BY <1>2, <3>1, <3>4, <4>1 DEF Stream!Newest
      <4> QED
        BY <1>2, <2>1, <2>2, <3>1, <4>1, <4>2
    <3> QED
      BY <3>2, <3>3, <3>4
  <2> QED
    BY <2>3, <2>4
<1>5. CASE Ends
  BY <1>5 DEF Ends, Live
<1> QED
  BY <1>3, <1>4, <1>5, IssuedStep

(* A piece is handed over, or the pieces stay as they are.                  *)
LEMMA HandedGrows ==
  ASSUME TurnInv, Queue!OrderInv, NEW c \in Chunk, EmitAudio(c)
  PROVE  /\ Len(handed) \in Nat /\ DOMAIN handed = 1 .. Len(handed)
         /\ DOMAIN handed' = 1 .. Len(handed) + 1 /\ Len(handed') = Len(handed) + 1
         /\ \A i \in 1 .. Len(handed) : handed'[i] = handed[i]
         /\ handed'[Len(handed) + 1] = [idx |-> next, piece |-> Head(waiting[next])]
         /\ next \in Chunk /\ next < Len(chunks) /\ chunks' = chunks
         /\ \A i \in DOMAIN handed : handed[i] \in Queue!HandedPiece
         /\ next' = next /\ handed' \in Seq(Queue!HandedPiece)
<1> DEFINE e == [idx |-> next, piece |-> Head(waiting[next])]
<1>1. /\ handed' = Append(handed, e) /\ e \in Queue!HandedPiece
      /\ handed \in Seq(Queue!HandedPiece) /\ next \in Chunk /\ next < Len(chunks)
  BY NextPieceType DEF Queue!OrderInv, Queue!TypeOK
<1>2. chunks' = chunks /\ next' = next
  BY DEF EmitAudio, Order!HandOver
<1> HIDE DEF e
<1>3. /\ Len(handed) \in Nat /\ DOMAIN handed = 1 .. Len(handed)
      /\ Append(handed, e) \in Seq(Queue!HandedPiece)
      /\ DOMAIN Append(handed, e) = 1 .. Len(handed) + 1 /\ Len(Append(handed, e)) = Len(handed) + 1
      /\ \A i \in 1 .. Len(handed) : Append(handed, e)[i] = handed[i]
      /\ Append(handed, e)[Len(handed) + 1] = e
      /\ \A i \in DOMAIN handed : handed[i] \in Queue!HandedPiece
  BY <1>1, Appended, ElementOfSeq
<1> QED
  BY <1>1, <1>2, <1>3 DEF e

LEMMA HandedSame ==
  ASSUME [Next]_vars
  PROVE  handed' = handed \/ \E c \in Chunk : EmitAudio(c)
<1>1. ASSUME NEW c \in Chunk, WorkerActs(c), ~EmitAudio(c) PROVE handed' = handed
  BY <1>1 DEF WorkerActs, WorkerStep, Start, Enter, Ask, FinishChunk, AdvanceCursor, LeaveOrder,
        MakePiece, SpeechEnds, SpeakReturns, SpeakRaises, orderVars, Order!Finish, Order!Advance,
        Order!Unlock, Order!Piece
<1> QED
  BY <1>1, Actors, ProducerFrame, ConsumerFrame, HostFrame

LEMMA OneAudio ==
  ASSUME TurnInv, Queue!OrderInv, NEW e \in Event, Issued' = Append(Issued, e),
         NEW c \in Chunk, EmitAudio(c)
  PROVE  ~StoppingWanted /\ e = Audio(next, MessageOf(next), Head(waiting[next]))
<1> DEFINE x == Audio(next, MessageOf(next), Head(waiting[next]))
<1>1. out' = out /\ x \in Event /\ (StoppingWanted => queue' = queue)
      /\ (~StoppingWanted => queue' = Append(queue, x))
  BY NextPieceType DEF EmitAudio
<1> HIDE DEF x
<1>2. ~StoppingWanted
  <2>1. Issued' # Issued
    BY Typed, AppendedIssue
  <2> QED
    BY <1>1, <2>1 DEF Issued
<1>3. Append(Issued, e) = Append(Issued, x)
  BY <1>1, <1>2, Typed, PutBehind DEF Issued
<1>4. Append(Issued, e)[Len(Issued) + 1] = e /\ Append(Issued, x)[Len(Issued) + 1] = x
  BY <1>1, Typed, Appended
<1>5. e = x
  BY <1>3, <1>4
<1> QED
  BY <1>2, <1>5 DEF x

LEMMA MessageStays ==
  ASSUME TurnInv, [Next]_vars
  PROVE  /\ Len(chunks) \in Nat /\ Len(chunks') \in Nat /\ Len(chunks) <= Len(chunks')
         /\ \A i \in DOMAIN chunks : i \in DOMAIN chunks' /\ chunks'[i] = chunks[i]
         /\ DOMAIN chunks = 1 .. Len(chunks) /\ DOMAIN chunks' = 1 .. Len(chunks')
         /\ \A c \in Chunk : c < Len(chunks) => MessageOf(c)' = MessageOf(c)
<1>1. /\ Len(chunks) \in Nat /\ Len(chunks') \in Nat /\ Len(chunks) <= Len(chunks')
      /\ \A i \in DOMAIN chunks : i \in DOMAIN chunks' /\ chunks'[i] = chunks[i]
      /\ DOMAIN chunks = 1 .. Len(chunks) /\ DOMAIN chunks' = 1 .. Len(chunks')
  <2>1. chunks' = chunks \/ chunks' = Append(chunks, [text |-> buffer, message |-> current])
    BY TextSteps DEF NewText, Submit, Refuse
  <2> QED
    BY <2>1, Submitted, ChunkTypes
<1>2. ASSUME NEW c \in Chunk, c < Len(chunks) PROVE MessageOf(c)' = MessageOf(c)
  <2>1. c \in Nat
    BY Bounds DEF Chunk, MaxChunks
  <2>2. c + 1 \in DOMAIN chunks /\ c < Len(chunks')
    BY <1>1, <1>2, <2>1
  <2> QED
    BY <1>1, <1>2, <2>2 DEF MessageOf
<1> QED
  BY <1>1, <1>2

(* The sound of a stream s, handed over as h, with the messages f of the    *)
(* first m chunks.                                                          *)
Named(p, f) == Audio(p.idx, f[p.idx], p.piece)
Told(s, h, f, m) ==
  \A i \in DOMAIN s : s[i].type = "audio" =>
    /\ s[i].idx \in Chunk /\ s[i].idx < m
    /\ \E n \in DOMAIN h : s[i] = Named(h[n], f)
AllTold(s, h, f) == \A n \in DOMAIN h : \E i \in DOMAIN s : s[i] = Named(h[n], f)
LastTold(s, h, f) ==
  h # <<>> => \E i \in Stream!Newest(s, "audio") : s[i] = Named(h[Len(h)], f)

Messages == [c \in Chunk |-> MessageOf(c)]

LEMMA SoundParts ==
  ASSUME Queue!OrderInv
  PROVE  SoundInv <=> (Live => /\ Told(Issued, handed, Messages, Len(chunks))
                               /\ ~StoppingWanted => AllTold(Issued, handed, Messages)
                                                       /\ LastTold(Issued, handed, Messages))
<1>1. handed \in Seq(Queue!HandedPiece)
  BY DEF Queue!OrderInv, Queue!TypeOK
<1>2. \A p \in Queue!HandedPiece : p.idx \in Chunk
  BY DEF Queue!HandedPiece, Queue!Chunk, Chunk, MaxChunks
<1>3. \A n \in DOMAIN handed : Named(handed[n], Messages) = AudioOf(handed[n])
  BY <1>1, <1>2, ElementOfSeq, LenProperties DEF Named, AudioOf, Messages
<1>4. handed # <<>> => Len(handed) \in DOMAIN handed
  BY <1>1, LenProperties, EmptySeq
<1> QED
  BY <1>3, <1>4 DEF SoundInv, Told, AllTold, LastTold

(* What is told stays told, under the names of the chunks.                  *)
LEMMA SameName ==
  ASSUME NEW s, NEW h, NEW f, NEW m, NEW g, Told(s, h, f, m),
         \A c \in Chunk : c < m => g[c] = f[c],
         NEW n \in DOMAIN h, NEW i \in DOMAIN s, s[i] = Named(h[n], f)
  PROVE  s[i] = Named(h[n], g)
<1>1. s[i].type = "audio" /\ s[i].idx = h[n].idx
  BY DEF Named, Audio
<1>2. h[n].idx \in Chunk /\ h[n].idx < m
  BY <1>1 DEF Told
<1> QED
  BY <1>2 DEF Named

LEMMA StillTold ==
  ASSUME NEW s, NEW h, NEW f, NEW m, NEW g, NEW k, Told(s, h, f, m), m \in Nat, k \in Nat, m <= k,
         \A c \in Chunk : c < m => g[c] = f[c]
  PROVE  Told(s, h, g, k)
<1>0. \A c \in Chunk : c \in Nat
  BY Bounds DEF Chunk, MaxChunks
<1> SUFFICES ASSUME NEW i \in DOMAIN s, s[i].type = "audio"
             PROVE  s[i].idx \in Chunk /\ s[i].idx < k /\ \E n \in DOMAIN h : s[i] = Named(h[n], g)
  BY DEF Told
<1>1. PICK n \in DOMAIN h : s[i] = Named(h[n], f)
  BY DEF Told
<1>2. s[i] = Named(h[n], g)
  BY <1>1, SameName
<1> QED
  BY <1>0, <1>2 DEF Told

LEMMA StepSound ==
  ASSUME TurnInv, Queue!OrderInv, [Next]_vars
  PROVE  SoundInv'
<1> DEFINE f == Messages
           g == Messages'
           m == Len(chunks)
           k == Len(chunks')
           h == handed
           hh == handed'
           s == Issued
           r == Issued'
           Good(t) == Told(t, hh, g, k) /\ (~StoppingWanted' => AllTold(t, hh, g) /\ LastTold(t, hh, g))
<1>1. Queue!OrderInv' /\ h \in Seq(Queue!HandedPiece) /\ hh \in Seq(Queue!HandedPiece)
  BY StepQueue DEF Queue!OrderInv, Queue!TypeOK, Queue!HandedPiece, Queue!Chunk
<1>2. SUFFICES ASSUME Live' PROVE Good(r)
  <2>1. SoundInv' <=> (Live' => Good(r))
    <3>1. \A p \in Queue!HandedPiece : p.idx \in Chunk
      BY DEF Queue!HandedPiece, Queue!Chunk, Chunk, MaxChunks
    <3>2. \A n \in DOMAIN hh : Named(hh[n], g) = AudioOf(handed[n])'
      BY <1>1, <3>1, ElementOfSeq, LenProperties DEF Named, AudioOf, Messages
    <3>3. hh # <<>> => Len(hh) \in DOMAIN hh
      BY <1>1, LenProperties, EmptySeq
    <3> QED
      BY <3>2, <3>3 DEF SoundInv, Told, AllTold, LastTold, Stream!Newest
  <2> QED
    BY <1>2, <2>1
<1>3. Told(s, h, f, m) /\ (~StoppingWanted => AllTold(s, h, f) /\ LastTold(s, h, f))
  BY <1>2, LiveBefore, SoundParts DEF TurnInv
<1>4. m \in Nat /\ k \in Nat /\ m <= k /\ \A c \in Chunk : c < m => g[c] = f[c]
  BY MessageStays DEF Messages
<1>5. StoppingWanted => StoppingWanted'
  BY FlagsStay DEF TurnInv
<1>6. DOMAIN h = 1 .. Len(h) /\ Len(h) \in Nat /\ (h # <<>> => Len(h) \in DOMAIN h)
  BY <1>1, LenProperties, EmptySeq
(* The names of what has been told.                                         *)
<1>7. /\ Told(s, h, g, k)
      /\ ~StoppingWanted => AllTold(s, h, g) /\ LastTold(s, h, g)
  <2>1. /\ Told(s, h, g, k)
        /\ \A n \in DOMAIN h, i \in DOMAIN s : s[i] = Named(h[n], f) => s[i] = Named(h[n], g)
    <3> HIDE DEF f, g, m, k, h, s, Good
    <3>1. Told(s, h, g, k)
      BY <1>3, <1>4, StillTold
    <3>2. \A n \in DOMAIN h, i \in DOMAIN s : s[i] = Named(h[n], f) => s[i] = Named(h[n], g)
      BY <1>3, <1>4, SameName
    <3> QED
      BY <3>1, <3>2
  <2> QED
    BY <1>3, <1>6, <2>1 DEF AllTold, LastTold, Stream!Newest
<1>8. CASE handed' = handed /\ \A c \in Chunk : ~EmitAudio(c)
  <2>1. CASE Stays
    BY <1>5, <1>7, <1>8, <2>1 DEF Stays
  <2>2. ASSUME NEW e \in Event, Issued' = Append(Issued, e), Grows(e) PROVE Good(r)
    <3>1. e.type # "audio"
      BY <1>8, <2>2, GrowsKind
    <3> DEFINE n == Len(Issued)
    <3>2. /\ DOMAIN s = 1 .. n /\ n \in Nat /\ DOMAIN r = 1 .. n + 1
          /\ \A i \in 1 .. n : r[i] = s[i]
          /\ r[n + 1] = e
      BY <2>2, AppendedIssue
    <3>3. hh = h
      BY <1>8
    <3> HIDE DEF n, r, s, h, hh, g, k
    <3>4. Stream!Newest(r, "audio") = Stream!Newest(s, "audio")
      BY <3>1, <3>2, Behind
    <3>5. Told(r, hh, g, k)
      BY <1>7, <3>1, <3>2, <3>3 DEF Told
    <3>6. ~StoppingWanted' => AllTold(r, hh, g)
      <4>1. \A i \in DOMAIN s : i \in DOMAIN r /\ r[i] = s[i]
        BY <3>2
      <4> QED
        BY <1>5, <1>7, <3>3, <4>1 DEF AllTold
    <3>7. ~StoppingWanted' => LastTold(r, hh, g)
      <4>1. \A i \in Stream!Newest(s, "audio") : r[i] = s[i]
        BY <3>2 DEF Stream!Newest
      <4> QED
        BY <1>5, <1>7, <3>3, <3>4, <4>1 DEF LastTold
    <3> QED
      BY <3>5, <3>6, <3>7
  <2>3. CASE Ends
    BY <1>2, <2>3 DEF Ends, Live
  <2> QED
    BY <2>1, <2>2, <2>3, IssuedStep
<1>9. ASSUME NEW c \in Chunk, EmitAudio(c) PROVE Good(r)
  <2> DEFINE p == [idx |-> next, piece |-> Head(waiting[next])]
             l == Len(handed)
  <2>1. /\ DOMAIN h = 1 .. l /\ DOMAIN hh = 1 .. l + 1 /\ l \in Nat /\ Len(hh) = l + 1
        /\ \A i \in 1 .. l : hh[i] = h[i]
        /\ hh[l + 1] = p
        /\ next \in Chunk /\ next < m /\ k = m
    BY <1>9, HandedGrows
  <2>2. Named(p, g) = Audio(next, MessageOf(next), Head(waiting[next])) /\ p.idx = next
    BY <1>4, <2>1 DEF Named, Messages
  <2>3. Told(s, hh, g, k)
    <3>1. \A i \in DOMAIN h : i \in DOMAIN hh /\ hh[i] = h[i]
      BY <2>1
    <3> HIDE DEF h, hh, s, g, k
    <3> QED
      BY <1>7, <3>1 DEF Told
  <2>4. CASE Stays
    BY <1>5, <1>9, <2>3, <2>4 DEF Stays
  <2>5. ASSUME NEW e \in Event, Issued' = Append(Issued, e) PROVE Good(r)
    <3> DEFINE n == Len(Issued)
    <3>1. ~StoppingWanted /\ e = Named(p, g) /\ e.type = "audio" /\ e.idx = next
      BY <1>9, <2>2, <2>5, OneAudio DEF Audio
    <3>2. /\ DOMAIN s = 1 .. n /\ n \in Nat /\ DOMAIN r = 1 .. n + 1
          /\ \A i \in 1 .. n : r[i] = s[i]
          /\ r[n + 1] = e
      BY <2>5, AppendedIssue
    <3> HIDE DEF n, r, s, h, hh, g, k, p, l, m
    <3>3. Told(r, hh, g, k)
      <4> SUFFICES ASSUME NEW i \in DOMAIN r, r[i].type = "audio"
                   PROVE  r[i].idx \in Chunk /\ r[i].idx < k /\ \E j \in DOMAIN hh : r[i] = Named(hh[j], g)
        BY DEF Told
      <4>1. CASE i \in DOMAIN s
        BY <2>3, <3>2, <4>1 DEF Told
      <4>2. CASE i = n + 1
        BY <2>1, <3>1, <3>2, <4>2
      <4> QED
        BY <3>2, <4>1, <4>2
    <3>4. AllTold(r, hh, g)
      <4> SUFFICES ASSUME NEW j \in DOMAIN hh
                   PROVE  \E i \in DOMAIN r : r[i] = Named(hh[j], g)
        BY DEF AllTold
      <4>1. CASE j \in DOMAIN h
        <5>1. hh[j] = h[j] /\ \E i \in DOMAIN s : s[i] = Named(h[j], g)
          BY <1>7, <2>1, <3>1, <4>1 DEF AllTold
        <5>2. \A i \in DOMAIN s : i \in DOMAIN r /\ r[i] = s[i]
          BY <3>2
        <5> QED
          BY <5>1, <5>2
      <4>2. CASE j = l + 1
        BY <2>1, <3>1, <3>2, <4>2
      <4> QED
        BY <2>1, <4>1, <4>2
    <3>5. LastTold(r, hh, g)
      <4>1. Stream!Newest(r, "audio") = {n + 1}
        BY <3>1, <3>2, Behind
      <4> QED
        BY <2>1, <3>1, <3>2, <4>1 DEF LastTold
    <3> QED
      BY <3>3, <3>4, <3>5
  <2>6. CASE Ends
    BY <1>2, <2>6 DEF Ends, Live
  <2> QED
    BY <2>4, <2>5, <2>6, IssuedStep
<1> QED
  BY <1>8, <1>9, HandedSame

(******************************* The stream ********************************)

(* The piece that leaves the ordering queue continues the last one, or      *)
(* begins a later chunk.                                                    *)
LEMMA NextInOrder ==
  ASSUME Queue!OrderInv, next \in Chunk, waiting[next] # <<>>
  PROVE  /\ handed = <<>> => Head(waiting[next]) = 1
         /\ handed # <<>> =>
              /\ handed[Len(handed)].idx \in Chunk
              /\ \/ /\ handed[Len(handed)].idx = next
                    /\ Head(waiting[next]) = handed[Len(handed)].piece + 1
                 \/ handed[Len(handed)].idx < next /\ Head(waiting[next]) = 1
<1> DEFINE sent == Queue!sent[next]
           last == handed[Len(handed)]
<1>0. next \in Nat /\ MaxPieces \in Nat /\ Queue!Chunk = Chunk
  BY Bounds DEF Chunk, MaxChunks, Queue!Chunk
<1>1. /\ waiting[next] \in Seq(1 .. MaxPieces) /\ made[next] \in 0 .. MaxPieces
      /\ handed \in Seq(Queue!HandedPiece)
  BY <1>0 DEF Queue!OrderInv, Queue!TypeOK, Queue!Cursor, Chunk, MaxChunks
<1>2. Len(waiting[next]) \in Nat \ {0} /\ Head(waiting[next]) = waiting[next][1]
  BY <1>1, EmptySeq
<1>3. /\ sent \in Nat /\ Head(waiting[next]) = sent + 1
      /\ sent + 1 <= MaxPieces
  <2>1. sent = made[next] - Len(waiting[next]) /\ Len(waiting[next]) <= made[next]
    BY <1>0 DEF Queue!sent, Queue!OrderInv, Queue!BufferInv
  <2>2. 1 \in 1 .. Len(waiting[next])
    BY <1>2
  <2>3. waiting[next][1] = sent + 1
    BY <1>0, <2>2 DEF Queue!OrderInv, Queue!BufferInv
  <2>4. Head(waiting[next]) \in 1 .. MaxPieces
    BY <1>1, HeadTailProperties
  <2> HIDE DEF sent
  <2> QED
    BY <1>0, <1>1, <1>2, <2>1, <2>3, <2>4
<1>4. \A k \in 1 .. MaxPieces :
        (\E i \in DOMAIN handed : handed[i] = [idx |-> next, piece |-> k]) <=> k <= sent
  BY <1>0 DEF Queue!OrderInv, Queue!NothingLost
<1>5. ASSUME handed = <<>> PROVE sent = 0
  <2>1. sent # 0 => 1 \in 1 .. MaxPieces /\ 1 <= sent
    BY <1>0, <1>3
  <2> QED
    BY <1>3, <1>4, <1>5, <2>1
<1>6. ASSUME handed # <<>>
      PROVE  /\ last.idx \in Chunk
             /\ (last.idx = next /\ sent = last.piece) \/ (last.idx < next /\ sent = 0)
  <2>1. Len(handed) \in DOMAIN handed /\ DOMAIN handed = 1 .. Len(handed)
    BY <1>1, <1>6, LenProperties, EmptySeq
  <2>2. last \in Queue!HandedPiece
    BY <1>1, <2>1, ElementOfSeq, LenProperties
  <2>3. /\ last.idx \in Chunk /\ last.idx \in Nat /\ last.piece \in 1 .. MaxPieces
        /\ last.idx <= next
        /\ last.piece <= Queue!sent[last.idx]
        /\ \A j \in DOMAIN handed : j < Len(handed) => Queue!Before(handed[j], last)
    <3>1. last.idx <= next /\ last.piece <= Queue!sent[last.idx]
      BY <2>1 DEF Queue!OrderInv, Queue!HandedInv
    <3>2. last.idx \in Chunk /\ last.piece \in 1 .. MaxPieces
      BY <1>0, <2>2 DEF Queue!HandedPiece
    <3>3. last.idx \in Nat
      BY <3>2, Bounds DEF Chunk, MaxChunks
    <3>4. \A j \in DOMAIN handed : j < Len(handed) => Queue!Before(handed[j], last)
      BY <2>1 DEF Queue!OrderInv, Queue!StrictOrder
    <3> QED
      BY <3>1, <3>2, <3>3, <3>4
  <2>4. \A j \in DOMAIN handed : j = Len(handed) \/ j < Len(handed)
    BY <2>1, <1>1, LenProperties
  <2> HIDE DEF last, sent
  <2>5. CASE last.idx = next
    <3>1. last.piece <= sent /\ sent \in 1 .. MaxPieces
      BY <1>3, <2>3, <2>5, <1>0 DEF sent
    <3>2. PICK j \in DOMAIN handed : handed[j] = [idx |-> next, piece |-> sent]
      BY <1>3, <1>4, <3>1
    <3>3. CASE j = Len(handed)
      BY <2>3, <2>5, <3>2, <3>3 DEF last
    <3>4. CASE j < Len(handed)
      <4>1. Queue!Before([idx |-> next, piece |-> sent], last)
        BY <2>3, <3>2, <3>4
      <4>2. sent < last.piece
        BY <1>0, <2>5, <4>1 DEF Queue!Before
      <4> QED
        BY <1>3, <2>3, <3>1, <4>2
    <3> QED
      BY <2>3, <2>4, <2>5, <3>3, <3>4
  <2>6. CASE last.idx # next
    <3>1. last.idx < next
      BY <1>0, <2>3, <2>6
    <3>2. sent = 0
      <4>1. SUFFICES ASSUME sent # 0 PROVE FALSE
        OBVIOUS
      <4>2. 1 \in 1 .. MaxPieces /\ 1 <= sent
        BY <1>0, <1>3, <4>1
      <4>3. PICK j \in DOMAIN handed : handed[j] = [idx |-> next, piece |-> 1]
        BY <1>4, <4>2
      <4>4. j # Len(handed)
        BY <2>6, <4>3 DEF last
      <4>5. Queue!Before([idx |-> next, piece |-> 1], last)
        BY <2>3, <2>4, <4>3, <4>4
      <4> QED
        BY <1>0, <2>3, <3>1, <4>5 DEF Queue!Before
    <3> QED
      BY <2>3, <3>1, <3>2
  <2> QED
    BY <2>5, <2>6
<1> QED
  BY <1>3, <1>5, <1>6

(* A stream that has begun and not ended.                                   *)
LEMMA Underway ==
  ASSUME TurnInv, Live, cpc \notin {"ack", "sink"}
  PROVE  Stream!Opened(Issued) /\ ~Stream!Ended(Issued) /\ (Stream!Seen(Issued, "error") <=> ErrorIssued)
<1>1. Len(out) >= 2
  BY DEF TurnInv, ConsumerInv, Live
<1>2. Len(Issued) >= 2
  BY <1>1, Typed
<1> QED
  BY <1>2 DEF TurnInv, EndInv, Stream!Opened, Stream!Ended, Stream!Seen, ErrorIssued

LEMMA SentenceFollows ==
  ASSUME TurnInv, Live, ppc = "put", cpc \notin {"ack", "sink"}
  PROVE  Stream!MayFollow(Issued, Sentence(lines[Len(lines)], Len(lines)))
<1> DEFINE e == Sentence(lines[Len(lines)], Len(lines))
<1>1. e.type = "sentence" /\ e.line = Len(lines) /\ e.message = lines[Len(lines)]
  BY DEF Sentence
<1>2. ~ErrorIssued
  BY DEF TurnInv, EndInv, Closing
<1>3. Put = Len(lines) - 1 /\ Len(lines) \in Nat \ {0} /\ DOMAIN lines = 1 .. Len(lines)
  BY Typed, EmptySeq, LenProperties DEF Put, TurnInv, SpeechInv, TextTypes
<1>4. SentencesInv
  BY DEF TurnInv
<1>5. Stream!NextSentence(Issued, e)
  <2>1. CASE Put = 0
    <3>1. e.line = 1
      BY <1>1, <1>3, <2>1
    <3>2. \A i \in DOMAIN Issued : Issued[i].type # "sentence"
      BY <1>4, <2>1 DEF SentencesInv
    <3> QED
      BY <3>1, <3>2 DEF Stream!NextSentence, Stream!Seen
  <2>2. CASE Put # 0
    <3>1. PICK i \in Stream!Newest(Issued, "sentence") : Issued[i] = Sentence(lines[Put], Put)
      BY <1>4, <2>2 DEF SentencesInv
    <3>2. Issued[i].line = Put /\ Issued[i].message = lines[Put]
      BY <3>1 DEF Sentence
    <3>3. lines[Put] <= lines[Len(lines)]
      <4>1. Put \in DOMAIN lines /\ Len(lines) \in DOMAIN lines /\ Put <= Len(lines)
        BY <1>3, <2>2
      <4> QED
        BY <4>1 DEF TurnInv, MessagesInv
    <3>4. e.line = Issued[i].line + 1
      BY <1>1, <1>3, <3>2
    <3> QED
      BY <1>1, <3>1, <3>2, <3>3, <3>4 DEF Stream!NextSentence
  <2> QED
    BY <2>1, <2>2
<1> HIDE DEF e
<1> QED
  BY <1>1, <1>2, <1>5, Underway DEF Stream!MayFollow, e

LEMMA AudioFollows ==
  ASSUME TurnInv, Queue!OrderInv, Live, cpc \notin {"ack", "sink"}, NEW c \in Chunk, EmitAudio(c),
         ~StoppingWanted
  PROVE  Stream!MayFollow(Issued, Audio(next, MessageOf(next), Head(waiting[next])))
<1> DEFINE e == Audio(next, MessageOf(next), Head(waiting[next]))
<1>1. /\ e.type = "audio" /\ e.idx = next /\ e.message = MessageOf(next)
      /\ e.piece = Head(waiting[next])
  BY DEF Audio
<1>2. /\ next \in Chunk /\ next \in Nat /\ next < Len(chunks) /\ waiting[next] # <<>>
      /\ next + 1 \in DOMAIN chunks /\ MessageOf(next) = chunks[next + 1].message
  BY NextPieceType, MessageOfType, Bounds DEF EmitAudio, Order!HandOver, Chunk, MaxChunks
<1>3. SentencesInv /\ SoundInv /\ LinesInv /\ MessagesInv
  BY DEF TurnInv
<1>4. \E i \in DOMAIN Issued : Issued[i].type = "sentence" /\ Issued[i].message = e.message
  <2>1. chunks[next + 1].text # <<>> /\ 1 \in DOMAIN chunks[next + 1].text
    BY <1>2, <1>3, ChunkTypes, EmptySeq DEF LinesInv
  <2>2. PICK n \in 1 .. Put : lines[n] = chunks[next + 1].message
    BY <1>2, <1>3, <2>1 DEF MessagesInv
  <2>3. PICK i \in DOMAIN Issued : Issued[i] = Sentence(lines[n], n)
    BY <1>3 DEF SentencesInv
  <2> QED
    BY <1>1, <1>2, <2>2, <2>3 DEF Sentence
<1>5. CASE handed = <<>>
  <2>1. Head(waiting[next]) = 1
    BY <1>2, <1>5, NextInOrder
  <2>2. \A i \in DOMAIN Issued : Issued[i].type # "audio"
    BY <1>3, <1>5 DEF SoundInv
  <2>3. Stream!NextPiece(Issued, e)
    BY <1>1, <1>4, <2>1, <2>2 DEF Stream!NextPiece, Stream!Seen
  <2> HIDE DEF e
  <2> QED
    BY <1>1, <2>3, Underway DEF Stream!MayFollow, e
<1>6. CASE handed # <<>>
  <2> DEFINE last == handed[Len(handed)]
  <2>1. PICK i \in Stream!Newest(Issued, "audio") : Issued[i] = AudioOf(last)
    BY <1>3, <1>6 DEF SoundInv
  <2>2. Issued[i].idx = last.idx /\ Issued[i].piece = last.piece /\ Issued[i].message = MessageOf(last.idx)
    BY <2>1 DEF AudioOf, Audio
  <2>3. /\ last.idx \in Chunk
        /\ \/ last.idx = next /\ Head(waiting[next]) = last.piece + 1
           \/ last.idx < next /\ Head(waiting[next]) = 1
    BY <1>2, <1>6, NextInOrder
  <2>4. last.idx < next => MessageOf(last.idx) <= MessageOf(next)
    <3>1. SUFFICES ASSUME last.idx < next PROVE MessageOf(last.idx) <= MessageOf(next)
      OBVIOUS
    <3>2. last.idx \in Nat
      BY <2>3, Bounds DEF Chunk, MaxChunks
    <3>3. /\ last.idx < Len(chunks) /\ last.idx + 1 \in DOMAIN chunks
          /\ last.idx + 1 <= next + 1
      BY <1>2, <3>1, <3>2, ChunkTypes
    <3>4. MessageOf(last.idx) = chunks[last.idx + 1].message
      BY <2>3, <3>3, MessageOfType
    <3>5. chunks[last.idx + 1].message <= chunks[next + 1].message
      BY <1>2, <1>3, <3>3 DEF MessagesInv
    <3> QED
      BY <1>2, <3>4, <3>5
  <2>5. Stream!NextPiece(Issued, e)
    <3>1. \/ Issued[i].idx = e.idx /\ e.piece = Issued[i].piece + 1 /\ e.message = Issued[i].message
          \/ Issued[i].idx < e.idx /\ e.piece = 1 /\ Issued[i].message <= e.message
      <4> HIDE DEF last, e
      <4> QED
        BY <1>1, <2>2, <2>3, <2>4
    <3> HIDE DEF e, last
    <3> QED
      BY <1>4, <2>1, <3>1 DEF Stream!NextPiece
  <2> HIDE DEF e
  <2> QED
    BY <1>1, <2>5, Underway DEF Stream!MayFollow, e
<1> QED
  BY <1>5, <1>6

LEMMA Follows ==
  ASSUME TurnInv, Queue!OrderInv, Live, NEW e, Grows(e)
  PROVE  e = EndMark \/ Stream!MayFollow(Issued, e)
<1>1. CASE e = AckEvent /\ YieldAck
  <2>1. Len(out) = 0 /\ Len(queue) = 0
    BY <1>1 DEF YieldAck, TurnInv, ConsumerInv, Opening
  <2>2. Issued = <<>>
    BY <2>1, Typed, EmptySeq
  <2> QED
    BY <1>1, <2>2 DEF Stream!MayFollow, AckEvent
<1>2. CASE e = SinkEvent /\ YieldSink
  <2>1. Len(out) = 1 /\ Len(queue) = 0
    BY <1>2 DEF YieldSink, TurnInv, ConsumerInv, Opening
  <2>2. Len(Issued) = 1
    BY <2>1, Typed
  <2> QED
    BY <1>2, <2>2 DEF Stream!MayFollow, SinkEvent
<1>3. ppc # "unborn" => cpc \notin {"ack", "sink"}
  BY DEF TurnInv, ConsumerInv, Opening
<1>4. CASE e = Sentence(lines[Len(lines)], Len(lines)) /\ PutSentence
  BY <1>3, <1>4, SentenceFollows DEF PutSentence
<1>5. CASE e = ErrorEvent /\ ppc \in {"read", "boundary", "flush"}
  <2>1. ~ErrorIssued
    BY <1>5 DEF TurnInv, EndInv, Closing
  <2> QED
    BY <1>3, <1>5, <2>1, Underway DEF Stream!MayFollow, ErrorEvent
<1>6. ASSUME NEW c \in Chunk, EmitAudio(c), ~StoppingWanted,
             e = Audio(next, MessageOf(next), Head(waiting[next]))
      PROVE  Stream!MayFollow(Issued, e)
  <2>1. ppc # "unborn"
    <3>1. next < Len(chunks) /\ next \in Nat
      BY <1>6, NextPieceType, Bounds DEF Chunk, MaxChunks
    <3> QED
      BY <3>1 DEF TurnInv, ConsumerInv
  <2> QED
    BY <1>3, <1>6, <2>1, AudioFollows
<1> QED
  BY <1>1, <1>2, <1>4, <1>5, <1>6 DEF Grows

LEMMA FrontOf ==
  ASSUME NEW s \in Seq(Event), NEW e \in Event
  PROVE  /\ SubSeq(Append(s, e), 1, Len(s)) = s
         /\ \A i \in 1 .. Len(s) : SubSeq(Append(s, e), 1, i - 1) = SubSeq(s, 1, i - 1)
<1> DEFINE n == Len(s)
           r == Append(s, e)
<1>1. /\ n \in Nat /\ r \in Seq(Event) /\ Len(r) = n + 1 /\ \A i \in 1 .. n : r[i] = s[i]
      /\ s = [i \in 1 .. n |-> s[i]]
  BY Appended
<1>2. /\ SubSeq(r, 1, n) = [i \in 1 .. n |-> r[i]]
      /\ \A m \in 0 .. n : SubSeq(r, 1, m) = [i \in 1 .. m |-> r[i]] /\ SubSeq(s, 1, m) = [i \in 1 .. m |-> s[i]]
  BY <1>1
<1> HIDE DEF n, r
<1>3. \A m \in 0 .. n : SubSeq(r, 1, m) = SubSeq(s, 1, m)
  BY <1>1, <1>2
<1>4. SubSeq(r, 1, n) = s
  BY <1>1, <1>2
<1> QED
  BY <1>1, <1>3, <1>4 DEF n, r

LEMMA StepStream ==
  ASSUME TurnInv, Queue!OrderInv, [Next]_vars
  PROVE  StreamInv'
<1> SUFFICES ASSUME Live'
             PROVE  \A i \in DOMAIN Issued' :
                      Issued'[i] = EndMark \/ Stream!MayFollow(SubSeq(Issued', 1, i - 1), Issued'[i])
  BY DEF StreamInv, EndMark, Stream!MayFollow, Stream!NextSentence, Stream!NextPiece, Stream!Opened,
         Stream!Ended, Stream!Seen, Stream!Newest
<1>1. \A i \in DOMAIN Issued :
        Issued[i] = EndMark \/ Stream!MayFollow(SubSeq(Issued, 1, i - 1), Issued[i])
  BY LiveBefore DEF TurnInv, StreamInv
<1>2. CASE Stays
  BY <1>1, <1>2 DEF Stays
<1>3. ASSUME NEW e \in Event, Issued' = Append(Issued, e), Grows(e)
      PROVE  \A i \in DOMAIN Issued' :
               Issued'[i] = EndMark \/ Stream!MayFollow(SubSeq(Issued', 1, i - 1), Issued'[i])
  <2> DEFINE n == Len(Issued)
  <2>1. /\ DOMAIN Issued = 1 .. n /\ n \in Nat /\ DOMAIN Issued' = 1 .. n + 1
        /\ \A i \in 1 .. n : Issued'[i] = Issued[i]
        /\ Issued'[n + 1] = e
        /\ SubSeq(Issued', 1, n) = Issued
        /\ \A i \in 1 .. n : SubSeq(Issued', 1, i - 1) = SubSeq(Issued, 1, i - 1)
    BY <1>3, AppendedIssue, FrontOf, Typed
  <2>2. e = EndMark \/ Stream!MayFollow(Issued, e)
    BY <1>3, LiveBefore, Follows
  <2> HIDE DEF n
  <2> SUFFICES ASSUME NEW i \in DOMAIN Issued'
               PROVE  Issued'[i] = EndMark \/ Stream!MayFollow(SubSeq(Issued', 1, i - 1), Issued'[i])
    OBVIOUS
  <2>3. CASE i \in 1 .. n
    BY <1>1, <2>1, <2>3
  <2>4. CASE i = n + 1
    <3>1. i - 1 = n
      BY <2>1, <2>4
    <3> QED
      BY <2>1, <2>2, <2>4, <3>1
  <2> QED
    BY <2>1, <2>3, <2>4
<1>4. CASE Ends
  BY <1>4 DEF Ends, Live
<1> QED
  BY <1>2, <1>3, <1>4, IssuedStep

(******************************** The sound ********************************)

LEMMA PrefixMore ==
  ASSUME NEW S, NEW s \in Seq(S), NEW t \in Seq(S), NEW e \in S, IsPrefix(s, t)
  PROVE  IsPrefix(s, Append(t, e))
<1> DEFINE m == Len(s)
           n == Len(t)
           r == Append(t, e)
<1>1. /\ m \in Nat /\ n \in Nat /\ m <= n /\ r \in Seq(S) /\ Len(r) = n + 1
      /\ \A i \in 1 .. n : r[i] = t[i]
  BY Appended DEF IsPrefix
<1>2. /\ SubSeq(r, 1, m) = [i \in 1 .. m |-> r[i]] /\ SubSeq(t, 1, m) = [i \in 1 .. m |-> t[i]]
  BY <1>1
<1> HIDE DEF r, m, n
<1>3. SubSeq(r, 1, m) = SubSeq(t, 1, m)
  BY <1>1, <1>2
<1>4. SubSeq(s, 1, m) = SubSeq(t, 1, m)
  BY DEF IsPrefix, m
<1> QED
  BY <1>1, <1>3, <1>4 DEF IsPrefix, r, m, n

(* The pieces in the audio events h.                                        *)
Got(h) == [i \in DOMAIN h |-> [idx |-> h[i].idx, piece |-> h[i].piece]]
Pieces == {[idx |-> e.idx, piece |-> e.piece] : e \in Event} \cup Queue!HandedPiece

LEMMA GotType ==
  ASSUME NEW h \in Seq(Event)
  PROVE  Got(h) \in Seq(Pieces) /\ Len(Got(h)) = Len(h) /\ Len(h) \in Nat /\ DOMAIN h = 1 .. Len(h)
<1>1. DOMAIN h = 1 .. Len(h) /\ Len(h) \in Nat /\ \A i \in DOMAIN h : h[i] \in Event
  BY LenProperties, ElementOfSeq
<1> HIDE DEF Event
<1> QED
  BY <1>1 DEF Got, Pieces

LEMMA GotMore ==
  ASSUME NEW h \in Seq(Event), NEW e \in Event
  PROVE  Got(Append(h, e)) = Append(Got(h), [idx |-> e.idx, piece |-> e.piece])
<1> DEFINE n == Len(h)
           r == Append(h, e)
           p == [idx |-> e.idx, piece |-> e.piece]
           g == Got(h)
<1> HIDE DEF Event
<1>1. /\ n \in Nat /\ r \in Seq(Event) /\ Len(r) = n + 1 /\ DOMAIN r = 1 .. n + 1
      /\ \A i \in 1 .. n : r[i] = h[i]
      /\ r[n + 1] = e /\ DOMAIN h = 1 .. n
  BY Appended
<1>2. g \in Seq(Pieces) /\ Len(g) = n /\ p \in Pieces
  BY GotType DEF Pieces
<1>3. /\ Append(g, p) \in Seq(Pieces) /\ Len(Append(g, p)) = n + 1
      /\ \A i \in 1 .. n : Append(g, p)[i] = g[i]
      /\ Append(g, p)[n + 1] = p
  <2> HIDE DEF r, p, n, g
  <2> QED
    BY <1>2, Appended
<1>4. Got(r) \in Seq(Pieces) /\ Len(Got(r)) = n + 1
  BY <1>1, GotType
<1>5. \A i \in 1 .. n + 1 : Got(r)[i] = Append(g, p)[i]
  <2>1. \A i \in 1 .. n : Got(r)[i] = g[i]
    BY <1>1 DEF Got
  <2>2. Got(r)[n + 1] = p
    BY <1>1 DEF Got
  <2> HIDE DEF r, g, p, n
  <2> QED
    BY <1>1, <1>3, <2>1, <2>2
<1> HIDE DEF r, g, p, n
<1>6. Got(r) = Append(g, p)
  BY <1>3, <1>4, <1>5, SeqEqual
<1> QED
  BY <1>6 DEF r, g, p

LEMMA HeardType ==
  ASSUME TurnInv
  PROVE  Heard \in Seq(Event)
  BY Typed, OfTypeSequence DEF Heard

LEMMA HeardMore ==
  ASSUME TurnInv, NEW e \in Event, Issued' = Append(Issued, e)
  PROVE  Heard' = IF e.type = "audio" THEN Append(Heard, e) ELSE Heard
<1>1. Issued \in Seq(Event)
  BY Typed
<1>2. OfType(Append(Issued, e), "audio")
        = IF e.type = "audio" THEN Append(OfType(Issued, "audio"), e) ELSE OfType(Issued, "audio")
  BY <1>1, OfTypeAppend
<1> QED
  BY <1>2 DEF Heard

LEMMA OtherTypes ==
  ASSUME TurnInv
  PROVE  /\ Finish \in Event /\ Finish.type # "audio"
         /\ AbortedEvent \in Event /\ AbortedEvent.type # "audio"
         /\ EndMark \in Event /\ EndMark.type # "audio"
<1>1. Finish \in Event
  BY ChunkTypes, EventTypes DEF Finish, Unspoken, TurnInv, QueueTypes
<1> QED
  BY <1>1, EventTypes DEF Finish, DoneEvent, AbortedEvent, EndMark

(* The end of a turn is silent.                                             *)
Sound(s) == OfType(s, "audio")

LEMMA HeardAtEnd ==
  ASSUME TurnInv, Ends
  PROVE  Heard' = Heard
<1>1. out \in Seq(Event) /\ queue \in Seq(Event)
  BY Typed
<1>2. ASSUME NEW e \in Event, e.type # "audio" PROVE Sound(Append(out, e)) = Sound(out) /\ Append(out, e) \in Seq(Event)
  BY <1>1, <1>2, OfTypeAppend, AppendProperties DEF Sound
<1>3. \A s \in Seq(Event) : Sound(s) \in Seq(Event) /\ s \o <<>> = s
  BY OfTypeSequence, ConcatEmptySeq DEF Sound
<1>4. \A s \in Seq(Event), q \in Seq(Event) : Sound(s \o q) = Sound(s) \o Sound(q)
  BY OfTypeConcat DEF Sound
<1>5. Sound(<<>>) = <<>> /\ <<>> \in Seq(Event)
  BY OfTypeNone DEF Sound
<1>6. CASE GetEnd /\ queue = <<EndMark>> /\ queue' = <<>>
  <2>1. out' = out \/ out' = Append(out, Finish)
    BY <1>6 DEF GetEnd, Yield
  <2>2. Sound(out') = Sound(out) /\ out' \in Seq(Event)
    <3>1. Finish \in Event /\ Finish.type # "audio"
      BY OtherTypes
    <3>2. Sound(Append(out, Finish)) = Sound(out) /\ Append(out, Finish) \in Seq(Event)
      BY <1>2, <3>1
    <3>3. CASE out' = out
      BY <1>1, <3>3
    <3>4. CASE out' = Append(out, Finish)
      BY <3>2, <3>4
    <3> QED
      BY <2>1, <3>3, <3>4
  <2>3. Sound(<<EndMark>>) = <<>>
    <3>1. <<EndMark>> = Append(<<>>, EndMark)
      OBVIOUS
    <3>2. Sound(Append(<<>>, EndMark)) = Sound(<<>>)
      BY <1>5, OtherTypes, OfTypeAppend DEF Sound
    <3> QED
      BY <1>5, <3>1, <3>2
  <2>4. Sound(out \o queue) = Sound(out)
    <3>1. Sound(queue) = <<>>
      BY <1>6, <2>3
    <3>2. Sound(out \o queue) = Sound(out) \o Sound(queue)
      BY <1>1, <1>4
    <3> QED
      BY <1>1, <1>3, <3>1, <3>2
  <2>5. Sound(out' \o queue') = Sound(out')
    BY <1>3, <1>6, <2>2
  <2> QED
    BY <2>2, <2>4, <2>5 DEF Heard, Issued, Sound
<1>7. CASE out' = Append(out, AbortedEvent) /\ queue' = queue
  <2>1. Sound(out') = Sound(out) /\ out' \in Seq(Event)
    BY <1>2, <1>7, OtherTypes
  <2>2. Sound(out' \o queue') = Sound(out \o queue)
    BY <1>1, <1>4, <1>7, <2>1
  <2> QED
    BY <2>2 DEF Heard, Issued, Sound
<1> QED
  BY <1>6, <1>7 DEF Ends

LEMMA StepWhole ==
  ASSUME TurnInv, Queue!OrderInv, [Next]_vars
  PROVE  SoundIsWhole'
<1>1. IsPrefix(Got(Heard), handed) /\ (~StoppingWanted => Got(Heard) = handed)
  BY DEF TurnInv, SoundIsWhole, Got
<1>2. SUFFICES IsPrefix(Got(Heard'), handed') /\ (~StoppingWanted' => Got(Heard') = handed')
  BY DEF SoundIsWhole, Got
<1>3. StoppingWanted => StoppingWanted'
  BY FlagsStay DEF TurnInv
<1>4. Got(Heard) \in Seq(Pieces) /\ handed \in Seq(Pieces) /\ Heard \in Seq(Event)
  <2>1. handed \in Seq(Queue!HandedPiece)
    BY DEF Queue!OrderInv, Queue!TypeOK
  <2>2. handed \in Seq(Pieces)
    BY <2>1, SeqMonotonic DEF Pieces
  <2> QED
    BY <2>2, HeardType, GotType
<1>5. CASE handed' = handed /\ \A c \in Chunk : ~EmitAudio(c)
  <2>1. Heard' = Heard
    <3>1. CASE Stays
      BY <3>1 DEF Stays, Heard
    <3>2. ASSUME NEW e \in Event, Issued' = Append(Issued, e), Grows(e) PROVE Heard' = Heard
      BY <1>5, <3>2, HeardMore, GrowsKind
    <3>3. CASE Ends
      BY <3>3, HeardAtEnd
    <3> QED
      BY <3>1, <3>2, <3>3, IssuedStep
  <2> QED
    BY <1>1, <1>3, <1>5, <2>1
<1>6. ASSUME NEW c \in Chunk, EmitAudio(c)
      PROVE  IsPrefix(Got(Heard'), handed') /\ (~StoppingWanted' => Got(Heard') = handed')
  <2> DEFINE p == [idx |-> next, piece |-> Head(waiting[next])]
             x == Audio(next, MessageOf(next), Head(waiting[next]))
  <2>1. /\ handed' = Append(handed, p) /\ p \in Pieces
        /\ x \in Event /\ x.type = "audio" /\ p = [idx |-> x.idx, piece |-> x.piece]
    BY <1>6, NextPieceType DEF Pieces, Audio
  <2> HIDE DEF x, p
  <2>2. CASE StoppingWanted
    <3>1. Issued' = Issued
      BY <1>6, <2>2 DEF EmitAudio, Issued
    <3>2. Heard' = Heard
      BY <3>1 DEF Heard
    <3>3. IsPrefix(Got(Heard), Append(handed, p))
      BY <1>1, <1>4, <2>1, PrefixMore
    <3> QED
      BY <1>3, <2>1, <2>2, <3>2, <3>3
  <2>3. CASE ~StoppingWanted
    <3>1. Issued' = Append(Issued, x)
      <4>1. out' = out /\ queue' = Append(queue, x)
        BY <1>6, <2>3 DEF EmitAudio, x
      <4> QED
        BY <2>1, <4>1, Typed, PutBehind DEF Issued
    <3>2. Heard' = Append(Heard, x)
      BY <2>1, <3>1, HeardMore
    <3>3. Got(Append(Heard, x)) = Append(Got(Heard), p)
      BY <1>4, <2>1, GotMore
    <3>4. Got(Heard') = handed'
      BY <1>1, <2>1, <2>3, <3>2, <3>3
    <3>5. Append(handed, p) \in Seq(Pieces)
      BY <1>4, <2>1, AppendProperties
    <3>6. IsPrefix(handed', handed')
      BY <2>1, <3>5, LenProperties DEF IsPrefix
    <3> QED
      BY <3>4, <3>6
  <2> QED
    BY <2>2, <2>3
<1> QED
  BY <1>5, <1>6, HandedSame

(********************************* Done ************************************)

(* A turn that is about to say done.                                        *)
Complete == cpc = "get" /\ ~failed /\ ~cancel /\ queue = <<EndMark>>

LEMMA CompleteFacts ==
  ASSUME TurnInv, Complete
  PROVE  /\ Live /\ ppc = "gone" /\ ~StoppingWanted /\ ~ErrorIssued /\ Put = Len(lines)
         /\ \A i \in DOMAIN Issued : (i \in DOMAIN out /\ Issued[i] = out[i]) \/ Issued[i] = EndMark
<1>1. Live /\ ~StoppingWanted
  BY DEF Complete, Live, TurnInv, ConsumerInv, StoppingWanted
<1>2. ppc = "gone"
  <2>1. 1 \in DOMAIN queue /\ queue[1] = EndMark
    BY DEF Complete
  <2> QED
    BY <2>1 DEF TurnInv, EndInv
<1>3. \A i \in DOMAIN Issued : (i \in DOMAIN out /\ Issued[i] = out[i]) \/ Issued[i] = EndMark
  <2>1. \A i \in DOMAIN queue : queue[i] = EndMark
    BY DEF Complete
  <2> QED
    BY <2>1, IssuedParts
<1>4. ~ErrorIssued
  BY <1>3 DEF ErrorIssued, EndMark, Complete, TurnInv, ConsumerInv
<1> QED
  BY <1>1, <1>2, <1>3, <1>4 DEF Put

LEMMA AllDone ==
  ASSUME TurnInv, Complete, NEW c \in Chunk, c < Len(chunks)
  PROVE  task[c] = "done"
<1>1. c \in Nat /\ DOMAIN chunks = 1 .. Len(chunks) /\ Len(chunks) \in Nat
  BY ChunkTypes, Bounds DEF Chunk, MaxChunks
<1>2. task[c] \in {"none", "cancelled", "done"} /\ task[c] # "cancelled"
  BY CompleteFacts DEF TurnInv, EndInv, WorkInv
<1>3. task[c] # "none"
  <2>1. c + 1 \in DOMAIN chunks /\ (c + 1) - 1 = c
    BY <1>1
  <2>2. ~Refused
    BY CompleteFacts DEF TurnInv, LinesInv
  <2> QED
    BY <2>1, <2>2 DEF Refused
<1> QED
  BY <1>2, <1>3

(* All there was has been handed over, and has been yielded.                *)
LEMMA AllHeard ==
  ASSUME TurnInv, Queue!OrderInv, Complete, NEW c \in Chunk, NEW k \in 1 .. made[c]
  PROVE  \E i \in DOMAIN out : out[i] = Audio(c, MessageOf(c), k)
<1>0. /\ c \in Nat /\ Queue!Chunk = Chunk /\ MaxPieces \in Nat /\ Len(chunks) \in Nat
      /\ made[c] \in 0 .. MaxPieces /\ next \in Nat /\ next \in Queue!Cursor
  <2>1. made \in [Queue!Chunk -> 0 .. MaxPieces] /\ next \in Queue!Cursor
    BY DEF Queue!OrderInv, Queue!TypeOK
  <2> QED
    BY <2>1, ChunkTypes, Bounds DEF Chunk, MaxChunks, Queue!Chunk, Queue!Cursor
<1>1. c < Len(chunks)
  <2>1. c >= Len(chunks) => task[c] = "none"
    BY DEF TurnInv, SpeechInv, SilentUntilAsked
  <2>2. task[c] = "none" => made[c] = 0
    BY DEF TurnInv, SpeechInv, SilentUntilAsked, Unasked
  <2> QED
    BY <1>0, <2>1, <2>2
<1>2. holder = Queue!Nobody
  <2>1. \A d \in Chunk : task[d] \in {"none", "cancelled", "done"}
    BY CompleteFacts DEF TurnInv, EndInv
  <2>2. \A d \in Chunk : holder # d
    BY <2>1 DEF TurnInv, WorkInv
  <2> QED
    BY <1>0, <2>2 DEF Queue!OrderInv, Queue!TypeOK
<1>3. c < next
  <2>1. SUFFICES ASSUME next <= c PROVE FALSE
    BY <1>0
  <2>2. next \in Chunk /\ next < Len(chunks)
    BY <1>0, <1>1, <2>1, Bounds DEF Chunk, MaxChunks
  <2>3. next \in finished
    BY <2>2, AllDone DEF TurnInv, WorkInv
  <2> QED
    BY <1>2, <2>3 DEF Queue!OrderInv, Queue!CursorInv
<1>4. waiting[c] = <<>> /\ Queue!sent[c] = made[c]
  <2>1. waiting[c] = <<>>
    BY <1>0, <1>3 DEF Queue!OrderInv, Queue!CursorInv
  <2>2. Queue!sent[c] = made[c] - Len(waiting[c])
    BY <1>0 DEF Queue!sent
  <2> QED
    BY <1>0, <2>1, <2>2
<1>5. k \in 1 .. MaxPieces /\ k <= Queue!sent[c]
  BY <1>0, <1>4
<1>6. PICK j \in DOMAIN handed : handed[j] = [idx |-> c, piece |-> k]
  BY <1>0, <1>5 DEF Queue!OrderInv, Queue!NothingLost
<1>7. PICK i \in DOMAIN Issued : Issued[i] = AudioOf(handed[j])
  BY CompleteFacts DEF TurnInv, SoundInv
<1>8. Issued[i] = Audio(c, MessageOf(c), k) /\ Issued[i] # EndMark
  BY <1>6, <1>7 DEF AudioOf, Audio, EndMark
<1> QED
  BY <1>8, CompleteFacts

(* What is heard was made by a chunk that is in spoken.                     *)
LEMMA HeardIsSpoken ==
  ASSUME TurnInv, Queue!OrderInv, Live, NEW i \in DOMAIN Issued, Issued[i].type = "audio"
  PROVE  \E c \in spoken : c < Len(chunks) /\ Issued[i].message = MessageOf(c)
<1>0. /\ Queue!Chunk = Chunk /\ handed \in Seq(Queue!HandedPiece)
      /\ made \in [Chunk -> 0 .. MaxPieces] /\ Bounds
  BY Bounds DEF Chunk, MaxChunks, Queue!Chunk, Queue!OrderInv, Queue!TypeOK
<1>1. PICK n \in DOMAIN handed : Issued[i] = AudioOf(handed[n])
  BY DEF TurnInv, SoundInv
<1> DEFINE c == handed[n].idx
<1>2. Issued[i].idx = c /\ Issued[i].message = MessageOf(c)
  BY <1>1 DEF AudioOf, Audio
<1>3. c \in Chunk /\ c < Len(chunks)
  BY <1>2 DEF TurnInv, SoundInv
<1>4. handed[n].piece \in 1 .. MaxPieces /\ handed[n].piece <= Queue!sent[c]
  <2>1. handed[n] \in Queue!HandedPiece
    BY <1>0, ElementOfSeq, LenProperties
  <2> QED
    BY <2>1 DEF Queue!HandedPiece, Queue!OrderInv, Queue!HandedInv
<1>5. Queue!sent[c] = made[c] - Len(waiting[c]) /\ Len(waiting[c]) \in Nat
  <2>1. waiting \in [Queue!Cursor -> Seq(1 .. MaxPieces)] /\ c \in Queue!Cursor
    BY <1>3, Bounds DEF Queue!OrderInv, Queue!TypeOK, Queue!Cursor, Chunk, MaxChunks
  <2>2. waiting[c] \in Seq(1 .. MaxPieces)
    BY <2>1
  <2> QED
    BY <1>0, <1>3, <2>2, LenProperties DEF Queue!sent
<1>6. made[c] # 0
  <2>1. made[c] \in Nat
    BY <1>0, <1>3, Bounds
  <2> HIDE DEF c
  <2> QED
    BY <1>4, <1>5, <2>1, Bounds
<1>7. c \in spoken
  BY <1>3, <1>6 DEF TurnInv, WorkInv
<1> QED
  BY <1>2, <1>3, <1>7

(* Every line of a complete turn is in a chunk.                             *)
LEMMA InAChunk ==
  ASSUME TurnInv, NEW n \in Nat \ {0}, n <= LastLine(Len(chunks))
  PROVE  \E i \in DOMAIN chunks, j \in Nat :
           j \in DOMAIN chunks[i].text /\ chunks[i].text[j] = n
<1>0. DOMAIN chunks = 1 .. Len(chunks) /\ Len(chunks) \in Nat
  BY ChunkTypes
<1> DEFINE T == {i \in 0 .. Len(chunks) : n <= LastLine(i)}
<1>1. PICK i \in T : \A x \in T : i <= x
  <2>1. T \in SUBSET Nat /\ Len(chunks) \in T
    BY <1>0
  <2> QED
    BY <2>1, LeastNat
<1>2. i \in 1 .. Len(chunks) /\ i - 1 \in 0 .. Len(chunks)
  <2>1. i # 0
    BY <1>1 DEF LastLine
  <2> QED
    BY <1>0, <1>1, <2>1
<1>3. LastLine(i - 1) \in Nat /\ LastLine(i - 1) < n /\ n <= LastLine(i)
  <2>1. i - 1 \notin T
    BY <1>0, <1>1, <1>2
  <2> QED
    BY <1>1, <1>2, <2>1, LineBounds
<1> DEFINE text == chunks[i].text
           last == LastLine(i - 1)
<1>4. /\ text # <<>> /\ \A j \in DOMAIN text : text[j] = last + j
      /\ DOMAIN text = 1 .. Len(text) /\ Len(text) \in Nat \ {0}
  <2>1. text # <<>> /\ GoesOn(text, last)
    BY <1>0, <1>2 DEF TurnInv, LinesInv
  <2>2. text \in Seq(Nat)
    BY <1>0, <1>2, ChunkTypes
  <2> QED
    BY <2>1, <2>2, EmptySeq, LenProperties DEF GoesOn
<1>5. LastLine(i) = last + Len(text)
  <2>1. LastLine(i) = text[Len(text)]
    BY <1>2 DEF LastLine
  <2>2. Len(text) \in DOMAIN text
    BY <1>4
  <2> QED
    BY <1>4, <2>1, <2>2
<1>6. n - last \in DOMAIN text /\ text[n - last] = n /\ n - last \in Nat
  <2> HIDE DEF text, last
  <2>1. n - last \in 1 .. Len(text)
    BY <1>3, <1>4, <1>5 DEF last
  <2> QED
    BY <1>3, <1>4, <2>1 DEF last
<1> QED
  BY <1>0, <1>2, <1>6

(* The messages of the chunks are those a client has text of.               *)
LEMMA TextOfChunks ==
  ASSUME TurnInv, Complete, speaking, NEW m
  PROVE  (\E i \in DOMAIN chunks : chunks[i].message = m)
           <=> \E j \in DOMAIN out : out[j].type = "sentence" /\ out[j].message = m
<1>0. /\ Put = Len(lines) /\ Live /\ Len(lines) \in Nat /\ LastLine(Len(chunks)) = Len(lines)
      /\ SentencesInv
  BY CompleteFacts, Typed DEF TurnInv, LinesInv, Closing
<1>1. ASSUME NEW i \in DOMAIN chunks, chunks[i].message = m
      PROVE  \E j \in DOMAIN out : out[j].type = "sentence" /\ out[j].message = m
  <2>1. 1 \in DOMAIN chunks[i].text
    BY ChunkTypes, EmptySeq DEF TurnInv, LinesInv
  <2>2. PICK n \in 1 .. Put : lines[n] = m
    BY <1>1, <2>1 DEF TurnInv, MessagesInv
  <2>3. PICK j \in DOMAIN Issued : Issued[j] = Sentence(lines[n], n)
    BY <1>0 DEF SentencesInv
  <2>4. Issued[j].type = "sentence" /\ Issued[j].message = m /\ Issued[j] # EndMark
    BY <2>2, <2>3 DEF Sentence, EndMark
  <2> QED
    BY <2>4, CompleteFacts
<1>2. ASSUME NEW j \in DOMAIN out, out[j].type = "sentence", out[j].message = m
      PROVE  \E i \in DOMAIN chunks : chunks[i].message = m
  <2>1. j \in DOMAIN Issued /\ Issued[j] = out[j]
    BY IssuedParts
  <2>2. out[j].line \in 1 .. Put /\ m = lines[out[j].line]
    BY <1>0, <1>2, <2>1 DEF SentencesInv
  <2> DEFINE n == out[j].line
  <2>3. n \in Nat \ {0} /\ n <= LastLine(Len(chunks))
    BY <1>0, <2>2
  <2> HIDE DEF n
  <2>4. PICK i \in DOMAIN chunks, k \in Nat : k \in DOMAIN chunks[i].text /\ chunks[i].text[k] = n
    BY <2>3, InAChunk
  <2>5. lines[n] = chunks[i].message
    BY <2>4 DEF TurnInv, MessagesInv
  <2> QED
    BY <2>2, <2>5 DEF n
<1> QED
  BY <1>1, <1>2

LEMMA UnspokenFacts ==
  ASSUME TurnInv, Queue!OrderInv, Complete
  PROVE  Unspoken = {m \in Message :
           /\ speaking
           /\ \E j \in DOMAIN out : out[j].type = "sentence" /\ out[j].message = m
           /\ ~ \E j \in DOMAIN out : out[j].type = "audio" /\ out[j].message = m}
<1>1. CASE ~speaking
  BY <1>1 DEF Unspoken
<1>2. CASE speaking
  <2>1. Unspoken = {chunks[i].message : i \in DOMAIN chunks}
                     \ {MessageOf(c) : c \in {d \in spoken : d < Len(chunks)}}
    BY <1>2 DEF Unspoken
  <2>2. \A i \in DOMAIN chunks : chunks[i].message \in Message
    BY ChunkTypes
  <2>3. ASSUME NEW m
        PROVE  (\E c \in spoken : c < Len(chunks) /\ m = MessageOf(c))
                 <=> \E j \in DOMAIN out : out[j].type = "audio" /\ out[j].message = m
    <3>1. ASSUME NEW c \in spoken, m = MessageOf(c)
          PROVE  \E j \in DOMAIN out : out[j].type = "audio" /\ out[j].message = m
      <4>1. c \in Chunk /\ made[c] # 0
        BY DEF TurnInv, QueueTypes, WorkInv
      <4>2. 1 \in 1 .. made[c]
        BY <4>1 DEF TurnInv, SpeechInv, WorkTypes
      <4>3. PICK j \in DOMAIN out : out[j] = Audio(c, MessageOf(c), 1)
        BY <4>1, <4>2, AllHeard
      <4> QED
        BY <3>1, <4>3 DEF Audio
    <3>2. ASSUME NEW j \in DOMAIN out, out[j].type = "audio", out[j].message = m
          PROVE  \E c \in spoken : c < Len(chunks) /\ m = MessageOf(c)
      <4>1. j \in DOMAIN Issued /\ Issued[j] = out[j]
        BY IssuedParts
      <4> QED
        BY <3>2, <4>1, CompleteFacts, HeardIsSpoken
    <3> QED
      BY <3>1, <3>2
  <2>4. \A m : m \in Unspoken <=>
          /\ \E i \in DOMAIN chunks : chunks[i].message = m
          /\ ~ \E c \in spoken : c < Len(chunks) /\ m = MessageOf(c)
    BY <2>1
  <2> QED
    BY <1>2, <2>2, <2>3, <2>4, TextOfChunks
<1> QED
  BY <1>1, <1>2

LEMMA SaysDone ==
  ASSUME TurnInv, Queue!OrderInv, [Next]_vars, ~Finished, Finished'
  PROVE  GetEnd /\ ~failed /\ out' = Append(out, Finish) /\ queue = <<EndMark>> /\ queue' = <<>>
<1>1. CASE Stays \/ \E e \in Event : Issued' = Append(Issued, e) /\ Grows(e)
  <2>1. PICK i \in DOMAIN out' : out'[i].type = "done"
    BY DEF Finished
  <2>2. out' # out
    BY <2>1 DEF Finished
  <2>3. Live
    <3>1. ConsumerStep
      BY <2>2, Actors, ProducerFrame, WorkerFrame, HostFrame
    <3> QED
      BY <2>2, <3>1 DEF ConsumerStep, YieldAck, YieldSink, StartProducer, CheckStop, PassOn, GetEnd,
         CancelQueued, Live
  <2>4. \A j \in DOMAIN Issued : Issued[j].type # "done"
    BY <2>3 DEF TurnInv, EndInv
  <2>5. \A j \in DOMAIN Issued' : Issued'[j].type # "done"
    BY <1>1, <2>4, AppendedIssue, GrowsKind DEF Stays
  <2>6. i \in DOMAIN Issued' /\ Issued'[i] = out'[i]
    <3>1. QueueTypes'
      BY StepQueueTypes
    <3>2. out' \in Seq(Event) /\ queue' \in Seq(Event)
      BY <3>1, SeqMonotonic DEF QueueTypes
    <3> QED
      BY <2>1, <3>2, ConcatProperties, LenProperties DEF Issued
  <2> QED
    BY <2>1, <2>5, <2>6
<1>2. CASE CancelQueued /\ cpc' = "over" /\ out' = Append(out, AbortedEvent)
  <2> DEFINE more == Append(out, AbortedEvent)
  <2>1. /\ DOMAIN out = 1 .. Len(out) /\ Len(out) \in Nat
        /\ DOMAIN more = 1 .. Len(out) + 1 /\ \A i \in 1 .. Len(out) : more[i] = out[i]
        /\ more[Len(out) + 1] = AbortedEvent
    BY Typed, EventTypes, Appended
  <2>2. out' = more
    BY <1>2
  <2> HIDE DEF more
  <2>3. \A i \in DOMAIN more : more[i].type # "done"
    BY <2>1 DEF AbortedEvent, Finished
  <2> QED
    BY <2>2, <2>3 DEF Finished
<1>3. CASE GetEnd /\ queue = <<EndMark>> /\ queue' = <<>>
  BY <1>3 DEF GetEnd, Yield, Finished
<1> QED
  BY <1>1, <1>2, <1>3, IssuedStep DEF Ends

LEMMA NowDone ==
  ASSUME TurnInv, Queue!OrderInv, [Next]_vars, ~Finished, Finished'
  PROVE  DoneInv'
<1>0. /\ GetEnd /\ ~failed /\ out' = Append(out, Finish) /\ queue = <<EndMark>> /\ cpc = "get"
      /\ UNCHANGED <<cancel, speaking, lines, chunks, made, ppc, task>> /\ cpc' = "over"
  <2>1. GetEnd /\ ~failed
    BY SaysDone
  <2> QED
    BY <2>1, SaysDone, ConsumerFrame DEF GetEnd, ConsumerStep
<1>1. ppc = "gone"
  <2>1. 1 \in DOMAIN queue /\ queue[1] = EndMark
    BY <1>0
  <2> QED
    BY <2>1 DEF TurnInv, EndInv
<1>2. /\ DOMAIN out = 1 .. Len(out) /\ Len(out) \in Nat
      /\ DOMAIN out' = 1 .. Len(out) + 1 /\ \A i \in 1 .. Len(out) : out'[i] = out[i]
      /\ out'[Len(out) + 1] = Finish
  <2> DEFINE more == Append(out, Finish)
  <2>1. /\ DOMAIN out = 1 .. Len(out) /\ Len(out) \in Nat
        /\ DOMAIN more = 1 .. Len(out) + 1 /\ \A i \in 1 .. Len(out) : more[i] = out[i]
        /\ more[Len(out) + 1] = Finish
    BY Typed, OtherTypes, Appended
  <2>2. out' = more
    BY <1>0
  <2> HIDE DEF more
  <2> QED
    BY <2>1, <2>2
<1>3. Finish.type = "done" /\ Finish.unspoken = Unspoken
  BY DEF Finish, DoneEvent
<1>4. ~cancel => Complete
  BY <1>0 DEF Complete
<1>5. \A i \in DOMAIN out : i \in DOMAIN out' /\ out'[i] = out[i]
  BY <1>2
<1>6. DoneIsComplete'
  <2> SUFFICES ASSUME ~cancel
               PROVE  /\ \A n \in DOMAIN lines : \E i \in DOMAIN out' : out'[i] = Sentence(lines[n], n)
                      /\ speaking => LastLine(Len(chunks)) = Len(lines)
                      /\ \A c \in Chunk : c < Len(chunks) => task[c] = "done"
                      /\ \A c \in Chunk : \A k \in 1 .. made[c] :
                           \E i \in DOMAIN out' : out'[i] = Audio(c, MessageOf(c), k)
    BY <1>0 DEF DoneIsComplete, Sentence, Audio, MessageOf, LastLine
  <2>1. ASSUME NEW n \in DOMAIN lines PROVE \E i \in DOMAIN out' : out'[i] = Sentence(lines[n], n)
    <3>1. n \in 1 .. Put
      BY <1>4, CompleteFacts, Typed, LenProperties
    <3>2. PICK i \in DOMAIN Issued : Issued[i] = Sentence(lines[n], n)
      BY <1>4, <3>1, CompleteFacts DEF TurnInv, SentencesInv
    <3>3. Issued[i] # EndMark
      BY <3>2 DEF Sentence, EndMark
    <3> QED
      BY <1>4, <1>5, <3>2, <3>3, CompleteFacts
  <2>2. speaking => LastLine(Len(chunks)) = Len(lines)
    BY <1>4, CompleteFacts DEF TurnInv, LinesInv, Closing
  <2>3. ASSUME NEW c \in Chunk, NEW k \in 1 .. made[c]
        PROVE  \E i \in DOMAIN out' : out'[i] = Audio(c, MessageOf(c), k)
    BY <1>4, <1>5, AllHeard
  <2> QED
    BY <1>4, <2>1, <2>2, <2>3, AllDone
<1>7. UnspokenIsExact'
  <2> SUFFICES ASSUME NEW i \in DOMAIN out', out'[i].type = "done", ~cancel
               PROVE  out'[i].unspoken =
                 {m \in Message :
                    /\ speaking
                    /\ \E j \in DOMAIN out' : out'[j].type = "sentence" /\ out'[j].message = m
                    /\ ~ \E j \in DOMAIN out' : out'[j].type = "audio" /\ out'[j].message = m}
    BY <1>0 DEF UnspokenIsExact
  <2>1. out'[i] = Finish
    BY <1>2 DEF Finished
  <2>2. \A j \in DOMAIN out' : j \in DOMAIN out \/ out'[j] = Finish
    BY <1>2
  <2>3. \A m : /\ (\E j \in DOMAIN out' : out'[j].type = "sentence" /\ out'[j].message = m)
                    <=> \E j \in DOMAIN out : out[j].type = "sentence" /\ out[j].message = m
               /\ (\E j \in DOMAIN out' : out'[j].type = "audio" /\ out'[j].message = m)
                    <=> \E j \in DOMAIN out : out[j].type = "audio" /\ out[j].message = m
    BY <1>3, <1>5, <2>2
  <2> QED
    BY <1>3, <1>4, <2>1, <2>3, UnspokenFacts
<1> QED
  BY <1>0, <1>1, <1>6, <1>7 DEF DoneInv

(* Nothing moves in a turn that has said done, unless it was cancelled.     *)
LEMMA StillDone ==
  ASSUME TurnInv, Queue!OrderInv, [Next]_vars, Finished
  PROVE  DoneInv'
<1>1. cpc = "over" /\ ppc = "gone" /\ DoneIsComplete /\ UnspokenIsExact
  BY DEF TurnInv, DoneInv
<1>2. UNCHANGED <<out, cpc, ppc, lines, chunks, speaking>> /\ (ConsumerStep => task' = task)
  <2>1. ~ModelAnswers /\ ~ProducerStep
    BY <1>1 DEF ModelAnswers, NextLine, StreamEnds, StreamFails, ProducerStep, PutSentence,
                Boundary, Flush, Finally, WaitForChunks
  <2>2. ~ConsumerStep
    BY <1>1 DEF ConsumerStep, YieldAck, YieldSink, StartProducer, CheckStop, PassOn, GetEnd,
                CancelQueued
  <2>3. HostStep \/ UNCHANGED vars => UNCHANGED <<out, cpc, ppc, lines, chunks, speaking>>
    <3>1. HostStep => cpc' = cpc
      BY <1>1 DEF HostStep, Cancel, Close
    <3>2. UNCHANGED vars => cpc' = cpc
      BY DEF vars
    <3> QED
      BY <3>1, <3>2, HostFrame
  <2> QED
    BY <2>1, <2>2, <2>3, Actors, WorkerFrame
<1>3. UnspokenIsExact' /\ (Finished' => cpc' = "over" /\ ppc' = "gone")
  <2>1. cancel => cancel'
    BY FlagsStay DEF TurnInv
  <2> QED
    BY <1>1, <1>2, <2>1 DEF UnspokenIsExact
<1>4. DoneIsComplete'
  <2>0. cancel => cancel'
    BY FlagsStay DEF TurnInv
  <2> SUFFICES ASSUME ~cancel PROVE DoneIsComplete'
    BY <2>0 DEF DoneIsComplete
  <2>1. ASSUME NEW c \in Chunk PROVE task[c] \in {"none", "done"}
    <3>1. c < Len(chunks) => task[c] = "done"
      BY <1>1 DEF DoneIsComplete
    <3>2. c >= Len(chunks) => task[c] = "none"
      BY DEF TurnInv, SpeechInv, SilentUntilAsked
    <3> QED
      BY <3>1, <3>2, ChunkTypes, Bounds DEF Chunk, MaxChunks
  <2>2. \A c \in Chunk : holder # c
    BY <2>1 DEF TurnInv, WorkInv
  <2>3. \A c \in Chunk : ~WorkerActs(c)
    BY <2>1, <2>2 DEF WorkerActs, WorkerStep, Start, Enter, Ask, FinishChunk, EmitAudio,
         AdvanceCursor, LeaveOrder, MakePiece, SpeechEnds, SpeakReturns, SpeakRaises,
         Order!HandOver, Order!Advance, Order!Unlock
  <2>4. task' = task /\ made' = made
    <3>1. HostStep \/ UNCHANGED vars
      <4>1. ~ModelAnswers /\ ~ProducerStep
        BY <1>1 DEF ModelAnswers, NextLine, StreamEnds, StreamFails, ProducerStep, PutSentence,
                    Boundary, Flush, Finally, WaitForChunks
      <4>2. ~ConsumerStep
        BY <1>1 DEF ConsumerStep, YieldAck, YieldSink, StartProducer, CheckStop, PassOn, GetEnd,
                    CancelQueued
      <4> QED
        BY <2>3, <4>1, <4>2, Actors
    <3> QED
      BY <3>1, HostFrame
  <2> QED
    BY <1>1, <1>2, <2>4 DEF DoneIsComplete, Finished, LastLine, MessageOf
<1> QED
  BY <1>3, <1>4 DEF DoneInv

LEMMA StepDone ==
  ASSUME TurnInv, Queue!OrderInv, [Next]_vars
  PROVE  DoneInv'
<1>1. CASE ~Finished'
  BY <1>1 DEF DoneInv, DoneIsComplete, UnspokenIsExact, Finished
<1> QED
  BY <1>1, NowDone, StillDone

(***************************** The invariant *******************************)

LEMMA InitTurn == Init => TurnInv
<1> SUFFICES ASSUME Init PROVE TurnInv
  OBVIOUS
<1>0. /\ speaking \in BOOLEAN /\ cancel = FALSE /\ stopping = FALSE /\ failed = FALSE
      /\ ppc = "unborn" /\ cpc = "ack" /\ lines = <<>> /\ current = 0 /\ buffer = <<>> /\ chunks = <<>>
      /\ task = [c \in Chunk |-> "none"] /\ attempts = [c \in Chunk |-> 0]
      /\ spoken = {} /\ warnings = {} /\ queue = <<>> /\ out = <<>> /\ Order!Init
  BY DEF Init
<1>1. Issued = <<>> /\ <<>> \in Seq(Event) /\ <<>> \in Seq(Event \ {EndMark})
  <2>1. <<>> \in Seq(Event) /\ <<>> \in Seq(Event \ {EndMark})
    OBVIOUS
  <2>2. <<>> \o <<>> = <<>>
    OBVIOUS
  <2> QED
    BY <1>0, <2>1, <2>2 DEF Issued
<1>2. DOMAIN Issued = {} /\ DOMAIN queue = {} /\ DOMAIN out = {} /\ DOMAIN lines = {}
      /\ DOMAIN chunks = {} /\ DOMAIN buffer = {} /\ Len(lines) = 0 /\ Len(chunks) = 0 /\ Len(buffer) = 0
  BY <1>0, <1>1
<1>3. QueueTypes
  <2>1. {speaking, cancel, stopping, failed} \subseteq BOOLEAN
    BY <1>0
  <2>2. /\ ppc \in {"unborn", "read", "put", "boundary", "flush"} \cup Closing
        /\ cpc \in Opening \cup {"check", "get", "yielded", "superseded", "failing", "closing", "over"}
    BY <1>0 DEF Opening
  <2>3. Len(lines) <= MaxLines
    BY <1>2, Bounds
  <2>4. warnings \in SUBSET Chunk /\ spoken \in SUBSET Chunk
    BY <1>0
  <2>5. attempts \in [Chunk -> 0 .. 2]
    <3>1. 0 \in 0 .. 2
      OBVIOUS
    <3> QED
      BY <1>0, <3>1
  <2>6. queue \in Seq(Event) /\ out \in Seq(Event \ {EndMark})
    BY <1>0, <1>1
  <2> QED
    BY <2>1, <2>2, <2>3, <2>4, <2>5, <2>6 DEF QueueTypes
<1>4. SpeechInv
  BY InitSpeech
<1>5. ConsumerInv
  BY <1>0, <1>2 DEF ConsumerInv, Opening
<1>6. EndInv
  BY <1>0, <1>2 DEF EndInv, ErrorIssued
<1>7. WorkInv
  BY <1>0 DEF WorkInv, Order!Init, Order!Nobody, Order!Chunk, Chunk
<1>8. MessagesInv
  BY <1>2 DEF MessagesInv
<1>9. LinesInv
  BY <1>0, <1>2 DEF LinesInv, GoesOn, Refused, LastLine, Put, Closing
<1>10. SentencesInv
  BY <1>0, <1>2, Bounds DEF SentencesInv, Put
<1>11. handed = <<>>
  BY <1>0 DEF Order!Init
<1>12. SoundInv
  BY <1>2, <1>11 DEF SoundInv
<1>13. StreamInv
  BY <1>2 DEF StreamInv
<1>14. SoundIsWhole
  <2>1. Heard = <<>>
    BY <1>1, OfTypeNone DEF Heard
  <2>2. Got(Heard) = <<>>
    BY <2>1 DEF Got
  <2>3. IsPrefix(<<>>, <<>>)
    BY DEF IsPrefix
  <2>4. Got(Heard) = handed /\ IsPrefix(Got(Heard), handed)
    BY <1>11, <2>2, <2>3
  <2> QED
    BY <2>4 DEF SoundIsWhole, Got
<1>15. DoneInv
  BY <1>2 DEF DoneInv, Finished, DoneIsComplete, UnspokenIsExact
<1> QED
  BY <1>3, <1>4, InitRequests, <1>5, <1>6, <1>7, <1>8, <1>9, <1>10, <1>12, <1>13, <1>14, <1>15
  DEF TurnInv

LEMMA StepTurn == TurnInv /\ Queue!OrderInv /\ [Next]_vars => TurnInv'
<1> SUFFICES ASSUME TurnInv, Queue!OrderInv, [Next]_vars PROVE TurnInv'
  OBVIOUS
<1>1. SpeechInv' /\ RequestInv'
  BY StepSpeech, StepRequests DEF TurnInv
<1> QED
  BY <1>1, StepQueueTypes, StepConsumer, StepEnd, StepWork, StepMessages, StepLines, StepSentences,
     StepSound, StepStream, StepWhole, StepDone DEF TurnInv

(* The invariant holds throughout a turn, and that of the ordering queue.   *)
THEOREM InvariantHolds == Spec => [](TurnInv /\ Queue!OrderInv)
<1>1. Init => TurnInv /\ Queue!OrderInv
  BY InitTurn, InitQueue
<1>2. TurnInv /\ Queue!OrderInv /\ [Next]_vars => (TurnInv /\ Queue!OrderInv)'
  BY StepTurn, StepQueue
<1> QED
  BY <1>1, <1>2, PTL DEF Spec

(****************************** What it shows ******************************)

LEMMA TypesOfTurn == TurnInv /\ Queue!OrderInv => TypeOK
<1> SUFFICES ASSUME TurnInv, Queue!OrderInv PROVE TypeOK
  OBVIOUS
<1>1. QueueTypes /\ TextTypes /\ WorkTypes
  BY DEF TurnInv, SpeechInv
<1>2. Put \in Nat /\ Put <= MaxLines /\ Len(chunks) <= MaxChunks
  BY LineBounds, Bounds, Typed DEF MaxChunks
<1>3. \A n \in 1 .. Put : n \in 1 .. MaxLines
  BY <1>2, Bounds
<1>4. buffer \in Seq(1 .. MaxLines)
  <2>1. \A j \in DOMAIN buffer : buffer[j] \in 1 .. MaxLines
    BY <1>3 DEF TurnInv, MessagesInv
  <2> QED
    BY <1>1, <2>1, Narrower DEF TextTypes
<1>5. chunks \in Seq([text : Seq(1 .. MaxLines), message : Message])
  <2>0. chunks \in Seq([text : Seq(Nat), message : Message])
    BY <1>1 DEF TextTypes
  <2>1. ASSUME NEW i \in DOMAIN chunks
        PROVE  chunks[i] \in [text : Seq(1 .. MaxLines), message : Message]
    <3>1. chunks[i] \in [text : Seq(Nat), message : Message]
      BY <2>0, LenProperties, ElementOfSeq
    <3>2. \A j \in DOMAIN chunks[i].text : chunks[i].text[j] \in 1 .. MaxLines
      BY <1>3 DEF TurnInv, MessagesInv
    <3>3. chunks[i].text \in Seq(1 .. MaxLines)
      BY <3>1, <3>2, Narrower
    <3> QED
      BY <3>1, <3>3
  <2> QED
    BY <2>0, <2>1, Narrower
<1>6. Order!TypeOK
  BY DEF Queue!OrderInv, Queue!TypeOK, Order!TypeOK, Queue!Cursor, Order!Cursor, Queue!Chunk,
         Order!Chunk, Queue!Nobody, Order!Nobody, Queue!HandedPiece, Order!HandedPiece
<1>7. Len(lines) <= MaxLines /\ lines \in Seq(Message) /\ current \in Message
  BY <1>1 DEF QueueTypes, TextTypes
<1>8. late \in Nat
  BY DEF TurnInv, RequestInv
<1> QED
  BY <1>1, <1>2, <1>4, <1>5, <1>6, <1>7, <1>8 DEF TypeOK, QueueTypes, WorkTypes, Opening, Closing

LEMMA TextIsKept == TurnInv => LinesKept
<1> SUFFICES ASSUME TurnInv, speaking PROVE LinesKept
  BY DEF LinesKept
<1>1. LinesInv /\ MessagesInv
  BY DEF TurnInv
<1>2. ASSUME ppc \in {"read", "flush"}
      PROVE  LastLine(Len(chunks)) + Len(buffer) = Len(lines)
  BY <1>1, <1>2 DEF LinesInv, Closing, Put
<1> QED
  BY <1>1, <1>2 DEF LinesKept, LinesInv, MessagesInv

(* Every variable keeps its type.                                           *)
THEOREM TypeCorrect == Spec => []TypeOK
  BY InvariantHolds, TypesOfTurn, PTL

(* No line of the reply is lost, doubled or moved on its way to synthesis,  *)
(* and no chunk mixes two messages.                                         *)
THEOREM TextKept == Spec => []LinesKept
  BY InvariantHolds, TextIsKept, PTL

(* What the client gets is what the ordering queue handed over, cut off at  *)
(* one point if the turn is stopped and whole if it is not.                 *)
THEOREM SoundWhole == Spec => []SoundIsWhole
<1>1. TurnInv => SoundIsWhole
  BY DEF TurnInv
<1> QED
  BY <1>1, InvariantHolds, PTL

(* A turn nobody cancelled says done only when every line is out as text    *)
(* and every piece of every chunk has been yielded.                         *)
THEOREM DoneComplete == Spec => []DoneIsComplete
<1>1. TurnInv => DoneIsComplete
  BY DEF TurnInv, DoneInv
<1> QED
  BY <1>1, InvariantHolds, PTL

(* done.unspoken names exactly the messages that are out as text and of     *)
(* which nothing was heard.                                                 *)
THEOREM UnspokenExact == Spec => []UnspokenIsExact
<1>1. TurnInv => UnspokenIsExact
  BY DEF TurnInv, DoneInv
<1> QED
  BY <1>1, InvariantHolds, PTL

(******************************* The stream ********************************)

LEMMA OneMore ==
  ASSUME TurnInv, NEW e \in Event, out' = Append(out, e), Stream!MayFollow(out, e)
  PROVE  Stream!Next
<1>1. out \in Seq(Event) /\ Len(out) \in Nat
  BY Typed
<1>2. Len(out') = Len(out) + 1 /\ out'[Len(out) + 1] = e
  BY <1>1, AppendProperties
<1>3. SubSeq(out', 1, Len(out)) = out
  BY <1>1, FrontOf
<1>4. out'[Len(out')] = e
  BY <1>2
<1> QED
  BY <1>2, <1>3, <1>4 DEF Stream!Next

LEMMA PassedOn ==
  ASSUME TurnInv, PassOn
  PROVE  Head(queue) \in Event /\ Stream!MayFollow(out, Head(queue))
<1> DEFINE n == Len(out)
<1>0. /\ out \in Seq(Event) /\ queue \in Seq(Event) /\ queue # <<>> /\ Head(queue) # EndMark
      /\ n \in Nat /\ Live
  BY Typed DEF PassOn, Live
<1>1. Head(queue) \in Event /\ Head(queue) = queue[1] /\ Len(queue) >= 1
  BY <1>0, HeadTailProperties, EmptySeq
<1>2. /\ Len(Issued) = n + Len(queue) /\ Issued \in Seq(Event)
      /\ \A i \in 1 .. n : Issued[i] = out[i]
      /\ Issued[n + 1] = queue[1]
  <2>1. /\ Len(Issued) = n + Len(queue) /\ Issued \in Seq(Event)
        /\ \A i \in 1 .. n + Len(queue) : Issued[i] = IF i <= n THEN out[i] ELSE queue[i - n]
    BY <1>0, ConcatProperties DEF Issued
  <2>2. n + 1 \in 1 .. n + Len(queue) /\ (n + 1) - n = 1 /\ \A i \in 1 .. n : i \in 1 .. n + Len(queue)
    BY <1>0, <1>1
  <2> QED
    BY <1>0, <2>1, <2>2
<1>3. SubSeq(Issued, 1, n) = out
  <2>1. SubSeq(Issued, 1, n) = [i \in 1 .. n |-> Issued[i]]
    BY <1>0, <1>2
  <2>2. out = [i \in 1 .. n |-> out[i]]
    BY <1>0
  <2> QED
    BY <1>2, <2>1, <2>2
<1>4. n + 1 \in DOMAIN Issued /\ (n + 1) - 1 = n
  BY <1>0, <1>1, <1>2
<1>5. Issued[n + 1] = EndMark \/ Stream!MayFollow(SubSeq(Issued, 1, (n + 1) - 1), Issued[n + 1])
  BY <1>0, <1>4 DEF TurnInv, StreamInv
<1> HIDE DEF n
<1> QED
  BY <1>0, <1>1, <1>2, <1>3, <1>4, <1>5

(* The turn is under way and has not said that it ended.                    *)
LEMMA NotEnded ==
  ASSUME TurnInv, cpc \in {"get", "superseded"}
  PROVE  Stream!Opened(out) /\ ~Stream!Ended(out)
<1>1. Len(out) >= 2 /\ Live
  BY DEF TurnInv, ConsumerInv, Live
<1>2. \A i \in DOMAIN out : i \in DOMAIN Issued /\ Issued[i] = out[i]
  BY Typed, ConcatProperties, LenProperties DEF Issued
<1>3. \A i \in DOMAIN out : out[i].type \notin {"done", "aborted"}
  BY <1>1, <1>2 DEF TurnInv, EndInv
<1> QED
  BY <1>1, <1>3 DEF Stream!Opened, Stream!Ended, Stream!Seen

LEMMA StreamStep ==
  ASSUME TurnInv, [Next]_vars
  PROVE  [Stream!Next]_out
<1>1. CASE ConsumerStep
  <2>1. CASE YieldAck \/ YieldSink
    <3>1. PICK e \in {AckEvent, SinkEvent} :
            out' = Append(out, e) /\ ((e = AckEvent /\ YieldAck) \/ (e = SinkEvent /\ YieldSink))
      BY <2>1 DEF YieldAck, YieldSink, Yield
    <3>2. Stream!MayFollow(out, e)
      BY <3>1 DEF YieldAck, YieldSink, TurnInv, ConsumerInv, Stream!MayFollow, AckEvent, SinkEvent
    <3> QED
      BY <3>1, <3>2, EventTypes, OneMore
  <2>2. CASE PassOn
    BY <2>2, PassedOn, OneMore DEF PassOn, Yield
  <2>3. CASE GetEnd
    <3>1. CASE failed
      BY <2>3, <3>1 DEF GetEnd
    <3>2. CASE ~failed
      <4>1. out' = Append(out, Finish) /\ cpc = "get"
        BY <2>3, <3>2 DEF GetEnd, Yield
      <4>2. Finish \in Event /\ Finish.type = "done"
        BY ChunkTypes, EventTypes DEF Finish, Unspoken, TurnInv, QueueTypes, DoneEvent
      <4>3. ~Stream!Seen(out, "error")
        BY <3>2 DEF TurnInv, ConsumerInv, Stream!Seen
      <4>4. Stream!MayFollow(out, Finish)
        BY <4>1, <4>2, <4>3, NotEnded DEF Stream!MayFollow
      <4> QED
        BY <4>1, <4>2, <4>4, OneMore
    <3> QED
      BY <3>1, <3>2
  <2>4. CASE CancelQueued
    <3>1. out' = out \/ (cpc = "superseded" /\ out' = Append(out, AbortedEvent))
      BY <2>4 DEF CancelQueued, Yield
    <3>2. AbortedEvent \in Event /\ AbortedEvent.type = "aborted"
      BY EventTypes DEF AbortedEvent
    <3>3. cpc = "superseded" => Stream!MayFollow(out, AbortedEvent)
      BY <3>2, NotEnded DEF Stream!MayFollow
    <3> QED
      BY <3>1, <3>2, <3>3, OneMore
  <2>5. CASE StartProducer \/ CheckStop
    BY <2>5 DEF StartProducer, CheckStop
  <2> QED
    BY <1>1, <2>1, <2>2, <2>3, <2>4, <2>5 DEF ConsumerStep
<1>2. CASE HostStep \/ UNCHANGED vars
  BY <1>2, HostFrame
<1> QED
  BY <1>1, <1>2, Actors, ProducerFrame, WorkerFrame

(* The generator's events are a stream of EventStream: every yield is one   *)
(* that may follow what was yielded before.                                 *)
THEOREM FollowsTheStream == Spec => ImplementsStream
<1>1. Init => Stream!Init
  BY DEF Init, Stream!Init
<1>2. TurnInv /\ [Next]_vars => [Stream!Next]_out
  BY StreamStep
<1> QED
  BY <1>1, <1>2, InvariantHolds, PTL DEF Spec, ImplementsStream, Stream!Spec
=============================================================================
