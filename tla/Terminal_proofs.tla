--------------------------- MODULE Terminal_proofs ---------------------------
(***************************************************************************)
(* For any number of lines, recordings and turns.  No Enter goes astray: a *)
(* thread that still waits for the keyboard after its recording was left   *)
(* there by a device that broke, one for each, and while none was, a       *)
(* recording that can still be sent is exactly one Enter ahead.  What the  *)
(* model is given is an exchange, however long the window and the          *)
(* transcript are.  What reaches the speaker is made of whole samples,     *)
(* wherever the network cuts the audio.  And the gate drops a recording of *)
(* any length exactly when too little was said in it.                      *)
(***************************************************************************)
EXTENDS Terminal, FiniteSetTheorems, SequenceTheorems, WellFoundedInduction, TLAPS

(******************************* Induction *******************************)

(* The induction is the least element of a set of natural numbers: sets     *)
(* and functions take the place of the predicates and operators of the      *)
(* library's induction theorems.                                            *)
LEMMA LeastNat ==
  ASSUME NEW T \in SUBSET Nat, T # {}
  PROVE  \E x \in T : \A y \in T : x <= y
<1>1. PICK x \in T : \A y \in T : ~ (<<y, x>> \in OpToRel(<, Nat))
  BY NatLessThanWellFounded, WFMin, Zenon
<1>2. \A y \in T : ~ (y < x)
  BY <1>1 DEF OpToRel
<1> QED
  BY <1>2

LEMMA InductionUpTo ==
  ASSUME NEW n \in Nat, NEW T, 0 \in T, \A i \in 1 .. n : i - 1 \in T => i \in T
  PROVE  0 .. n \subseteq T
<1> SUFFICES ASSUME ~(0 .. n \subseteq T) PROVE FALSE
  OBVIOUS
<1>1. PICK x \in (0 .. n) \ T : \A y \in (0 .. n) \ T : x <= y
  <2>1. (0 .. n) \ T # {} /\ (0 .. n) \ T \in SUBSET Nat
    OBVIOUS
  <2> QED
    BY <2>1, LeastNat
<1>2. x \in 1 .. n /\ x - 1 \in T
  BY <1>1
<1> QED
  BY <1>1, <1>2

(* A function that is computed step by step exists.                         *)
LEMMA Recursion ==
  ASSUME NEW D, NEW base \in D, NEW n \in Nat, NEW step \in [1 .. n -> [D -> D]]
  PROVE  \E f \in [0 .. n -> D] : f[0] = base /\ \A i \in 1 .. n : f[i] = step[i][f[i - 1]]
<1> DEFINE Good(m) == \E f \in [0 .. m -> D] :
                        f[0] = base /\ \A i \in 1 .. m : f[i] = step[i][f[i - 1]]
           T == {m \in 0 .. n : Good(m)}
<1>1. 0 \in T
  <2>1. /\ [i \in 0 .. 0 |-> base] \in [0 .. 0 -> D]
        /\ [i \in 0 .. 0 |-> base][0] = base
        /\ 1 .. 0 = {}
    OBVIOUS
  <2>2. Good(0)
    BY <2>1
  <2> QED
    BY <2>2
<1>2. ASSUME NEW m \in 1 .. n, m - 1 \in T PROVE m \in T
  <2>1. PICK f \in [0 .. m - 1 -> D] :
          f[0] = base /\ \A i \in 1 .. m - 1 : f[i] = step[i][f[i - 1]]
    BY <1>2
  <2> DEFINE g == [i \in 0 .. m |-> IF i = m THEN step[m][f[m - 1]] ELSE f[i]]
  <2>2. step[m][f[m - 1]] \in D
    <3>1. f[m - 1] \in D /\ step[m] \in [D -> D]
      BY <1>2
    <3> QED
      BY <3>1
  <2>3. g \in [0 .. m -> D] /\ g[0] = base
    BY <2>1, <2>2
  <2>4. ASSUME NEW i \in 1 .. m PROVE g[i] = step[i][g[i - 1]]
    <3>1. i - 1 \in 0 .. m /\ i \in 0 .. m /\ i - 1 # m
      BY <1>2
    <3>2. g[i - 1] = f[i - 1] /\ g[i] = IF i = m THEN step[m][f[m - 1]] ELSE f[i]
      BY <3>1
    <3>3. i = m \/ i \in 1 .. m - 1
      BY <1>2
    <3> QED
      BY <2>1, <3>2, <3>3
  <2>5. Good(m)
    <3> HIDE DEF g
    <3> QED
      BY <2>3, <2>4
  <2> HIDE DEF Good
  <2>6. m \in 0 .. n
    OBVIOUS
  <2> QED
    BY <2>5, <2>6
<1> HIDE DEF T
<1>3. 0 .. n \subseteq T
  BY <1>1, <1>2, InductionUpTo
<1>4. n \in T
  BY <1>3
<1> QED
  BY <1>4 DEF T

(******************************* Sequences *******************************)

LEMMA Appended ==
  ASSUME NEW S, NEW s \in Seq(S), NEW e \in S
  PROVE  /\ Len(s) \in Nat /\ DOMAIN s = 1 .. Len(s)
         /\ Append(s, e) \in Seq(S) /\ Len(Append(s, e)) = Len(s) + 1
         /\ DOMAIN Append(s, e) = 1 .. Len(s) + 1
         /\ \A i \in 1 .. Len(s) : Append(s, e)[i] = s[i]
         /\ Append(s, e)[Len(s) + 1] = e
  BY AppendProperties, LenProperties

Flat(seqs) ==
  CHOOSE flatten : flatten = [i \in 1 .. Len(seqs) |->
    IF i = 1 THEN seqs[i] ELSE flatten[i - 1] \o seqs[i]]

(* What is closed under concatenation holds of the pieces put together.     *)
LEMMA FlattenIn ==
  ASSUME NEW T, <<>> \in T, \A a \in T, b \in T : a \o b \in T,
         NEW seqs \in Seq(T)
  PROVE  FlattenSeq(seqs) \in T
<1> DEFINE n == Len(seqs)
           Eq(f) == f = [i \in 1 .. n |-> IF i = 1 THEN seqs[i] ELSE f[i - 1] \o seqs[i]]
<1>1. n \in Nat /\ \A i \in 1 .. n : seqs[i] \in T
  OBVIOUS
<1>2. CASE n = 0
  <2>1. seqs = <<>>
    BY <1>2, EmptySeq
  <2> QED
    BY <1>2, <2>1 DEF FlattenSeq
<1>3. CASE n # 0
  <2> DEFINE step == [i \in 1 .. n |-> [k \in T |-> IF i = 1 THEN seqs[i] ELSE k \o seqs[i]]]
  <2>1. step \in [1 .. n -> [T -> T]]
    BY <1>1
  <2>2. \A i \in 1 .. n, k \in T : step[i][k] = IF i = 1 THEN seqs[i] ELSE k \o seqs[i]
    OBVIOUS
  <2> HIDE DEF step, n
  <2>3. PICK f \in [0 .. n -> T] : \A i \in 1 .. n : f[i] = step[i][f[i - 1]]
    <3> DEFINE base == <<>>
    <3>1. base \in T
      OBVIOUS
    <3> HIDE DEF base
    <3>2. n \in Nat
      BY <1>1
    <3>3. \E f \in [0 .. n -> T] : f[0] = base /\ \A i \in 1 .. n : f[i] = step[i][f[i - 1]]
      BY ONLY <2>1, <3>1, <3>2, Recursion
    <3> QED
      BY <3>3
  <2> DEFINE g == [i \in 1 .. n |-> f[i]]
  <2>4. g = [i \in 1 .. n |-> IF i = 1 THEN seqs[i] ELSE g[i - 1] \o seqs[i]]
    <3> SUFFICES ASSUME NEW i \in 1 .. n
                 PROVE  f[i] = IF i = 1 THEN seqs[i] ELSE g[i - 1] \o seqs[i]
      OBVIOUS
    <3>1. i - 1 \in 0 .. n /\ (i # 1 => i - 1 \in 1 .. n)
      BY <1>1
    <3>2. f[i] = step[i][f[i - 1]] /\ f[i - 1] \in T
      BY <2>3, <3>1
    <3>3. f[i] = IF i = 1 THEN seqs[i] ELSE f[i - 1] \o seqs[i]
      BY <2>2, <3>2
    <3> QED
      BY <3>1, <3>3
  <2>5. Eq(g)
    BY <2>4 DEF Eq, n
  <2>6. Eq(Flat(seqs))
    <3>1. \E k : Eq(k)
      BY <2>5
    <3>2. Eq(CHOOSE k : Eq(k))
      BY <3>1
    <3> QED
      BY <3>2 DEF Eq, Flat, n
  <2> DEFINE K == Flat(seqs)
  <2>7. \A i \in 1 .. n : K[i] = IF i = 1 THEN seqs[i] ELSE K[i - 1] \o seqs[i]
    BY <2>6 DEF Eq, n
  <2> HIDE DEF K
  <2> DEFINE U == {i \in 0 .. n : i # 0 => K[i] \in T}
  <2>8. 0 \in U
    BY <1>1
  <2>9. \A i \in 1 .. n : i - 1 \in U => i \in U
    <3> SUFFICES ASSUME NEW i \in 1 .. n, i - 1 \in U PROVE K[i] \in T
      BY <1>1
    <3>1. i # 1 => K[i - 1] \in T
      BY <1>1
    <3>2. seqs[i] \in T
      BY <1>1
    <3>3. CASE i = 1
      BY <2>7, <3>2, <3>3
    <3>4. CASE i # 1
      BY <2>7, <3>1, <3>2, <3>4
    <3> QED
      BY <3>3, <3>4
  <2> HIDE DEF U
  <2>10. 0 .. n \subseteq U
    BY <1>1, <2>8, <2>9, InductionUpTo
  <2>11. K[n] \in T
    BY <1>1, <1>3, <2>10 DEF U
  <2>12. FlattenSeq(seqs) = K[n]
    BY <1>3 DEF FlattenSeq, Flat, K, n
  <2> QED
    BY <2>11, <2>12
<1> QED
  BY <1>2, <1>3

USE DEF keyVars, recVars, turnVars

LEMMA BehindFinite ==
  ASSUME KeysOK
  PROVE  IsFiniteSet(Behind) /\ Cardinality(Behind) \in Nat
<1>1. IsFiniteSet(1 .. MaxTyped)
  BY TypingAssumption, FS_Interval
<1>2. Behind \in SUBSET (1 .. MaxTyped)
  BY DEF KeysOK, Behind
<1> QED
  BY <1>1, <1>2, FS_Subset, FS_CardinalityType

(* Nothing that concerns the keyboard happens, outside of a recording.      *)
LEMMA Elsewhere ==
  ASSUME EntersInv, UNCHANGED <<keyVars, rec, failures, mode>>,
         pc' = pc \/ (pc # "record" /\ pc' # "record")
  PROVE  EntersInv'
<1>1. KeysOK'
  BY DEF EntersInv, KeysOK
<1>2. Behind' = Behind /\ Recording' = Recording /\ InputOver' = InputOver
  BY DEF Behind, Recording, InputOver
<1> QED
  BY <1>1, <1>2 DEF EntersInv, LateIsBehind, SendFollows

(* A line more: only the input that is not over can go on.                  *)
LEMMA TypeKeeps ==
  ASSUME EntersInv, Type
  PROVE  EntersInv'
<1>1. /\ toType > 0 /\ toType' = toType - 1 /\ typed' = typed + 1
      /\ UNCHANGED <<pc, reader, stop, taken, rec, failures, mode>>
  BY DEF Type
<1>2. KeysOK'
  BY <1>1 DEF EntersInv, KeysOK
<1>3. Behind' = Behind /\ Recording' = Recording /\ ~InputOver
  BY <1>1 DEF Behind, Recording, InputOver
<1> QED
  BY <1>1, <1>2, <1>3 DEF EntersInv, LateIsBehind, SendFollows

LEMMA ReadMessageKeeps ==
  ASSUME EntersInv, ReadMessage
  PROVE  EntersInv'
<1>1. /\ ~mode.mic /\ typed > 0 /\ typed' = typed - 1
      /\ taken' = [taken EXCEPT !.start = @ + 1]
      /\ pc # "record" /\ pc' # "record"
      /\ UNCHANGED <<toType, reader, stop, rec, failures, mode>>
  BY DEF ReadMessage
<1>2. taken' \in [start : Nat, send : Nat, late : Nat] /\ taken'.late = taken.late
  BY <1>1 DEF EntersInv, KeysOK
<1>3. KeysOK'
  BY <1>1, <1>2 DEF EntersInv, KeysOK
<1>4. Behind' = Behind
  BY <1>1 DEF Behind
<1> QED
  BY <1>1, <1>2, <1>3, <1>4 DEF EntersInv, LateIsBehind, SendFollows

(* The thread of the recording before, if it waits, was left behind before. *)
LEMMA BeginKeeps ==
  ASSUME EntersInv, BeginRecording
  PROVE  EntersInv'
<1>1. /\ pc = "wait" /\ typed > 0 /\ typed' = typed - 1
      /\ taken' = [taken EXCEPT !.start = @ + 1]
      /\ rec' = rec + 1 /\ reader' = [reader EXCEPT ![rec + 1] = "reading"]
      /\ pc' = "record" /\ UNCHANGED <<toType, stop, failures, mode>>
  BY DEF BeginRecording
<1>2. KeysOK
  BY DEF EntersInv
<1>3. /\ taken' \in [start : Nat, send : Nat, late : Nat]
      /\ taken'.late = taken.late /\ taken'.send = taken.send /\ taken'.start = taken.start + 1
  BY <1>1, <1>2 DEF KeysOK
<1>4. DOMAIN reader' = DOMAIN reader /\ \A r \in DOMAIN reader : r # rec + 1 => reader'[r] = reader[r]
  BY <1>1
<1>5. \A r \in DOMAIN reader : reader[r] = "reading" => r # rec + 1 /\ r <= rec + 1
  BY <1>2 DEF KeysOK
<1>6. stop \subseteq 1 .. rec + 1 /\ rec + 1 \notin stop
  BY <1>2 DEF KeysOK
<1>7. KeysOK'
  BY <1>1, <1>2, <1>3, <1>4, <1>5, <1>6 DEF KeysOK
<1>8. Behind' = Behind
  BY <1>1, <1>4, <1>5 DEF Behind
<1>9. ~InputOver /\ ~Recording /\ Recording'
  BY <1>1, <1>2, <1>6 DEF InputOver, Recording, KeysOK
<1> QED
  BY <1>1, <1>3, <1>7, <1>8, <1>9 DEF EntersInv, LateIsBehind, SendFollows

(* A thread gets a line, or the end of the input: the recording's own sends *)
(* it, any other is one of those left behind.                               *)
LEMMA StopKeeps ==
  ASSUME EntersInv, NEW r \in DOMAIN reader, StopOnEnter(r)
  PROVE  EntersInv'
<1>0. KeysOK /\ LateIsBehind /\ SendFollows
  BY DEF EntersInv
<1>1. /\ reader[r] = "reading" /\ reader' = [reader EXCEPT ![r] = "gone"]
      /\ stop' = stop \cup {r}
      /\ UNCHANGED <<toType, pc, rec, failures, mode>>
  BY DEF StopOnEnter
<1>2. typed' \in Nat /\ (InputOver => InputOver') /\ (typed = 0 => InputOver')
  BY <1>0 DEF StopOnEnter, ReadLine, InputOver, KeysOK
<1>3. r <= rec /\ r \notin stop /\ r \in 1 .. rec
  BY <1>0, <1>1 DEF KeysOK
<1>4. taken' \in [start : Nat, send : Nat, late : Nat] /\ taken'.start = taken.start
  BY <1>0 DEF StopOnEnter, KeysOK
<1>5. KeysOK'
  BY <1>0, <1>1, <1>2, <1>3, <1>4 DEF KeysOK
<1>6. Behind' = Behind \ {r}
  BY <1>1 DEF Behind
<1>7. CASE pc = "record" /\ r = rec
  <2>1. r \notin Behind /\ Behind' = Behind
    BY <1>6, <1>7 DEF Behind
  <2>2. Recording /\ ~Recording'
    BY <1>1, <1>3, <1>7 DEF Recording
  <2>3. taken'.late = taken.late /\ taken'.send = IF typed = 0 THEN taken.send ELSE taken.send + 1
    BY <1>0, <1>7 DEF StopOnEnter, KeysOK
  <2>4. SendFollows'
    <3>1. mode'.mic /\ failures' = 0 => taken.start = taken.send + 1
      BY <1>0, <1>1, <2>2 DEF SendFollows
    <3>2. typed = 0 => taken'.send = taken.send /\ InputOver'
      BY <1>2, <2>3
    <3>3. typed # 0 => taken'.send = taken.send + 1
      BY <2>3
    <3> QED
      BY <1>4, <2>2, <3>1, <3>2, <3>3 DEF SendFollows
  <2> QED
    BY <1>0, <1>1, <1>5, <2>1, <2>3, <2>4 DEF EntersInv, LateIsBehind
<1>8. CASE ~(pc = "record" /\ r = rec)
  <2>1. r \in Behind
    BY <1>1, <1>8 DEF Behind
  <2>2. /\ Cardinality(Behind') = Cardinality(Behind) - 1
        /\ Cardinality(Behind) \in Nat /\ Cardinality(Behind') \in Nat
    <3>1. IsFiniteSet(Behind) /\ Cardinality(Behind) \in Nat
      BY <1>0, BehindFinite
    <3>2. IsFiniteSet(Behind \ {r}) /\ Cardinality(Behind \ {r}) = Cardinality(Behind) - 1
      BY <2>1, <3>1, FS_RemoveElement
    <3>3. Cardinality(Behind \ {r}) \in Nat
      BY <3>2, FS_CardinalityType
    <3> QED
      BY <1>6, <3>1, <3>2, <3>3
  <2>3. taken'.send = taken.send /\ taken'.late <= taken.late + 1 /\ taken'.late \in Nat
    BY <1>0, <1>8 DEF StopOnEnter, KeysOK
  <2>4. LateIsBehind'
    BY <1>0, <1>1, <2>2, <2>3 DEF LateIsBehind, KeysOK
  <2>5. failures # 0
    BY <1>0, <2>2 DEF LateIsBehind, KeysOK
  <2> QED
    BY <1>1, <1>5, <2>4, <2>5 DEF EntersInv, SendFollows
<1> QED
  BY <1>7, <1>8

(* A recording that was sent leaves no thread behind.                       *)
LEMMA EndKeeps ==
  ASSUME EntersInv, RecordingEnds
  PROVE  EntersInv'
<1>1. /\ pc = "record" /\ rec \in stop /\ pc' # "record"
      /\ UNCHANGED <<keyVars, rec, failures, mode>>
  BY DEF RecordingEnds, Stopped
<1>2. KeysOK'
  BY <1>1 DEF EntersInv, KeysOK
<1>3. \A r \in DOMAIN reader : reader[r] = "reading" => r # rec
  BY <1>1 DEF EntersInv, KeysOK
<1>4. Behind' = Behind /\ ~Recording /\ ~Recording' /\ InputOver' = InputOver
  BY <1>1, <1>3 DEF Behind, Recording, InputOver
<1> QED
  BY <1>1, <1>2, <1>4 DEF EntersInv, LateIsBehind, SendFollows

(* One that breaks off leaves one, which is counted.                        *)
LEMMA DeviceKeeps ==
  ASSUME EntersInv, DeviceFails
  PROVE  EntersInv'
<1>0. KeysOK
  BY DEF EntersInv
<1>1. /\ pc = "record" /\ pc' # "record" /\ failures' = failures + 1
      /\ UNCHANGED <<keyVars, rec, mode>>
  BY DEF DeviceFails
<1>2. KeysOK'
  BY <1>0, <1>1 DEF KeysOK
<1>3. Behind' \in SUBSET (Behind \cup {rec})
  BY <1>1 DEF Behind
<1>5. IsFiniteSet(Behind) /\ Cardinality(Behind) \in Nat
  BY <1>0, BehindFinite
<1>6. /\ IsFiniteSet(Behind \cup {rec})
      /\ Cardinality(Behind \cup {rec}) \in {Cardinality(Behind), Cardinality(Behind) + 1}
  BY <1>5, FS_AddElement
<1>7. IsFiniteSet(Behind') /\ Cardinality(Behind') <= Cardinality(Behind \cup {rec})
  BY <1>3, <1>6, FS_Subset
<1>8. Cardinality(Behind') \in Nat
  BY <1>7, FS_CardinalityType
<1>9. LateIsBehind' /\ failures' # 0
  BY <1>0, <1>1, <1>5, <1>6, <1>7, <1>8 DEF EntersInv, LateIsBehind, KeysOK
<1> QED
  BY <1>2, <1>9 DEF EntersInv, SendFollows

LEMMA StepEnters ==
  ASSUME EntersInv, [Next]_vars
  PROVE  EntersInv'
<1>1. CASE Type
  BY <1>1, TypeKeeps
<1>2. CASE EndOfInput \/ ReadBlock \/ Hear
  BY <1>2, Elsewhere DEF EndOfInput, ReadBlock, Hear, Transcribe
<1>3. CASE ReadMessage
  BY <1>3, ReadMessageKeeps
<1>4. CASE BeginRecording \/ DeviceFails \/ RecordingEnds
  BY <1>4, BeginKeeps, DeviceKeeps, EndKeeps
<1>5. CASE Turn
  <2>1. UNCHANGED <<keyVars, rec, failures, mode>> /\ pc # "record" /\ pc' # "record"
    <3>1. CASE Say \/ WholeClip \/ ChunkEnds \/ Play
      BY <3>1 DEF Say, WholeClip, ChunkEnds, Play
    <3>2. CASE TurnEnds
      BY <3>2 DEF TurnEnds, Over
    <3>3. CASE \E n \in 1 .. Bytes : NetworkBlock(n)
      BY <3>3 DEF NetworkBlock
    <3> QED
      BY <1>5, <3>1, <3>2, <3>3 DEF Turn
  <2> QED
    BY <2>1, Elsewhere
<1>6. CASE \E r \in DOMAIN reader : StopOnEnter(r)
  BY <1>6, StopKeeps
<1>7. CASE UNCHANGED vars
  BY <1>7, Elsewhere DEF vars
<1> QED
  BY <1>1, <1>2, <1>3, <1>4, <1>5, <1>6, <1>7 DEF Next, Main, Ear, Listener

LEMMA InitEnters == Init => EntersInv
<1> SUFFICES ASSUME Init PROVE EntersInv
  OBVIOUS
<1>1. KeysOK
  BY TypingAssumption DEF Init, KeysOK
<1>2. Behind = {}
  BY DEF Init, Behind
<1>3. LateIsBehind
  BY <1>2, FS_EmptySet DEF Init, LateIsBehind
<1>4. SendFollows
  BY DEF Init, SendFollows, Recording
<1> QED
  BY <1>1, <1>3, <1>4 DEF EntersInv

(* The threads that read the keyboard are accounted for.                    *)
THEOREM EntersInvariant == Spec => []EntersInv
<1>1. EntersInv /\ [Next]_vars => EntersInv'
  BY StepEnters
<1> QED
  BY <1>1, InitEnters, PTL DEF Spec

(* Enter starts a recording and the next one sends it; one goes to neither  *)
(* for each recording that a device broke off, at most.                     *)
THEOREM NoEnterAstray == Spec => []EntersAccounted
<1>1. EntersInv => EntersAccounted
  <2> SUFFICES ASSUME EntersInv PROVE EntersAccounted
    OBVIOUS
  <2>1. KeysOK /\ Cardinality(Behind) \in Nat
    BY BehindFinite DEF EntersInv
  <2>2. taken.late <= failures
    BY <2>1 DEF EntersInv, LateIsBehind, KeysOK
  <2>3. mode.mic /\ failures = 0 => taken.start - taken.send \in {0, 1}
    BY <2>1 DEF EntersInv, SendFollows, KeysOK
  <2> QED
    BY <2>2, <2>3 DEF EntersAccounted
<1> QED
  BY <1>1, EntersInvariant, PTL

(***************************** The transcript ******************************)

Exchange == [role : {"user", "assistant"}, turn : Nat]

(* The last n of a sequence: the same ones, moved to the front.             *)
LEMMA LastNFacts ==
  ASSUME NEW S, NEW s \in Seq(S), NEW n \in Nat
  PROVE  /\ LastN(s, n) \in Seq(S)
         /\ Len(s) \in Nat /\ Len(LastN(s, n)) \in Nat /\ Len(LastN(s, n)) <= Len(s)
         /\ \A i \in 1 .. Len(LastN(s, n)) :
              /\ i + (Len(s) - Len(LastN(s, n))) \in 1 .. Len(s)
              /\ LastN(s, n)[i] = s[i + (Len(s) - Len(LastN(s, n)))]
<1> DEFINE l == Len(s)
           m == l - n + 1
<1>1. l \in Nat /\ DOMAIN s = 1 .. l /\ \A i \in 1 .. l : s[i] \in S
  OBVIOUS
<1>2. CASE l <= n
  BY <1>1, <1>2 DEF LastN
<1>3. CASE ~(l <= n)
  <2>1. m \in Int /\ m \in 1 .. l + 1 /\ l - m + 1 = n
    BY <1>1, <1>3
  <2>2. \A i \in m .. l : s[i] \in S
    BY <1>1, <2>1
  <2>3. LastN(s, n) = SubSeq(s, m, l)
    BY <1>3 DEF LastN
  <2> HIDE DEF m, l
  <2>4. /\ SubSeq(s, m, l) \in Seq(S)
        /\ Len(SubSeq(s, m, l)) = IF m <= l THEN l - m + 1 ELSE 0
        /\ \A i \in 1 .. l - m + 1 : SubSeq(s, m, l)[i] = s[m + i - 1]
    <3>1. l \in Int
      BY <1>1
    <3> QED
      BY <2>1, <2>2, <3>1, SubSeqProperties
  <2>5. Len(LastN(s, n)) = n
    BY <1>1, <2>1, <2>3, <2>4
  <2>6. \A i \in 1 .. n : LastN(s, n)[i] = s[i + (l - n)] /\ i + (l - n) \in 1 .. l
    <3> SUFFICES ASSUME NEW i \in 1 .. n
                 PROVE  LastN(s, n)[i] = s[i + (l - n)] /\ i + (l - n) \in 1 .. l
      OBVIOUS
    <3>1. m + i - 1 = i + (l - n) /\ i + (l - n) \in 1 .. l /\ i \in 1 .. l - m + 1
      BY <1>1, <1>3, <2>1 DEF m
    <3> QED
      BY <2>3, <2>4, <3>1
  <2>7. n <= l
    BY <1>1, <1>3
  <2>8. LastN(s, n) \in Seq(S)
    BY <2>3, <2>4
  <2> HIDE DEF LastN
  <2> QED
    BY <1>1, <2>5, <2>6, <2>7, <2>8 DEF l
<1> QED
  BY <1>2, <1>3

(* Open: every question but the last message is answered.                   *)
Open(s) == \A i \in DOMAIN s : s[i].role = "user" => Answered(s, i) \/ i = Len(s)
Closed(s) == \A i \in DOMAIN s : s[i].role = "user" => Answered(s, i)

LEMMA LastNOpen ==
  ASSUME NEW s \in Seq(Exchange), NEW n \in Nat
  PROVE  /\ Open(s) => Open(LastN(s, n))
         /\ Closed(s) => Closed(LastN(s, n))
         /\ LastN(s, n) # <<>> => LastN(s, n)[Len(LastN(s, n))] = s[Len(s)]
<1> DEFINE t == LastN(s, n)
           d == Len(s) - Len(t)
<1>1. /\ t \in Seq(Exchange) /\ Len(s) \in Nat /\ Len(t) \in Nat /\ d \in Nat
      /\ \A i \in 1 .. Len(t) : i + d \in 1 .. Len(s) /\ t[i] = s[i + d]
  <2>1. /\ t \in Seq(Exchange) /\ Len(s) \in Nat /\ Len(t) \in Nat /\ Len(t) <= Len(s)
        /\ \A i \in 1 .. Len(t) : i + d \in 1 .. Len(s) /\ t[i] = s[i + d]
    BY LastNFacts
  <2> HIDE DEF t
  <2>2. d \in Nat
    BY <2>1
  <2> QED
    BY <2>1, <2>2
<1> HIDE DEF t
<1>2. Len(t) + d = Len(s)
  BY <1>1
<1>3. DOMAIN t = 1 .. Len(t) /\ DOMAIN s = 1 .. Len(s)
  BY <1>1
<1>4. \A i \in DOMAIN t : Answered(s, i + d) => Answered(t, i)
  <2> SUFFICES ASSUME NEW i \in DOMAIN t, Answered(s, i + d) PROVE Answered(t, i)
    OBVIOUS
  <2>1. i + d < Len(s) /\ s[(i + d) + 1] = [role |-> "assistant", turn |-> s[i + d].turn]
    BY DEF Answered
  <2>2. i < Len(t) /\ i + 1 \in 1 .. Len(t) /\ (i + d) + 1 = (i + 1) + d
    BY <1>1, <1>2, <1>3, <2>1
  <2>3. t[i + 1] = s[(i + d) + 1] /\ t[i] = s[i + d]
    BY <1>1, <1>3, <2>2
  <2> QED
    BY <2>1, <2>2, <2>3 DEF Answered
<1> HIDE DEF d
<1>5. \A i \in DOMAIN t : i + d \in DOMAIN s /\ t[i] = s[i + d] /\ (i + d = Len(s) => i = Len(t))
  BY <1>1, <1>2, <1>3
<1>6. Open(s) => Open(t)
  BY <1>4, <1>5 DEF Open
<1>7. Closed(s) => Closed(t)
  BY <1>4, <1>5 DEF Closed
<1>8. t # <<>> => t[Len(t)] = s[Len(s)]
  <2> SUFFICES ASSUME t # <<>> PROVE t[Len(t)] = s[Len(s)]
    OBVIOUS
  <2>1. Len(t) \in 1 .. Len(t)
    BY <1>1
  <2> QED
    BY <1>1, <1>2, <2>1
<1> QED
  BY <1>6, <1>7, <1>8 DEF t

(* One message more, of a store that may just have been forgotten.          *)
LEMMA WrittenFacts ==
  ASSUME NEW kept \in Seq(Exchange), NEW m \in Exchange
  PROVE  /\ Append(kept, m) \in Seq(Exchange) /\ Append(kept, m)[Len(Append(kept, m))] = m
         /\ Closed(kept) => Open(Append(kept, m))
         /\ Closed(kept) /\ m.role # "user" => Closed(Append(kept, m))
         /\ Open(kept) /\ m.role = "assistant"
            /\ (kept # <<>> => kept[Len(kept)] = [role |-> "user", turn |-> m.turn])
            => Closed(Append(kept, m))
<1> DEFINE s == Append(kept, m)
           n == Len(kept)
<1>1. /\ n \in Nat /\ s \in Seq(Exchange) /\ Len(s) = n + 1 /\ DOMAIN s = 1 .. n + 1
      /\ s[n + 1] = m /\ \A i \in 1 .. n : s[i] = kept[i]
      /\ DOMAIN kept = 1 .. n
  BY Appended
<1> HIDE DEF s
<1>2. \A i \in DOMAIN kept : Answered(kept, i) => Answered(s, i)
  <2> SUFFICES ASSUME NEW i \in 1 .. n, Answered(kept, i) PROVE Answered(s, i)
    BY <1>1
  <2>1. i < n /\ kept[i + 1] = [role |-> "assistant", turn |-> kept[i].turn] /\ i + 1 \in 1 .. n
    BY <1>1 DEF Answered
  <2> QED
    BY <1>1, <2>1 DEF Answered
<1>3. \A i \in DOMAIN s : i = n + 1 \/ (i \in DOMAIN kept /\ s[i] = kept[i])
  BY <1>1
<1> HIDE DEF n
<1>4. Closed(kept) => Open(s)
  BY <1>1, <1>2, <1>3 DEF Open, Closed
<1>5. Closed(kept) /\ m.role # "user" => Closed(s)
  BY <1>1, <1>2, <1>3 DEF Closed
<1>6. ASSUME Open(kept), m.role = "assistant",
             kept # <<>> => kept[Len(kept)] = [role |-> "user", turn |-> m.turn]
      PROVE  Closed(s)
  <2> SUFFICES ASSUME NEW i \in DOMAIN s, s[i].role = "user" PROVE Answered(s, i)
    BY DEF Closed
  <2>1. i \in DOMAIN kept /\ s[i] = kept[i]
    BY <1>1, <1>3, <1>6
  <2>2. CASE i = n
    <3>1. kept # <<>> /\ kept[n] = [role |-> "user", turn |-> m.turn] /\ n < n + 1
      BY <1>1, <1>6, <2>1, <2>2 DEF n
    <3>2. kept[n].turn = m.turn
      BY <3>1
    <3>3. m = [role |-> "assistant", turn |-> m.turn]
      BY <1>6 DEF Exchange
    <3> QED
      BY <1>1, <2>1, <2>2, <3>1, <3>2, <3>3 DEF Answered
  <2>3. CASE i # n
    BY <1>2, <1>6, <2>1, <2>3 DEF Open, n
  <2> QED
    BY <2>2, <2>3
<1> QED
  BY <1>1, <1>4, <1>5, <1>6 DEF s

LEMMA StoreParts ==
  StoreInv <=>
    /\ asked \in Nat /\ store \in Seq(Exchange)
    /\ IF pc = "turn" THEN Open(store) ELSE Closed(store)
    /\ pc = "turn" /\ store # <<>> => store[Len(store)] = [role |-> "user", turn |-> asked]
  BY DEF StoreInv, Exchange, Open, Closed

LEMMA SayKeepsStore ==
  ASSUME StoreInv, Say
  PROVE  StoreInv'
<1>1. /\ asked \in Nat /\ store \in Seq(Exchange) /\ Closed(store)
      /\ asked' = asked + 1 /\ pc' = "turn"
  BY StoreParts DEF Say
<1> DEFINE m == [role |-> "user", turn |-> asked']
<1>2. m \in Exchange
  BY <1>1 DEF Exchange
<1>3. PICK kept \in {store, <<>>} : store' = LastN(Append(kept, m), Keep)
  BY DEF Say, Written
<1> HIDE DEF m
<1>4. kept \in Seq(Exchange) /\ Closed(kept)
  <2>1. <<>> \in Seq(Exchange) /\ Closed(<<>>)
    BY DEF Closed
  <2>2. CASE kept = store
    BY <1>1, <2>2
  <2>3. CASE kept = <<>>
    BY <2>1, <2>3
  <2> QED
    BY <1>3, <2>2, <2>3
<1>5. /\ Append(kept, m) \in Seq(Exchange) /\ Open(Append(kept, m))
      /\ Append(kept, m)[Len(Append(kept, m))] = m
  BY <1>2, <1>4, WrittenFacts
<1>6. store' \in Seq(Exchange) /\ Open(store') /\ (store' # <<>> => store'[Len(store')] = m)
  BY <1>3, <1>5, LastNOpen, LastNFacts, StoreAssumption
<1>7. Open(store)'
  BY <1>6 DEF Open, Answered
<1> QED
  BY <1>1, <1>6, <1>7 DEF StoreInv, Open, Exchange, m

LEMMA EndKeepsStore ==
  ASSUME StoreInv, TurnEnds
  PROVE  StoreInv'
<1>1. /\ asked \in Nat /\ store \in Seq(Exchange) /\ Open(store)
      /\ store # <<>> => store[Len(store)] = [role |-> "user", turn |-> asked]
      /\ asked' = asked /\ pc' # "turn"
  BY StoreParts DEF TurnEnds, Over
<1> DEFINE m == [role |-> "assistant", turn |-> asked']
<1>2. m \in Exchange /\ m.role = "assistant" /\ m.turn = asked
  BY <1>1 DEF Exchange
<1>3. PICK kept \in {store, <<>>} : store' = LastN(Append(kept, m), Keep)
  BY DEF TurnEnds, Written
<1> HIDE DEF m
<1>4. /\ kept \in Seq(Exchange) /\ Open(kept)
      /\ kept # <<>> => kept[Len(kept)] = [role |-> "user", turn |-> m.turn]
  <2>1. <<>> \in Seq(Exchange) /\ Open(<<>>)
    BY DEF Open
  <2>2. CASE kept = store
    BY <1>1, <1>2, <2>2
  <2>3. CASE kept = <<>>
    BY <2>1, <2>3
  <2> QED
    BY <1>3, <2>2, <2>3
<1>5. Append(kept, m) \in Seq(Exchange) /\ Closed(Append(kept, m))
  BY <1>2, <1>4, WrittenFacts
<1>6. store' \in Seq(Exchange) /\ Closed(store')
  BY <1>3, <1>5, LastNOpen, LastNFacts, StoreAssumption
<1> QED
  BY <1>1, <1>6 DEF StoreInv, Closed, Exchange, Answered

LEMMA StepStore ==
  ASSUME StoreInv, [Next]_vars
  PROVE  StoreInv'
<1>1. CASE Say
  BY <1>1, SayKeepsStore
<1>2. CASE TurnEnds
  BY <1>2, EndKeepsStore
<1>3. ASSUME UNCHANGED <<store, asked>>, pc' = pc \/ (pc # "turn" /\ pc' # "turn")
      PROVE  StoreInv'
  BY <1>3 DEF StoreInv, Answered
<1>4. CASE WholeClip \/ ChunkEnds \/ Play \/ \E n \in 1 .. Bytes : NetworkBlock(n)
  BY <1>3, <1>4 DEF WholeClip, ChunkEnds, Play, NetworkBlock
<1>5. CASE Type \/ EndOfInput \/ ReadMessage \/ \E r \in DOMAIN reader : StopOnEnter(r)
  BY <1>3, <1>5 DEF Type, EndOfInput, ReadMessage, StopOnEnter
<1>6. CASE Ear
  BY <1>3, <1>6 DEF Ear, Listener, BeginRecording, ReadBlock, DeviceFails, RecordingEnds, Hear, Transcribe
<1>7. CASE UNCHANGED vars
  BY <1>3, <1>7 DEF vars
<1> QED
  BY <1>1, <1>2, <1>4, <1>5, <1>6, <1>7 DEF Next, Main, Turn

LEMMA InitStore == Init => StoreInv
  BY DEF Init, StoreInv

LEMMA HistoryFollows == StoreInv => HistoryAlternates
<1> SUFFICES ASSUME StoreInv, pc = "turn",
                    NEW i \in DOMAIN History
             PROVE  IF i = Len(History) THEN History[i].role = "assistant"
                    ELSE History[i].role = "user" =>
                           History[i + 1] = [role |-> "assistant", turn |-> History[i].turn]
  BY DEF HistoryAlternates
<1> DEFINE t == LastN(store, Window)
           n == Len(t)
<1>1. /\ store \in Seq(Exchange) /\ Open(store)
      /\ store # <<>> => store[Len(store)] = [role |-> "user", turn |-> asked]
  BY StoreParts
<1>2. /\ t \in Seq(Exchange) /\ Open(t) /\ n \in Nat
      /\ t # <<>> => t[n] = store[Len(store)]
  BY <1>1, LastNOpen, LastNFacts, StoreAssumption
<1>3. t # <<>> => store # <<>>
  <2>1. Len(t) <= Len(store) /\ Len(store) \in Nat
    BY <1>1, LastNFacts, StoreAssumption
  <2> QED
    BY <1>1, <1>2, <2>1
<1>4. History = SubSeq(t, 1, n - 1)
  BY DEF History, Front
<1> HIDE DEF t, History
<1>5. /\ n \in Nat \ {0} /\ DOMAIN History = 1 .. n - 1 /\ Len(History) = n - 1
      /\ \A j \in 1 .. n - 1 : History[j] = t[j]
  <2>1. n # 0
    <3>1. n = 0 => History = <<>>
      BY <1>2, <1>4, SubSeqEmpty
    <3>2. History # <<>>
      OBVIOUS
    <3> QED
      BY <3>1, <3>2
  <2>2. DOMAIN t = 1 .. n /\ \A j \in 1 .. n : t[j] \in Exchange
    BY <1>2
  <2>3. \A j \in 1 .. n - 1 : t[j] \in Exchange
    BY <1>2, <2>2
  <2> HIDE DEF n
  <2>4. /\ SubSeq(t, 1, n - 1) \in Seq(Exchange)
        /\ Len(SubSeq(t, 1, n - 1)) = IF 1 <= n - 1 THEN (n - 1) - 1 + 1 ELSE 0
        /\ \A j \in 1 .. (n - 1) - 1 + 1 : SubSeq(t, 1, n - 1)[j] = t[1 + j - 1]
    <3>1. n - 1 \in Int /\ 1 \in Int
      BY <1>2
    <3> QED
      BY <2>3, <3>1, SubSeqProperties
  <2> QED
    BY <1>2, <1>4, <2>1, <2>4
<1>6. i \in 1 .. n - 1 /\ i \in DOMAIN t /\ i # n
  BY <1>2, <1>5
<1>7. t[i].role = "user" => t[i + 1] = [role |-> "assistant", turn |-> t[i].turn]
  BY <1>2, <1>6 DEF Open, Answered
<1>8. t[i] \in Exchange /\ t[i].role \in {"user", "assistant"}
  <2>1. t[i] \in Exchange
    BY <1>2, <1>6
  <2> QED
    BY <2>1 DEF Exchange
<1>9. CASE i = n - 1
  <2>1. t[i + 1].role = "user"
    BY <1>1, <1>2, <1>3, <1>5, <1>9
  <2> QED
    BY <1>5, <1>6, <1>7, <1>8, <1>9, <2>1
<1>10. CASE i # n - 1
  <2>1. i + 1 \in 1 .. n - 1
    BY <1>5, <1>6, <1>10
  <2> QED
    BY <1>5, <1>6, <1>7, <1>10, <2>1
<1> QED
  BY <1>9, <1>10

(* What the model is given is an exchange.                                  *)
THEOREM AnExchange == Spec => []HistoryAlternates
<1>1. StoreInv /\ [Next]_vars => StoreInv'
  BY StepStore
<1> QED
  BY <1>1, InitStore, HistoryFollows, PTL DEF Spec

(******************************** The sound ********************************)

(* The first number from e on that is not in P.                             *)
Beyond(m, P) ==
  CHOOSE next : next = [i \in 0 .. m + 1 |-> IF i \in P THEN next[i + 1] ELSE i]

LEMMA BeyondIn ==
  ASSUME NEW m \in Nat, NEW P \in SUBSET (0 .. m), NEW e \in 0 .. m + 1
  PROVE  Beyond(m, P)[e] \in 0 .. m + 1
<1> DEFINE D == 0 .. m + 1
           Eq(f) == f = [i \in D |-> IF i \in P THEN f[i + 1] ELSE i]
           step == [j \in 1 .. m + 1 |-> [k \in D |-> IF m + 1 - j \in P THEN k ELSE m + 1 - j]]
<1>1. step \in [1 .. m + 1 -> [D -> D]]
  <2>1. \A j \in 1 .. m + 1 : m + 1 - j \in D
    OBVIOUS
  <2> HIDE DEF D
  <2> QED
    BY <2>1
<1>2. \A j \in 1 .. m + 1, k \in D : step[j][k] = IF m + 1 - j \in P THEN k ELSE m + 1 - j
  OBVIOUS
<1>3. m + 1 \in Nat /\ m + 1 \in D
  OBVIOUS
<1> HIDE DEF step
<1>4. PICK f \in [0 .. m + 1 -> D] :
        f[0] = m + 1 /\ \A j \in 1 .. m + 1 : f[j] = step[j][f[j - 1]]
  <2> DEFINE base == m + 1
             n == m + 1
  <2> HIDE DEF base, n, D
  <2>1. \E f \in [0 .. n -> D] : f[0] = base /\ \A j \in 1 .. n : f[j] = step[j][f[j - 1]]
    BY <1>1, <1>3, Recursion DEF base, n
  <2> QED
    BY <2>1 DEF base, n
<1> DEFINE g == [i \in D |-> f[m + 1 - i]]
<1>5. g = [i \in D |-> IF i \in P THEN g[i + 1] ELSE i]
  <2> SUFFICES ASSUME NEW i \in D
               PROVE  f[m + 1 - i] = IF i \in P THEN g[i + 1] ELSE i
    OBVIOUS
  <2>1. CASE i = m + 1
    BY <1>4, <2>1
  <2>2. CASE i # m + 1
    <3> DEFINE j == m + 1 - i
    <3>1. j \in 1 .. m + 1 /\ j - 1 \in 0 .. m + 1 /\ m + 1 - j = i /\ i + 1 \in D /\ m + 1 - (i + 1) = j - 1
      BY <2>2
    <3> HIDE DEF j
    <3>2. f[j] = step[j][f[j - 1]] /\ f[j - 1] \in D
      BY <1>4, <3>1
    <3>3. f[j] = IF i \in P THEN f[j - 1] ELSE i
      BY <1>2, <3>1, <3>2
    <3>4. g[i + 1] = f[j - 1]
      BY <3>1
    <3> QED
      BY <3>3, <3>4 DEF j
  <2> QED
    BY <2>1, <2>2
<1>6. Eq(g)
  BY <1>5 DEF Eq
<1> HIDE DEF g
<1>7. Eq(Beyond(m, P))
  <2>1. \E k : Eq(k)
    BY <1>6
  <2>2. Eq(CHOOSE k : Eq(k))
    BY <2>1
  <2> QED
    BY <2>2 DEF Eq, Beyond
<1> DEFINE K == Beyond(m, P)
<1>8. \A i \in D : K[i] = IF i \in P THEN K[i + 1] ELSE i
  BY <1>7 DEF Eq
<1> HIDE DEF K, Eq
<1> DEFINE U == {j \in 0 .. m + 1 : K[m + 1 - j] \in D}
<1>9. 0 \in U
  <2>1. m + 1 - 0 = m + 1 /\ m + 1 \notin P
    OBVIOUS
  <2> QED
    BY <1>8, <2>1
<1>10. \A j \in 1 .. m + 1 : j - 1 \in U => j \in U
  <2> SUFFICES ASSUME NEW j \in 1 .. m + 1, j - 1 \in U PROVE K[m + 1 - j] \in D
    OBVIOUS
  <2> DEFINE i == m + 1 - j
  <2>1. i \in D /\ m + 1 - (j - 1) = i + 1
    OBVIOUS
  <2>2. K[i + 1] \in D
    BY <2>1
  <2> HIDE DEF i
  <2>3. K[i] \in D
    BY <1>8, <2>1, <2>2
  <2> QED
    BY <2>3 DEF i
<1>11. 0 .. m + 1 \subseteq U
  <2> DEFINE n == m + 1
  <2> HIDE DEF U, n
  <2>1. 0 .. n \subseteq U
    BY <1>3, <1>9, <1>10, InductionUpTo DEF n
  <2> QED
    BY <2>1 DEF n
<1>12. m + 1 - e \in 0 .. m + 1 /\ m + 1 - (m + 1 - e) = e
  OBVIOUS
<1> QED
  BY <1>11, <1>12 DEF K, D


Sample == Nat \X Nat
Sound == {s \in Seq(Sample) : Whole(s)}

LEMMA Parity ==
  /\ \A n \in Nat : n % 2 \in {0, 1}
  /\ \A m, n \in Nat : (m + n) % 2 = IF m % 2 = n % 2 THEN 0 ELSE 1
<1>1. ASSUME NEW m \in Nat, NEW n \in Nat
      PROVE  (m + n) % 2 = IF m % 2 = n % 2 THEN 0 ELSE 1
  OBVIOUS
<1> QED
  BY <1>1

LEMMA WholeConcat ==
  /\ <<>> \in Sound
  /\ \A s \in Sound, t \in Sound : s \o t \in Sound
<1>1. <<>> \in Sound
  BY DEF Sound, Whole
<1>2. ASSUME NEW s \in Sound, NEW t \in Sound
      PROVE  s \o t \in Sound
  <2> DEFINE m == Len(s)
             n == Len(t)
             c == s \o t
  <2>1. /\ s \in Seq(Sample) /\ t \in Seq(Sample) /\ m \in Nat /\ n \in Nat
        /\ DOMAIN s = 1 .. m /\ DOMAIN t = 1 .. n
    BY DEF Sound
  <2>2. /\ c \in Seq(Sample) /\ Len(c) = m + n /\ DOMAIN c = 1 .. m + n
        /\ \A i \in 1 .. m + n : c[i] = IF i <= m THEN s[i] ELSE t[i - m]
    BY <2>1, ConcatProperties, LenProperties
  <2>3. /\ m % 2 = 0 /\ n % 2 = 0
        /\ \A i \in 1 .. m : i % 2 = 1 => s[i][2] % 2 = 1 /\ s[i + 1] = <<s[i][1], s[i][2] + 1>>
        /\ \A i \in 1 .. n : i % 2 = 1 => t[i][2] % 2 = 1 /\ t[i + 1] = <<t[i][1], t[i][2] + 1>>
    BY <2>1 DEF Sound, Whole
  <2> HIDE DEF m, n, c
  <2>4. (m + n) % 2 = 0 /\ m % 2 = 0
    BY <2>1, <2>3, Parity
  <2>5. ASSUME NEW i \in 1 .. m + n, i % 2 = 1
        PROVE  c[i][2] % 2 = 1 /\ c[i + 1] = <<c[i][1], c[i][2] + 1>>
    <3>1. i + 1 \in 1 .. m + n
      BY <2>1, <2>4, <2>5
    <3>2. CASE i <= m
      <4>1. i + 1 <= m
        BY <2>1, <2>4, <2>5, <3>2
      <4>2. i \in 1 .. m /\ c[i] = s[i] /\ c[i + 1] = s[i + 1]
        BY <2>1, <2>2, <3>1, <3>2, <4>1
      <4> QED
        BY <2>3, <2>5, <4>2
    <3>3. CASE ~(i <= m)
      <4>1. /\ i - m \in 1 .. n /\ i - m \in Nat /\ i = m + (i - m)
            /\ (i + 1) - m = (i - m) + 1 /\ ~(i + 1 <= m)
        BY <2>1, <3>3
      <4>0. (i - m) % 2 = 1
        BY <2>1, <2>4, <2>5, <4>1, Parity
      <4>2. c[i] = t[i - m] /\ c[i + 1] = t[(i - m) + 1]
        BY <2>1, <2>2, <3>1, <3>3, <4>1
      <4> QED
        BY <2>3, <4>0, <4>1, <4>2
    <3> QED
      BY <3>2, <3>3
  <2>6. Whole(c)
    BY <2>2, <2>4, <2>5 DEF Whole
  <2> QED
    BY <2>2, <2>6 DEF Sound, c
<1> QED
  BY <1>1, <1>2

(* A block of one chunk's bytes that begins at a sample: what is handed on  *)
(* is whole, and what is kept back is its last byte or nothing.             *)
LEMMA EvenOdd ==
  ASSUME NEW c \in Nat, NEW a \in Nat, a % 2 = 0, NEW n \in Nat,
         NEW b \in Seq(Sample), Len(b) = n, \A i \in 1 .. n : b[i] = <<c, a + i>>
  PROVE  /\ Even(b) \in Sound
         /\ Odd(b) = IF (a + n) % 2 = 1 THEN << <<c, a + n>> >> ELSE <<>>
<1> DEFINE h == 2 * (n \div 2)
<1>1. h \in 0 .. n /\ h % 2 = 0 /\ (n = h \/ n = h + 1)
  OBVIOUS
<1>2. Even(b) = SubSeq(b, 1, h) /\ Odd(b) = SubSeq(b, h + 1, n)
  BY DEF Even, Odd
<1> HIDE DEF h
<1>3. \A i \in 1 .. n : b[i] \in Sample
  OBVIOUS
<1>4. Even(b) \in Sound
  <2> DEFINE e == SubSeq(b, 1, h)
  <2>1. h \in Int /\ 1 \in Int /\ \A i \in 1 .. h : b[i] \in Sample
    BY <1>1, <1>3
  <2>2. /\ e \in Seq(Sample) /\ Len(e) = (IF 1 <= h THEN h - 1 + 1 ELSE 0)
        /\ \A i \in 1 .. h - 1 + 1 : e[i] = b[1 + i - 1]
    BY <2>1, SubSeqProperties
  <2> HIDE DEF e
  <2>3. Len(e) = h /\ DOMAIN e = 1 .. h /\ \A i \in 1 .. h : e[i] = <<c, a + i>>
    BY <1>1, <2>2
  <2>4. ASSUME NEW i \in 1 .. h, i % 2 = 1
        PROVE  e[i][2] % 2 = 1 /\ e[i + 1] = <<e[i][1], e[i][2] + 1>>
    <3>0. i \in Nat /\ (a + i) % 2 = 1
      BY <2>4, Parity
    <3>1. i + 1 \in 1 .. h /\ (a + i) % 2 = 1 /\ a + (i + 1) = (a + i) + 1
      BY <1>1, <2>4, <3>0
    <3>2. e[i] = <<c, a + i>> /\ e[i + 1] = <<c, (a + i) + 1>>
      BY <2>3, <3>1
    <3> QED
      BY <3>1, <3>2
  <2>5. Whole(e)
    BY <1>1, <2>3, <2>4 DEF Whole
  <2> QED
    BY <1>2, <2>2, <2>5 DEF Sound, e
<1>5. CASE n = h
  <2>1. Odd(b) = <<>>
    BY <1>1, <1>2, <1>5, SubSeqEmpty
  <2>2. (a + n) % 2 = 0
    BY <1>1, <1>5, Parity
  <2> QED
    BY <1>4, <2>1, <2>2
<1>6. CASE n = h + 1
  <2>0. n \in 1 .. n /\ n % 2 = 1
    <3>1. h \in Nat /\ n \in 1 .. n /\ 1 % 2 = 1 /\ 1 \in Nat
      BY <1>1, <1>6
    <3>2. h % 2 = 0
      BY <1>1
    <3>3. (h + 1) % 2 = 1
      BY ONLY <3>1, <3>2, Parity
    <3> QED
      BY <1>6, <3>1, <3>3
  <2>1. n \in 1 .. n /\ (a + n) % 2 = 1
    BY <2>0, Parity
  <2>2. Odd(b) = SubSeq(b, n, n)
    BY <1>2, <1>6
  <2>3. SubSeq(b, n, n) = SubSeq(b, n, n - 1) \o <<b[n]>>
    BY <2>0, SubSeqRecursiveSecond
  <2>4. SubSeq(b, n, n - 1) = <<>>
    BY SubSeqEmpty
  <2>5. <<>> \o <<b[n]>> = <<b[n]>>
    OBVIOUS
  <2>6. Odd(b) = << <<c, a + n>> >>
    BY <2>0, <2>2, <2>3, <2>4, <2>5
  <2> QED
    BY <1>4, <2>1, <2>6
<1> QED
  BY <1>1, <1>5, <1>6

LEMMA BodyFacts ==
  ASSUME NEW c \in Nat, NEW from \in Nat, NEW to \in Nat, from <= to + 1, chunk = c
  PROVE  /\ Body(from, to) \in Seq(Sample) /\ Len(Body(from, to)) = to - from + 1
         /\ \A i \in 1 .. to - from + 1 : Body(from, to)[i] = <<c, from + i - 1>>
<1>1. to - from + 1 \in Nat /\ \A i \in 1 .. to - from + 1 : <<c, from + i - 1>> \in Sample
  BY DEF Sample
<1> DEFINE n == to - from + 1
           e == [i \in 1 .. n |-> <<c, from + i - 1>>]
<1>2. Body(from, to) = e
  BY DEF Body
<1>3. e \in [1 .. n -> Sample]
  BY <1>1
<1> HIDE DEF n
<1>4. e \in Seq(Sample) /\ Len(e) = n
  BY <1>1, <1>3 DEF n
<1> QED
  BY <1>2, <1>4 DEF n

(* What the collector makes of a piece: what was whole before stays so.     *)
LEMMA AddFacts ==
  ASSUME SoundInv, chunk < MaxChunks, NEW data \in Sound
  PROVE  /\ Add(chunk, data).expected \in 0 .. MaxChunks + 1
         /\ DOMAIN Add(chunk, data).pending \subseteq 0 .. MaxChunks
         /\ \A i \in DOMAIN Add(chunk, data).pending : Add(chunk, data).pending[i] \in Sound
         /\ Add(chunk, data).pcm \in Sound
<1> DEFINE pending == [i \in DOMAIN clip.pending \cup {chunk} |->
                         IF i = chunk THEN data ELSE clip.pending[i]]
           upto == Beyond(MaxChunks, DOMAIN pending)[clip.expected]
           piece(i) == IF i - 1 \in DOMAIN pending THEN pending[i - 1] ELSE <<>>
           all == [i \in 1 .. upto |-> piece(i)]
           new == SubSeq(all, clip.expected + 1, upto)
<1>1. /\ chunk \in 0 .. MaxChunks /\ clip.expected \in 0 .. MaxChunks + 1
      /\ DOMAIN clip.pending \subseteq 0 .. MaxChunks
      /\ \A i \in DOMAIN clip.pending : clip.pending[i] \in Sound
      /\ clip.pcm \in Sound
  BY DEF SoundInv, Sound, Sample
<1>2. /\ Add(chunk, data).pending = [i \in DOMAIN pending \ (clip.expected .. upto - 1) |-> pending[i]]
      /\ Add(chunk, data).expected = upto
      /\ Add(chunk, data).pcm = clip.pcm \o FlattenSeq(new)
  BY DEF Add, Beyond
<1>3. /\ DOMAIN pending \subseteq 0 .. MaxChunks
      /\ \A i \in DOMAIN pending : pending[i] \in Sound
  BY <1>1
<1> HIDE DEF pending
<1>4. upto \in 0 .. MaxChunks + 1
  BY <1>1, <1>3, BeyondIn, SoundAssumption
<1> HIDE DEF upto
<1>5. new \in Seq(Sound)
  <2>1. \A i \in 1 .. upto : piece(i) \in Sound
    BY <1>3, WholeConcat
  <2> HIDE DEF piece
  <2>2. \A i \in clip.expected + 1 .. upto : all[i] \in Sound
    BY <1>1, <1>4, <2>1
  <2> HIDE DEF all
  <2>3. clip.expected + 1 \in Int /\ upto \in Int
    BY <1>1, <1>4
  <2> QED
    BY <2>2, <2>3, SubSeqProperties
<1> HIDE DEF new
<1>6. FlattenSeq(new) \in Sound
  BY <1>5, WholeConcat, FlattenIn
<1>7. clip.pcm \o FlattenSeq(new) \in Sound
  BY <1>1, <1>6, WholeConcat
<1> HIDE DEF Add
<1> QED
  BY <1>2, <1>3, <1>4, <1>7

LEMMA SoundParts ==
  SoundInv <=>
    /\ chunk \in 0 .. MaxChunks /\ arrived \in Nat
    /\ carry = IF mode.streams /\ arrived % 2 = 1 THEN << <<chunk, arrived>> >> ELSE <<>>
    /\ clip.expected \in 0 .. MaxChunks + 1 /\ DOMAIN clip.pending \subseteq 0 .. MaxChunks
    /\ \A i \in DOMAIN clip.pending : clip.pending[i] \in Sound
    /\ clip.pcm \in Sound
  BY DEF SoundInv, Sound, Sample

(* A piece is handed on, or there is none.                                  *)
LEMMA HandKeeps ==
  ASSUME SoundInv, chunk < MaxChunks, NEW data \in Sound, NEW readable \in BOOLEAN,
         Hand(data, readable)
  PROVE  /\ clip'.expected \in 0 .. MaxChunks + 1 /\ DOMAIN clip'.pending \subseteq 0 .. MaxChunks
         /\ \A i \in DOMAIN clip'.pending : clip'.pending[i] \in Sound
         /\ clip'.pcm \in Sound
<1>1. CASE UNCHANGED clip
  BY <1>1, SoundParts
<1>2. CASE clip' = Add(chunk, ReadWav(data, readable))
  <2>1. ReadWav(data, readable) \in Sound
    BY WholeConcat DEF ReadWav
  <2> QED
    BY <1>2, <2>1, AddFacts
<1> QED
  BY <1>1, <1>2 DEF Hand

LEMMA BlockKeepsSound ==
  ASSUME SoundInv, NEW n \in 1 .. Bytes, NetworkBlock(n)
  PROVE  SoundInv'
<1> DEFINE block == carry \o Body(arrived + 1, arrived + n)
<1>1. /\ mode.streams /\ chunk < MaxChunks /\ arrived' = arrived + n
      /\ Hand(Even(block), TRUE) /\ carry' = Odd(block) /\ UNCHANGED <<mode, chunk>>
  BY DEF NetworkBlock
<1>2. chunk \in Nat /\ arrived \in Nat /\ n \in Nat /\ chunk \in 0 .. MaxChunks
  BY SoundAssumption DEF SoundInv
<1> DEFINE body == Body(arrived + 1, arrived + n)
<1>3. /\ body \in Seq(Sample) /\ Len(body) = n
      /\ \A i \in 1 .. n : body[i] = <<chunk, arrived + i>>
  <2>1. arrived + 1 \in Nat /\ arrived + n \in Nat /\ arrived + 1 <= (arrived + n) + 1
        /\ (arrived + n) - (arrived + 1) + 1 = n
    BY <1>2
  <2>2. /\ body \in Seq(Sample) /\ Len(body) = (arrived + n) - (arrived + 1) + 1
        /\ \A i \in 1 .. (arrived + n) - (arrived + 1) + 1 : body[i] = <<chunk, (arrived + 1) + i - 1>>
    BY <1>2, <2>1, BodyFacts
  <2> HIDE DEF body
  <2> QED
    BY <1>2, <2>1, <2>2
<1> HIDE DEF body
<1>4. Even(block) \in Sound
      /\ Odd(block) = IF (arrived + n) % 2 = 1 THEN << <<chunk, arrived + n>> >> ELSE <<>>
  <2>1. CASE arrived % 2 = 1
    <3> DEFINE a == arrived - 1
               m == n + 1
    <3>1. a \in Nat /\ a % 2 = 0 /\ m \in Nat /\ a + m = arrived + n
      BY <1>2, <2>1
    <3>2. carry = << <<chunk, arrived>> >> /\ <<chunk, arrived>> \in Sample
      BY <1>1, <1>2, <2>1 DEF SoundInv, Sample
    <3>3. carry \in Seq(Sample) /\ Len(carry) = 1 /\ carry[1] = <<chunk, arrived>>
      BY <3>2
    <3>9. block = carry \o body
      BY DEF body
    <3>4. /\ block \in Seq(Sample) /\ Len(block) = 1 + n
          /\ \A i \in 1 .. 1 + n : block[i] = IF i <= 1 THEN carry[i] ELSE body[i - 1]
      <4> HIDE DEF block, a, m
      <4>1. /\ carry \o body \in Seq(Sample)
            /\ Len(carry \o body) = Len(carry) + Len(body)
            /\ \A i \in 1 .. Len(carry) + Len(body) :
                 (carry \o body)[i] = IF i <= Len(carry) THEN carry[i] ELSE body[i - Len(carry)]
        BY ONLY <1>3, <3>3, ConcatProperties
      <4> QED
        BY <1>3, <3>3, <3>9, <4>1
    <3> HIDE DEF block
    <3>5. \A i \in 1 .. m : block[i] = <<chunk, a + i>>
      <4> SUFFICES ASSUME NEW i \in 1 .. m PROVE block[i] = <<chunk, a + i>>
        OBVIOUS
      <4>1. CASE i = 1
        BY <1>2, <3>3, <3>4, <4>1
      <4>2. CASE i # 1
        <5>1. i - 1 \in 1 .. n /\ arrived + (i - 1) = a + i /\ i \in 1 .. 1 + n /\ ~(i <= 1)
          BY <1>2, <4>2
        <5>2. block[i] = body[i - 1]
          BY <3>4, <5>1
        <5> QED
          BY <1>3, <5>1, <5>2
      <4> QED
        BY <4>1, <4>2
    <3>6. Len(block) = m
      BY <1>2, <3>4
    <3> HIDE DEF a, m
    <3>7. /\ Even(block) \in Sound
          /\ Odd(block) = IF (a + m) % 2 = 1 THEN << <<chunk, a + m>> >> ELSE <<>>
      <4>1. a \in Nat /\ a % 2 = 0 /\ m \in Nat /\ chunk \in Nat /\ block \in Seq(Sample)
        BY <1>2, <3>1, <3>4
      <4> QED
        BY ONLY <4>1, <3>5, <3>6, EvenOdd
    <3> QED
      BY <3>1, <3>7
  <2>2. CASE arrived % 2 # 1
    <3>1. arrived % 2 = 0
      BY <1>2, <2>2
    <3>2. carry = <<>>
      BY <2>2 DEF SoundInv
    <3>3. block = body
      BY <1>3, <3>2, ConcatEmptySeq DEF body
    <3> HIDE DEF block
    <3> QED
      BY <1>2, <1>3, <3>1, <3>3, EvenOdd
  <2> QED
    BY <2>1, <2>2
<1> HIDE DEF block
<1>5. arrived + n \in Nat
  BY <1>2
<1>6. /\ clip'.expected \in 0 .. MaxChunks + 1 /\ DOMAIN clip'.pending \subseteq 0 .. MaxChunks
      /\ \A i \in DOMAIN clip'.pending : clip'.pending[i] \in Sound
      /\ clip'.pcm \in Sound
  BY <1>1, <1>4, HandKeeps
<1>7. carry' = IF mode'.streams /\ arrived' % 2 = 1 THEN << <<chunk', arrived'>> >> ELSE <<>>
  BY <1>1, <1>4
<1> QED
  BY <1>1, <1>2, <1>5, <1>6, <1>7 DEF SoundInv, Sound, Sample, Whole

LEMMA ClipKeepsSound ==
  ASSUME SoundInv, WholeClip
  PROVE  SoundInv'
<1> DEFINE body == Body(1, Bytes)
<1>1. PICK readable \in BOOLEAN :
        /\ ~mode.streams /\ chunk < MaxChunks /\ arrived' = Bytes
        /\ Hand(Even(body), readable) /\ UNCHANGED <<mode, chunk, carry>>
  BY DEF WholeClip
<1>2. chunk \in Nat /\ Bytes \in Nat /\ chunk \in 0 .. MaxChunks
  BY SoundAssumption DEF SoundInv
<1>3. /\ body \in Seq(Sample) /\ Len(body) = Bytes - 1 + 1
      /\ \A i \in 1 .. Bytes - 1 + 1 : body[i] = <<chunk, 1 + i - 1>>
  <2>1. 1 \in Nat /\ 1 <= Bytes + 1
    BY <1>2
  <2> HIDE DEF body
  <2> QED
    BY <1>2, <2>1, BodyFacts DEF body
<1> HIDE DEF body
<1>4. Len(body) = Bytes /\ \A i \in 1 .. Bytes : body[i] = <<chunk, 0 + i>>
  BY <1>2, <1>3
<1>5. Even(body) \in Sound
  <2>1. 0 \in Nat /\ 0 % 2 = 0
    OBVIOUS
  <2> QED
    BY <1>2, <1>3, <1>4, <2>1, EvenOdd
<1>6. /\ clip'.expected \in 0 .. MaxChunks + 1 /\ DOMAIN clip'.pending \subseteq 0 .. MaxChunks
      /\ \A i \in DOMAIN clip'.pending : clip'.pending[i] \in Sound
      /\ clip'.pcm \in Sound
  BY <1>1, <1>5, HandKeeps
<1>7. carry' = IF mode'.streams /\ arrived' % 2 = 1 THEN << <<chunk', arrived'>> >> ELSE <<>>
  BY <1>1 DEF SoundInv
<1> QED
  BY <1>1, <1>2, <1>6, <1>7 DEF SoundInv, Sound, Sample, Whole

LEMMA StepSound ==
  ASSUME SoundInv, [Next]_vars
  PROVE  SoundInv'
<1>1. CASE WholeClip
  BY <1>1, ClipKeepsSound
<1>2. CASE \E n \in 1 .. Bytes : NetworkBlock(n)
  BY <1>2, BlockKeepsSound
<1>3. ASSUME chunk' \in 0 .. MaxChunks, arrived' = 0, carry' = <<>>,
             clip' = clip \/ clip' = NoClip
      PROVE  SoundInv'
  <2>1. 0 % 2 = 0 /\ 0 \in Nat
    OBVIOUS
  <2>2. CASE clip' = clip
    <3>1. /\ clip'.expected \in 0 .. MaxChunks + 1 /\ DOMAIN clip'.pending \subseteq 0 .. MaxChunks
          /\ \A i \in DOMAIN clip'.pending : clip'.pending[i] \in Sound
          /\ clip'.pcm \in Sound
      BY <2>2, SoundParts
    <3>2. carry' = IF mode'.streams /\ arrived' % 2 = 1 THEN << <<chunk', arrived'>> >> ELSE <<>>
      BY <1>3, <2>1
    <3> QED
      BY <1>3, <2>1, <3>1, <3>2 DEF SoundInv, Sound, Sample, Whole
  <2>3. CASE clip' = NoClip
    BY <1>3, <2>1, <2>3, SoundAssumption DEF SoundInv, Whole, NoClip
  <2> QED
    BY <1>3, <2>2, <2>3
<1>4. CASE ChunkEnds
  <2>1. chunk' \in 0 .. MaxChunks
    BY <1>4, SoundAssumption DEF ChunkEnds, SoundInv
  <2> QED
    BY <1>3, <1>4, <2>1 DEF ChunkEnds
<1>5. CASE TurnEnds
  <2>1. arrived' = 0 /\ carry' = <<>> /\ chunk' \in 0 .. MaxChunks
    BY <1>5, SoundAssumption DEF TurnEnds, Over, SoundInv
  <2> QED
    BY <1>3, <1>5, <2>1 DEF TurnEnds, Over
<1>6. CASE Play
  BY <1>6, SoundAssumption DEF Play, SoundInv, Whole, NoClip
<1>7. ASSUME UNCHANGED <<chunk, arrived, carry, clip, mode>>
      PROVE  SoundInv'
  BY <1>7 DEF SoundInv, Whole
<1>8. CASE Say \/ Type \/ EndOfInput \/ ReadMessage \/ \E r \in DOMAIN reader : StopOnEnter(r)
  BY <1>7, <1>8 DEF Say, Type, EndOfInput, ReadMessage, StopOnEnter
<1>9. CASE Ear
  BY <1>7, <1>9 DEF Ear, Listener, BeginRecording, ReadBlock, DeviceFails, RecordingEnds, Hear
<1>10. CASE UNCHANGED vars
  BY <1>7, <1>10 DEF vars
<1> QED
  BY <1>1, <1>2, <1>4, <1>5, <1>6, <1>8, <1>9, <1>10 DEF Next, Main, Turn

LEMMA InitSound == Init => SoundInv
  BY SoundAssumption DEF Init, SoundInv, Whole, NoClip

(* What reaches the speaker is made of whole samples, for any number of     *)
(* chunks of any length, wherever the network cuts them.                    *)
THEOREM NoClick == Spec => []SamplesWhole
<1>1. SoundInv /\ [Next]_vars => SoundInv'
  BY StepSound
<1>2. SoundInv => SamplesWhole
  BY DEF SoundInv, SamplesWhole
<1> QED
  BY <1>1, <1>2, InitSound, PTL DEF Spec

(******************************** The gate *********************************)

Count == [total : Nat, current : Nat, silence : Nat]
Nothing == [total |-> 0, current |-> 0, silence |-> 0]
Close(s) == IF s.current >= MinSegment THEN s.total + s.current ELSE s.total
Step(s, loud) ==
  IF loud THEN [s EXCEPT !.current = @ + 1, !.silence = 0]
  ELSE IF s.silence + 1 < MinSilence THEN [s EXCEPT !.silence = @ + 1]
  ELSE [total |-> Close(s), current |-> 0, silence |-> s.silence + 1]

(* The count after some of the blocks.                                      *)
Counted(bs) ==
  CHOOSE iter : iter = [s \in SUBSET (DOMAIN bs) |->
    IF s = {} THEN Nothing ELSE Step(iter[s \ {Max(s)}], bs[Max(s)])]

LEMMA SpeechIsCounted == \A bs : SpeechMs(bs) = Close(Counted(bs)[DOMAIN bs])
<1> HIDE DEF Max
<1> QED
  BY DEF SpeechMs, FoldLeft, MapThenFoldSet, Counted, Step, Close, Nothing
LEMMA MaxOf ==
  ASSUME NEW m \in Nat, NEW s \in SUBSET (1 .. m), s # {}
  PROVE  Max(s) \in s /\ (m \in s => Max(s) = m)
<1>1. \E x \in s : \A y \in s : x >= y
  <2> DEFINE T == {m - x : x \in s}
  <2>1. T \in SUBSET Nat /\ T # {}
    <3>1. \A x \in s : m - x \in Nat
      OBVIOUS
    <3>2. PICK x \in s : TRUE
      OBVIOUS
    <3>3. m - x \in T
      OBVIOUS
    <3> QED
      BY <3>1, <3>3
  <2>2. PICK t \in T : \A y \in T : t <= y
    BY <2>1, LeastNat
  <2>3. PICK x \in s : t = m - x
    OBVIOUS
  <2>4. \A y \in s : x >= y
    <3> SUFFICES ASSUME NEW y \in s PROVE x >= y
      OBVIOUS
    <3>1. m - y \in T /\ x \in Nat /\ y \in Nat
      OBVIOUS
    <3>2. m - x <= m - y
      BY <2>2, <2>3, <3>1
    <3> QED
      BY <3>1, <3>2
  <2> QED
    BY <2>4
<1>2. Max(s) \in s /\ \A y \in s : Max(s) >= y
  BY <1>1 DEF Max
<1> HIDE DEF Max
<1>3. m \in s => Max(s) = m
  <2> DEFINE x == Max(s)
  <2>1. x \in 1 .. m /\ (m \in s => x >= m)
    BY <1>2
  <2> HIDE DEF x
  <2>2. m \in s => x = m
    BY <2>1
  <2> QED
    BY <2>2 DEF x
<1> QED
  BY <1>2, <1>3

LEMMA StepType ==
  ASSUME NEW k \in Count, NEW loud
  PROVE  Step(k, loud) \in Count /\ Close(k) \in Nat
<1>1. k.total \in Nat /\ k.current \in Nat /\ k.silence \in Nat
  BY DEF Count
<1>2. Close(k) \in Nat
  BY <1>1 DEF Close
<1>3. CASE loud
  <2>1. Step(k, loud) = [k EXCEPT !.current = @ + 1, !.silence = 0]
    BY <1>3 DEF Step
  <2>2. Step(k, loud) = [total |-> k.total, current |-> k.current + 1, silence |-> 0]
    BY <2>1 DEF Count
  <2> QED
    BY <1>1, <1>2, <2>2 DEF Count
<1>4. CASE ~loud /\ k.silence + 1 < MinSilence
  BY <1>1, <1>2, <1>4 DEF Step, Count
<1>5. CASE ~loud /\ ~(k.silence + 1 < MinSilence)
  BY <1>1, <1>2, <1>5 DEF Step, Count
<1> QED
  BY <1>2, <1>3, <1>4, <1>5

(* The count exists, and goes on block by block.                            *)
LEMMA CountedDef ==
  ASSUME NEW bs \in Seq(BOOLEAN)
  PROVE  /\ Counted(bs)[{}] = Nothing
         /\ \A m \in 1 .. Len(bs) : Counted(bs)[1 .. m] = Step(Counted(bs)[1 .. m - 1], bs[m])
<1> DEFINE n == Len(bs)
           Goes(g, m) == \A s \in SUBSET (1 .. m) :
             g[s] = IF s = {} THEN Nothing ELSE Step(g[s \ {Max(s)}], bs[Max(s)])
           Eq(g) == g = [s \in SUBSET (1 .. n) |->
             IF s = {} THEN Nothing ELSE Step(g[s \ {Max(s)}], bs[Max(s)])]
           U == {m \in 0 .. n : \E g : Goes(g, m)}
<1>1. n \in Nat /\ DOMAIN bs = 1 .. n
  OBVIOUS
<1> HIDE DEF n
<1>2. 0 \in U
  <2> DEFINE g == [s \in SUBSET (1 .. 0) |-> Nothing]
  <2>1. \A s \in SUBSET (1 .. 0) : s = {}
    OBVIOUS
  <2>2. Goes(g, 0)
    BY <2>1
  <2> HIDE DEF g, Goes
  <2> QED
    BY <1>1, <2>2
<1>3. ASSUME NEW m \in 1 .. n, m - 1 \in U
      PROVE  m \in U
  <2>1. PICK g : Goes(g, m - 1)
    BY <1>3
  <2> DEFINE h == [s \in SUBSET (1 .. m) |->
                     IF m \in s THEN Step(g[s \ {m}], bs[m]) ELSE g[s]]
  <2>2. m \in Nat
    BY <1>1
  <2>3. ASSUME NEW s \in SUBSET (1 .. m)
        PROVE  h[s] = IF s = {} THEN Nothing ELSE Step(h[s \ {Max(s)}], bs[Max(s)])
    <3>1. CASE m \in s
      <4>1. Max(s) = m
        BY <2>2, <3>1, MaxOf
      <4>2. s \ {m} \in SUBSET (1 .. m) /\ m \notin s \ {m}
        OBVIOUS
      <4>3. h[s \ {m}] = g[s \ {m}]
        BY <4>2
      <4> QED
        BY <3>1, <4>1, <4>3
    <3>2. CASE m \notin s
      <4>1. s \in SUBSET (1 .. m - 1)
        BY <2>2, <3>2
      <4>2. h[s] = g[s]
        BY <3>2
      <4>3. h[s \ {Max(s)}] = g[s \ {Max(s)}]
        <5>1. s \ {Max(s)} \in SUBSET (1 .. m) /\ m \notin s \ {Max(s)}
          BY <3>2
        <5> HIDE DEF Max
        <5> QED
          BY <5>1
      <4>4. g[s] = IF s = {} THEN Nothing ELSE Step(g[s \ {Max(s)}], bs[Max(s)])
        BY <2>1, <4>1
      <4> QED
        BY <4>2, <4>3, <4>4
    <3> QED
      BY <3>1, <3>2
  <2> HIDE DEF h
  <2>4. Goes(h, m)
    BY <2>3
  <2> HIDE DEF Goes
  <2> QED
    BY <2>4
<1>4. n \in U
  <2> HIDE DEF U
  <2>1. 0 .. n \subseteq U
    BY <1>1, <1>2, <1>3, InductionUpTo
  <2> QED
    BY <1>1, <2>1
<1>5. PICK g : Goes(g, n)
  BY <1>4
<1> DEFINE f == [s \in SUBSET (1 .. n) |-> g[s]]
<1>6. Eq(f)
  <2>1. ASSUME NEW s \in SUBSET (1 .. n)
        PROVE  g[s] = IF s = {} THEN Nothing ELSE Step(f[s \ {Max(s)}], bs[Max(s)])
    <3>1. f[s \ {Max(s)}] = g[s \ {Max(s)}]
      <4>1. s \ {Max(s)} \in SUBSET (1 .. n)
        OBVIOUS
      <4> HIDE DEF Max
      <4> QED
        BY <4>1
    <3> QED
      BY <1>5, <3>1
  <2> HIDE DEF Goes
  <2>2. f = [s \in SUBSET (1 .. n) |->
              IF s = {} THEN Nothing ELSE Step(f[s \ {Max(s)}], bs[Max(s)])]
    BY <2>1
  <2> QED
    BY <2>2 DEF Eq
<1> HIDE DEF f
<1> DEFINE K == Counted(bs)
<1>7. Eq(K)
  <2>1. \E k : Eq(k)
    BY <1>6
  <2>2. Eq(CHOOSE k : Eq(k))
    BY <2>1
  <2> QED
    BY <1>1, <2>2 DEF Eq, Counted
<1>8. \A s \in SUBSET (1 .. n) :
        K[s] = IF s = {} THEN Nothing ELSE Step(K[s \ {Max(s)}], bs[Max(s)])
  <2> HIDE DEF K
  <2> QED
    BY <1>7 DEF Eq
<1> HIDE DEF K, Eq, Goes, U
<1>9. K[{}] = Nothing
  BY <1>8
<1>10. ASSUME NEW m \in 1 .. n
       PROVE  K[1 .. m] = Step(K[1 .. m - 1], bs[m])
  <2>1. m \in Nat /\ m \in 1 .. m /\ 1 .. m \in SUBSET (1 .. m) /\ 1 .. m \in SUBSET (1 .. n)
    BY <1>1
  <2>2. Max(1 .. m) = m
    BY <2>1, MaxOf
  <2>3. (1 .. m) \ {m} = 1 .. m - 1 /\ 1 .. m # {}
    BY <2>1
  <2> QED
    BY <1>8, <2>1, <2>2, <2>3
<1> QED
  BY <1>9, <1>10 DEF K, n

(* The loud blocks up to the m-th, and of those outside of C the ones that  *)
(* are in a segment long enough.                                            *)
LoudTo(bs, m) == {i \in Loud(bs) : i <= m}
Counts(bs, s) == {i \in s : Cardinality(Segment(bs, i)) >= MinSegment}

(* Where the count stands after m blocks: C is the segment that may go on,  *)
(* and every other one is complete and counted.                             *)
Stands(bs, m, C, k) ==
  /\ k \in Count /\ k.silence <= m
  /\ \A l \in m - k.silence + 1 .. m : ~bs[l]
  /\ k.silence < m => bs[m - k.silence]
  /\ C \subseteq LoudTo(bs, m)
  /\ k.silence >= MinSilence => C = {}
  /\ k.silence < MinSilence /\ k.silence < m => m - k.silence \in C
  /\ \A i, j \in C : Together(bs, i, j)
  /\ \A i \in LoudTo(bs, m) \ C, j \in Loud(bs) : j \in C \/ j > m => ~Together(bs, i, j)
  /\ k.current = Cardinality(C)
  /\ k.total = Cardinality(Counts(bs, LoudTo(bs, m) \ C))

(* A long silence parts what comes before it from what comes after it.      *)
LEMMA SilenceParts ==
  ASSUME NEW bs, NEW a \in Nat, NEW i \in Nat, NEW j \in Nat, i < a, a + MinSilence <= j,
         \A l \in a .. a + MinSilence - 1 : ~bs[l]
  PROVE  ~Together(bs, i, j)
<1>1. a \in i + 1 .. j - MinSilence
  BY GateAssumption
<1> QED
  BY <1>1 DEF Together

(* Two blocks in a row are together.                                        *)
LEMMA TogetherBack ==
  ASSUME NEW bs, NEW i \in Nat, NEW j \in Nat, j <= i
  PROVE  Together(bs, i, j)
<1>1. i + 1 .. j - MinSilence = {}
  BY GateAssumption
<1> QED
  BY <1>1 DEF Together

(* A short silence does not end a segment.                                  *)
LEMMA TogetherOn ==
  ASSUME NEW bs, NEW i \in Nat, NEW h \in Nat, NEW j \in Nat,
         bs[h], h < j, j - h <= MinSilence, Together(bs, i, h)
  PROVE  Together(bs, i, j)
<1>1. MinSilence \in Nat \ {0}
  BY GateAssumption
<1>2. ASSUME NEW k \in i + 1 .. j - MinSilence
      PROVE  \E l \in k .. k + MinSilence - 1 : bs[l]
  <2>1. CASE k <= h - MinSilence
    <3>1. k \in i + 1 .. h - MinSilence
      BY <1>1, <2>1
    <3> QED
      BY <3>1 DEF Together
  <2>2. CASE ~(k <= h - MinSilence)
    <3>1. h \in k .. k + MinSilence - 1
      BY <1>1, <2>2
    <3> QED
      BY <3>1
  <2> QED
    BY <2>1, <2>2
<1> QED
  BY <1>2 DEF Together

LEMMA LoudFacts ==
  ASSUME NEW bs \in Seq(BOOLEAN)
  PROVE  /\ Loud(bs) \subseteq 1 .. Len(bs) /\ IsFiniteSet(Loud(bs)) /\ Len(bs) \in Nat
         /\ \A i \in Loud(bs) : bs[i]
         /\ \A i \in 1 .. Len(bs) : bs[i] => i \in Loud(bs)
<1>1. Len(bs) \in Nat /\ DOMAIN bs = 1 .. Len(bs)
  OBVIOUS
<1>2. Loud(bs) \subseteq 1 .. Len(bs) /\ \A i \in 1 .. Len(bs) : bs[i] <=> i \in Loud(bs)
  BY <1>1 DEF Loud
<1>3. IsFiniteSet(1 .. Len(bs))
  BY <1>1, FS_Interval
<1>4. IsFiniteSet(Loud(bs))
  BY <1>2, <1>3, FS_Subset
<1> QED
  BY <1>1, <1>2, <1>4

(* What is counted of two sets that have nothing in common.                 *)
LEMMA CountsApart ==
  ASSUME NEW bs, NEW s, NEW t, IsFiniteSet(s), IsFiniteSet(t), s \cap t = {}
  PROVE  /\ Cardinality(Counts(bs, s \cup t)) = Cardinality(Counts(bs, s)) + Cardinality(Counts(bs, t))
         /\ Cardinality(Counts(bs, s)) \in Nat
<1>1. Counts(bs, s) \in SUBSET s /\ Counts(bs, t) \in SUBSET t
  BY DEF Counts
<1>2. IsFiniteSet(Counts(bs, s)) /\ IsFiniteSet(Counts(bs, t))
  BY <1>1, FS_Subset
<1>3. Counts(bs, s \cup t) = Counts(bs, s) \cup Counts(bs, t)
  BY DEF Counts
<1>4. Counts(bs, s) \cap Counts(bs, t) = {}
  BY <1>1
<1>5. /\ Cardinality(Counts(bs, s) \cup Counts(bs, t)) =
           Cardinality(Counts(bs, s)) + Cardinality(Counts(bs, t)) - Cardinality(Counts(bs, s) \cap Counts(bs, t))
      /\ Cardinality(Counts(bs, s)) \in Nat /\ Cardinality(Counts(bs, t)) \in Nat
  BY <1>2, FS_Union, FS_CardinalityType
<1>6. Cardinality(Counts(bs, s) \cap Counts(bs, t)) = 0
  BY <1>4, FS_EmptySet
<1> DEFINE a == Cardinality(Counts(bs, s))
           b == Cardinality(Counts(bs, t))
           c == Cardinality(Counts(bs, s) \cap Counts(bs, t))
<1>7. a \in Nat /\ b \in Nat /\ c = 0
  BY <1>5, <1>6
<1> HIDE DEF a, b, c
<1>8. a + b - c = a + b
  BY <1>7
<1> QED
  BY <1>3, <1>5, <1>8 DEF a, b, c

(* The segment that may go on is closed when nothing later belongs to it.   *)
LEMMA Closes ==
  ASSUME NEW bs \in Seq(BOOLEAN), NEW m \in 0 .. Len(bs), NEW C, NEW k, Stands(bs, m, C, k),
         \A i \in C, j \in Loud(bs) : j > m => ~Together(bs, i, j)
  PROVE  Close(k) = Cardinality(Counts(bs, LoudTo(bs, m)))
<1> DEFINE L == LoudTo(bs, m)
           O == L \ C
<1>1. /\ Loud(bs) \subseteq 1 .. Len(bs) /\ IsFiniteSet(Loud(bs)) /\ Len(bs) \in Nat
  BY LoudFacts
<1>2. L \in SUBSET Loud(bs) /\ O \in SUBSET Loud(bs) /\ C \in SUBSET Loud(bs)
      /\ O \cap C = {} /\ O \cup C = L
  BY DEF Stands, LoudTo
<1>3. IsFiniteSet(O) /\ IsFiniteSet(C)
  BY <1>1, <1>2, FS_Subset
<1>4. ASSUME NEW i \in C
      PROVE  Segment(bs, i) = C
  <2>1. ASSUME NEW j \in C
        PROVE  j \in Segment(bs, i)
    BY <1>2, <1>4, <2>1 DEF Segment, Stands
  <2>2. ASSUME NEW j \in Segment(bs, i)
        PROVE  j \in C
    <3>1. j \in Loud(bs) /\ Together(bs, i, j) /\ Together(bs, j, i)
      BY DEF Segment
    <3>2. ~(j > m)
      BY <3>1
    <3>3. j \in L
      BY <1>1, <3>1, <3>2 DEF LoudTo
    <3>4. i \in Loud(bs)
      BY <1>2
    <3> QED
      BY <3>1, <3>3, <3>4 DEF Stands
  <2> QED
    BY <2>1, <2>2
<1>5. Cardinality(Counts(bs, C)) = IF k.current >= MinSegment THEN k.current ELSE 0
  <2>1. k.current = Cardinality(C)
    BY DEF Stands
  <2>2. CASE k.current >= MinSegment
    <3>1. Counts(bs, C) = C
      BY <1>4, <2>1, <2>2 DEF Counts
    <3> QED
      BY <2>1, <2>2, <3>1
  <2>3. CASE ~(k.current >= MinSegment)
    <3>1. Counts(bs, C) = {}
      BY <1>4, <2>1, <2>3 DEF Counts
    <3> QED
      BY <2>3, <3>1, FS_EmptySet
  <2> QED
    BY <2>2, <2>3
<1>6. Cardinality(Counts(bs, L)) = Cardinality(Counts(bs, O)) + Cardinality(Counts(bs, C))
  BY <1>2, <1>3, CountsApart
<1>7. k.total = Cardinality(Counts(bs, O)) /\ k.total \in Nat /\ k.current \in Nat
  BY DEF Stands, Count
<1> HIDE DEF L, O
<1>8. Close(k) = Cardinality(Counts(bs, L))
  BY <1>5, <1>6, <1>7, GateAssumption DEF Close
<1> QED
  BY <1>8 DEF L

LEMMA LoudGoesOn ==
  ASSUME NEW bs \in Seq(BOOLEAN), NEW m \in Nat, m + 1 \in 1 .. Len(bs),
         NEW C, NEW k, Stands(bs, m, C, k), bs[m + 1]
  PROVE  Stands(bs, m + 1, C \cup {m + 1}, Step(k, bs[m + 1]))
<1> DEFINE n == m + 1
           D == C \cup {n}
           s == Step(k, bs[n])
<1>1. k \in Count /\ k.total \in Nat /\ k.current \in Nat /\ k.silence \in Nat /\ k.silence <= m
  BY DEF Stands, Count
<1>2. s = [total |-> k.total, current |-> k.current + 1, silence |-> 0]
  <2>1. s = [k EXCEPT !.current = @ + 1, !.silence = 0]
    BY DEF Step
  <2> QED
    BY <1>1, <2>1 DEF Count
<1> HIDE DEF s
<1>3. s \in Count /\ s.silence = 0 /\ s.total = k.total /\ s.current = k.current + 1
  BY <1>1, <1>2 DEF Count
<1>4. /\ Loud(bs) \subseteq 1 .. Len(bs) /\ IsFiniteSet(Loud(bs)) /\ Len(bs) \in Nat
      /\ n \in Loud(bs) /\ \A i \in Loud(bs) : bs[i]
  BY LoudFacts
<1>5. LoudTo(bs, n) = LoudTo(bs, m) \cup {n} /\ n \notin LoudTo(bs, m) /\ n \in Nat
      /\ \A i \in LoudTo(bs, m) : i \in Loud(bs) /\ i \in Nat /\ i <= m
  BY <1>4 DEF LoudTo
<1>6. C \subseteq LoudTo(bs, m) /\ n \notin C
  BY <1>5 DEF Stands
<1>7. LoudTo(bs, n) \ D = LoudTo(bs, m) \ C /\ D \subseteq LoudTo(bs, n)
  BY <1>5, <1>6
<1>8. \A i, j \in D : Together(bs, i, j)
  <2>1. ASSUME NEW i \in C
        PROVE  Together(bs, i, n)
    <3> DEFINE h == m - k.silence
    <3>1. k.silence < MinSilence /\ k.silence < m
      <4>1. ~(k.silence >= MinSilence)
        BY DEF Stands
      <4>2. k.silence # m
        <5>1. i \in 1 .. m /\ bs[i]
          BY <1>4, <1>5, <1>6
        <5>2. k.silence = m => \A l \in 1 .. m : ~bs[l]
          <6>1. k.silence = m => m - k.silence + 1 = 1
            BY <1>1
          <6> QED
            BY <6>1 DEF Stands
        <5> QED
          BY <5>1, <5>2
      <4> QED
        BY <1>1, <4>1, <4>2, GateAssumption
    <3>2. bs[h] /\ h \in C /\ h \in Nat
      BY <1>1, <3>1 DEF Stands
    <3>3. Together(bs, i, h)
      BY <3>2 DEF Stands
    <3>4. h < n /\ n - h <= MinSilence /\ i \in Nat
      BY <1>1, <1>5, <1>6, <3>1, GateAssumption
    <3> HIDE DEF h
    <3> QED
      BY <1>5, <3>2, <3>3, <3>4, TogetherOn
  <2>2. \A i \in D : Together(bs, n, i)
    BY <1>5, <1>6, TogetherBack
  <2>3. \A i, j \in C : Together(bs, i, j)
    BY DEF Stands
  <2> QED
    BY <2>1, <2>2, <2>3
<1>9. ASSUME NEW i \in LoudTo(bs, m) \ C, NEW j \in Loud(bs), j \in D \/ j > n
      PROVE  ~Together(bs, i, j)
  <2>1. j \in C \/ j > m
    BY <1>4, <1>9
  <2> QED
    BY <2>1 DEF Stands
<1>10. s.current = Cardinality(D)
  <2>1. IsFiniteSet(C)
    BY <1>4, <1>5, <1>6, FS_Subset
  <2>2. Cardinality(D) = Cardinality(C) + 1
    BY <1>6, <2>1, FS_AddElement
  <2> QED
    BY <1>3, <2>2 DEF Stands
<1>11. s.total = Cardinality(Counts(bs, LoudTo(bs, n) \ D))
  BY <1>3, <1>7 DEF Stands
<1>12. n - 0 = n /\ n \in D /\ 0 < n /\ 0 <= n /\ n + 1 .. n = {} /\ ~(0 >= MinSilence) /\ n - s.silence = n
  BY <1>3, GateAssumption
<1> HIDE DEF n, D
<1>13. Stands(bs, n, D, s)
  BY <1>3, <1>4, <1>7, <1>8, <1>9, <1>10, <1>11, <1>12 DEF Stands
<1> QED
  BY <1>13 DEF n, D, s

LEMMA QuietGoesOn ==
  ASSUME NEW bs \in Seq(BOOLEAN), NEW m \in Nat, m + 1 \in 1 .. Len(bs),
         NEW C, NEW k, Stands(bs, m, C, k), ~bs[m + 1]
  PROVE  \E D : Stands(bs, m + 1, D, Step(k, bs[m + 1]))
<1> DEFINE n == m + 1
           s == Step(k, bs[n])
<1>1. k \in Count /\ k.total \in Nat /\ k.current \in Nat /\ k.silence \in Nat /\ k.silence <= m
  BY DEF Stands, Count
<1>2. s \in Count
  BY <1>1, StepType
<1>3. s.silence = k.silence + 1
  BY <1>1 DEF Step, Count
<1>4. /\ Loud(bs) \subseteq 1 .. Len(bs) /\ IsFiniteSet(Loud(bs)) /\ Len(bs) \in Nat
      /\ \A i \in Loud(bs) : bs[i]
  BY LoudFacts
<1>5. LoudTo(bs, n) = LoudTo(bs, m) /\ n \notin Loud(bs)
      /\ \A i \in LoudTo(bs, m) : i \in Loud(bs) /\ i \in Nat /\ i <= m
  <2>1. n \notin Loud(bs)
    BY <1>4
  <2> QED
    BY <1>4, <2>1 DEF LoudTo
<1>6. C \subseteq LoudTo(bs, m)
  BY DEF Stands
<1>7. /\ s.silence <= n /\ \A l \in n - s.silence + 1 .. n : ~bs[l]
      /\ s.silence < n => bs[n - s.silence]
  <2>1. n - s.silence = m - k.silence
    BY <1>1, <1>3
  <2>2. \A l \in m - k.silence + 1 .. n : l \in m - k.silence + 1 .. m \/ l = n
    BY <1>1
  <2>3. \A l \in m - k.silence + 1 .. m : ~bs[l]
    BY DEF Stands
  <2>4. k.silence < m => bs[m - k.silence]
    BY DEF Stands
  <2> HIDE DEF s
  <2> QED
    BY <1>1, <1>3, <2>1, <2>2, <2>3, <2>4
<1>8. \A i \in LoudTo(bs, m) \ C, j \in Loud(bs) : j \in C \/ j > n => ~Together(bs, i, j)
  <2>1. \A j \in Loud(bs) : j > n => j > m
    BY <1>4
  <2> QED
    BY <2>1 DEF Stands
<1>9. CASE k.silence + 1 < MinSilence
  <2>1. s.total = k.total /\ s.current = k.current
    BY <1>1, <1>9 DEF Step, Count
  <2> HIDE DEF s
  <2>2. ~(s.silence >= MinSilence)
    BY <1>1, <1>3, <1>9, GateAssumption
  <2>3. s.silence < n => n - s.silence \in C
    <3>1. k.silence < MinSilence /\ n - s.silence = m - k.silence /\ (s.silence < n => k.silence < m)
      BY <1>1, <1>3, <1>9, GateAssumption
    <3>2. k.silence < m => m - k.silence \in C
      BY <3>1 DEF Stands
    <3> QED
      BY <3>1, <3>2
  <2>4. /\ \A i, j \in C : Together(bs, i, j)
        /\ s.current = Cardinality(C)
        /\ s.total = Cardinality(Counts(bs, LoudTo(bs, n) \ C))
    BY <1>5, <2>1 DEF Stands
  <2> HIDE DEF n
  <2>5. Stands(bs, n, C, s)
    BY <1>2, <1>5, <1>6, <1>7, <1>8, <2>2, <2>3, <2>4 DEF Stands
  <2> QED
    BY <2>5 DEF n, s
<1>10. CASE ~(k.silence + 1 < MinSilence)
  <2>1. s.total = Close(k) /\ s.current = 0
    BY <1>1, <1>10 DEF Step
  <2> HIDE DEF s
  <2>2. ASSUME NEW i \in C, NEW j \in Loud(bs), j > m
        PROVE  ~Together(bs, i, j)
    <3> DEFINE a == n + 1 - MinSilence
    <3>1. /\ j \in Nat /\ j # n /\ i \in Nat /\ i <= m /\ bs[i] /\ i >= 1
      BY <1>4, <1>5, <1>6
    <3>2. C # {}
      OBVIOUS
    <3>3. k.silence + 1 = MinSilence
      <4>1. ~(k.silence >= MinSilence)
        BY <3>2 DEF Stands
      <4> QED
        BY <1>1, <1>10, <4>1, GateAssumption
    <3>4. s.silence = MinSilence /\ a = n - s.silence + 1 /\ a + MinSilence - 1 = n /\ a + MinSilence <= j
          /\ a \in Nat
      BY <1>1, <1>3, <2>2, <3>1, <3>3, GateAssumption
    <3>5. \A l \in a .. a + MinSilence - 1 : ~bs[l]
      BY <1>7, <3>4
    <3>6. i < a
      <4>1. i \in a .. n => ~bs[i]
        BY <1>7, <3>4
      <4> QED
        BY <3>1, <3>4, <4>1
    <3> HIDE DEF a
    <3> QED
      BY <3>1, <3>4, <3>5, <3>6, SilenceParts
  <2>3. Close(k) = Cardinality(Counts(bs, LoudTo(bs, m)))
    <3>1. m \in 0 .. Len(bs)
      BY <1>4
    <3> QED
      BY <2>2, <3>1, Closes
  <2>4. s.total = Cardinality(Counts(bs, LoudTo(bs, n) \ {}))
    BY <1>5, <2>1, <2>3
  <2>5. s.silence >= MinSilence /\ ~(s.silence < MinSilence)
    BY <1>1, <1>3, <1>10, GateAssumption
  <2>6. \A i \in LoudTo(bs, n) \ {}, j \in Loud(bs) : j \in {} \/ j > n => ~Together(bs, i, j)
    <3> SUFFICES ASSUME NEW i \in LoudTo(bs, m), NEW j \in Loud(bs), j > n
                 PROVE  ~Together(bs, i, j)
      BY <1>5
    <3>1. j > m
      BY <1>4
    <3> QED
      BY <1>8, <2>2, <3>1
  <2>7. s.current = Cardinality({})
    BY <2>1, FS_EmptySet
  <2> HIDE DEF n
  <2>8. Stands(bs, n, {}, s)
    BY <1>2, <1>7, <2>4, <2>5, <2>6, <2>7 DEF Stands
  <2> QED
    BY <2>8 DEF n, s
<1> QED
  BY <1>9, <1>10

(* speech_ms counts the blocks of the segments that are long enough.        *)
LEMMA SpeechIsExact ==
  ASSUME NEW bs \in Seq(BOOLEAN)
  PROVE  SpeechMs(bs) = Cardinality(Speech(bs))
<1> DEFINE n == Len(bs)
           K(m) == Counted(bs)[1 .. m]
           U == {m \in 0 .. n : \E C : Stands(bs, m, C, K(m))}
<1>1. n \in Nat /\ DOMAIN bs = 1 .. n
  OBVIOUS
<1>2. 0 \in U
  <2>1. K(0) = Nothing
    <3>1. 1 .. 0 = {}
      OBVIOUS
    <3> QED
      BY <3>1, CountedDef
  <2>2. LoudTo(bs, 0) = {}
    BY LoudFacts DEF LoudTo
  <2>3. Nothing \in Count /\ Nothing.silence = 0 /\ Nothing.current = 0 /\ Nothing.total = 0
    BY DEF Nothing, Count
  <2>4. Cardinality({}) = 0 /\ Counts(bs, {}) = {} /\ {} \ {} = {}
    BY FS_EmptySet DEF Counts
  <2>5. 0 - 0 + 1 .. 0 = {} /\ ~(0 < 0) /\ 0 <= 0
    OBVIOUS
  <2>6. Stands(bs, 0, {}, Nothing)
    BY <2>2, <2>3, <2>4, <2>5 DEF Stands
  <2> HIDE DEF K
  <2> QED
    BY <1>1, <2>1, <2>6
<1>3. ASSUME NEW p \in 1 .. n, p - 1 \in U
      PROVE  p \in U
  <2> DEFINE m == p - 1
  <2>1. m \in Nat /\ m + 1 = p /\ m + 1 \in 1 .. Len(bs)
    BY <1>1
  <2>2. PICK C : Stands(bs, m, C, K(m))
    BY <1>3
  <2>3. K(p) = Step(K(m), bs[p])
    BY CountedDef
  <2> HIDE DEF K, m
  <2>4. \E D : Stands(bs, m + 1, D, Step(K(m), bs[m + 1]))
    <3>1. CASE bs[m + 1]
      BY <2>1, <2>2, <3>1, LoudGoesOn
    <3>2. CASE ~bs[m + 1]
      BY <2>1, <2>2, <3>2, QuietGoesOn
    <3> QED
      BY <3>1, <3>2
  <2>5. \E D : Stands(bs, p, D, K(p))
    BY <2>1, <2>3, <2>4
  <2> QED
    BY <1>1, <2>5
<1>4. n \in U
  <2> HIDE DEF U, n
  <2>1. 0 .. n \subseteq U
    BY <1>1, <1>2, <1>3, InductionUpTo
  <2> QED
    BY <1>1, <2>1
<1>5. PICK C : Stands(bs, n, C, K(n))
  BY <1>4
<1>6. Close(K(n)) = Cardinality(Counts(bs, LoudTo(bs, n)))
  <2>1. \A j \in Loud(bs) : ~(j > n)
    BY <1>1, LoudFacts
  <2>2. n \in 0 .. Len(bs)
    BY <1>1
  <2> HIDE DEF K, n
  <2> QED
    BY <1>5, <2>1, <2>2, Closes
<1>7. LoudTo(bs, n) = Loud(bs)
  BY <1>1, LoudFacts DEF LoudTo
<1>8. Counts(bs, Loud(bs)) = Speech(bs)
  BY DEF Counts, Speech
<1> QED
  BY <1>1, <1>6, <1>7, <1>8, SpeechIsCounted

(* What the gate has judged, and what it may have to.                       *)
GateInv == blocks \in Seq(BOOLEAN) /\ GateIsExact

LEMMA StepGate ==
  ASSUME GateInv, [Next]_vars
  PROVE  GateInv'
<1>1. CASE Hear
  <2>1. PICK measured \in BOOLEAN :
          judged' = [blocks |-> blocks, measured |-> measured, passed |-> IsSpeech(measured)]
    BY <1>1 DEF Hear
  <2>2. /\ judged'.blocks = blocks /\ judged'.measured = measured
        /\ judged'.passed = (measured => SpeechMs(blocks) >= MinSpeech)
    BY <2>1 DEF IsSpeech
  <2>3. SpeechMs(blocks) = Cardinality(Speech(blocks))
    BY SpeechIsExact DEF GateInv
  <2>4. blocks' \in Seq(BOOLEAN)
    BY <1>1 DEF Hear
  <2>5. judged'.passed <=> (judged'.measured => Cardinality(Speech(judged'.blocks)) >= MinSpeech)
    BY <2>2, <2>3
  <2> QED
    BY <2>4, <2>5 DEF GateInv, GateIsExact, Speech, Segment, Together, Loud
<1>2. ASSUME blocks' \in Seq(BOOLEAN), judged' = NothingJudged \/ judged' = judged
      PROVE  GateInv'
  <2>1. CASE judged' = judged
    BY <1>2, <2>1 DEF GateInv, GateIsExact, Speech, Segment, Together, Loud
  <2>2. CASE judged' = NothingJudged
    BY <1>2, <2>2 DEF GateInv, GateIsExact, NothingJudged
  <2> QED
    BY <1>2, <2>1, <2>2
<1>3. CASE ReadBlock
  <2>1. PICK loud \in BOOLEAN : blocks' = Append(blocks, loud)
    BY <1>3 DEF ReadBlock
  <2>2. blocks' \in Seq(BOOLEAN)
    BY <2>1 DEF GateInv
  <2> QED
    BY <1>2, <1>3, <2>2 DEF ReadBlock
<1>4. CASE BeginRecording
  <2>1. blocks' = <<>> /\ judged' = NothingJudged
    BY <1>4 DEF BeginRecording
  <2>2. blocks' \in Seq(BOOLEAN)
    BY <2>1
  <2> QED
    BY <1>2, <2>1, <2>2
<1>8. CASE DeviceFails \/ RecordingEnds
  BY <1>2, <1>8 DEF DeviceFails, RecordingEnds, GateInv
<1>5. CASE Say \/ WholeClip \/ ChunkEnds \/ TurnEnds \/ Play \/ \E n \in 1 .. Bytes : NetworkBlock(n)
  BY <1>2, <1>5 DEF Say, WholeClip, ChunkEnds, TurnEnds, Over, Play, NetworkBlock, GateInv
<1>6. CASE Type \/ EndOfInput \/ ReadMessage \/ \E r \in DOMAIN reader : StopOnEnter(r)
  BY <1>2, <1>6 DEF Type, EndOfInput, ReadMessage, StopOnEnter, GateInv
<1>7. CASE UNCHANGED vars
  BY <1>2, <1>7 DEF vars, GateInv
<1> QED
  BY <1>1, <1>3, <1>4, <1>5, <1>6, <1>7, <1>8 DEF Next, Main, Turn, Ear, Listener

(* The gate drops a recording exactly when it was measured and too little   *)
(* was said in it, for recordings of any length.                            *)
THEOREM NobodyCutOff == Spec => []GateIsExact
<1>1. Init => GateInv
  BY DEF Init, GateInv, GateIsExact, NothingJudged
<1>2. GateInv /\ [Next]_vars => GateInv'
  BY StepGate
<1>3. GateInv => GateIsExact
  BY DEF GateInv
<1> QED
  BY <1>1, <1>2, <1>3, PTL DEF Spec

(********************************** Types **********************************)

(* Every line is still to come, waits to be read or has begun a recording,  *)
(* and every question came of a line of its own.                            *)
Begun == IF pc \in {"record", "measure", "say"} THEN 1 ELSE 0
LinesSpent ==
  /\ rec + typed + toType <= MaxTyped
  /\ asked + Begun + typed + toType <= MaxTyped
TypeInv == TypeOK /\ LinesSpent

LEMMA BoundedFacts ==
  ASSUME NEW s
  PROVE  s \in BoundedSeq(BOOLEAN, MaxBlocks) <=> s \in Seq(BOOLEAN) /\ Len(s) <= MaxBlocks
<1>1. ASSUME s \in BoundedSeq(BOOLEAN, MaxBlocks)
      PROVE  s \in Seq(BOOLEAN) /\ Len(s) <= MaxBlocks
  <2>1. PICK m \in 0 .. MaxBlocks : s \in [1 .. m -> BOOLEAN]
    BY <1>1 DEF BoundedSeq, SeqOf
  <2>2. m \in Nat /\ m <= MaxBlocks
    BY TypingAssumption
  <2> QED
    BY <2>1, <2>2
<1>2. ASSUME s \in Seq(BOOLEAN), Len(s) <= MaxBlocks
      PROVE  s \in BoundedSeq(BOOLEAN, MaxBlocks)
  <2>1. Len(s) \in 0 .. MaxBlocks /\ s \in [1 .. Len(s) -> BOOLEAN]
    BY <1>2, TypingAssumption
  <2> QED
    BY <2>1 DEF BoundedSeq, SeqOf
<1> QED
  BY <1>1, <1>2

(* A step that leaves the keyboard and the recordings alone.                *)
LEMMA TypesOf ==
  ASSUME TypeInv, EntersInv', SoundInv', arrived' \in 0 .. Bytes,
         blocks' \in BoundedSeq(BOOLEAN, MaxBlocks),
         pc' \in {"wait", "record", "measure", "say", "turn", "play", "done", "crashed"},
         reader' \in [1 .. MaxTyped -> {"none", "reading", "gone"}],
         asked' \in Nat, LinesSpent'
  PROVE  TypeInv'
<1>1. /\ mode' \in Modes /\ toType' \in Nat /\ typed' \in Nat /\ rec' \in Nat /\ stop' \subseteq 1 .. rec'
  BY DEF EntersInv, KeysOK
<1>2. chunk' \in 0 .. MaxChunks /\ Len(carry') <= 1
  BY DEF SoundInv
<1>3. Begun' \in Nat
  BY DEF Begun
<1>4. /\ rec' + typed' + toType' <= MaxTyped /\ asked' + Begun' + typed' + toType' <= MaxTyped
  BY DEF LinesSpent
<1> HIDE DEF Begun
<1>5. /\ toType' \in 0 .. MaxTyped /\ typed' \in 0 .. MaxTyped - toType'
      /\ rec' \in 0 .. MaxTyped /\ asked' \in 0 .. MaxTyped
  <2> DEFINE h == toType'
             t == typed'
             r == rec'
             q == asked'
             b == Begun'
  <2>1. MaxTyped \in Nat /\ h \in Nat /\ t \in Nat /\ r \in Nat /\ q \in Nat /\ b \in Nat
    BY <1>1, <1>3, TypingAssumption
  <2>2. r + t + h <= MaxTyped /\ q + b + t + h <= MaxTyped
    BY <1>4
  <2> HIDE DEF h, t, r, q, b
  <2>3. h \in 0 .. MaxTyped /\ t \in 0 .. MaxTyped - h /\ r \in 0 .. MaxTyped /\ q \in 0 .. MaxTyped
    BY <2>1, <2>2
  <2> QED
    BY <2>3 DEF h, t, r, q
<1> QED
  BY <1>1, <1>2, <1>5 DEF TypeInv, TypeOK

LEMMA TypeFacts ==
  ASSUME TypeInv
  PROVE  /\ toType \in Nat /\ typed \in Nat /\ rec \in Nat /\ asked \in Nat /\ MaxTyped \in Nat
         /\ rec + typed + toType <= MaxTyped
         /\ asked + Begun + typed + toType <= MaxTyped
         /\ arrived \in 0 .. Bytes /\ blocks \in BoundedSeq(BOOLEAN, MaxBlocks)
         /\ pc \in {"wait", "record", "measure", "say", "turn", "play", "done", "crashed"}
         /\ reader \in [1 .. MaxTyped -> {"none", "reading", "gone"}]
<1>1. MaxTyped \in Nat
  BY TypingAssumption
<1>2. toType \in 0 .. MaxTyped /\ typed \in 0 .. MaxTyped - toType
  BY DEF TypeInv, TypeOK
<1> QED
  BY <1>1, <1>2 DEF TypeInv, TypeOK, LinesSpent

LEMMA StepTypes ==
  ASSUME TypeInv, EntersInv', SoundInv', [Next]_vars
  PROVE  TypeInv'
<1>0. <<>> \in BoundedSeq(BOOLEAN, MaxBlocks)
  <2>1. <<>> \in Seq(BOOLEAN) /\ Len(<<>>) <= MaxBlocks
    BY TypingAssumption
  <2> QED
    BY <2>1, BoundedFacts
<1>1. CASE Type
  <2>1. toType > 0 /\ toType' = toType - 1 /\ typed' = typed + 1
        /\ UNCHANGED <<rec, asked, pc, blocks, arrived, reader>>
    BY <1>1 DEF Type
  <2>2. LinesSpent'
    BY <2>1, TypeFacts DEF LinesSpent, Begun
  <2> QED
    BY <2>1, <2>2, TypeFacts, TypesOf
<1>2. ASSUME UNCHANGED <<toType, typed, rec, reader>>, asked' = asked, Begun' <= Begun,
             arrived' \in 0 .. Bytes, blocks' \in BoundedSeq(BOOLEAN, MaxBlocks),
             pc' \in {"wait", "record", "measure", "say", "turn", "play", "done", "crashed"}
      PROVE  TypeInv'
  <2>1. Begun \in Nat /\ Begun' \in Nat
    BY DEF Begun
  <2> HIDE DEF Begun
  <2>2. asked + Begun' + typed + toType <= MaxTyped
    BY <1>2, <2>1, TypeFacts
  <2>3. LinesSpent'
    BY <1>2, <2>2, TypeFacts DEF LinesSpent
  <2> QED
    BY <1>2, <2>3, TypeFacts, TypesOf
<1>3. CASE EndOfInput
  BY <1>2, <1>3, TypeFacts DEF EndOfInput, Begun
<1>4. CASE ReadMessage
  <2>1. typed > 0 /\ typed' = typed - 1 /\ pc = "wait" /\ pc' \in {"say", "wait"}
        /\ UNCHANGED <<toType, rec, asked, blocks, arrived, reader>>
    BY <1>4 DEF ReadMessage
  <2>2. LinesSpent'
    BY <2>1, TypeFacts DEF LinesSpent, Begun
  <2> QED
    BY <2>1, <2>2, TypeFacts, TypesOf
<1>5. CASE BeginRecording
  <2>1. typed > 0 /\ typed' = typed - 1 /\ pc = "wait" /\ pc' = "record" /\ rec' = rec + 1
        /\ blocks' = <<>> /\ reader' = [reader EXCEPT ![rec + 1] = "reading"]
        /\ UNCHANGED <<toType, asked, arrived>>
    BY <1>5 DEF BeginRecording
  <2>2. LinesSpent'
    BY <2>1, TypeFacts DEF LinesSpent, Begun
  <2>3. reader' \in [1 .. MaxTyped -> {"none", "reading", "gone"}]
    BY <2>1, TypeFacts
  <2> QED
    BY <1>0, <2>1, <2>2, <2>3, TypeFacts, TypesOf
<1>6. CASE ReadBlock
  <2>1. PICK loud \in BOOLEAN : blocks' = Append(blocks, loud)
    BY <1>6 DEF ReadBlock
  <2>2. blocks \in Seq(BOOLEAN) /\ Len(blocks) < MaxBlocks
    BY <1>6, TypeFacts, BoundedFacts DEF ReadBlock
  <2>3. blocks' \in Seq(BOOLEAN) /\ Len(blocks') <= MaxBlocks
    BY <2>1, <2>2, TypingAssumption
  <2>4. blocks' \in BoundedSeq(BOOLEAN, MaxBlocks)
    BY <2>3, BoundedFacts
  <2> QED
    BY <1>2, <1>6, <2>4, TypeFacts DEF ReadBlock, Begun
<1>7. CASE DeviceFails \/ RecordingEnds
  <2>1. pc = "record" /\ pc' \in {"wait", "measure"} /\ UNCHANGED <<toType, typed, rec, reader, asked, arrived, blocks>>
    BY <1>7 DEF DeviceFails, RecordingEnds
  <2> QED
    BY <1>2, <2>1, TypeFacts DEF Begun
<1>8. CASE Hear
  <2>1. pc = "measure" /\ pc' \in {"say", "wait", "crashed"} /\ blocks' = <<>>
        /\ UNCHANGED <<toType, typed, rec, reader, asked, arrived>>
    BY <1>8 DEF Hear, Transcribe
  <2> QED
    BY <1>0, <1>2, <2>1, TypeFacts DEF Begun
<1>9. CASE Say
  <2>1. asked' = asked + 1 /\ pc = "say" /\ pc' = "turn"
        /\ UNCHANGED <<toType, typed, rec, reader, arrived, blocks>>
    BY <1>9 DEF Say
  <2>2. LinesSpent' /\ asked' \in Nat
    BY <2>1, TypeFacts DEF LinesSpent, Begun
  <2> QED
    BY <2>1, <2>2, TypeFacts, TypesOf
<1>10. CASE WholeClip \/ ChunkEnds \/ \E n \in 1 .. Bytes : NetworkBlock(n)
  <2>1. arrived' \in 0 .. Bytes
    <3>1. CASE WholeClip \/ ChunkEnds
      BY <3>1, SoundAssumption DEF WholeClip, ChunkEnds
    <3>2. CASE \E n \in 1 .. Bytes : NetworkBlock(n)
      <4>1. PICK n \in 1 .. Bytes : arrived' = arrived + n /\ arrived + n <= Bytes
        BY <3>2 DEF NetworkBlock
      <4> QED
        BY <4>1, TypeFacts, SoundAssumption
    <3> QED
      BY <1>10, <3>1, <3>2
  <2>2. UNCHANGED <<toType, typed, rec, reader, asked, pc, blocks>>
    BY <1>10 DEF WholeClip, ChunkEnds, NetworkBlock
  <2>3. Begun' = Begun /\ Begun' <= Begun
    BY <2>2 DEF Begun
  <2> QED
    BY <1>2, <2>1, <2>2, <2>3, TypeFacts
<1>11. CASE TurnEnds \/ Play
  <2>1. pc \in {"turn", "play"} /\ pc' \in {"play", "wait"}
        /\ UNCHANGED <<toType, typed, rec, reader, asked, arrived, blocks>>
    BY <1>11 DEF TurnEnds, Over, Play
  <2> QED
    BY <1>2, <2>1, TypeFacts DEF Begun
<1>12. CASE \E r \in DOMAIN reader : StopOnEnter(r)
  <2>1. PICK r \in DOMAIN reader : StopOnEnter(r)
    BY <1>12
  <2>2. /\ reader' = [reader EXCEPT ![r] = "gone"]
        /\ UNCHANGED <<toType, rec, asked, pc, arrived, blocks>>
    BY <2>1 DEF StopOnEnter
  <2>3. typed' \in Nat /\ typed' <= typed
    BY <2>1, TypeFacts DEF StopOnEnter, ReadLine
  <2>4. reader' \in [1 .. MaxTyped -> {"none", "reading", "gone"}]
    BY <2>2, TypeFacts
  <2>5. LinesSpent'
    BY <2>2, <2>3, TypeFacts DEF LinesSpent, Begun
  <2> QED
    BY <2>2, <2>4, <2>5, TypeFacts, TypesOf
<1>13. CASE UNCHANGED vars
  <2>1. UNCHANGED <<toType, typed, rec, reader, asked, arrived, blocks, pc>>
    BY <1>13 DEF vars
  <2> QED
    BY <1>2, <2>1, TypeFacts DEF Begun
<1> QED
  BY <1>1, <1>3, <1>4, <1>5, <1>6, <1>7, <1>8, <1>9, <1>10, <1>11, <1>12, <1>13
     DEF Next, Main, Turn, Ear, Listener

LEMMA InitTypes == Init => TypeInv
<1> SUFFICES ASSUME Init PROVE TypeInv
  OBVIOUS
<1>1. blocks \in BoundedSeq(BOOLEAN, MaxBlocks)
  <2>1. blocks \in Seq(BOOLEAN) /\ Len(blocks) <= MaxBlocks
    BY TypingAssumption DEF Init
  <2> QED
    BY <2>1, BoundedFacts
<1>2. LinesSpent
  BY TypingAssumption DEF Init, LinesSpent, Begun
<1> QED
  BY <1>1, <1>2, TypingAssumption, SoundAssumption DEF Init, TypeInv, TypeOK

(* Every variable has its type; as many questions are asked as lines were   *)
(* typed, at most.                                                          *)
THEOREM TypeCorrect == Spec => []TypeOK
<1>1. TypeInv /\ EntersInv' /\ SoundInv' /\ [Next]_vars => TypeInv'
  BY StepTypes
<1>2. SoundInv /\ [Next]_vars => SoundInv'
  BY StepSound
<1>3. EntersInv /\ [Next]_vars => EntersInv'
  BY StepEnters
<1>4. TypeInv => TypeOK
  BY DEF TypeInv
<1> QED
  BY <1>1, <1>2, <1>3, <1>4, InitTypes, InitSound, InitEnters, PTL DEF Spec
=============================================================================
