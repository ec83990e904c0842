------------------------ MODULE PlaybackQueue_proofs ------------------------
(***************************************************************************)
(* For turns of any length, clips of any length and any number of stops,   *)
(* pieces and gaps: the audio of a turn is played by its number, on a      *)
(* clock on which no two clips overlap, and none of it after a stop.       *)
(*                                                                         *)
(* HeardInOrder is not inductive.  PlaybackInv adds why it holds: what was *)
(* heard lies before expected and before playAt (HeardIsBehind), and what  *)
(* waits is of this turn and at its own number (WaitingInPlace).           *)
(***************************************************************************)
EXTENDS PlaybackQueue, TLAPS

(* The fields of a clip.                                                    *)
LEMMA ClipTypes ==
  ASSUME NEW c \in Clip
  PROVE  c.gen \in Nat /\ c.idx \in Index /\ c.idx \in Int /\ c.length \in Nat
<1>1. c.gen \in Nat /\ c.idx \in Index /\ c.length \in Durations
  BY DEF Clip
<1>2. Index \subseteq Int /\ Durations \subseteq Nat
  BY PlaybackAssumption DEF Index
<1> QED
  BY <1>1, <1>2

(* Another source may be started behind those that were heard: it is as     *)
(* ordered as they were.                                                    *)
LEMMA AppendedSource ==
  ASSUME NEW s \in Source, heard \in Seq(Source), HeardInOrder,
         NEW n \in Nat, NEW p \in Nat,
         \A i \in DOMAIN heard : heard[i].clip.idx < n /\ heard[i].end <= p,
         s.clip.idx = n, p <= s.at, s.at <= s.end,
         NEW h, h = Append(heard, s)
  PROVE  /\ h \in Seq(Source)
         /\ \A i, j \in DOMAIN h : i < j =>
              h[i].clip.idx < h[j].clip.idx /\ h[i].end <= h[j].at
         /\ \A i \in DOMAIN h : h[i].clip.idx < n + 1 /\ h[i].end <= s.end
<1>1. /\ h \in Seq(Source)
      /\ DOMAIN h = 1 .. Len(heard) + 1
      /\ DOMAIN heard = 1 .. Len(heard)
      /\ Len(heard) \in Nat
  OBVIOUS
<1>2. h[Len(heard) + 1] = s
  OBVIOUS
<1>3. \A i \in 1 .. Len(heard) : h[i] = heard[i]
  OBVIOUS
<1>4. ASSUME NEW i \in 1 .. Len(heard)
      PROVE  heard[i].end \in Nat /\ heard[i].clip.idx \in Int
  <2>1. heard[i] \in Source
    BY <1>1
  <2>2. heard[i].end \in Nat /\ heard[i].clip \in Clip
    BY <2>1 DEF Source
  <2> QED
    BY <2>2, ClipTypes
<1>5. s.end \in Nat /\ s.at \in Nat
  BY DEF Source
<1>6. ASSUME NEW i \in DOMAIN h, NEW j \in DOMAIN h, i < j
      PROVE  h[i].clip.idx < h[j].clip.idx /\ h[i].end <= h[j].at
  <2>1. i \in 1 .. Len(heard) /\ h[i] = heard[i]
    BY <1>1, <1>3, <1>6
  <2>2. CASE j = Len(heard) + 1
    BY <1>1, <1>2, <1>4, <1>5, <2>1, <2>2
  <2>3. CASE j # Len(heard) + 1
    <3>1. j \in 1 .. Len(heard) /\ h[j] = heard[j]
      BY <1>1, <1>3, <2>3
    <3> QED
      BY <1>1, <1>6, <2>1, <3>1 DEF HeardInOrder
  <2> QED
    BY <2>2, <2>3
<1>7. ASSUME NEW i \in DOMAIN h
      PROVE  h[i].clip.idx < n + 1 /\ h[i].end <= s.end
  <2>1. CASE i = Len(heard) + 1
    BY <1>2, <1>5, <2>1
  <2>2. CASE i # Len(heard) + 1
    <3>1. i \in 1 .. Len(heard) /\ h[i] = heard[i]
      BY <1>1, <1>3, <2>2
    <3> QED
      BY <1>1, <1>4, <1>5, <3>1
  <2> QED
    BY <2>1, <2>2
<1> QED
  BY <1>1, <1>6, <1>7

(* Nothing is heard, waiting or playing before the first enqueue().         *)
LEMMA PlaybackInit == Init => PlaybackInv
<1> SUFFICES ASSUME Init PROVE PlaybackInv
  OBVIOUS
<1>1. heard = <<>> /\ DOMAIN heard = {} /\ <<>> \in Seq(Source)
  BY DEF Init
<1>2. TypeOK
  <2>1. 0 \in 0 .. MaxStops /\ 0 \in 0 .. MaxIdx + 1 /\ 0 \in 0 .. MaxTime
        /\ 0 \in 0 .. MaxPieces
    BY PlaybackAssumption
  <2>2. sent \in [Index -> 0 .. MaxPieces]
    BY <2>1 DEF Init, NoneYet
  <2>3. waiting \in [Index -> Clip \cup {Absent, Null}]
    BY DEF Init
  <2> QED
    BY <1>1, <2>1, <2>2, <2>3 DEF Init, TypeOK
<1>3. HeardInOrder /\ NothingStale /\ SpeakingTold /\ HeardIsBehind
  BY <1>1 DEF Init, HeardInOrder, NothingStale, SpeakingTold, HeardIsBehind
<1>4. NothingHeldBack /\ WaitingInPlace
  BY NoClipAssumption DEF Init, NothingHeldBack, Ready, WaitingInPlace
<1> QED
  BY <1>2, <1>3, <1>4 DEF PlaybackInv

(* The part of a step that starts a clip: schedule() keeps the order.       *)
LEMMA ScheduleKeepsOrder ==
  ASSUME PlaybackInv, NEW c \in Clip, c.idx = expected, c.gen = generation,
         Schedule(c), expected' = expected + 1, generation' = generation
  PROVE  /\ playAt' \in Nat /\ live' \subseteq Source /\ told' \in BOOLEAN
         /\ heard' \in Seq(Source)
         /\ HeardInOrder' /\ NothingStale' /\ SpeakingTold' /\ HeardIsBehind'
<1> DEFINE s == [clip |-> c, at |-> StartTime, end |-> StartTime + c.length]
<1>1. /\ c.length \in Nat
      /\ StartTime \in Nat /\ playAt <= StartTime
  <2>1. c.length \in Nat /\ playAt \in Nat /\ now \in Nat
    BY ClipTypes, PlaybackAssumption DEF PlaybackInv, TypeOK
  <2> QED
    BY <2>1 DEF StartTime, Lead
<1>2. s \in Source /\ s.clip = c /\ s.at = StartTime /\ s.end \in Nat
      /\ s.at <= s.end
  BY <1>1 DEF Source
<1>3. /\ playAt' = s.end /\ live' = live \cup {s}
      /\ heard' = Append(heard, s)
      /\ told' = (told \/ live = {})
  BY DEF Schedule
<1> HIDE DEF s
<1>4. /\ heard' \in Seq(Source)
      /\ \A i, j \in DOMAIN heard' : i < j =>
           heard'[i].clip.idx < heard'[j].clip.idx /\ heard'[i].end <= heard'[j].at
      /\ \A i \in DOMAIN heard' :
           heard'[i].clip.idx < expected + 1 /\ heard'[i].end <= s.end
  <2>1. heard \in Seq(Source) /\ HeardInOrder /\ expected \in Nat /\ playAt \in Nat
    BY PlaybackAssumption DEF PlaybackInv, TypeOK
  <2>2. \A i \in DOMAIN heard :
          heard[i].clip.idx < expected /\ heard[i].end <= playAt
    BY DEF PlaybackInv, HeardIsBehind
  <2>3. s.clip.idx = expected /\ playAt <= s.at /\ s.at <= s.end
    BY <1>1, <1>2
  <2> HIDE DEF HeardInOrder
  <2> QED
    BY <1>2, <1>3, <2>1, <2>2, <2>3, AppendedSource
<1>5. HeardInOrder' /\ HeardIsBehind'
  BY <1>3, <1>4 DEF HeardInOrder, HeardIsBehind
<1>6. NothingStale'
  <2>1. /\ heard \in Seq(Source)
        /\ \A i \in DOMAIN heard : heard[i].clip.gen = generation
        /\ \A r \in live : \E i \in DOMAIN heard : r = heard[i]
    BY DEF PlaybackInv, TypeOK, NothingStale
  <2>2. /\ DOMAIN heard = 1 .. Len(heard) /\ Len(heard) \in Nat
        /\ DOMAIN heard' = 1 .. Len(heard) + 1
        /\ heard'[Len(heard) + 1] = s
        /\ \A i \in 1 .. Len(heard) : heard'[i] = heard[i]
    BY <1>2, <1>3, <2>1
  <2>3. \A i \in DOMAIN heard' : heard'[i].clip.gen = generation
    BY <1>2, <2>1, <2>2
  <2>4. \A r \in live' : \E i \in DOMAIN heard' : r = heard'[i]
    BY <1>3, <2>1, <2>2
  <2> QED
    BY <2>3, <2>4 DEF NothingStale
<1>7. SpeakingTold'
  BY <1>3 DEF PlaybackInv, SpeakingTold
<1> QED
  BY <1>2, <1>3, <1>4, <1>5, <1>6, <1>7 DEF PlaybackInv, TypeOK

(* One step of the loop of drain().                                         *)
LEMMA DrainOneStep == PlaybackInv /\ DrainOne => PlaybackInv'
<1> SUFFICES ASSUME PlaybackInv, DrainOne PROVE PlaybackInv'
  OBVIOUS
<1> DEFINE c == waiting[expected]
<1>1. /\ draining /\ expected \in Index /\ c # Absent
      /\ waiting' = [waiting EXCEPT ![expected] = Absent]
      /\ expected' = expected + 1
      /\ UNCHANGED <<generation, decoding, draining, silenced, now, sent, sounds>>
  BY DEF DrainOne, Ready
<1>2. c \in Clip \cup {Null}
  BY <1>1 DEF PlaybackInv, TypeOK
<1>3. /\ waiting' \in [Index -> Clip \cup {Absent, Null}]
      /\ expected' \in 0 .. MaxIdx + 1
  BY <1>1, PlaybackAssumption DEF PlaybackInv, TypeOK, Index
<1>4. WaitingInPlace'
  <2> SUFFICES ASSUME NEW i \in Index, waiting'[i] \in Clip
               PROVE  waiting'[i].idx = i /\ waiting'[i].gen = generation'
    BY DEF WaitingInPlace
  <2>1. i # expected /\ waiting'[i] = waiting[i]
    BY <1>1, NoClipAssumption DEF PlaybackInv, TypeOK
  <2> QED
    BY <1>1, <2>1 DEF PlaybackInv, WaitingInPlace
<1>5. NothingHeldBack'
  BY <1>1 DEF NothingHeldBack
<1>6. /\ playAt' \in Nat /\ live' \subseteq Source /\ told' \in BOOLEAN
      /\ heard' \in Seq(Source)
      /\ HeardInOrder' /\ NothingStale' /\ SpeakingTold' /\ HeardIsBehind'
  <2>1. CASE c = Null
    <3>1. UNCHANGED <<playAt, told, live, heard>> \/ Schedule(c)
      BY DEF DrainOne
    <3>2. UNCHANGED <<playAt, told, live, heard>>
      BY <2>1 DEF DrainOne
    <3>3. /\ playAt \in Nat /\ live \subseteq Source /\ told \in BOOLEAN
          /\ heard \in Seq(Source)
          /\ HeardInOrder /\ NothingStale /\ SpeakingTold /\ HeardIsBehind
      BY DEF PlaybackInv, TypeOK
    <3>4. HeardInOrder'
      BY <3>2, <3>3 DEF HeardInOrder
    <3>5. NothingStale' /\ SpeakingTold'
      BY <1>1, <3>2, <3>3 DEF NothingStale, SpeakingTold
    <3>6. HeardIsBehind'
      <4> SUFFICES ASSUME NEW i \in DOMAIN heard
                   PROVE  heard[i].clip.idx < expected + 1 /\ heard[i].end <= playAt
        BY <1>1, <3>2 DEF HeardIsBehind
      <4>1. heard[i] \in Source
        BY <3>3
      <4>2. heard[i].clip \in Clip /\ expected \in Int
        BY <1>1, <4>1, PlaybackAssumption DEF Source, Index
      <4>3. heard[i].clip.idx < expected /\ heard[i].end <= playAt
        BY <3>3 DEF HeardIsBehind
      <4> QED
        BY <4>2, <4>3, ClipTypes
    <3> QED
      BY <3>2, <3>3, <3>4, <3>5, <3>6
  <2>2. CASE c \in Clip
    <3>1. Schedule(c)
      BY <2>2, NoClipAssumption DEF DrainOne
    <3>2. c.idx = expected /\ c.gen = generation
      BY <1>1, <2>2 DEF PlaybackInv, WaitingInPlace
    <3> HIDE DEF c
    <3> QED
      BY <1>1, <2>2, <3>1, <3>2, ScheduleKeepsOrder
  <2> QED
    BY <1>2, <2>1, <2>2
<1>7. TypeOK'
  BY <1>1, <1>3, <1>6 DEF PlaybackInv, TypeOK
<1> QED
  BY <1>4, <1>5, <1>6, <1>7 DEF PlaybackInv

(* An audio event arrives and its decode begins.                            *)
LEMMA EnqueueStep == PlaybackInv /\ Enqueue => PlaybackInv'
<1> SUFFICES ASSUME PlaybackInv, Enqueue PROVE PlaybackInv'
  OBVIOUS
<1>1. PICK i \in Index, l \in Durations :
        /\ Following(i)
        /\ decoding' = decoding \cup
             {[gen |-> generation, idx |-> i, piece |-> sent[i] + 1, length |-> l]}
        /\ sent' = [sent EXCEPT ![i] = @ + 1]
  BY DEF Enqueue
<1>2. sent[i] + 1 \in 1 .. MaxPieces /\ generation \in Nat
  BY <1>1, PlaybackAssumption DEF Following, PlaybackInv, TypeOK
<1>3. decoding' \subseteq Clip
  BY <1>1, <1>2 DEF Clip, PlaybackInv, TypeOK
<1>4. sent' \in [Index -> 0 .. MaxPieces]
  <2>1. sent[i] + 1 \in 0 .. MaxPieces
    BY <1>2, PlaybackAssumption
  <2> QED
    BY <1>1, <2>1 DEF PlaybackInv, TypeOK
<1>5. UNCHANGED <<generation, expected, waiting, playAt, live, draining,
                  silenced, now, told, heard, sounds>>
  BY DEF Enqueue, fields, history
<1>6. TypeOK'
  BY <1>3, <1>4, <1>5 DEF PlaybackInv, TypeOK
<1>7. HeardInOrder' /\ NothingStale' /\ SpeakingTold'
  BY <1>5 DEF PlaybackInv, HeardInOrder, NothingStale, SpeakingTold
<1>8. NothingHeldBack' /\ WaitingInPlace' /\ HeardIsBehind'
  BY <1>5 DEF PlaybackInv, NothingHeldBack, Ready, WaitingInPlace, HeardIsBehind
<1> QED
  BY <1>6, <1>7, <1>8 DEF PlaybackInv

(* A decode comes back, in its own turn or after it was stopped.            *)
LEMMA DecodeStep ==
  ASSUME PlaybackInv, NEW c \in decoding, DecodeEnds(c)
  PROVE  PlaybackInv'
<1>1. /\ c \in Clip
      /\ decoding' \subseteq Clip
      /\ UNCHANGED <<generation, expected, playAt, live, silenced, now, told,
                     sent, heard>>
  BY DEF DecodeEnds, PlaybackInv, TypeOK
<1>2. HeardInOrder' /\ NothingStale' /\ SpeakingTold' /\ HeardIsBehind'
  BY <1>1 DEF PlaybackInv, HeardInOrder, NothingStale, SpeakingTold,
              HeardIsBehind
<1>3. CASE c.gen # generation
  <2>1. UNCHANGED <<waiting, sounds, draining>>
    BY <1>3 DEF DecodeEnds
  <2>2. TypeOK'
    BY <1>1, <2>1 DEF PlaybackInv, TypeOK
  <2>3. NothingHeldBack' /\ WaitingInPlace'
    BY <1>1, <2>1 DEF PlaybackInv, NothingHeldBack, Ready, WaitingInPlace
  <2> QED
    BY <1>2, <2>2, <2>3 DEF PlaybackInv
<1>4. CASE c.gen = generation
  <2>1. draining'
    BY <1>4 DEF DecodeEnds
  <2>2. PICK sound \in {c, Null} :
          /\ waiting' = [waiting EXCEPT ![c.idx] = sound]
          /\ sounds' = sounds \cup ({sound} \ {Null})
    BY <1>4 DEF DecodeEnds
  <2>3. c.idx \in Index
    BY <1>1, ClipTypes
  <2>4. /\ waiting' \in [Index -> Clip \cup {Absent, Null}]
        /\ sounds' \subseteq Clip
    BY <1>1, <2>2, <2>3 DEF PlaybackInv, TypeOK
  <2>5. WaitingInPlace'
    <3> SUFFICES ASSUME NEW i \in Index, waiting'[i] \in Clip
                 PROVE  waiting'[i].idx = i /\ waiting'[i].gen = generation'
      BY DEF WaitingInPlace
    <3>1. CASE i = c.idx
      <4>1. waiting'[i] = c
        BY <2>2, <2>3, <3>1, NoClipAssumption DEF PlaybackInv, TypeOK
      <4> QED
        BY <1>1, <1>4, <3>1, <4>1
    <3>2. CASE i # c.idx
      <4>1. waiting'[i] = waiting[i]
        BY <2>2, <2>3, <3>2 DEF PlaybackInv, TypeOK
      <4> QED
        BY <1>1, <4>1 DEF PlaybackInv, WaitingInPlace
    <3> QED
      BY <3>1, <3>2
  <2>6. draining' \in BOOLEAN
    BY <1>4 DEF DecodeEnds
  <2>7. TypeOK'
    BY <1>1, <2>4, <2>6 DEF PlaybackInv, TypeOK
  <2>8. NothingHeldBack'
    BY <2>1 DEF NothingHeldBack
  <2> QED
    BY <1>2, <2>5, <2>7, <2>8 DEF PlaybackInv
<1> QED
  BY <1>3, <1>4

(* drain() is through: nothing whose turn it is was left.                   *)
LEMMA DrainEndsStep == PlaybackInv /\ DrainEnds => PlaybackInv'
<1> SUFFICES ASSUME PlaybackInv, DrainEnds PROVE PlaybackInv'
  OBVIOUS
<1>1. /\ UNCHANGED <<generation, expected, waiting, playAt, live, decoding,
                     silenced, now, told, sent, heard, sounds>>
      /\ draining' \in BOOLEAN
      /\ ~Ready
  BY DEF DrainEnds, fields, history
<1>2. TypeOK'
  BY <1>1 DEF PlaybackInv, TypeOK
<1>3. HeardInOrder' /\ NothingStale' /\ SpeakingTold'
  BY <1>1 DEF PlaybackInv, HeardInOrder, NothingStale, SpeakingTold
<1>4. NothingHeldBack' /\ WaitingInPlace' /\ HeardIsBehind'
  BY <1>1 DEF PlaybackInv, NothingHeldBack, Ready, WaitingInPlace, HeardIsBehind
<1> QED
  BY <1>2, <1>3, <1>4 DEF PlaybackInv

(* A clip of the turn, or of a stopped one, reports its end.                *)
LEMMA EndedStep ==
  ASSUME PlaybackInv,
         \/ \E s \in live : Ended(s)
         \/ \E s \in silenced : EndedSilenced(s)
  PROVE  PlaybackInv'
<1>1. /\ UNCHANGED <<generation, expected, waiting, playAt, decoding, draining,
                     now, sent, heard, sounds>>
      /\ live' \subseteq live /\ silenced' \subseteq silenced
      /\ told' = (told /\ live' # {})
  BY DEF Ended, EndedSilenced, fields, history
<1>2. live' # {} => live # {}
  BY <1>1
<1>3. SpeakingTold' /\ told' \in BOOLEAN
  BY <1>1, <1>2 DEF PlaybackInv, SpeakingTold
<1>4. TypeOK'
  BY <1>1, <1>3 DEF PlaybackInv, TypeOK
<1>5. HeardInOrder' /\ NothingStale'
  BY <1>1 DEF PlaybackInv, HeardInOrder, NothingStale
<1>6. NothingHeldBack' /\ WaitingInPlace' /\ HeardIsBehind'
  BY <1>1 DEF PlaybackInv, NothingHeldBack, Ready, WaitingInPlace, HeardIsBehind
<1> QED
  BY <1>3, <1>4, <1>5, <1>6 DEF PlaybackInv

(* stop() leaves nothing of the turn behind.                                *)
LEMMA StopStep == PlaybackInv /\ Stop => PlaybackInv'
<1> SUFFICES ASSUME PlaybackInv, Stop PROVE PlaybackInv'
  OBVIOUS
<1>1. /\ heard' = <<>> /\ DOMAIN heard' = {} /\ <<>> \in Seq(Source)
      /\ live' = {} /\ told' = FALSE /\ sounds' = {}
      /\ expected' = 0 /\ playAt' = now /\ sent' = NoneYet
      /\ waiting' = [i \in Index |-> Absent]
      /\ silenced' = silenced \cup {s.clip : s \in live}
      /\ generation' = generation + 1 /\ generation < MaxStops
      /\ UNCHANGED <<decoding, draining, now>>
  BY DEF Stop
<1>2. /\ 0 \in 0 .. MaxIdx + 1 /\ 0 \in 0 .. MaxPieces
      /\ now \in Nat /\ generation' \in 0 .. MaxStops
  BY <1>1, PlaybackAssumption DEF PlaybackInv, TypeOK
<1>3. sent' \in [Index -> 0 .. MaxPieces]
  BY <1>1, <1>2 DEF NoneYet
<1>9. silenced' \subseteq Clip
  BY <1>1 DEF PlaybackInv, TypeOK, Source
<1>4. TypeOK'
  BY <1>1, <1>2, <1>3, <1>9 DEF PlaybackInv, TypeOK
<1>5. HeardInOrder' /\ NothingStale' /\ SpeakingTold' /\ HeardIsBehind'
  BY <1>1 DEF HeardInOrder, NothingStale, SpeakingTold, HeardIsBehind
<1>6. NothingHeldBack' /\ WaitingInPlace'
  BY <1>1, NoClipAssumption DEF NothingHeldBack, Ready, WaitingInPlace
<1> QED
  BY <1>4, <1>5, <1>6 DEF PlaybackInv

(* The clock disturbs nothing.                                              *)
LEMMA QuietStep == PlaybackInv /\ (Tick \/ UNCHANGED vars) => PlaybackInv'
<1> SUFFICES ASSUME PlaybackInv, Tick \/ UNCHANGED vars PROVE PlaybackInv'
  OBVIOUS
<1>1. /\ UNCHANGED <<generation, expected, waiting, playAt, live, decoding,
                     draining, silenced, told, sent, heard, sounds>>
      /\ now' \in 0 .. MaxTime
  BY PlaybackAssumption DEF Tick, vars, fields, history, PlaybackInv, TypeOK
<1>2. TypeOK'
  BY <1>1 DEF PlaybackInv, TypeOK
<1>3. HeardInOrder' /\ NothingStale' /\ SpeakingTold'
  BY <1>1 DEF PlaybackInv, HeardInOrder, NothingStale, SpeakingTold
<1>4. NothingHeldBack' /\ WaitingInPlace' /\ HeardIsBehind'
  BY <1>1 DEF PlaybackInv, NothingHeldBack, Ready, WaitingInPlace, HeardIsBehind
<1> QED
  BY <1>2, <1>3, <1>4 DEF PlaybackInv

(* PlaybackInv holds of every behaviour of the queue.                       *)
THEOREM PlaybackInvariant == Spec => []PlaybackInv
<1>1. Init => PlaybackInv
  BY PlaybackInit
<1>2. PlaybackInv /\ [Next]_vars => PlaybackInv'
  BY EnqueueStep, DecodeStep, DrainOneStep, DrainEndsStep, EndedStep, StopStep,
     QuietStep DEF Next
<1> QED
  BY <1>1, <1>2, PTL DEF Spec

(* A turn is heard in the order of its chunks and without overlap.          *)
THEOREM PlayedInOrder == Spec => []HeardInOrder
<1>1. PlaybackInv => HeardInOrder
  BY DEF PlaybackInv
<1> QED
  BY <1>1, PlaybackInvariant, PTL

(* After a stop nothing of the stopped turn starts or goes on.              *)
THEOREM StopIsFinal == Spec => []NothingStale
<1>1. PlaybackInv => NothingStale
  BY DEF PlaybackInv
<1> QED
  BY <1>1, PlaybackInvariant, PTL

(* The page knows whether there is sound.                                   *)
THEOREM PageIsTold == Spec => []SpeakingTold
<1>1. PlaybackInv => SpeakingTold
  BY DEF PlaybackInv
<1> QED
  BY <1>1, PlaybackInvariant, PTL

-----------------------------------------------------------------------------
(* A new event is the first of its chunk, which then nothing of the turn is *)
(* about, or the chunk has several.                                         *)
LEMMA EnqueueAccounted ==
  ASSUME PlaybackInv, Accounted, Enqueue
  PROVE  Accounted'
<1>1. PICK n \in Index, l \in Durations :
        /\ decoding' = decoding \cup
             {[gen |-> generation, idx |-> n, piece |-> sent[n] + 1, length |-> l]}
        /\ sent' = [sent EXCEPT ![n] = @ + 1]
  BY DEF Enqueue
<1> DEFINE new == [gen |-> generation, idx |-> n, piece |-> sent[n] + 1, length |-> l]
<1>2. /\ new.gen = generation /\ new.idx = n
      /\ generation \in Int /\ expected \in Int
  BY PlaybackAssumption DEF PlaybackInv, TypeOK
<1>3. decoding' = decoding \cup {new}
  BY <1>1
<1> HIDE DEF new
<1>4. UNCHANGED <<generation, expected, waiting, heard, sounds>>
  BY DEF Enqueue, fields, history
<1>5. Pending' = Pending \cup {new}
  BY <1>2, <1>3, <1>4 DEF Pending
<1>6. \A i \in Index : i \in Int /\ sent[i] \in Nat
  BY PlaybackAssumption DEF Index, PlaybackInv, TypeOK
<1>7. /\ sent'[n] = sent[n] + 1
      /\ \A i \in Index : i # n => sent'[i] = sent[i]
      /\ \A i \in Index : sent'[i] > 0 <=> sent[i] > 0 \/ i = n
  BY <1>1, <1>6 DEF PlaybackInv, TypeOK
<1>8. sent'[n] = 1 => /\ waiting[n] = Absent /\ expected <= n
                      /\ \A c \in Pending : c.idx # n
  BY <1>2, <1>6, <1>7 DEF Accounted, DecodesInPlace, ChunksInPlace
<1>9. \A c \in Pending : c.idx \in Index
  BY ClipTypes DEF Pending, PlaybackInv, TypeOK
<1>10. DecodesInPlace'
  <2>1. \A c \in decoding' : c.gen <= generation'
    BY <1>2, <1>3, <1>4 DEF Accounted, DecodesInPlace
  <2>2. ASSUME NEW c \in Pending'
        PROVE  /\ sent'[c.idx] > 0
               /\ sent'[c.idx] = 1 =>
                    /\ expected <= c.idx /\ waiting[c.idx] = Absent
                    /\ \A d \in Pending' : d.idx = c.idx => d = c
    <3>1. CASE c.idx = n
      BY <1>2, <1>5, <1>7, <1>8, <3>1
    <3>2. CASE c.idx # n
      <4>1. c \in Pending /\ c.idx \in Index /\ sent'[c.idx] = sent[c.idx]
        BY <1>2, <1>5, <1>7, <1>9, <3>2
      <4>2. \A d \in Pending' : d.idx = c.idx => d \in Pending
        BY <1>2, <1>5, <3>2
      <4> QED
        BY <4>1, <4>2 DEF Accounted, DecodesInPlace
    <3> QED
      BY <3>1, <3>2
  <2> QED
    BY <1>4, <2>1, <2>2 DEF DecodesInPlace
<1>11. ChunksInPlace'
  <2> SUFFICES ASSUME NEW i \in Index
               PROVE  /\ waiting[i] # Absent =>
                           sent'[i] > 0 /\ (sent'[i] = 1 => expected <= i)
                      /\ i < expected => sent'[i] > 0
                      /\ expected <= i /\ sent'[i] > 0 =>
                           waiting[i] # Absent \/ \E c \in Pending' : c.idx = i
    BY <1>4 DEF ChunksInPlace
  <2>1. CASE i = n
    BY <1>2, <1>5, <1>7, <1>8, <2>1
  <2>2. CASE i # n
    BY <1>5, <1>7, <2>2 DEF Accounted, ChunksInPlace
  <2> QED
    BY <2>1, <2>2
<1>12. SoundsInPlace'
  <2> SUFFICES ASSUME NEW c \in sounds
               PROVE  /\ sent'[c.idx] > 0
                      /\ sent'[c.idx] = 1 => Heard(c) \/ waiting[c.idx] = c
    BY <1>4 DEF SoundsInPlace, Heard
  <2>1. c.idx \in Index
    BY ClipTypes DEF PlaybackInv, TypeOK
  <2> QED
    BY <1>6, <1>7, <2>1 DEF Accounted, SoundsInPlace
<1> QED
  BY <1>10, <1>11, <1>12 DEF Accounted

(* A decode that comes back puts what it was about in its place.            *)
LEMMA DecodeAccounted ==
  ASSUME PlaybackInv, Accounted, NEW c \in decoding, DecodeEnds(c)
  PROVE  Accounted'
<1>1. /\ c \in Clip /\ c.idx \in Index
      /\ decoding' = decoding \ {c}
      /\ UNCHANGED <<generation, expected, sent, heard>>
  BY ClipTypes DEF DecodeEnds, PlaybackInv, TypeOK
<1>2. \A d \in decoding' : d.gen <= generation'
  BY <1>1 DEF Accounted, DecodesInPlace
<1>3. CASE c.gen # generation
  <2>1. UNCHANGED <<waiting, sounds>>
    BY <1>3 DEF DecodeEnds
  <2>2. Pending' = Pending
    BY <1>1, <1>3 DEF Pending
  <2>3. DecodesInPlace' /\ ChunksInPlace'
    BY <1>1, <1>2, <2>1, <2>2 DEF Accounted, DecodesInPlace, ChunksInPlace
  <2>4. SoundsInPlace'
    BY <1>1, <2>1 DEF Accounted, SoundsInPlace, Heard
  <2> QED
    BY <2>3, <2>4 DEF Accounted
<1>4. CASE c.gen = generation
  <2>1. PICK sound \in {c, Null} :
          /\ waiting' = [waiting EXCEPT ![c.idx] = sound]
          /\ sounds' = sounds \cup ({sound} \ {Null})
    BY <1>4 DEF DecodeEnds
  <2>2. c \in Pending /\ Pending' = Pending \ {c}
    BY <1>1, <1>4 DEF Pending
  <2>3. /\ sent[c.idx] > 0
        /\ sent[c.idx] = 1 => /\ expected <= c.idx /\ waiting[c.idx] = Absent
                              /\ \A d \in Pending : d.idx = c.idx => d = c
    BY <2>2 DEF Accounted, DecodesInPlace
  <2>4. sound # Absent
    BY <1>1, <2>1, NoClipAssumption
  <2>5. /\ waiting'[c.idx] = sound
        /\ \A i \in Index : i # c.idx => waiting'[i] = waiting[i]
    BY <1>1, <2>1 DEF PlaybackInv, TypeOK
  <2>6. DecodesInPlace'
    <3>1. ASSUME NEW d \in Pending'
          PROVE  /\ sent[d.idx] > 0
                 /\ sent[d.idx] = 1 =>
                      /\ expected <= d.idx /\ waiting'[d.idx] = Absent
                      /\ \A e \in Pending' : e.idx = d.idx => e = d
      <4>1. d \in Pending /\ d # c /\ d.idx \in Index
        BY <2>2, ClipTypes DEF Pending, PlaybackInv, TypeOK
      <4>2. sent[d.idx] = 1 => d.idx # c.idx
        BY <2>3, <4>1
      <4> QED
        BY <2>2, <2>5, <4>1, <4>2 DEF Accounted, DecodesInPlace
    <3> QED
      BY <1>1, <1>2, <3>1 DEF DecodesInPlace
  <2>7. ChunksInPlace'
    <3> SUFFICES ASSUME NEW i \in Index
                 PROVE  /\ waiting'[i] # Absent =>
                             sent[i] > 0 /\ (sent[i] = 1 => expected <= i)
                        /\ i < expected => sent[i] > 0
                        /\ expected <= i /\ sent[i] > 0 =>
                             waiting'[i] # Absent \/ \E d \in Pending' : d.idx = i
      BY <1>1 DEF ChunksInPlace
    <3>1. CASE i = c.idx
      BY <2>3, <2>4, <2>5, <3>1
    <3>2. CASE i # c.idx
      BY <2>2, <2>5, <3>2 DEF Accounted, ChunksInPlace
    <3> QED
      BY <3>1, <3>2
  <2>8. SoundsInPlace'
    <3> SUFFICES ASSUME NEW x \in sounds'
                 PROVE  /\ sent[x.idx] > 0
                        /\ sent[x.idx] = 1 => Heard(x) \/ waiting'[x.idx] = x
      BY <1>1 DEF SoundsInPlace, Heard
    <3>1. CASE x \in sounds
      <4>1. x \in Clip /\ x.idx \in Index
        BY <3>1, ClipTypes DEF PlaybackInv, TypeOK
      <4>2. /\ sent[x.idx] > 0
            /\ sent[x.idx] = 1 => Heard(x) \/ waiting[x.idx] = x
        BY <3>1 DEF Accounted, SoundsInPlace
      <4>3. CASE x.idx = c.idx
        BY <2>3, <4>1, <4>2, <4>3, NoClipAssumption
      <4>4. CASE x.idx # c.idx
        BY <2>5, <4>1, <4>2, <4>4
      <4> QED
        BY <4>3, <4>4
    <3>2. CASE x \notin sounds
      <4>1. x = c /\ sound = c
        BY <2>1, <3>2
      <4> QED
        BY <2>3, <2>5, <4>1
    <3> QED
      BY <3>1, <3>2
  <2> QED
    BY <2>6, <2>7, <2>8 DEF Accounted
<1> QED
  BY <1>3, <1>4

(* What leaves its place in the queue was heard, or had no sound.           *)
LEMMA DrainAccounted ==
  ASSUME PlaybackInv, Accounted, DrainOne
  PROVE  Accounted'
<1> DEFINE c == waiting[expected]
<1>1. /\ expected \in Index /\ c # Absent
      /\ waiting' = [waiting EXCEPT ![expected] = Absent]
      /\ expected' = expected + 1
      /\ UNCHANGED <<generation, decoding, sent, sounds>>
  BY DEF DrainOne, Ready
<1>2. /\ expected \in Int /\ Index \subseteq Int
      /\ c \in Clip \cup {Null}
      /\ heard \in Seq(Source)
      /\ waiting \in [Index -> Clip \cup {Absent, Null}]
  BY <1>1, PlaybackAssumption DEF PlaybackInv, TypeOK, Index
<1>3. /\ waiting'[expected] = Absent
      /\ \A i \in Index : i # expected => waiting'[i] = waiting[i]
  BY <1>1, <1>2
<1>4. Pending' = Pending
  BY <1>1 DEF Pending
<1>5. sent[expected] > 0
  BY <1>1 DEF Accounted, ChunksInPlace
<1>6. DecodesInPlace'
  <2>1. ASSUME NEW d \in Pending
        PROVE  /\ sent[d.idx] > 0
               /\ sent[d.idx] = 1 =>
                    /\ expected + 1 <= d.idx /\ waiting'[d.idx] = Absent
                    /\ \A e \in Pending : e.idx = d.idx => e = d
    <3>1. d.idx \in Index /\ d.idx \in Int
      BY ClipTypes DEF Pending, PlaybackInv, TypeOK
    <3>2. /\ sent[d.idx] > 0
          /\ sent[d.idx] = 1 =>
               /\ expected <= d.idx /\ waiting[d.idx] = Absent
               /\ \A e \in Pending : e.idx = d.idx => e = d
      BY DEF Accounted, DecodesInPlace
    <3>3. sent[d.idx] = 1 => d.idx # expected
      BY <1>1, <3>2
    <3> QED
      BY <1>2, <1>3, <3>1, <3>2, <3>3
  <2>2. \A d \in decoding : d.gen <= generation
    BY DEF Accounted, DecodesInPlace
  <2> QED
    BY <1>1, <1>4, <2>1, <2>2 DEF DecodesInPlace
<1>7. ChunksInPlace'
  <2> SUFFICES ASSUME NEW i \in Index
               PROVE  /\ waiting'[i] # Absent =>
                           sent[i] > 0 /\ (sent[i] = 1 => expected + 1 <= i)
                      /\ i < expected + 1 => sent[i] > 0
                      /\ expected + 1 <= i /\ sent[i] > 0 =>
                           waiting'[i] # Absent \/ \E d \in Pending : d.idx = i
    BY <1>1, <1>4 DEF ChunksInPlace
  <2>1. CASE i = expected
    BY <1>2, <1>3, <1>5, <2>1
  <2>2. CASE i # expected
    BY <1>2, <1>3, <2>2 DEF Accounted, ChunksInPlace
  <2> QED
    BY <2>1, <2>2
<1>8. /\ \A x : Heard(x) => \E i \in DOMAIN heard' : heard'[i].clip = x
      /\ c \in Clip => \E i \in DOMAIN heard' : heard'[i].clip = c
  <2>1. CASE c = Null
    <3>1. heard' = heard
      BY <2>1 DEF DrainOne
    <3> QED
      BY <2>1, <3>1, NoClipAssumption DEF Heard
  <2>2. CASE c \in Clip
    <3>1. c # Null
      BY <2>2, NoClipAssumption
    <3> DEFINE s == [clip |-> c, at |-> StartTime, end |-> StartTime + c.length]
    <3>2. heard' = Append(heard, s) /\ s.clip = c
      BY <3>1 DEF DrainOne, Schedule
    <3> HIDE DEF s, c
    <3>3. /\ DOMAIN heard = 1 .. Len(heard) /\ Len(heard) \in Nat
          /\ DOMAIN heard' = 1 .. Len(heard) + 1
          /\ heard'[Len(heard) + 1] = s
          /\ \A i \in 1 .. Len(heard) : heard'[i] = heard[i]
      BY <1>2, <3>2
    <3>4. \A j \in DOMAIN heard : j \in DOMAIN heard' /\ heard'[j] = heard[j]
      BY <3>3
    <3>5. \E i \in DOMAIN heard' : heard'[i].clip = c
      BY <3>2, <3>3
    <3> QED
      BY <3>4, <3>5 DEF Heard
  <2> QED
    BY <1>2, <2>1, <2>2
<1>9. SoundsInPlace'
  <2> SUFFICES ASSUME NEW x \in sounds
               PROVE  /\ sent[x.idx] > 0
                      /\ sent[x.idx] = 1 =>
                           \/ \E i \in DOMAIN heard' : heard'[i].clip = x
                           \/ waiting'[x.idx] = x
    BY <1>1 DEF SoundsInPlace, Heard
  <2>1. x \in Clip /\ x.idx \in Index
    BY ClipTypes DEF PlaybackInv, TypeOK
  <2>2. /\ sent[x.idx] > 0
        /\ sent[x.idx] = 1 => Heard(x) \/ waiting[x.idx] = x
    BY DEF Accounted, SoundsInPlace
  <2>3. waiting[x.idx] = x => \/ \E i \in DOMAIN heard' : heard'[i].clip = x
                              \/ waiting'[x.idx] = x
    BY <1>3, <1>8, <2>1
  <2> QED
    BY <1>8, <2>2, <2>3
<1> QED
  BY <1>6, <1>7, <1>9 DEF Accounted

(* A stop forgets the turn, and what is still decoding is of an older one.  *)
LEMMA StopAccounted ==
  ASSUME PlaybackInv, Accounted, Stop
  PROVE  Accounted'
<1>1. /\ generation' = generation + 1 /\ UNCHANGED decoding
      /\ waiting' = [i \in Index |-> Absent]
      /\ expected' = 0 /\ sent' = [i \in Index |-> 0] /\ sounds' = {}
  BY DEF Stop, NoneYet
<1>2. generation \in Int /\ \A c \in decoding : c.gen \in Int
  BY ClipTypes, PlaybackAssumption DEF PlaybackInv, TypeOK
<1>3. \A c \in decoding' : c.gen < generation'
  BY <1>1, <1>2 DEF Accounted, DecodesInPlace
<1>4. Pending' = {}
  BY <1>1, <1>2, <1>3 DEF Pending
<1>5. \A c \in decoding' : c.gen <= generation'
  BY <1>1, <1>2, <1>3
<1>6. DecodesInPlace'
  BY <1>4, <1>5 DEF DecodesInPlace
<1>7. ChunksInPlace'
  BY <1>1, PlaybackAssumption DEF ChunksInPlace, Index
<1>8. SoundsInPlace'
  BY <1>1 DEF SoundsInPlace
<1> QED
  BY <1>6, <1>7, <1>8 DEF Accounted

(* The other steps move nothing.                                            *)
LEMMA QuietAccounted ==
  ASSUME Accounted,
         UNCHANGED <<generation, expected, waiting, decoding, sent, heard,
                     sounds>>
  PROVE  Accounted'
<1>1. Pending' = Pending
  BY DEF Pending
<1>2. DecodesInPlace' /\ ChunksInPlace'
  BY <1>1 DEF Accounted, DecodesInPlace, ChunksInPlace
<1>3. SoundsInPlace'
  BY DEF Accounted, SoundsInPlace, Heard
<1> QED
  BY <1>2, <1>3 DEF Accounted

LEMMA StepAccounted ==
  ASSUME PlaybackInv, Accounted, [Next]_vars
  PROVE  Accounted'
<1>1. CASE Enqueue
  BY <1>1, EnqueueAccounted
<1>2. ASSUME NEW c \in decoding, DecodeEnds(c) PROVE Accounted'
  BY <1>2, DecodeAccounted
<1>3. CASE DrainOne
  BY <1>3, DrainAccounted
<1>4. CASE Stop
  BY <1>4, StopAccounted
<1>5. CASE DrainEnds \/ Tick \/ UNCHANGED vars
  BY <1>5, QuietAccounted DEF DrainEnds, Tick, vars, fields, history
<1>6. ASSUME NEW s \in live, Ended(s) PROVE Accounted'
  BY <1>6, QuietAccounted DEF Ended, history
<1>7. ASSUME NEW s \in silenced, EndedSilenced(s) PROVE Accounted'
  BY <1>7, QuietAccounted DEF EndedSilenced, fields, history
<1> QED
  BY <1>1, <1>2, <1>3, <1>4, <1>5, <1>6, <1>7 DEF Next

LEMMA InitAccounted == Init => Accounted
<1> SUFFICES ASSUME Init PROVE Accounted
  OBVIOUS
<1>1. /\ decoding = {} /\ Pending = {} /\ expected = 0 /\ sounds = {}
      /\ waiting = [i \in Index |-> Absent] /\ sent = [i \in Index |-> 0]
  BY DEF Init, Pending, NoneYet
<1>2. DecodesInPlace /\ SoundsInPlace
  BY <1>1 DEF DecodesInPlace, SoundsInPlace
<1>3. ChunksInPlace
  BY <1>1, PlaybackAssumption DEF ChunksInPlace, Index
<1> QED
  BY <1>2, <1>3 DEF Accounted

(* When the loop is over a clip that waits lies behind the chunk expected,  *)
(* which has no event, or only such as are still decoding.                  *)
LEMMA AccountedIsHeard == PlaybackInv /\ Accounted => NothingLost
<1> SUFFICES ASSUME PlaybackInv, Accounted, ~draining,
                    NEW c \in sounds, ~Heard(c), ~(sent[c.idx] > 1)
             PROVE  /\ expected < c.idx
                    /\ sent[expected] = 0 \/ \E d \in Pending : d.idx = expected
  BY DEF NothingLost
<1>1. c \in Clip /\ c.idx \in Index /\ c.idx \in Int
  BY ClipTypes DEF PlaybackInv, TypeOK
<1>2. expected \in Nat /\ MaxIdx \in Nat /\ \A i \in Index : sent[i] \in Nat
  BY PlaybackAssumption DEF PlaybackInv, TypeOK
<1>3. waiting[c.idx] = c /\ sent[c.idx] = 1
  BY <1>1, <1>2 DEF Accounted, SoundsInPlace
<1>4. expected <= c.idx
  BY <1>1, <1>3, NoClipAssumption DEF Accounted, ChunksInPlace
<1>5. expected \in Index
  BY <1>1, <1>2, <1>4 DEF Index
<1>6. waiting[expected] = Absent
  BY <1>5 DEF PlaybackInv, NothingHeldBack, Ready
<1>7. expected # c.idx
  BY <1>1, <1>3, <1>6, NoClipAssumption
<1>8. sent[expected] > 0 => \E d \in Pending : d.idx = expected
  BY <1>2, <1>5, <1>6 DEF Accounted, ChunksInPlace
<1> QED
  BY <1>1, <1>2, <1>4, <1>5, <1>7, <1>8

(* No sound is lost but for one of the two reasons NothingLost names, in    *)
(* turns of any length, with any number of events for a chunk and any gaps. *)
THEOREM HeardAsAWhole == Spec => []NothingLost
<1>1. Init => PlaybackInv /\ Accounted
  BY PlaybackInit, InitAccounted
<1>2. (PlaybackInv /\ Accounted) /\ [Next]_vars => (PlaybackInv /\ Accounted)'
  BY StepAccounted, EnqueueStep, DecodeStep, DrainOneStep, DrainEndsStep,
     EndedStep, StopStep, QuietStep DEF Next
<1>3. PlaybackInv /\ Accounted => NothingLost
  BY AccountedIsHeard
<1> QED
  BY <1>1, <1>2, <1>3, PTL DEF Spec

=============================================================================
