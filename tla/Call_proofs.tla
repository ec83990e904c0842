----------------------------- MODULE Call_proofs ----------------------------
(***************************************************************************)
(* For a call of any length: the client is busy exactly while the newest   *)
(* turn streams.  It needs to be known that no two turns have a number in  *)
(* common, and none the number of a turn to come (NumbersOnce): then a     *)
(* stream that ends late is told from the newest one by its number.        *)
(*                                                                         *)
(* And what was said is sent in one turn at most: what is in hand, in a    *)
(* recording, an answer or a probe of this turn, has not been sent, and a  *)
(* turn that is sent alone takes all of it along (SaidInv).                *)
(***************************************************************************)
EXTENDS Call, SequenceTheorems, TLAPS

USE DEF recVars, micVars, replyVars, askVars

(**************************** Sets of values *******************************)

LEMMA ToSetType ==
  ASSUME NEW ring \in Seq(Nat)
  PROVE  ToSet(ring) \subseteq Nat
  BY DEF ToSet

LEMMA PushType ==
  ASSUME NEW ring \in Seq(Nat), NEW w \in Nat
  PROVE  Push(ring, w) \in Seq(Nat)
<1>1. Append(ring, w) \in Seq(Nat) /\ Append(ring, w) # <<>>
  BY AppendProperties
<1>2. Tail(Append(ring, w)) \in Seq(Nat)
  BY <1>1, HeadTailProperties
<1> QED
  BY <1>1, <1>2 DEF Push

LEMMA CursorTypes ==
  /\ ResetCursor \in Cursor
  /\ \A ring : Begun(ring) \in Cursor
  /\ \A c \in Cursor : Heard(c) \in Cursor
  BY DEF ResetCursor, Begun, Heard, Cursor, NoVerdict

LEMMA QuietType ==
  ASSUME NEW c \in Cursor
  PROVE  Quiet(c) \in Cursor /\ [Quiet(c) EXCEPT !.asked = TRUE] \in Cursor
<1>1. \A n \in Nat : \A limit : Count(n, limit) \in Nat
  BY DEF Count
<1>2. Count(c.silence, EndMs + 1) \in Nat /\ Count(c.reopen, ReopenMs) \in Nat
  BY <1>1 DEF Cursor
<1>3. Quiet(c) \in Cursor
  BY <1>2 DEF Quiet, Cursor
<1> QED
  BY <1>3 DEF Cursor

(****************************** Turns and numbers **************************)

LEMMA SameTurns ==
  ASSUME NumbersOnce, BusyIsTheTurn, UNCHANGED <<seq, busy, turns>>
  PROVE  NumbersOnce' /\ BusyIsTheTurn'
  BY DEF NumbersOnce, BusyIsTheTurn

LEMMA StopKeeps ==
  ASSUME TypeOK, NumbersOnce, StopTurn, turns' = turns
  PROVE  NumbersOnce' /\ BusyIsTheTurn'
<1>1. \A i \in DOMAIN turns : turns[i].seq \in Nat
  <2>1. \A i \in DOMAIN turns : turns[i] \in Turn
    BY DEF TypeOK
  <2> QED
    BY <2>1 DEF Turn
<1>2. \A i \in DOMAIN turns : turns[i].seq < seq'
  BY <1>1 DEF TypeOK, NumbersOnce, StopTurn
<1>3. busy' = FALSE /\ seq' \in Nat
  BY DEF StopTurn, TypeOK
<1>4. \A i \in DOMAIN turns : turns[i].seq <= seq' /\ turns[i].seq # seq'
  BY <1>1, <1>2, <1>3
<1> QED
  BY <1>3, <1>4 DEF NumbersOnce, BusyIsTheTurn

(* A turn that is sent is the newest, and streams.                          *)
LEMMA SendKeeps ==
  ASSUME TypeOK, NumbersOnce, NEW said \in SUBSET Nat, NEW heard \in SUBSET Nat, Send(said, heard)
  PROVE  NumbersOnce' /\ BusyIsTheTurn' /\ turns' \in Seq(Turn)
<1> DEFINE n == Len(turns) + 1
           new == [seq |-> seq', words |-> said, heard |-> heard,
                   alone |-> Alone, streaming |-> TRUE, sounds |-> 0]
<1>1. turns \in Seq(Turn) /\ seq \in Nat /\ seq' = seq + 1 /\ busy' = TRUE
  BY DEF TypeOK, Send
<1>2. turns' = Append(turns, new)
  BY DEF Send
<1>3. new \in Turn
  BY <1>1 DEF TypeOK, Turn, Alone
<1>4. new.seq = seq' /\ new.streaming = TRUE
  OBVIOUS
<1> HIDE DEF new
<1>5. /\ turns' \in Seq(Turn) /\ DOMAIN turns' = 1 .. n /\ DOMAIN turns = 1 .. Len(turns)
      /\ turns'[n] = new /\ \A i \in 1 .. Len(turns) : turns'[i] = turns[i]
      /\ n \in Nat /\ n \in 1 .. n
  BY <1>1, <1>2, <1>3
<1>6. \A i \in DOMAIN turns : turns[i].seq \in Nat /\ turns[i].seq < seq'
  <2>1. \A i \in DOMAIN turns : turns[i] \in Turn /\ turns[i].seq <= seq
    BY <1>1 DEF NumbersOnce
  <2>2. \A i \in DOMAIN turns : turns[i].seq \in Nat
    BY <2>1 DEF Turn
  <2> QED
    BY <1>1, <2>1, <2>2
<1>7. \A i \in DOMAIN turns' : i = n \/ i \in DOMAIN turns
  BY <1>5
<1>8. NumbersOnce'
  <2>1. \A i \in DOMAIN turns' : turns'[i].seq <= seq'
    BY <1>1, <1>4, <1>5, <1>6, <1>7
  <2>2. \A i, j \in DOMAIN turns' : turns'[i].seq = turns'[j].seq => i = j
    <3> SUFFICES ASSUME NEW i \in DOMAIN turns', NEW j \in DOMAIN turns',
                        turns'[i].seq = turns'[j].seq
                 PROVE  i = j
      OBVIOUS
    <3>1. CASE i \in DOMAIN turns /\ j \in DOMAIN turns
      BY <1>5, <3>1 DEF NumbersOnce
    <3>2. CASE i \in DOMAIN turns /\ j = n
      BY <1>1, <1>4, <1>5, <1>6, <3>2
    <3>3. CASE i = n /\ j \in DOMAIN turns
      BY <1>1, <1>4, <1>5, <1>6, <3>3
    <3> QED
      BY <1>7, <3>1, <3>2, <3>3
  <2> QED
    BY <2>1, <2>2 DEF NumbersOnce
<1>9. BusyIsTheTurn'
  BY <1>1, <1>4, <1>5 DEF BusyIsTheTurn
<1> QED
  BY <1>5, <1>8, <1>9

(* The end of a stream is the reply's if it was the newest one's.           *)
LEMMA EndKeeps ==
  ASSUME TypeOK, NumbersOnce, BusyIsTheTurn, NEW i \in DOMAIN turns, StreamEnds(i)
  PROVE  NumbersOnce' /\ BusyIsTheTurn' /\ turns' \in Seq(Turn)
<1>1. /\ turns \in Seq(Turn) /\ turns[i] \in Turn /\ seq' = seq
      /\ turns' = [turns EXCEPT ![i] = [turns[i] EXCEPT !.streaming = FALSE]]
      /\ busy' = IF turns[i].seq = seq THEN FALSE ELSE busy
  BY DEF TypeOK, StreamEnds, Settles
<1>2. [turns[i] EXCEPT !.streaming = FALSE] \in Turn
  BY <1>1 DEF Turn
<1>3. /\ DOMAIN turns' = DOMAIN turns /\ turns' \in Seq(Turn)
      /\ turns'[i].seq = turns[i].seq /\ turns'[i].streaming = FALSE
      /\ \A j \in DOMAIN turns : j # i => turns'[j] = turns[j]
  <2>1. turns' \in Seq(Turn) /\ DOMAIN turns' = DOMAIN turns
    BY <1>1, <1>2
  <2> QED
    BY <1>1, <2>1 DEF Turn
<1>4. \A j \in DOMAIN turns : turns'[j].seq = turns[j].seq
  BY <1>3
<1>5. NumbersOnce'
  BY <1>1, <1>3, <1>4 DEF NumbersOnce
<1>6. BusyIsTheTurn'
  <2>1. CASE turns[i].seq = seq
    <3>1. \A j \in DOMAIN turns : turns[j].seq = seq => j = i
      BY <2>1 DEF NumbersOnce
    <3> QED
      BY <1>1, <1>3, <1>4, <2>1, <3>1 DEF BusyIsTheTurn
  <2>2. CASE turns[i].seq # seq
    BY <1>1, <1>3, <1>4, <2>2 DEF BusyIsTheTurn
  <2> QED
    BY <2>1, <2>2
<1> QED
  BY <1>3, <1>5, <1>6

LEMMA SoundKeeps ==
  ASSUME TypeOK, NumbersOnce, BusyIsTheTurn, SoundBegins
  PROVE  NumbersOnce' /\ BusyIsTheTurn' /\ turns' \in Seq(Turn)
<1>1. PICK i \in DOMAIN turns : turns' = [turns EXCEPT ![i].sounds = @ + 1]
  BY DEF SoundBegins
<1>2. turns \in Seq(Turn) /\ turns[i] \in Turn /\ seq' = seq /\ busy' = busy
  BY DEF TypeOK, SoundBegins
<1>3. [turns[i] EXCEPT !.sounds = @ + 1] \in Turn
  <2>1. turns[i].sounds + 1 \in Nat
    BY <1>2 DEF Turn
  <2> QED
    BY <1>2, <2>1 DEF Turn
<1>4. /\ turns' \in Seq(Turn) /\ DOMAIN turns' = DOMAIN turns
  BY <1>1, <1>2, <1>3
<1>5. \A j \in DOMAIN turns : /\ turns'[j].seq = turns[j].seq
                             /\ turns'[j].streaming = turns[j].streaming
  BY <1>1, <1>2, <1>4 DEF Turn
<1> QED
  BY <1>2, <1>4, <1>5 DEF NumbersOnce, BusyIsTheTurn

(***************************** The other types *****************************)

MicTypes == started \in BOOLEAN /\ muted \in BOOLEAN /\ opening \in BOOLEAN /\ isOpen \in BOOLEAN
RecTypes == /\ capturing \in BOOLEAN /\ ending \in BOOLEAN
            /\ capture \subseteq Nat /\ carry \in Seq(Nat) /\ cursor \in Cursor
ReplyTypes == /\ busy \in BOOLEAN /\ seq \in Nat /\ speaking \in BOOLEAN
              /\ echo \in {"closed", "learning", "open"} /\ runMs \in Nat /\ turns \in Seq(Turn)
AskTypes == /\ probes \in Seq(Probe) /\ pending \in 0 .. Len(probes)
            /\ transcript \subseteq Nat /\ words \in Nat
            /\ ends \subseteq [at : {"probe", "turn"}, frames : SUBSET Nat, on : Nat]

LEMMA Types == TypeOK <=> MicTypes /\ RecTypes /\ ReplyTypes /\ AskTypes
  BY DEF TypeOK, MicTypes, RecTypes, ReplyTypes, AskTypes

LEMMA NothingElse ==
  /\ MicTypes /\ UNCHANGED micVars => MicTypes'
  /\ RecTypes /\ UNCHANGED recVars => RecTypes'
  /\ ReplyTypes /\ UNCHANGED replyVars => ReplyTypes'
  /\ AskTypes /\ UNCHANGED <<askVars, ends, words>> => AskTypes'
  BY DEF MicTypes, RecTypes, ReplyTypes, AskTypes

LEMMA StopTypes ==
  ASSUME ReplyTypes, StopTurn, turns' = turns
  PROVE  ReplyTypes'
<1>1. seq \in Nat /\ turns \in Seq(Turn)
  BY DEF ReplyTypes
<1>2. seq' \in Nat /\ turns' \in Seq(Turn)
  BY <1>1 DEF StopTurn
<1>3. /\ busy' \in BOOLEAN /\ speaking' \in BOOLEAN
      /\ echo' \in {"closed", "learning", "open"} /\ runMs' \in Nat
  BY DEF StopTurn
<1> QED
  BY <1>2, <1>3 DEF ReplyTypes

LEMMA SendTypes ==
  ASSUME ReplyTypes, NEW said, NEW heard, Send(said, heard), turns' \in Seq(Turn)
  PROVE  ReplyTypes'
<1>1. seq \in Nat
  BY DEF ReplyTypes
<1>2. seq' \in Nat
  BY <1>1 DEF Send
<1>3. /\ busy' \in BOOLEAN /\ speaking' \in BOOLEAN
      /\ echo' \in {"closed", "learning", "open"} /\ runMs' \in Nat
  BY DEF Send
<1> QED
  BY <1>2, <1>3 DEF ReplyTypes

(* No probe is waited for any more.                                         *)
LEMMA NoProbe ==
  ASSUME AskTypes, pending' = 0, UNCHANGED <<probes, ends>>,
         transcript' \in {transcript, {}}, words' \in Nat
  PROVE  AskTypes'
<1>1. Len(probes) \in Nat /\ probes \in Seq(Probe)
  BY DEF AskTypes
<1>2. pending' \in 0 .. Len(probes')
  BY <1>1
<1>3. transcript' \subseteq Nat /\ ends \subseteq [at : {"probe", "turn"}, frames : SUBSET Nat, on : Nat]
  BY DEF AskTypes
<1> QED
  BY <1>1, <1>2, <1>3 DEF AskTypes

LEMMA EndCaptureTypes ==
  ASSUME RecTypes, AskTypes, NEW go \in BOOLEAN, NEW frames \in SUBSET Nat, NEW c \in Cursor,
         EndCapture(go, frames, c)
  PROVE  /\ ending' \in BOOLEAN /\ cursor' \in Cursor
         /\ ends' \subseteq [at : {"probe", "turn"}, frames : SUBSET Nat, on : Nat]
<1>1. [at |-> "probe", frames |-> frames, on |-> pending]
        \in [at : {"probe", "turn"}, frames : SUBSET Nat, on : Nat]
  BY DEF AskTypes
<1> QED
  BY <1>1, CursorTypes DEF EndCapture, RecTypes, AskTypes

(********************************* One step ********************************)

LEMMA PersonKeeps ==
  ASSUME TurnsInv, Start \/ Stop \/ SetMuted \/ Say \/ Interrupt \/ Opened \/ GiveUp
                   \/ SoundEnds \/ GuardOver \/ QuietWhileBusy
  PROVE  TurnsInv'
<1>0. MicTypes /\ RecTypes /\ ReplyTypes /\ AskTypes /\ TypeOK /\ NumbersOnce /\ BusyIsTheTurn
  BY Types DEF TurnsInv
<1> SUFFICES /\ MicTypes' /\ RecTypes' /\ ReplyTypes' /\ AskTypes'
             /\ NumbersOnce' /\ BusyIsTheTurn'
  BY Types DEF TurnsInv, TypeOK, MicTypes, RecTypes, ReplyTypes, AskTypes
<1>e. <<>> \in Seq(Nat) /\ ResetCursor \in Cursor
  BY CursorTypes
<1>1. CASE Start
  <2>1. MicTypes' /\ RecTypes'
    BY <1>0, <1>1, <1>e DEF Start, MicTypes, RecTypes
  <2> QED
    BY <1>0, <1>1, <2>1, NothingElse, SameTurns DEF Start
<1>2. CASE Stop
  <2>a. words' \in Nat
    BY <1>0, <1>2 DEF Stop, AskTypes
  <2>b. MicTypes' /\ RecTypes'
    BY <1>0, <1>2, <1>e DEF Stop, MicTypes, RecTypes
  <2>1. MicTypes' /\ RecTypes' /\ AskTypes'
    BY <1>0, <1>2, <2>a, <2>b, NoProbe DEF Stop, StopTurn
  <2>2. StopTurn /\ turns' = turns
    BY <1>2 DEF Stop
  <2> QED
    BY <1>0, <2>1, <2>2, StopTypes, StopKeeps
<1>3. CASE SetMuted
  <2>1. MicTypes' /\ RecTypes'
    BY <1>0, <1>3, <1>e DEF SetMuted, MicTypes, RecTypes
  <2> QED
    BY <1>0, <1>3, <2>1, NothingElse, SameTurns DEF SetMuted
<1>4. CASE Say
  <2>1. Send({}, {}) /\ UNCHANGED <<micVars, recVars, probes, ends, words>>
    BY <1>4 DEF Say
  <2>2. NumbersOnce' /\ BusyIsTheTurn' /\ turns' \in Seq(Turn)
    BY <1>0, <2>1, SendKeeps
  <2>3. ReplyTypes' /\ AskTypes'
    <3>1. words' \in Nat /\ seq \in Nat
      BY <1>0, <2>1 DEF AskTypes, ReplyTypes
    <3>2. AskTypes'
      BY <1>0, <2>1, <3>1, NoProbe DEF Send
    <3>3. ReplyTypes'
      BY <1>0, <2>1, <2>2, SendTypes
    <3> QED
      BY <3>2, <3>3
  <2> QED
    BY <1>0, <2>1, <2>2, <2>3, NothingElse
<1>5. CASE Interrupt
  <2>1. MicTypes' /\ RecTypes' /\ AskTypes'
    BY <1>0, <1>5, <1>e DEF Interrupt, StopTurn, MicTypes, RecTypes, AskTypes
  <2>2. StopTurn /\ turns' = turns
    BY <1>5 DEF Interrupt
  <2> QED
    BY <1>0, <2>1, <2>2, StopTypes, StopKeeps
<1>6. CASE Opened
  <2>1. MicTypes'
    BY <1>0, <1>6 DEF Opened, MicTypes
  <2> QED
    BY <1>0, <1>6, <2>1, NothingElse, SameTurns DEF Opened
<1>7. CASE GiveUp
  <2>1. RecTypes'
    BY <1>0, <1>7, <1>e DEF GiveUp, RecTypes
  <2> QED
    BY <1>0, <1>7, <2>1, NothingElse, SameTurns DEF GiveUp
<1>8. CASE SoundEnds \/ GuardOver \/ QuietWhileBusy
  <2>1. UNCHANGED <<micVars, recVars, busy, seq, turns, askVars, ends, words>>
    BY <1>8 DEF SoundEnds, GuardOver, QuietWhileBusy
  <2>2. ReplyTypes'
    <3>1. speaking' \in {speaking, FALSE} /\ echo' \in {echo, "open"} /\ runMs' \in {runMs, 0}
      BY <1>8 DEF SoundEnds, GuardOver, QuietWhileBusy
    <3>2. /\ speaking \in BOOLEAN /\ echo \in {"closed", "learning", "open"} /\ runMs \in Nat
          /\ busy \in BOOLEAN /\ seq \in Nat /\ turns \in Seq(Turn)
      BY <1>0 DEF ReplyTypes
    <3>3. speaking' \in BOOLEAN
      BY <3>1, <3>2
    <3>4. echo' \in {"closed", "learning", "open"}
      BY <3>1, <3>2
    <3>5. runMs' \in Nat
      BY <3>1, <3>2
    <3> QED
      BY <2>1, <3>2, <3>3, <3>4, <3>5 DEF ReplyTypes
  <2> QED
    BY <1>0, <2>1, <2>2, NothingElse, SameTurns
<1> QED
  BY <1>1, <1>2, <1>3, <1>4, <1>5, <1>6, <1>7, <1>8

LEMMA FramesKeep ==
  ASSUME TurnsInv, WordWhileFree \/ QuietWhileFree \/ WordWhileBusy
  PROVE  TurnsInv'
<1>0. MicTypes /\ RecTypes /\ ReplyTypes /\ AskTypes /\ TypeOK /\ NumbersOnce /\ BusyIsTheTurn
  BY Types DEF TurnsInv
<1> SUFFICES /\ MicTypes' /\ RecTypes' /\ ReplyTypes' /\ AskTypes'
             /\ NumbersOnce' /\ BusyIsTheTurn'
  BY Types DEF TurnsInv, TypeOK, MicTypes, RecTypes, ReplyTypes, AskTypes
<1>e. /\ <<>> \in Seq(Nat) /\ ResetCursor \in Cursor /\ carry \in Seq(Nat)
      /\ cursor \in Cursor /\ capture \subseteq Nat /\ words + 1 \in Nat
  BY <1>0, CursorTypes DEF RecTypes, AskTypes
<1>f. Push(carry, words + 1) \in Seq(Nat) /\ ToSet(carry) \subseteq Nat
  BY <1>e, PushType, ToSetType
<1>1. CASE WordWhileFree
  <2>1. AskTypes' /\ UNCHANGED <<micVars, ending, replyVars>> /\ words' = words + 1
    BY <1>0, <1>1, <1>e DEF WordWhileFree, AskTypes
  <2>2. RecTypes'
    <3>1. CASE ~capturing /\ ending
      BY <1>0, <1>1, <1>f, <2>1, <3>1 DEF WordWhileFree, RecTypes
    <3>2. CASE ~(~capturing /\ ending)
      <4>1. /\ capturing' = TRUE
            /\ capture' = (IF capturing THEN capture ELSE ToSet(carry)) \cup {words'}
            /\ carry' = IF capturing THEN carry ELSE <<>>
            /\ cursor' = Heard(IF capturing THEN cursor ELSE Begun(carry))
        BY <1>1, <3>2 DEF WordWhileFree
      <4>2. cursor' \in Cursor
        BY <1>e, <4>1, CursorTypes
      <4>3. capture' \subseteq Nat /\ carry' \in Seq(Nat)
        BY <1>e, <1>f, <2>1, <4>1
      <4> QED
        BY <1>0, <2>1, <4>1, <4>2, <4>3 DEF RecTypes
    <3> QED
      BY <3>1, <3>2
  <2> QED
    BY <1>0, <2>1, <2>2, NothingElse, SameTurns
<1>2. CASE QuietWhileFree
  <2> DEFINE frames == IF capturing THEN capture ELSE ToSet(carry)
             c == Quiet(IF capturing THEN cursor ELSE Begun(carry))
  <2>1. frames \in SUBSET Nat
    BY <1>e, <1>f
  <2>2. c \in Cursor /\ [c EXCEPT !.asked = TRUE] \in Cursor
    BY <1>e, CursorTypes, QuietType
  <2>3. UNCHANGED <<micVars, replyVars, transcript, words>>
    BY <1>2 DEF QuietWhileFree
  <2>4. carry' \in Seq(Nat)
    BY <1>2, <1>e DEF QuietWhileFree
  <2>5. \/ /\ probes' = Append(probes, [seq |-> seq, words |-> frames, settled |-> FALSE])
           /\ pending' = Len(probes')
           /\ capturing' = TRUE /\ capture' = frames /\ cursor' = [c EXCEPT !.asked = TRUE]
           /\ UNCHANGED <<ending, ends>>
        \/ /\ UNCHANGED <<pending, probes>>
           /\ capturing' = TRUE /\ capture' = frames /\ cursor' = c /\ UNCHANGED <<ending, ends>>
        \/ /\ UNCHANGED <<pending, probes>> /\ capturing' = FALSE /\ capture' = {}
           /\ \E go \in BOOLEAN : EndCapture(go, frames, c)
    BY <1>2 DEF QuietWhileFree
  <2> HIDE DEF frames, c
  <2>6. CASE /\ probes' = Append(probes, [seq |-> seq, words |-> frames, settled |-> FALSE])
             /\ pending' = Len(probes')
             /\ capturing' = TRUE /\ capture' = frames /\ cursor' = [c EXCEPT !.asked = TRUE]
             /\ UNCHANGED <<ending, ends>>
    <3>1. [seq |-> seq, words |-> frames, settled |-> FALSE] \in Probe
      BY <1>0, <2>1 DEF Probe, ReplyTypes
    <3>2. probes' \in Seq(Probe) /\ pending' \in 0 .. Len(probes')
      BY <1>0, <2>6, <3>1 DEF AskTypes
    <3>3. RecTypes' /\ AskTypes'
      BY <1>0, <2>1, <2>2, <2>3, <2>4, <2>6, <3>2 DEF RecTypes, AskTypes
    <3> QED
      BY <1>0, <2>3, <3>3, NothingElse, SameTurns
  <2>7. CASE /\ UNCHANGED <<pending, probes>>
             /\ capturing' = TRUE /\ capture' = frames /\ cursor' = c /\ UNCHANGED <<ending, ends>>
    <3>1. RecTypes' /\ AskTypes'
      BY <1>0, <2>1, <2>2, <2>3, <2>4, <2>7 DEF RecTypes, AskTypes
    <3> QED
      BY <1>0, <2>3, <3>1, NothingElse, SameTurns
  <2>8. CASE /\ UNCHANGED <<pending, probes>> /\ capturing' = FALSE /\ capture' = {}
             /\ \E go \in BOOLEAN : EndCapture(go, frames, c)
    <3>1. /\ ending' \in BOOLEAN /\ cursor' \in Cursor
          /\ ends' \subseteq [at : {"probe", "turn"}, frames : SUBSET Nat, on : Nat]
      BY <1>0, <2>1, <2>2, <2>8, EndCaptureTypes
    <3>2. RecTypes' /\ AskTypes'
      BY <1>0, <2>3, <2>4, <2>8, <3>1 DEF RecTypes, AskTypes
    <3> QED
      BY <1>0, <2>3, <3>2, NothingElse, SameTurns
  <2> QED
    BY <2>5, <2>6, <2>7, <2>8
<1>3. CASE WordWhileBusy
  <2> DEFINE ring == Push(carry, words + 1)
  <2>1. UNCHANGED <<micVars, ending, turns, transcript, probes, ends>> /\ words' = words + 1
    BY <1>3 DEF WordWhileBusy
  <2>2. ring \in Seq(Nat) /\ ToSet(ring) \subseteq Nat
    BY <1>f, ToSetType
  <2>3. CASE BreakIn(ring)
    <3>1. StopTurn
      BY <2>3 DEF BreakIn
    <3>2. Begun(ring) \in Cursor
      BY CursorTypes
    <3> HIDE DEF ring
    <3>3. RecTypes' /\ AskTypes'
      <4>1. AskTypes'
        BY <1>0, <1>e, <2>1, <3>1, NoProbe DEF StopTurn
      <4>2. RecTypes'
        <5>1. carry' = <<>> /\ ending' = ending
          BY <2>1, <2>3 DEF BreakIn
        <5>2. CASE capturing
          BY <1>0, <1>e, <2>3, <5>1, <5>2 DEF BreakIn, RecTypes
        <5>3. CASE ~capturing
          BY <1>0, <1>e, <2>2, <2>3, <3>2, <5>1, <5>3 DEF BreakIn, RecTypes
        <5> QED
          BY <5>2, <5>3
      <4> QED
        BY <4>1, <4>2
    <3> QED
      BY <1>0, <2>1, <3>1, <3>3, StopTypes, StopKeeps, NothingElse
  <2>4. CASE /\ carry' = ring
             /\ runMs' \in {runMs, runMs + 1, 0}
             /\ UNCHANGED <<capturing, capture, cursor, pending, busy, seq, speaking, echo>>
    <3> HIDE DEF ring
    <3>1. RecTypes' /\ AskTypes' /\ ReplyTypes'
      BY <1>0, <1>e, <2>1, <2>2, <2>4 DEF RecTypes, AskTypes, ReplyTypes
    <3> QED
      BY <1>0, <2>1, <2>4, <3>1, SameTurns, NothingElse
  <2> QED
    BY <1>3, <2>3, <2>4 DEF WordWhileBusy
<1> QED
  BY <1>1, <1>2, <1>3

LEMMA AnswersKeep ==
  ASSUME TurnsInv,
         \/ SoundBegins
         \/ \E e \in ends : GoOn(e)
         \/ \E p \in DOMAIN probes : ProbeAnswers(p)
         \/ \E i \in DOMAIN turns : StreamEnds(i)
  PROVE  TurnsInv'
<1>0. MicTypes /\ RecTypes /\ ReplyTypes /\ AskTypes /\ TypeOK /\ NumbersOnce /\ BusyIsTheTurn
  BY Types DEF TurnsInv
<1> SUFFICES /\ MicTypes' /\ RecTypes' /\ ReplyTypes' /\ AskTypes'
             /\ NumbersOnce' /\ BusyIsTheTurn'
  BY Types DEF TurnsInv, TypeOK, MicTypes, RecTypes, ReplyTypes, AskTypes
<1> DEFINE End == [at : {"probe", "turn"}, frames : SUBSET Nat, on : Nat]
<1>e. /\ ResetCursor \in Cursor /\ carry \in Seq(Nat) /\ cursor \in Cursor /\ <<>> \in Seq(Nat)
      /\ ToSet(carry) \subseteq Nat /\ ends \subseteq End /\ transcript \in SUBSET Nat
  BY <1>0, CursorTypes, ToSetType DEF RecTypes, AskTypes
<1>1. CASE SoundBegins
  <2>1. NumbersOnce' /\ BusyIsTheTurn' /\ turns' \in Seq(Turn)
    BY <1>0, <1>1, SoundKeeps
  <2>2. ReplyTypes'
    BY <1>0, <1>1, <2>1 DEF SoundBegins, ReplyTypes
  <2> QED
    BY <1>0, <1>1, <2>1, <2>2, NothingElse DEF SoundBegins
<1>2. ASSUME NEW e \in ends, GoOn(e)
      PROVE  /\ MicTypes' /\ RecTypes' /\ ReplyTypes' /\ AskTypes'
             /\ NumbersOnce' /\ BusyIsTheTurn'
  <2>0. e \in End /\ e.frames \in SUBSET Nat /\ UNCHANGED <<micVars, words>>
    BY <1>2, <1>e DEF GoOn
  <2>1. CASE ~Ready(cursor)
    <3>1. /\ capturing' = TRUE /\ capture' = e.frames \cup ToSet(carry) /\ carry' = <<>>
          /\ ending' = FALSE /\ ends' = ends \ {e}
          /\ UNCHANGED <<cursor, replyVars, askVars>>
      BY <1>2, <2>1 DEF GoOn
    <3>2. RecTypes' /\ AskTypes'
      BY <1>0, <1>e, <2>0, <3>1 DEF RecTypes, AskTypes
    <3> QED
      BY <1>0, <2>0, <3>1, <3>2, NothingElse, SameTurns
  <2>2. CASE Ready(cursor) /\ transcript = {}
    <3>1. /\ cursor' = ResetCursor /\ ending' = FALSE /\ ends' = ends \ {e}
          /\ UNCHANGED <<capturing, capture, carry, replyVars, askVars>>
      BY <1>2, <2>2 DEF GoOn
    <3>2. RecTypes' /\ AskTypes'
      BY <1>0, <1>e, <2>0, <3>1 DEF RecTypes, AskTypes
    <3> QED
      BY <1>0, <2>0, <3>1, <3>2, NothingElse, SameTurns
  <2>3. CASE Ready(cursor) /\ transcript # {}
    <3>1. /\ Send(transcript, e.frames)
          /\ ends' = (ends \ {e}) \cup {[e EXCEPT !.at = "turn", !.on = Len(turns')]}
          /\ UNCHANGED <<capturing, ending, capture, carry, cursor, probes>>
      BY <1>2, <2>3 DEF GoOn
    <3>2. NumbersOnce' /\ BusyIsTheTurn' /\ turns' \in Seq(Turn)
      BY <1>0, <1>e, <2>0, <3>1, SendKeeps
    <3>3. [e EXCEPT !.at = "turn", !.on = Len(turns')] \in End
      <4>1. Len(turns') \in Nat
        BY <3>2
      <4> QED
        BY <2>0, <4>1
    <3>4. ends' \subseteq End
      BY <1>e, <3>1, <3>3
    <3>5. AskTypes'
      <4>1. Len(probes) \in Nat /\ probes' \in Seq(Probe) /\ words' \in Nat
        BY <1>0, <2>0, <3>1 DEF AskTypes
      <4>2. pending' = 0 /\ transcript' = {} /\ probes' = probes
        BY <3>1 DEF Send
      <4>3. pending' \in 0 .. Len(probes')
        BY <4>1, <4>2
      <4> QED
        BY <3>4, <4>1, <4>2, <4>3 DEF AskTypes
    <3>6. ReplyTypes'
      BY <1>0, <3>1, <3>2, SendTypes
    <3> QED
      BY <1>0, <2>0, <3>1, <3>2, <3>5, <3>6, NothingElse
  <2> QED
    BY <2>1, <2>2, <2>3
<1>3. ASSUME NEW p \in DOMAIN probes, ProbeAnswers(p)
      PROVE  /\ MicTypes' /\ RecTypes' /\ ReplyTypes' /\ AskTypes'
             /\ NumbersOnce' /\ BusyIsTheTurn'
  <2>1. /\ probes' = [probes EXCEPT ![p] = [probes[p] EXCEPT !.settled = TRUE]]
        /\ UNCHANGED <<micVars, capturing, ending, capture, carry, replyVars, pending, ends, words>>
    BY <1>3 DEF ProbeAnswers
  <2>2. probes \in Seq(Probe) /\ probes[p] \in Probe
    BY <1>0 DEF AskTypes
  <2>3. [probes[p] EXCEPT !.settled = TRUE] \in Probe /\ probes[p].words \subseteq Nat
    BY <2>2 DEF Probe
  <2>4. probes' \in Seq(Probe) /\ Len(probes') = Len(probes)
    BY <2>1, <2>2, <2>3
  <2>5. cursor' \in Cursor
    <3>1. \/ cursor' = cursor
          \/ cursor' = [cursor EXCEPT !.verdict = NoVerdict]
          \/ \E v \in {"finished", "unfinished", NoVerdict}, ms \in {"unset", "enough", "short"} :
               cursor' = [cursor EXCEPT !.verdict = v, !.voiceMs = ms]
      BY <1>3 DEF ProbeAnswers
    <3> QED
      BY <1>e, <3>1 DEF Cursor
  <2>6. transcript' \in {transcript, probes[p].words, {}}
    BY <1>3 DEF ProbeAnswers
  <2>7. RecTypes' /\ AskTypes'
    BY <1>0, <1>e, <2>1, <2>3, <2>4, <2>5, <2>6 DEF RecTypes, AskTypes
  <2> QED
    BY <1>0, <2>1, <2>7, NothingElse, SameTurns
<1>4. ASSUME NEW i \in DOMAIN turns, StreamEnds(i)
      PROVE  /\ MicTypes' /\ RecTypes' /\ ReplyTypes' /\ AskTypes'
             /\ NumbersOnce' /\ BusyIsTheTurn'
  <2>1. NumbersOnce' /\ BusyIsTheTurn' /\ turns' \in Seq(Turn)
    BY <1>0, <1>4, EndKeeps
  <2>2. /\ UNCHANGED <<micVars, capturing, capture, carry, seq, speaking, echo, runMs, askVars, words>>
        /\ ends' \subseteq ends
        /\ ending' \in {ending, FALSE} /\ cursor' \in {cursor, ResetCursor}
        /\ busy' \in {busy, FALSE}
    BY <1>4 DEF StreamEnds, Settles
  <2>3. RecTypes' /\ AskTypes' /\ ReplyTypes'
    BY <1>0, <1>e, <2>1, <2>2 DEF RecTypes, AskTypes, ReplyTypes
  <2> QED
    BY <1>0, <2>1, <2>2, <2>3, NothingElse
<1> QED
  BY <1>1, <1>2, <1>3, <1>4

LEMMA StepTurns ==
  ASSUME TurnsInv, [Next]_vars
  PROVE  TurnsInv'
<1>1. CASE UNCHANGED vars
  <2>1. MicTypes /\ RecTypes /\ ReplyTypes /\ AskTypes
    BY Types DEF TurnsInv
  <2>2. MicTypes' /\ RecTypes' /\ ReplyTypes' /\ AskTypes'
    BY <1>1, <2>1, NothingElse DEF vars
  <2>3. NumbersOnce' /\ BusyIsTheTurn'
    BY <1>1, SameTurns DEF TurnsInv, vars
  <2> QED
    BY <2>2, <2>3 DEF TurnsInv, TypeOK, MicTypes, RecTypes, ReplyTypes, AskTypes
<1>2. CASE Person
  BY <1>2, PersonKeeps, FramesKeep DEF Person
<1>3. CASE Page
  BY <1>3, PersonKeeps, FramesKeep, AnswersKeep DEF Page
<1> QED
  BY <1>1, <1>2, <1>3 DEF Next

LEMMA InitTurns == Init => TurnsInv
<1> SUFFICES ASSUME Init PROVE TurnsInv
  OBVIOUS
<1>1. ResetCursor \in Cursor
  BY CursorTypes
<1>2. TypeOK
  <2>1. MicTypes
    BY DEF Init, MicTypes
  <2>2. RecTypes
    <3>1. <<>> \in Seq(Nat) /\ {} \subseteq Nat
      OBVIOUS
    <3>2. carry \in Seq(Nat)
      BY <3>1 DEF Init
    <3>3. cursor \in Cursor
      BY <1>1 DEF Init
    <3>4. capturing \in BOOLEAN /\ ending \in BOOLEAN /\ capture \subseteq Nat
      BY DEF Init
    <3> QED
      BY <3>2, <3>3, <3>4 DEF RecTypes
  <2>3. ReplyTypes
    <3>1. <<>> \in Seq(Turn)
      OBVIOUS
    <3> QED
      BY <3>1 DEF Init, ReplyTypes
  <2>4. AskTypes
    <3>1. <<>> \in Seq(Probe) /\ Len(<<>>) = 0
      OBVIOUS
    <3>2. pending \in 0 .. Len(probes)
      BY <3>1 DEF Init
    <3>3. probes \in Seq(Probe)
      BY <3>1 DEF Init
    <3>4. transcript \subseteq Nat /\ words \in Nat /\ ends = {}
      BY DEF Init
    <3> QED
      BY <3>2, <3>3, <3>4 DEF AskTypes
  <2> QED
    BY <2>1, <2>2, <2>3, <2>4, Types
<1>3. NumbersOnce /\ BusyIsTheTurn
  BY DEF Init, NumbersOnce, BusyIsTheTurn
<1> QED
  BY <1>2, <1>3 DEF TurnsInv

(* The numbers of the turns tell whose stream it is that ends.              *)
THEOREM TurnsInvariant == Spec => []TurnsInv
<1>1. TurnsInv /\ [Next]_vars => TurnsInv'
  BY StepTurns
<1> QED
  BY <1>1, InitTurns, PTL DEF Spec

(* Every variable of a call has its type, however long it goes on.          *)
THEOREM TypeCorrect == Spec => []TypeOK
<1>1. TurnsInv => TypeOK
  BY DEF TurnsInv
<1> QED
  BY <1>1, TurnsInvariant, PTL

(* The client is busy exactly while its newest turn streams.                *)
THEOREM BusyWhileTheTurnStreams == Spec => []BusyIsTheTurn
<1>1. TurnsInv => BusyIsTheTurn
  BY DEF TurnsInv
<1> QED
  BY <1>1, TurnsInvariant, PTL

(**************************** What has been said ***************************)

LEMMA InRecorded ==
  \A w : w \in Recorded <=>
    \/ w \in capture \/ w \in transcript
    \/ \E e \in ends : e.at = "probe" /\ w \in e.frames
    \/ \E p \in DOMAIN probes : probes[p].seq = seq /\ w \in probes[p].words
  BY DEF Recorded

LEMMA InSent == \A w : w \in Sent <=> \E i \in DOMAIN turns : turns[i].alone /\ w \in turns[i].words
  BY DEF Sent

LEMMA RecordedOf ==
  /\ capture \subseteq Recorded /\ transcript \subseteq Recorded
  /\ \A e \in ends : e.at = "probe" => e.frames \subseteq Recorded
  /\ \A p \in DOMAIN probes : probes[p].seq = seq => probes[p].words \subseteq Recorded
  BY InRecorded

(* Each part of what is recorded after a step is known to come from X.      *)
LEMMA RecordedFrom ==
  ASSUME NEW X, capture' \subseteq X, transcript' \subseteq X,
         \A e \in ends' : e.at = "probe" => e.frames \subseteq X,
         \A p \in DOMAIN probes' : probes'[p].seq = seq' => probes'[p].words \subseteq X
  PROVE  Recorded' \subseteq X
<1>1. \A w : w \in Recorded' <=>
        \/ w \in capture' \/ w \in transcript'
        \/ \E e \in ends' : e.at = "probe" /\ w \in e.frames
        \/ \E p \in DOMAIN probes' : probes'[p].seq = seq' /\ w \in probes'[p].words
  BY DEF Recorded
<1> QED
  BY <1>1

LEMMA PushedWords ==
  ASSUME NEW ring \in Seq(Nat), NEW w \in Nat
  PROVE  ToSet(Push(ring, w)) \subseteq ToSet(ring) \cup {w}
<1> DEFINE all == Append(ring, w)
<1>1. /\ all \in Seq(Nat) /\ all # <<>> /\ Len(all) = Len(ring) + 1
      /\ \A i \in 1 .. Len(ring) : all[i] = ring[i]
      /\ all[Len(ring) + 1] = w /\ Len(ring) \in Nat
  BY AppendProperties
<1>2. \A i \in DOMAIN all : all[i] \in ToSet(ring) \cup {w}
  BY <1>1 DEF ToSet
<1> HIDE DEF all
<1>3. \A i \in DOMAIN Tail(all) : Tail(all)[i] \in ToSet(ring) \cup {w}
  <2>1. /\ Len(Tail(all)) = Len(all) - 1
        /\ \A i \in 1 .. Len(Tail(all)) : Tail(all)[i] = all[i + 1]
        /\ Tail(all) \in Seq(Nat)
    BY <1>1, HeadTailProperties
  <2> QED
    BY <1>1, <1>2, <2>1
<1> QED
  BY <1>2, <1>3 DEF Push, ToSet, all

LEMMA NoWords == ToSet(<<>>) = {}
  BY DEF ToSet

LEMMA SameSent ==
  ASSUME DOMAIN turns' = DOMAIN turns,
         \A i \in DOMAIN turns : turns'[i].words = turns[i].words /\ turns'[i].alone = turns[i].alone
  PROVE  Sent' = Sent /\ (NeverSentTwice => NeverSentTwice')
<1>1. Sent' = Sent
  <2>1. \A w : w \in Sent' <=> \E i \in DOMAIN turns' : turns'[i].alone /\ w \in turns'[i].words
    BY DEF Sent
  <2>2. \A w : w \in Sent' <=> w \in Sent
    BY <2>1, InSent
  <2> QED
    BY <2>2
<1> QED
  BY <1>1 DEF NeverSentTwice

(* Words that nobody sends: they are new, they go on, or they are taken     *)
(* over from the ring, which is empty then.                                 *)
LEMMA Flow ==
  ASSUME SaidInv, words \in Nat, words' \in {words, words + 1}, Sent' = Sent,
         ~capturing' => capture' = {},
         \A p \in DOMAIN probes' : probes'[p].seq <= seq',
         \/ /\ Recorded' \subseteq Recorded \cup (words + 1 .. words')
            /\ ToSet(carry') \subseteq ToSet(carry)
         \/ /\ Recorded' \subseteq Recorded
            /\ ToSet(carry') \subseteq ToSet(carry) \cup (words + 1 .. words')
         \/ /\ Recorded' \subseteq Recorded \cup ToSet(carry) \cup (words + 1 .. words')
            /\ ToSet(carry') = {}
  PROVE  SaidInv'
<1> DEFINE new == words + 1 .. words'
           R == Recorded
           T == Sent
           C == ToSet(carry)
           R1 == Recorded'
           C1 == ToSet(carry')
<1>1. /\ R \subseteq 1 .. words /\ T \subseteq 1 .. words /\ C \subseteq 1 .. words
      /\ R \cap T = {} /\ C \cap (R \cup T) = {}
  BY DEF SaidInv
<1>2. /\ 1 .. words \subseteq 1 .. words' /\ new \subseteq 1 .. words'
      /\ new \cap (1 .. words) = {}
  OBVIOUS
<1> HIDE DEF new, R, T, C, R1, C1
<1>3. \/ R1 \subseteq R \cup new /\ C1 \subseteq C
      \/ R1 \subseteq R /\ C1 \subseteq C \cup new
      \/ R1 \subseteq R \cup C \cup new /\ C1 = {}
  BY DEF R, T, C, R1, C1, new
<1>4. /\ R1 \subseteq 1 .. words' /\ T \subseteq 1 .. words' /\ C1 \subseteq 1 .. words'
  BY <1>1, <1>2, <1>3
<1>5. R1 \cap T = {} /\ C1 \cap (R1 \cup T) = {}
  BY <1>1, <1>2, <1>3
<1> QED
  BY <1>4, <1>5 DEF SaidInv, R1, T, C1

(* A turn that is sent alone says what no other one did.                    *)
LEMMA Sends ==
  ASSUME TypeOK, NeverSentTwice, NEW said, NEW heard, Send(said, heard), said \cap Sent = {}
  PROVE  /\ Sent' = Sent \cup (IF Alone THEN said ELSE {})
         /\ NeverSentTwice'
<1> DEFINE n == Len(turns)
           new == [seq |-> seq', words |-> said, heard |-> heard,
                   alone |-> Alone, streaming |-> TRUE, sounds |-> 0]
<1>1. turns \in Seq(Turn) /\ turns' = Append(turns, new)
  BY DEF TypeOK, Send
<1>2. new.words = said /\ new.alone = Alone
  OBVIOUS
<1> HIDE DEF new
<1>3. /\ DOMAIN turns = 1 .. n /\ DOMAIN turns' = 1 .. n + 1 /\ n \in Nat
      /\ turns'[n + 1] = new /\ \A i \in 1 .. n : turns'[i] = turns[i]
  <2>1. /\ Len(Append(turns, new)) = n + 1 /\ Append(turns, new)[n + 1] = new
        /\ \A i \in 1 .. n : Append(turns, new)[i] = turns[i]
        /\ DOMAIN Append(turns, new) = 1 .. n + 1
    BY <1>1
  <2> QED
    BY <1>1, <2>1
<1>4. /\ n + 1 \in DOMAIN turns'
      /\ \A i \in DOMAIN turns' : i = n + 1 \/ (i \in DOMAIN turns /\ turns'[i] = turns[i])
      /\ \A i \in DOMAIN turns : i \in DOMAIN turns' /\ turns'[i] = turns[i]
  BY <1>3
<1>5. Sent' = Sent \cup (IF Alone THEN said ELSE {})
  <2>1. \A w : w \in Sent' <=> \E i \in DOMAIN turns' : turns'[i].alone /\ w \in turns'[i].words
    BY DEF Sent
  <2>2. \A w : w \in Sent' <=> w \in Sent \/ (Alone /\ w \in said)
    BY <1>2, <1>3, <1>4, <2>1, InSent
  <2> QED
    BY <2>2
<1>6. NeverSentTwice'
  <2> SUFFICES ASSUME NEW i \in DOMAIN turns', NEW j \in DOMAIN turns',
                      i # j, turns'[i].alone, turns'[j].alone
               PROVE  turns'[i].words \cap turns'[j].words = {}
    BY DEF NeverSentTwice
  <2>1. \A k \in DOMAIN turns : turns[k].alone => turns[k].words \subseteq Sent
    BY InSent
  <2>2. CASE i \in DOMAIN turns /\ j \in DOMAIN turns
    BY <1>4, <2>2 DEF NeverSentTwice
  <2>3. CASE i = n + 1 /\ j \in DOMAIN turns
    BY <1>2, <1>3, <1>4, <2>1, <2>3
  <2>4. CASE i \in DOMAIN turns /\ j = n + 1
    BY <1>2, <1>3, <1>4, <2>1, <2>4
  <2> QED
    BY <1>4, <2>2, <2>3, <2>4
<1> QED
  BY <1>5, <1>6

LEMMA ProbeNumbers ==
  ASSUME TypeOK, SaidInv
  PROVE  /\ \A p \in DOMAIN probes : probes[p].seq \in Nat
         /\ \A p \in DOMAIN probes : probes[p].seq <= seq + 1 /\ probes[p].seq # seq + 1
<1>1. probes \in Seq(Probe) /\ seq \in Nat
  BY DEF TypeOK
<1>2. \A p \in DOMAIN probes : probes[p] \in Probe
  BY <1>1
<1>3. \A p \in DOMAIN probes : probes[p].seq \in Nat
  BY <1>2 DEF Probe
<1> QED
  BY <1>1, <1>3 DEF SaidInv

(* What is recorded is kept or dropped.                                     *)
Drops ==
  /\ probes' = probes /\ words' = words
  /\ seq' = seq \/ seq' = seq + 1
  /\ capture' = capture \/ capture' = {}
  /\ transcript' = transcript \/ transcript' = {}
  /\ capturing' = capturing \/ (capturing' = FALSE /\ capture' = {})
  /\ carry' = carry \/ carry' = <<>>
  /\ \A e \in ends' : e.at = "probe" => e \in ends

LEMMA Dropped ==
  ASSUME TypeOK, SaidInv, Sent' = Sent, Drops
  PROVE  SaidInv'
<1> USE DEF Drops
<1>1. words \in Nat /\ seq \in Nat
  BY DEF TypeOK
<1>2. ~capturing' => capture' = {}
  BY DEF SaidInv
<1>3. \A p \in DOMAIN probes' : probes'[p].seq <= seq' /\ (probes'[p].seq = seq' => seq' = seq)
  BY <1>1, ProbeNumbers DEF SaidInv
<1>4. Recorded' \subseteq Recorded
  <2>1. capture' \subseteq Recorded /\ transcript' \subseteq Recorded
    BY RecordedOf
  <2>2. \A e \in ends' : e.at = "probe" => e.frames \subseteq Recorded
    BY RecordedOf
  <2>3. \A p \in DOMAIN probes' : probes'[p].seq = seq' => probes'[p].words \subseteq Recorded
    BY <1>3, RecordedOf
  <2> QED
    BY <2>1, <2>2, <2>3, RecordedFrom
<1>5. ToSet(carry') \subseteq ToSet(carry)
  BY NoWords
<1> QED
  BY <1>1, <1>2, <1>3, <1>4, <1>5, Flow

(* With a turn that is sent alone everything goes that was recorded.        *)
LEMMA SendSaid ==
  ASSUME TypeOK, SaidInv, NeverSentTwice, NEW e \in ends, e.at = "probe",
         Send(transcript, e.frames),
         ends' \subseteq (ends \ {e}) \cup {[e EXCEPT !.at = "turn", !.on = Len(turns')]},
         UNCHANGED <<capturing, capture, carry, probes, words>>
  PROVE  SaidInv' /\ NeverSentTwice'
<1>1. /\ seq \in Nat /\ words \in Nat /\ seq' = seq + 1 /\ transcript' = {}
      /\ ends \subseteq [at : {"probe", "turn"}, frames : SUBSET Nat, on : Nat]
  BY DEF TypeOK, Send
<1>2. \A d \in ends' : d.at = "probe" => d \in ends /\ d # e
  <2>1. [e EXCEPT !.at = "turn", !.on = Len(turns')].at = "turn"
    BY <1>1
  <2> QED
    BY <2>1
<1>3. transcript \subseteq Recorded /\ transcript \cap Sent = {}
  BY RecordedOf DEF SaidInv
<1>4. Sent' = Sent \cup (IF Alone THEN transcript ELSE {}) /\ NeverSentTwice'
  BY <1>3, Sends
<1>5. CASE ~Alone
  <2>1. Sent' = Sent
    BY <1>4, <1>5
  <2>2. SaidInv'
    BY <1>1, <1>2, <2>1, Dropped DEF Drops
  <2> QED
    BY <1>4, <2>2
<1>6. CASE Alone
  <2>1. capture' = {} /\ \A d \in ends' : d.at # "probe"
    BY <1>2, <1>6 DEF Alone, SaidInv
  <2>2. \A p \in DOMAIN probes' : probes'[p].seq <= seq' /\ probes'[p].seq # seq'
    BY <1>1, ProbeNumbers
  <2>3. Recorded' \subseteq {}
    BY <1>1, <2>1, <2>2, RecordedFrom
  <2>4. Sent' = Sent \cup transcript
    BY <1>4, <1>6
  <2>5. /\ Sent' \subseteq 1 .. words /\ ToSet(carry) \subseteq 1 .. words
        /\ ToSet(carry) \cap Sent' = {}
    BY <1>3, <2>4 DEF SaidInv
  <2>6. SaidInv'
    BY <2>1, <2>2, <2>3, <2>5 DEF SaidInv
  <2> QED
    BY <1>4, <2>6
<1> QED
  BY <1>5, <1>6

(***************************** The steps again *****************************)

LEMMA SayKeepsSaid ==
  ASSUME TypeOK, SaidInv, NeverSentTwice, Say
  PROVE  SaidInv' /\ NeverSentTwice'
<1>1. Send({}, {}) /\ UNCHANGED <<micVars, recVars, probes, ends, words>>
  BY DEF Say
<1>2. Sent' = Sent /\ NeverSentTwice'
  BY <1>1, Sends
<1>3. seq' = seq + 1 /\ transcript' = {}
  BY <1>1 DEF Send
<1> QED
  BY <1>1, <1>2, <1>3, Dropped DEF Drops

LEMMA DropsKeepSaid ==
  ASSUME TypeOK, SaidInv, NeverSentTwice,
         \/ Start \/ Stop \/ SetMuted \/ Interrupt \/ Opened \/ GiveUp
         \/ SoundBegins \/ SoundEnds \/ GuardOver \/ QuietWhileBusy
         \/ \E i \in DOMAIN turns : StreamEnds(i)
         \/ UNCHANGED vars
  PROVE  SaidInv' /\ NeverSentTwice'
<1>1. turns \in Seq(Turn) /\ \A i \in DOMAIN turns : turns[i] \in Turn
  BY DEF TypeOK
<1>2. Sent' = Sent /\ NeverSentTwice'
  <2>1. CASE SoundBegins
    <3>1. PICK i \in DOMAIN turns : turns' = [turns EXCEPT ![i].sounds = @ + 1]
      BY <2>1 DEF SoundBegins
    <3>2. /\ DOMAIN turns' = DOMAIN turns
          /\ \A j \in DOMAIN turns : turns'[j].words = turns[j].words /\ turns'[j].alone = turns[j].alone
      BY <1>1, <3>1 DEF Turn
    <3> QED
      BY <3>2, SameSent
  <2>2. ASSUME NEW i \in DOMAIN turns, StreamEnds(i) PROVE Sent' = Sent /\ NeverSentTwice'
    <3>1. turns' = [turns EXCEPT ![i].streaming = FALSE]
      BY <2>2 DEF StreamEnds, Settles
    <3>2. /\ DOMAIN turns' = DOMAIN turns
          /\ \A j \in DOMAIN turns : turns'[j].words = turns[j].words /\ turns'[j].alone = turns[j].alone
      BY <1>1, <3>1 DEF Turn
    <3> QED
      BY <3>2, SameSent
  <2>3. CASE turns' = turns
    BY <2>3, SameSent
  <2> QED
    BY <2>1, <2>2, <2>3 DEF Start, Stop, SetMuted, Interrupt, Opened, GiveUp, SoundEnds, GuardOver,
       QuietWhileBusy, vars
<1>3. Drops
  <2>1. CASE Start
    BY <2>1 DEF Start, Drops
  <2>2. CASE Stop
    BY <2>2 DEF Stop, StopTurn, Drops
  <2>3. CASE SetMuted
    BY <2>3 DEF SetMuted, Drops
  <2>4. CASE Interrupt
    BY <2>4 DEF Interrupt, StopTurn, Drops
  <2>5. CASE Opened
    BY <2>5 DEF Opened, Drops
  <2>6. CASE GiveUp
    BY <2>6 DEF GiveUp, Drops
  <2>7. CASE SoundBegins \/ SoundEnds \/ GuardOver \/ QuietWhileBusy \/ UNCHANGED vars
    BY <2>7 DEF SoundBegins, SoundEnds, GuardOver, QuietWhileBusy, vars, Drops
  <2>8. ASSUME NEW i \in DOMAIN turns, StreamEnds(i) PROVE Drops
    BY <2>8 DEF StreamEnds, Settles, Drops
  <2> QED
    BY <2>1, <2>2, <2>3, <2>4, <2>5, <2>6, <2>7, <2>8
<1> QED
  BY <1>2, <1>3, Dropped

LEMMA WordsKeepSaid ==
  ASSUME TypeOK, SaidInv, NeverSentTwice, WordWhileFree \/ WordWhileBusy
  PROVE  SaidInv' /\ NeverSentTwice'
<1>1. /\ words \in Nat /\ seq \in Nat /\ carry \in Seq(Nat) /\ words' = words + 1 /\ words + 1 \in Nat
      /\ UNCHANGED <<turns, transcript, probes, ends>>
  BY DEF TypeOK, WordWhileFree, WordWhileBusy
<1>2. Sent' = Sent /\ NeverSentTwice'
  BY <1>1, SameSent
<1>3. words + 1 .. words' = {words + 1}
  BY <1>1
<1>4. ToSet(Push(carry, words + 1)) \subseteq ToSet(carry) \cup {words + 1}
  BY <1>1, PushedWords
<1>5. /\ capture \subseteq Recorded /\ transcript' \subseteq Recorded
      /\ \A e \in ends' : e.at = "probe" => e.frames \subseteq Recorded
      /\ \A p \in DOMAIN probes : probes[p].seq = seq => probes[p].words \subseteq Recorded
  BY <1>1, RecordedOf
(* The ring takes it.                                                       *)
<1>6. ASSUME carry' = Push(carry, words + 1), UNCHANGED <<capturing, capture, seq>>
      PROVE  SaidInv'
  <2>1. Recorded' \subseteq Recorded
    BY <1>1, <1>5, <1>6, RecordedFrom
  <2>2. \A p \in DOMAIN probes' : probes'[p].seq <= seq'
    BY <1>1, <1>6 DEF SaidInv
  <2>3. ~capturing' => capture' = {}
    BY <1>6 DEF SaidInv
  <2> QED
    BY <1>1, <1>2, <1>3, <1>4, <1>6, <2>1, <2>2, <2>3, Flow
(* A recording takes it, alone or with the ring.                            *)
<1>7. ASSUME capturing' = TRUE, seq' = seq \/ seq' = seq + 1,
             \/ capture' \subseteq capture \cup {words + 1} /\ carry' = carry
             \/ capture' \subseteq capture \cup ToSet(carry) \cup {words + 1} /\ carry' = <<>>
      PROVE  SaidInv'
  <2>1. \A p \in DOMAIN probes' : probes'[p].seq <= seq' /\ (probes'[p].seq = seq' => seq' = seq)
    BY <1>1, <1>7, ProbeNumbers DEF SaidInv
  <2>2. CASE capture' \subseteq capture \cup {words + 1} /\ carry' = carry
    <3> DEFINE X == Recorded \cup {words + 1}
    <3>1. /\ capture' \subseteq X /\ transcript' \subseteq X
          /\ \A e \in ends' : e.at = "probe" => e.frames \subseteq X
          /\ \A p \in DOMAIN probes' : probes'[p].seq = seq' => probes'[p].words \subseteq X
      BY <1>1, <1>5, <2>1, <2>2
    <3> HIDE DEF X
    <3>2. Recorded' \subseteq X
      BY <3>1, RecordedFrom
    <3>3. Recorded' \subseteq Recorded \cup (words + 1 .. words') /\ ToSet(carry') \subseteq ToSet(carry)
      BY <1>3, <2>2, <3>2 DEF X
    <3> QED
      BY <1>1, <1>2, <1>7, <2>1, <3>3, Flow
  <2>3. CASE capture' \subseteq capture \cup ToSet(carry) \cup {words + 1} /\ carry' = <<>>
    <3> DEFINE X == Recorded \cup ToSet(carry) \cup {words + 1}
    <3>1. /\ capture' \subseteq X /\ transcript' \subseteq X
          /\ \A e \in ends' : e.at = "probe" => e.frames \subseteq X
          /\ \A p \in DOMAIN probes' : probes'[p].seq = seq' => probes'[p].words \subseteq X
      BY <1>1, <1>5, <2>1, <2>3
    <3> HIDE DEF X
    <3>2. Recorded' \subseteq X
      BY <3>1, RecordedFrom
    <3>3. /\ Recorded' \subseteq Recorded \cup ToSet(carry) \cup (words + 1 .. words')
          /\ ToSet(carry') = {}
      BY <1>3, <2>3, <3>2, NoWords DEF X
    <3> QED
      BY <1>1, <1>2, <1>7, <2>1, <3>3, Flow
  <2> QED
    BY <1>7, <2>2, <2>3
<1>8. CASE WordWhileFree
  <2>1. CASE ~capturing /\ ending
    <3>1. carry' = Push(carry, words + 1) /\ UNCHANGED <<capturing, capture, seq>>
      BY <1>1, <1>8, <2>1 DEF WordWhileFree
    <3> QED
      BY <1>2, <1>6, <3>1
  <2>2. CASE ~(~capturing /\ ending)
    <3>1. /\ capturing' = TRUE /\ seq' = seq
          /\ capture' = (IF capturing THEN capture ELSE ToSet(carry)) \cup {words'}
          /\ carry' = IF capturing THEN carry ELSE <<>>
      BY <1>8, <2>2 DEF WordWhileFree
    <3>2. \/ capture' \subseteq capture \cup {words + 1} /\ carry' = carry
          \/ capture' \subseteq capture \cup ToSet(carry) \cup {words + 1} /\ carry' = <<>>
      BY <1>1, <3>1
    <3> QED
      BY <1>2, <1>7, <3>1, <3>2
  <2> QED
    BY <2>1, <2>2
<1>9. CASE WordWhileBusy
  <2>1. CASE BreakIn(Push(carry, words + 1))
    <3>1. \/ capture' = capture
          \/ capture' = ToSet(Push(carry, words + 1))
      BY <2>1 DEF BreakIn
    <3>2. /\ capturing' = TRUE
          /\ capture' \subseteq capture \cup ToSet(carry) \cup {words + 1}
      <4>1. capturing \in BOOLEAN
        BY DEF TypeOK
      <4>2. capturing' = TRUE
        BY <2>1, <4>1 DEF BreakIn
      <4> QED
        BY <1>4, <3>1, <4>2
    <3>3. carry' = <<>> /\ seq' = seq + 1
      BY <2>1 DEF BreakIn, StopTurn
    <3> QED
      BY <1>2, <1>7, <3>2, <3>3
  <2>2. CASE ~BreakIn(Push(carry, words + 1))
    <3>1. carry' = Push(carry, words + 1) /\ UNCHANGED <<capturing, capture, seq>>
      BY <1>9, <2>2 DEF WordWhileBusy
    <3> QED
      BY <1>2, <1>6, <3>1
  <2> QED
    BY <2>1, <2>2
<1> QED
  BY <1>8, <1>9

(* A pause asks about what is recorded, ends the recording, or goes on.     *)
LEMMA PauseKeepsSaid ==
  ASSUME TypeOK, SaidInv, NeverSentTwice, QuietWhileFree
  PROVE  SaidInv' /\ NeverSentTwice'
<1> DEFINE frames == IF capturing THEN capture ELSE ToSet(carry)
           c == Quiet(IF capturing THEN cursor ELSE Begun(carry))
           X == Recorded \cup ToSet(carry)
           Y == IF capturing THEN Recorded ELSE X
<1>1. /\ words \in Nat /\ seq \in Nat /\ seq' = seq /\ probes \in Seq(Probe)
      /\ UNCHANGED <<turns, transcript, words>>
      /\ carry' = IF capturing THEN carry ELSE <<>>
  BY DEF TypeOK, QuietWhileFree
<1>2. Sent' = Sent /\ NeverSentTwice'
  BY <1>1, SameSent
<1>3. \/ /\ probes' = Append(probes, [seq |-> seq, words |-> frames, settled |-> FALSE])
         /\ capturing' = TRUE /\ capture' = frames /\ ends' = ends
      \/ /\ probes' = probes /\ capturing' = TRUE /\ capture' = frames /\ ends' = ends
      \/ /\ probes' = probes /\ capturing' = FALSE /\ capture' = {}
         /\ \E go \in BOOLEAN : EndCapture(go, frames, c)
  BY DEF QuietWhileFree
<1> HIDE DEF c
<1>4. /\ capture \subseteq Y /\ transcript' \subseteq Y /\ frames \subseteq Y
      /\ \A e \in ends : e.at = "probe" => e.frames \subseteq Y
      /\ \A p \in DOMAIN probes : probes[p].seq = seq => probes[p].words \subseteq Y
  BY <1>1, RecordedOf
<1> HIDE DEF frames
<1>5. ~capturing' => capture' = {}
  BY <1>3
<1>6. capture' \subseteq Y
  BY <1>3, <1>4
<1>7. \A e \in ends' : e.at = "probe" => e.frames \subseteq Y
  <2>1. ends' = ends \/ ends' = ends \cup {[at |-> "probe", frames |-> frames, on |-> pending]}
    BY <1>3 DEF EndCapture
  <2> QED
    BY <1>4, <2>1
<1>8. /\ \A p \in DOMAIN probes' : probes'[p].seq <= seq'
      /\ \A p \in DOMAIN probes' : probes'[p].seq = seq' => probes'[p].words \subseteq Y
  <2>1. CASE probes' = probes
    BY <1>1, <1>4, <2>1 DEF SaidInv
  <2>2. CASE probes' = Append(probes, [seq |-> seq, words |-> frames, settled |-> FALSE])
    <3> DEFINE new == [seq |-> seq, words |-> frames, settled |-> FALSE]
               n == Len(probes)
    <3>1. new.seq = seq /\ new.words = frames
      OBVIOUS
    <3> HIDE DEF new
    <3>2. probes' = Append(probes, new)
      BY <2>2 DEF new
    <3>3. /\ DOMAIN probes' = 1 .. n + 1 /\ DOMAIN probes = 1 .. n /\ n \in Nat
          /\ probes'[n + 1] = new /\ \A p \in 1 .. n : probes'[p] = probes[p]
      BY <1>1, <3>2
    <3>4. \A p \in DOMAIN probes' : p = n + 1 \/ (p \in DOMAIN probes /\ probes'[p] = probes[p])
      BY <3>3
    <3>5. \A p \in DOMAIN probes' : probes'[p].seq <= seq'
      <4>1. \A p \in DOMAIN probes : probes[p].seq <= seq
        BY DEF SaidInv
      <4>2. probes'[n + 1].seq <= seq'
        BY <1>1, <3>1, <3>3
      <4> QED
        BY <1>1, <3>4, <4>1, <4>2
    <3>6. \A p \in DOMAIN probes' : probes'[p].seq = seq' => probes'[p].words \subseteq Y
      BY <1>1, <1>4, <3>1, <3>3, <3>4
    <3> QED
      BY <3>5, <3>6
  <2> QED
    BY <1>3, <2>1, <2>2
<1> HIDE DEF Y
<1>9. Recorded' \subseteq Y
  <2>1. \A p \in DOMAIN probes' : probes'[p].seq = seq' => probes'[p].words \subseteq Y
    BY <1>8
  <2> QED
    BY <1>4, <1>6, <1>7, <2>1, RecordedFrom
<1>10. \A p \in DOMAIN probes' : probes'[p].seq <= seq'
  BY <1>8
<1>11. CASE capturing
  <2>1. Recorded' \subseteq Recorded \cup (words + 1 .. words') /\ ToSet(carry') \subseteq ToSet(carry)
    BY <1>1, <1>9, <1>11 DEF Y
  <2> QED
    BY <1>1, <1>2, <1>5, <1>10, <2>1, Flow
<1>12. CASE ~capturing
  <2>1. /\ Recorded' \subseteq Recorded \cup ToSet(carry) \cup (words + 1 .. words')
        /\ ToSet(carry') = {}
    BY <1>1, <1>9, <1>12, NoWords DEF Y
  <2> QED
    BY <1>1, <1>2, <1>5, <1>10, <2>1, Flow
<1> QED
  BY <1>11, <1>12

LEMMA GoOnKeepsSaid ==
  ASSUME TypeOK, SaidInv, NeverSentTwice, NEW e \in ends, GoOn(e)
  PROVE  SaidInv' /\ NeverSentTwice'
<1>1. /\ words \in Nat /\ seq \in Nat /\ e.at = "probe" /\ UNCHANGED words
  BY DEF TypeOK, GoOn, Waiting
<1>2. CASE ~Ready(cursor)
  <2>1. /\ capturing' = TRUE /\ capture' = e.frames \cup ToSet(carry) /\ carry' = <<>>
        /\ ends' = ends \ {e} /\ UNCHANGED <<replyVars, askVars>>
    BY <1>2 DEF GoOn
  <2>2. Sent' = Sent /\ NeverSentTwice'
    BY <2>1, SameSent
  <2> DEFINE X == Recorded \cup ToSet(carry)
  <2>3. /\ capture' \subseteq X /\ transcript' \subseteq X
        /\ \A d \in ends' : d.at = "probe" => d.frames \subseteq X
        /\ \A p \in DOMAIN probes' : probes'[p].seq = seq' => probes'[p].words \subseteq X
    BY <1>1, <2>1, RecordedOf
  <2> HIDE DEF X
  <2>4. Recorded' \subseteq X
    BY <2>3, RecordedFrom
  <2>5. /\ Recorded' \subseteq Recorded \cup ToSet(carry) \cup (words + 1 .. words')
        /\ ToSet(carry') = {}
    BY <2>1, <2>4, NoWords DEF X
  <2>6. /\ \A p \in DOMAIN probes' : probes'[p].seq <= seq'
        /\ ~capturing' => capture' = {}
    BY <2>1 DEF SaidInv
  <2> QED
    BY <1>1, <2>2, <2>5, <2>6, Flow
<1>3. CASE Ready(cursor) /\ transcript = {}
  <2>1. ends' = ends \ {e} /\ UNCHANGED <<capturing, capture, carry, replyVars, askVars>>
    BY <1>3 DEF GoOn
  <2>2. Sent' = Sent /\ NeverSentTwice'
    BY <2>1, SameSent
  <2> QED
    BY <1>1, <2>1, <2>2, Dropped DEF Drops
<1>4. CASE Ready(cursor) /\ transcript # {}
  <2>1. /\ Send(transcript, e.frames)
        /\ ends' = (ends \ {e}) \cup {[e EXCEPT !.at = "turn", !.on = Len(turns')]}
        /\ UNCHANGED <<capturing, capture, carry, probes>>
    BY <1>4 DEF GoOn
  <2> QED
    BY <1>1, <2>1, SendSaid
<1> QED
  BY <1>2, <1>3, <1>4

(* An answer brings words of a recording of this turn, or none.             *)
LEMMA AnswerKeepsSaid ==
  ASSUME TypeOK, SaidInv, NeverSentTwice, NEW p \in DOMAIN probes, ProbeAnswers(p)
  PROVE  SaidInv' /\ NeverSentTwice'
<1>1. /\ words \in Nat /\ seq \in Nat
      /\ UNCHANGED <<capturing, capture, carry, replyVars, ends, words>>
      /\ probes \in Seq(Probe) /\ probes' = [probes EXCEPT ![p].settled = TRUE]
  BY DEF TypeOK, ProbeAnswers
<1>2. Sent' = Sent /\ NeverSentTwice'
  BY <1>1, SameSent
<1>3. /\ DOMAIN probes' = DOMAIN probes
      /\ \A q \in DOMAIN probes : probes'[q].seq = probes[q].seq /\ probes'[q].words = probes[q].words
  <2>1. \A q \in DOMAIN probes : probes[q] \in Probe
    BY <1>1
  <2> QED
    BY <1>1, <2>1 DEF Probe
<1>4. transcript' \subseteq Recorded
  <2>1. \/ transcript' = transcript \/ transcript' = {}
        \/ transcript' = probes[p].words /\ probes[p].seq = seq
    BY DEF ProbeAnswers
  <2> QED
    BY <2>1, RecordedOf
<1>5. Recorded' \subseteq Recorded
  <2>1. /\ capture' \subseteq Recorded
        /\ \A e \in ends' : e.at = "probe" => e.frames \subseteq Recorded
        /\ \A q \in DOMAIN probes' : probes'[q].seq = seq' => probes'[q].words \subseteq Recorded
    BY <1>1, <1>3, RecordedOf
  <2> QED
    BY <1>4, <2>1, RecordedFrom
<1>6. /\ \A q \in DOMAIN probes' : probes'[q].seq <= seq'
      /\ ~capturing' => capture' = {}
  BY <1>1, <1>3 DEF SaidInv
<1>7. ToSet(carry') \subseteq ToSet(carry)
  BY <1>1
<1> QED
  BY <1>1, <1>2, <1>5, <1>6, <1>7, Flow

LEMMA InitSaid == Init => SaidInv /\ NeverSentTwice
<1> SUFFICES ASSUME Init PROVE SaidInv /\ NeverSentTwice
  OBVIOUS
<1>1. /\ capture = {} /\ transcript = {} /\ ends = {} /\ probes = <<>> /\ turns = <<>> /\ carry = <<>>
  BY DEF Init
<1>2. \A w : w \notin Recorded /\ w \notin Sent
  BY <1>1, InRecorded, InSent
<1>3. Recorded = {} /\ Sent = {}
  BY <1>2
<1> QED
  BY <1>1, <1>3, NoWords DEF SaidInv, NeverSentTwice

(* What is in hand, on its way to a turn, has not been sent in one.         *)
THEOREM SaidInvariant == Spec => [](TurnsInv /\ SaidInv /\ NeverSentTwice)
<1>1. TurnsInv /\ SaidInv /\ NeverSentTwice /\ [Next]_vars => SaidInv' /\ NeverSentTwice'
  <2> SUFFICES ASSUME TypeOK, SaidInv, NeverSentTwice, [Next]_vars
               PROVE  SaidInv' /\ NeverSentTwice'
    BY DEF TurnsInv
  <2>1. CASE Person
    BY <2>1, DropsKeepSaid, SayKeepsSaid, WordsKeepSaid DEF Person
  <2>2. CASE Page
    BY <2>2, DropsKeepSaid, PauseKeepsSaid, GoOnKeepsSaid, AnswerKeepsSaid DEF Page
  <2>3. CASE UNCHANGED vars
    BY <2>3, DropsKeepSaid
  <2> QED
    BY <2>1, <2>2, <2>3 DEF Next
<1> QED
  BY <1>1, InitSaid, TurnsInvariant, PTL DEF Spec

(* What was said is sent in one turn at most.                               *)
THEOREM NothingSentTwice == Spec => []NeverSentTwice
  BY SaidInvariant, PTL
=============================================================================
