------------------------------ MODULE Terminal ------------------------------
(***************************************************************************)
(* The conversation in a terminal (cli/demo.py, cli/audio.py): the loop    *)
(* that reads the keyboard, the thread that waits for the Enter that ends  *)
(* a recording, the microphone, the gate in front of the recogniser, one   *)
(* turn of the pipeline at a time, and the collector that puts the audio   *)
(* of the reply together.  The voice is the streaming adapter of           *)
(* openai_compatible.py or one that answers with a whole clip (base.py):   *)
(* the bytes of a chunk come in network blocks that end anywhere.          *)
(*                                                                         *)
(* A line of the keyboard is only counted.  A recording is a sequence of   *)
(* blocks, loud or not.  A byte of audio is <<chunk, place>>; two bytes    *)
(* make a sample.  The turn itself is Turn.tla: here it yields its events  *)
(* in the order that EventStream.tla promises.                             *)
(***************************************************************************)
EXTENDS Integers, Sequences, FiniteSets, SequencesExt

CONSTANTS
  Modes,        (* the ways of running it: [mic, streams]                   *)
  MaxTyped,     (* bound: lines typed before the input ends                 *)
  MaxBlocks,    (* bound: blocks of one recording                           *)
  MaxChunks,    (* bound: chunks of one reply                               *)
  Bytes,        (* bound: bytes of one chunk's audio                        *)
  MinSilence,   (* blocks of silence that part two segments                 *)
  MinSegment,   (* loud blocks a segment needs to count                     *)
  MinSpeech,    (* blocks of speech a turn needs (min_speech_ms)            *)
  Window,       (* messages of the transcript that are read                 *)
  Keep          (* messages of it that are kept                             *)

ASSUME TypingAssumption ==
  Modes \subseteq [mic : BOOLEAN, streams : BOOLEAN] /\ MaxTyped \in Nat /\ MaxBlocks \in Nat
ASSUME StoreAssumption == Window \in Nat /\ Keep \in Nat
ASSUME SoundAssumption == MaxChunks \in Nat /\ Bytes \in Nat
ASSUME GateAssumption == MinSilence \in Nat \ {0} /\ MinSegment \in Nat

VARIABLES
  mode,         (* mic: talk instead of typing; streams: the voice hands on *)
                (* pieces as they arrive, instead of one clip a chunk       *)
  toType,       (* lines the person will still type; then the input ends    *)
  typed,        (* lines typed and not read                                 *)
  pc,           (* the main thread                                          *)
  rec,          (* recordings begun                                         *)
  reader,       (* reader[r]: the thread _stop_on_enter of recording r      *)
  stop,         (* the Events of the recordings that are set                *)
  blocks,       (* the recording: which blocks were loud                    *)
  chunk,        (* the chunk of the reply whose audio is arriving           *)
  arrived,      (* bytes of it that have arrived                            *)
  carry,        (* half a sample kept back by synth_stream                  *)
  clip,         (* ClipCollector: [pending, expected, pcm]                  *)
  asked,        (* questions asked                                          *)
  store,        (* the transcript                                           *)
  events,       (* history: the audio events of this turn                   *)
  failures,     (* history: recordings the device broke off                 *)
  taken,        (* history: lines taken, by whom                            *)
  judged        (* history: the last recording the gate judged              *)

keyVars == <<toType, typed, reader, stop, taken>>
recVars == <<rec, blocks, failures, judged>>
turnVars == <<mode, asked, chunk, arrived, carry, clip, store, events>>
vars == <<keyVars, pc, recVars, turnVars>>

NothingJudged == [blocks |-> <<>>, measured |-> FALSE, passed |-> TRUE]

NoClip == [pending |-> <<>>, expected |-> 0, pcm |-> <<>>]

Init ==
  /\ mode \in Modes
  /\ toType = MaxTyped /\ typed = 0 /\ pc = "wait" /\ rec = 0
  /\ reader = [r \in 1 .. MaxTyped |-> "none"] /\ stop = {}
  /\ blocks = <<>> /\ failures = 0 /\ judged = NothingJudged
  /\ chunk = 0 /\ arrived = 0 /\ carry = <<>> /\ clip = NoClip
  /\ asked = 0 /\ store = <<>> /\ events = <<>>
  /\ taken = [start |-> 0, send |-> 0, late |-> 0]

(****************************** The keyboard *******************************)

Type ==
  /\ toType > 0
  /\ toType' = toType - 1
  /\ typed' = typed + 1
  /\ UNCHANGED <<pc, reader, stop, taken, recVars, turnVars>>

InputOver == toType = 0 /\ typed = 0

(* A reader gets one line, or the end of the input; which of the threads    *)
(* that wait for the keyboard gets it is anybody's guess.                   *)
ReadLine == \/ typed > 0 /\ typed' = typed - 1
            \/ InputOver /\ UNCHANGED typed

Running == pc \notin {"done", "crashed"}

(* Bug: the end of the input is no Enter.                                   *)
StopOnLineOnly(r) ==
  /\ Running /\ reader[r] = "reading"
  /\ typed > 0 /\ typed' = typed - 1
  /\ reader' = [reader EXCEPT ![r] = "gone"]
  /\ stop' = stop \cup {r}
  /\ taken' = IF r = rec /\ pc = "record" THEN [taken EXCEPT !.send = @ + 1]
              ELSE [taken EXCEPT !.late = @ + 1]
  /\ UNCHANGED <<toType, pc, recVars, turnVars>>

(* The thread of recording r: one line, then the signal.                    *)
StopOnEnter(r) ==
  /\ Running /\ reader[r] = "reading"
  /\ ReadLine
  /\ reader' = [reader EXCEPT ![r] = "gone"]
  /\ stop' = stop \cup {r}
  /\ taken' = IF typed = 0 THEN taken
              ELSE IF r = rec /\ pc = "record" THEN [taken EXCEPT !.send = @ + 1]
              ELSE [taken EXCEPT !.late = @ + 1]
  /\ UNCHANGED <<toType, pc, recVars, turnVars>>

(******************************* Recording *********************************)

(* Enter: a recording begins, and a thread of its own waits for the next.   *)
BeginRecording ==
  /\ mode.mic /\ pc = "wait" /\ typed > 0
  /\ typed' = typed - 1
  /\ taken' = [taken EXCEPT !.start = @ + 1]
  /\ rec' = rec + 1
  /\ reader' = [reader EXCEPT ![rec + 1] = "reading"]
  /\ blocks' = <<>> /\ judged' = NothingJudged
  /\ pc' = "record"
  /\ UNCHANGED <<toType, stop, failures, turnVars>>

EndOfInput ==
  /\ pc = "wait" /\ InputOver
  /\ pc' = "done"
  /\ UNCHANGED <<keyVars, recVars, turnVars>>

ReadBlock ==
  /\ pc = "record" /\ rec \notin stop
  /\ Len(blocks) < MaxBlocks
  /\ \E loud \in BOOLEAN : blocks' = Append(blocks, loud)
  /\ UNCHANGED <<keyVars, pc, rec, failures, judged, turnVars>>

(* Bug: a silence ends the recording.                                       *)
StoppedBySilence == rec \in stop \/ (Len(blocks) > 1 /\ ~blocks[Len(blocks)])

Stopped == rec \in stop

RecordingEnds ==
  /\ pc = "record" /\ Stopped
  /\ pc' = IF blocks = <<>> THEN "wait" ELSE "measure"
  /\ UNCHANGED <<keyVars, recVars, turnVars>>

(* No library, no device, or one that stops working: what was recorded is   *)
(* used, and the thread that waits for Enter goes on waiting.               *)
DeviceFails ==
  /\ pc = "record" /\ rec \notin stop
  /\ failures' = failures + 1
  /\ pc' = IF blocks = <<>> THEN "wait" ELSE "measure"
  /\ UNCHANGED <<keyVars, rec, blocks, judged, turnVars>>

(***************************** Speech length *******************************)

(* Bug: the silence is not forgotten when somebody speaks again.            *)
SpeechMsGapsAddUp(bs) ==
  LET close(s) == IF s.current >= MinSegment THEN s.total + s.current ELSE s.total
      step(s, loud) ==
        IF loud THEN [s EXCEPT !.current = @ + 1]
        ELSE IF s.silence + 1 < MinSilence THEN [s EXCEPT !.silence = @ + 1]
        ELSE [total |-> close(s), current |-> 0, silence |-> s.silence + 1]
  IN close(FoldLeft(step, [total |-> 0, current |-> 0, silence |-> 0], bs))

(* speech_ms, in blocks: a short silence does not end a segment, a segment  *)
(* that is too short does not count.                                        *)
SpeechMs(bs) ==
  LET close(s) == IF s.current >= MinSegment THEN s.total + s.current ELSE s.total
      step(s, loud) ==
        IF loud THEN [s EXCEPT !.current = @ + 1, !.silence = 0]
        ELSE IF s.silence + 1 < MinSilence THEN [s EXCEPT !.silence = @ + 1]
        ELSE [total |-> close(s), current |-> 0, silence |-> s.silence + 1]
  IN close(FoldLeft(step, [total |-> 0, current |-> 0, silence |-> 0], bs))

(* A detector that could not measure lets the recording through.            *)
IsSpeech(measured) == measured => SpeechMs(blocks) >= MinSpeech

(* What the recogniser makes of a recording: words, none, or an error that  *)
(* nobody catches.                                                          *)
Transcribe == {"say", "wait", "crashed"}

(* Hear: the gate, then the recogniser.                                     *)
Hear ==
  /\ pc = "measure"
  /\ \E measured \in BOOLEAN :
       /\ judged' = [blocks |-> blocks, measured |-> measured,
                     passed |-> IsSpeech(measured)]
       /\ pc' \in IF IsSpeech(measured) THEN Transcribe ELSE {"wait"}
  /\ blocks' = <<>>
  /\ UNCHANGED <<keyVars, rec, failures, turnVars>>

(* Typed: a line is a message, unless it is blank.                          *)
ReadMessage ==
  /\ ~mode.mic /\ pc = "wait" /\ typed > 0
  /\ typed' = typed - 1
  /\ taken' = [taken EXCEPT !.start = @ + 1]
  /\ pc' \in {"say", "wait"}
  /\ UNCHANGED <<toType, reader, stop, recVars, turnVars>>

(******************************** One turn *********************************)

(* InMemoryStore.append forgets a conversation that has been quiet for too  *)
(* long, and the oldest of a long one.                                      *)
LastN(s, n) == IF Len(s) <= n THEN s ELSE SubSeq(s, Len(s) - n + 1, Len(s))
Written(role) ==
  \E kept \in {store, <<>>} :
    store' = LastN(Append(kept, [role |-> role, turn |-> asked']), Keep)

(* Session.say: the question is written down, and the turn begins.          *)
Say ==
  /\ pc = "say"
  /\ asked' = asked + 1
  /\ Written("user")
  /\ judged' = NothingJudged
  /\ pc' = "turn"
  /\ UNCHANGED <<keyVars, rec, blocks, failures, mode, chunk, arrived, carry, clip, events>>

(* What the model is given with the question: window(key)[:-1].             *)
History == Front(LastN(store, Window))

(* read_wav: the samples of a container that can be read, else none.        *)
ReadWav(piece, readable) == IF readable THEN piece ELSE <<>>

(* ClipCollector.add: a chunk waits for its number, and is taken once.  One *)
(* that cannot be read is counted with the others and has no sound; data is *)
(* what read_wav makes of the piece.                                        *)
Add(index, data) ==
  LET pending == [i \in DOMAIN clip.pending \cup {index} |->
                    IF i = index THEN data ELSE clip.pending[i]]
      next[i \in 0 .. MaxChunks + 1] == IF i \in DOMAIN pending THEN next[i + 1] ELSE i
      upto == next[clip.expected]
  IN [pending |-> [i \in DOMAIN pending \ (clip.expected .. upto - 1) |-> pending[i]],
      expected |-> upto,
      pcm |-> clip.pcm \o FlattenSeq(SubSeq([i \in 1 .. upto |->
                IF i - 1 \in DOMAIN pending THEN pending[i - 1] ELSE <<>>],
                clip.expected + 1, upto))]

(* Bug: a block is handed on as it is.                                      *)
WholeBlock(block) == block

(* A network block of n bytes: whole samples go to the callback at once, in *)
(* a container of their own (pcm16_to_wav).                                 *)
Even(block) == SubSeq(block, 1, 2 * (Len(block) \div 2))
Odd(block) == SubSeq(block, 2 * (Len(block) \div 2) + 1, Len(block))

(* An audio event, unless the piece is empty.                               *)
Hand(piece, readable) ==
  IF piece = <<>> THEN UNCHANGED <<clip, events>>
  ELSE LET data == ReadWav(piece, readable)
       IN clip' = Add(chunk, data) /\ events' = Append(events, [idx |-> chunk, data |-> data])

Body(from, to) == [i \in 1 .. to - from + 1 |-> <<chunk, from + i - 1>>]

NetworkBlock(n) ==
  /\ mode.streams
  /\ pc = "turn" /\ chunk < MaxChunks /\ arrived + n <= Bytes
  /\ LET block == carry \o Body(arrived + 1, arrived + n)
     IN Hand(Even(block), TRUE) /\ carry' = Odd(block)
  /\ arrived' = arrived + n
  /\ UNCHANGED <<keyVars, pc, recVars, mode, asked, chunk, store>>

(* The provider that cannot stream: one request, one piece: a file of whole *)
(* samples, or something the terminal cannot read.                          *)
WholeClip ==
  /\ ~mode.streams
  /\ pc = "turn" /\ chunk < MaxChunks /\ arrived = 0
  /\ \E readable \in BOOLEAN : Hand(Even(Body(1, Bytes)), readable)
  /\ arrived' = Bytes
  /\ UNCHANGED <<keyVars, pc, recVars, mode, asked, chunk, carry, store>>

(* The body ends, or breaks off: what there was has been handed on, half a  *)
(* sample is dropped.  A chunk without any sound has no audio event.        *)
ChunkEnds ==
  /\ pc = "turn" /\ chunk < MaxChunks
  /\ chunk' = chunk + 1
  /\ arrived' = 0 /\ carry' = <<>>
  /\ UNCHANGED <<keyVars, pc, recVars, mode, asked, clip, store, events>>

(* The reply is over, and is played when there is anything to play.         *)
Over ==
  /\ pc = "turn" /\ arrived = 0
  /\ chunk' = 0
  /\ IF clip.pcm # <<>> THEN pc' = "play" /\ UNCHANGED <<clip, events>>
     ELSE pc' = "wait" /\ clip' = NoClip /\ events' = <<>>
  /\ UNCHANGED <<keyVars, recVars, mode, asked, arrived, carry>>

(* Bug: a reply that failed is not written down.                            *)
TurnEndsUnwritten == Over /\ (Written("assistant") \/ UNCHANGED store)

(* done carries the reply, error leaves it empty; either way it is written  *)
(* down under its question.                                                 *)
TurnEnds == Over /\ Written("assistant")

(* Speaker.play waits for the sound card, or finds that it has none.        *)
Play ==
  /\ pc = "play"
  /\ pc' = "wait"
  /\ clip' = NoClip /\ events' = <<>>
  /\ UNCHANGED <<keyVars, recVars, mode, asked, chunk, arrived, carry, store>>

Listener == ReadBlock \/ DeviceFails \/ RecordingEnds
Ear == BeginRecording \/ Listener \/ Hear
Turn == Say \/ WholeClip \/ ChunkEnds \/ TurnEnds \/ Play
        \/ \E n \in 1 .. Bytes : NetworkBlock(n)

Main == EndOfInput \/ ReadMessage \/ Ear \/ Turn

Next ==
  \/ Type \/ Main
  \/ \E r \in DOMAIN reader : StopOnEnter(r)

(* The person types until the input ends; threads that can run do; the      *)
(* providers answer or fail in the end.                                     *)
Spec ==
  /\ Init /\ [][Next]_vars
  /\ WF_vars(Type) /\ WF_vars(EndOfInput) /\ WF_vars(ReadMessage)
  /\ WF_vars(BeginRecording) /\ WF_vars(RecordingEnds) /\ WF_vars(Hear)
  /\ WF_vars(Say) /\ WF_vars(ChunkEnds) /\ WF_vars(TurnEnds) /\ WF_vars(Play)
  /\ \A r \in 1 .. MaxTyped : WF_vars(StopOnEnter(r))

(******************************* Properties ********************************)

TypeOK ==
  /\ mode \in Modes
  /\ toType \in 0 .. MaxTyped /\ typed \in 0 .. MaxTyped - toType
  /\ pc \in {"wait", "record", "measure", "say", "turn", "play", "done", "crashed"}
  /\ reader \in [1 .. MaxTyped -> {"none", "reading", "gone"}]
  /\ rec \in 0 .. MaxTyped /\ stop \subseteq 1 .. rec
  /\ blocks \in BoundedSeq(BOOLEAN, MaxBlocks)
  /\ asked \in 0 .. MaxTyped /\ chunk \in 0 .. MaxChunks /\ arrived \in 0 .. Bytes
  /\ Len(carry) <= 1

(* No Enter goes astray: every second one starts a recording, the next one  *)
(* sends it, and silence, a long turn or the playing of a reply takes none. *)
(* Only a device that broke a recording off leaves a thread behind that     *)
(* takes one Enter more (conversation, _stop_on_enter).                     *)
EntersAccounted ==
  /\ taken.late <= failures
  /\ mode.mic /\ failures = 0 => taken.start - taken.send \in {0, 1}

(* What EntersAccounted rests on: a thread waits for the keyboard as long   *)
(* as its Event is not set, and those left behind were left by a device.    *)
Recording == pc = "record" /\ rec \notin stop
Behind == {r \in DOMAIN reader : reader[r] = "reading" /\ ~(pc = "record" /\ r = rec)}
KeysOK ==
  /\ mode \in Modes /\ toType \in Nat /\ typed \in Nat /\ rec \in Nat /\ failures \in Nat
  /\ taken \in [start : Nat, send : Nat, late : Nat]
  /\ DOMAIN reader = 1 .. MaxTyped /\ stop \subseteq 1 .. rec
  /\ \A r \in DOMAIN reader : reader[r] = "reading" => r <= rec /\ r \notin stop
LateIsBehind == taken.late + Cardinality(Behind) <= failures
SendFollows ==
  mode.mic /\ failures = 0 =>
    IF Recording THEN taken.start = taken.send + 1
    ELSE taken.start = taken.send \/ (taken.start = taken.send + 1 /\ InputOver)
EntersInv == KeysOK /\ LateIsBehind /\ SendFollows

(* The gate drops a recording exactly when it was measured and what was     *)
(* said in it, leaving out knocks and counting short pauses as part of a    *)
(* sentence, is too short (speech_ms, Ear._is_speech).                      *)
Loud(bs) == {i \in DOMAIN bs : bs[i]}
Together(bs, i, j) ==
  \A k \in i + 1 .. j - MinSilence : \E l \in k .. k + MinSilence - 1 : bs[l]
Segment(bs, i) == {j \in Loud(bs) : Together(bs, i, j) /\ Together(bs, j, i)}
Speech(bs) == {i \in Loud(bs) : Cardinality(Segment(bs, i)) >= MinSegment}
GateIsExact ==
  judged.passed <=> (judged.measured => Cardinality(Speech(judged.blocks)) >= MinSpeech)

(* What reaches the speaker is made of whole samples, wherever the network  *)
(* cut the audio: no click, and no sample put together from two chunks.     *)
Whole(s) ==
  /\ Len(s) % 2 = 0
  /\ \A i \in DOMAIN s : i % 2 = 1 => s[i][2] % 2 = 1 /\ s[i + 1] = <<s[i][1], s[i][2] + 1>>
SamplesWhole == Whole(clip.pcm)

(* What SamplesWhole rests on: the half that was kept back is the last byte *)
(* that arrived, and what waits in the clip is whole as well.               *)
SoundInv ==
  /\ chunk \in 0 .. MaxChunks /\ arrived \in Nat
  /\ carry = IF mode.streams /\ arrived % 2 = 1 THEN << <<chunk, arrived>> >> ELSE <<>>
  /\ clip.expected \in 0 .. MaxChunks + 1 /\ DOMAIN clip.pending \subseteq 0 .. MaxChunks
  /\ \A i \in DOMAIN clip.pending : clip.pending[i] \in Seq(Nat \X Nat) /\ Whole(clip.pending[i])
  /\ clip.pcm \in Seq(Nat \X Nat) /\ Whole(clip.pcm)

(* What the model is given is an exchange: every question in it is followed *)
(* by its own answer, a reply that failed included, and the last word was   *)
(* the assistant's.  The oldest question may have left the window before    *)
(* its answer (Session.say, window(key)[:-1]).                              *)
HistoryAlternates ==
  pc = "turn" =>
    \A i \in DOMAIN History :
      IF i = Len(History) THEN History[i].role = "assistant"
      ELSE History[i].role = "user" =>
             History[i + 1] = [role |-> "assistant", turn |-> History[i].turn]

(* What HistoryAlternates rests on: outside of a turn every question of the *)
(* transcript is followed by its answer, in a turn every one but the last,  *)
(* which is the one that is being answered.                                 *)
Answered(s, i) == i < Len(s) /\ s[i + 1] = [role |-> "assistant", turn |-> s[i].turn]
StoreInv ==
  /\ asked \in Nat /\ store \in Seq([role : {"user", "assistant"}, turn : Nat])
  /\ \A i \in DOMAIN store :
       store[i].role = "user" =>
         Answered(store, i) \/ (pc = "turn" /\ i = Len(store))
  /\ pc = "turn" /\ store # <<>> => store[Len(store)] = [role |-> "user", turn |-> asked]

(* The clip of a turn is what can be read of the audio of its events, in    *)
(* their order.                                                             *)
ClipIsWhole ==
  pc = "play" => clip.pcm = FlattenSeq([i \in DOMAIN events |-> events[i].data])

(* When the input ends the program does, in the middle of a recording too:  *)
(* what was recorded is sent, answered and played first.                    *)
EndsWithInput == <>(~Running)
=============================================================================
