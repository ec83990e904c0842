-------------------------------- MODULE Call --------------------------------
(***************************************************************************)
(* The conversation on a page (clients/call.js, with cursor.js and what it *)
(* uses of echo.js, interrupt.js, ring.js and mic.js): recordings, the     *)
(* probes that ask the service about a pause, the turns they become, and   *)
(* the person who mutes, types, breaks in or hangs up at any moment.       *)
(*                                                                         *)
(* JavaScript runs one task at a time, and what waits for a promise goes   *)
(* on right after the task that settled it: while a recording can go on,   *)
(* nothing else happens.                                                   *)
(*                                                                         *)
(* A frame is quiet or holds a word, words are numbered.  Time is counted  *)
(* in frames.  A recording is the set of its words: their order is that of *)
(* their numbers.  The queue is PlaybackQueue.tla, here it sounds or not.  *)
(* The frames before the first word (preroll) are quiet, and left out.     *)
(***************************************************************************)
EXTENDS Integers, Sequences, FiniteSets, SequencesExt

CONSTANTS
  ProbeMs,      (* silence that makes a pause worth asking about            *)
  EndMs,        (* silence that ends a turn when nothing else can           *)
  ReopenMs,     (* silence after a verdict of "not finished"                *)
  BargeMs,      (* how long an interruption has to hold                     *)
  CarryMs,      (* what the carry ring holds                                *)
  MaxWords,     (* bound: words said                                        *)
  MaxSeq,       (* bound: turns typed and calls hung up                     *)
  MaxSounds     (* bound: stretches of sound of one reply                   *)

ASSUME ThresholdAssumption == ProbeMs \in Nat \ {0} /\ EndMs >= ProbeMs

VARIABLES
  started, muted, busy, capturing, ending, seq, pending, transcript,
  opening,      (* start() waits for the microphone                         *)
  isOpen,       (* Microphone.media                                         *)
  capture,      (* words of the recording                                   *)
  carry,        (* the ring of what was said meanwhile                      *)
  cursor,       (* SilenceCursor                                            *)
  speaking,     (* PlaybackQueue.speaking                                   *)
  echo,         (* EchoTracker: closed, learning, open                      *)
  runMs,        (* InterruptGate                                            *)
  probes,       (* probes asked, [seq, words, settled]                      *)
  turns,        (* turns sent: words, heard by their recording, alone (no   *)
                (* other recording then), streaming, sounds                 *)
  ends,         (* calls of endCapture that wait, [at, frames, on]          *)
  words         (* words said so far                                        *)

micVars == <<started, muted, opening, isOpen>>
recVars == <<capturing, ending, capture, carry, cursor>>
replyVars == <<busy, seq, speaking, echo, runMs, turns>>
askVars == <<pending, transcript, probes>>
vars == <<micVars, recVars, replyVars, askVars, ends, words>>

NoVerdict == "none"
ResetCursor == [silence |-> 0, voiced |-> FALSE, reopen |-> 0, verdict |-> NoVerdict,
                voiceMs |-> "unset", hasVoice |-> FALSE, asked |-> FALSE]

Init ==
  /\ started = FALSE /\ muted = FALSE /\ opening = FALSE /\ isOpen = FALSE
  /\ capturing = FALSE /\ ending = FALSE /\ capture = {} /\ carry = <<>>
  /\ cursor = ResetCursor
  /\ busy = FALSE /\ seq = 0 /\ speaking = FALSE /\ echo = "closed" /\ runMs = 0 /\ turns = <<>>
  /\ pending = 0 /\ transcript = {} /\ probes = <<>>
  /\ ends = {} /\ words = 0

Settled(p) == p = 0 \/ probes[p].settled
(* A recording that waits for its probe can go on.                          *)
Waiting == {e \in ends : e.at = "probe" /\ Settled(e.on)}
Idle == Waiting = {}

(****************************** The microphone *****************************)

(* start, up to its wait for the settings and the permission.               *)
Start ==
  /\ Idle /\ ~started /\ ~opening
  /\ opening' = TRUE /\ carry' = <<>>
  /\ UNCHANGED <<started, muted, isOpen, capturing, ending, capture, cursor,
                 replyVars, askVars, ends, words>>

Opened ==
  /\ Idle /\ opening
  /\ opening' = FALSE
  /\ \E ok \in BOOLEAN : isOpen' = ok /\ started' = ok
  /\ UNCHANGED <<muted, recVars, replyVars, askVars, ends, words>>

(* Stopping a turn: its number goes, and with it the right of its stream    *)
(* and of its probes to touch anything.                                     *)
StopTurn ==
  /\ seq' = seq + 1
  /\ speaking' = FALSE /\ busy' = FALSE /\ echo' = "closed" /\ runMs' = 0
  /\ pending' = 0

Stop ==
  /\ Idle /\ (started \/ opening) /\ seq < MaxSeq
  /\ started' = FALSE /\ isOpen' = FALSE
  /\ StopTurn
  /\ capturing' = FALSE /\ ending' = FALSE /\ capture' = {} /\ carry' = <<>>
  /\ UNCHANGED <<muted, opening, cursor, turns, transcript, probes, ends, words>>

SetMuted ==
  /\ Idle /\ started
  /\ muted' = ~muted
  /\ IF muted' THEN /\ capturing' = FALSE /\ ending' = FALSE
                    /\ capture' = {} /\ carry' = <<>> /\ cursor' = ResetCursor
     ELSE UNCHANGED recVars
  /\ UNCHANGED <<started, opening, isOpen, replyVars, askVars, ends, words>>

(******************************** The cursor *******************************)

(* Bug: a verdict of "not finished" holds the turn back for good.           *)
ReadyWhenFinished(c) ==
  \/ c.verdict = "finished" /\ c.silence >= ProbeMs
  \/ c.verdict = NoVerdict /\ c.silence > EndMs

(* Whether the recording has been quiet for long enough to be sent.         *)
Ready(c) ==
  \/ c.verdict = "finished" /\ c.silence >= ProbeMs
  \/ c.verdict = NoVerdict /\ c.silence > EndMs
  \/ c.verdict = "unfinished" /\ c.silence > EndMs /\ c.reopen >= ReopenMs

Enough(c) == IF c.voiceMs = "unset" THEN c.voiced ELSE c.voiceMs = "enough"

Heard(c) ==
  [c EXCEPT !.hasVoice = TRUE, !.silence = 0, !.voiced = TRUE, !.reopen = 0,
            !.verdict = NoVerdict, !.voiceMs = "unset", !.asked = FALSE]

(* Counters stop where they no longer matter.                               *)
Count(n, limit) == IF n < limit THEN n + 1 ELSE n
Quiet(c) ==
  [c EXCEPT !.silence = Count(@, EndMs + 1),
            !.reopen = IF c.verdict = "unfinished" THEN Count(@, ReopenMs) ELSE @]

Asks(c) == /\ ~c.asked /\ c.verdict # "finished" /\ c.hasVoice
           /\ Enough(c) /\ c.silence >= ProbeMs

(******************************** Recordings *******************************)

(* Counted and pushed out: the oldest of the ring goes first.               *)
Push(ring, w) ==
  LET all == Append(ring, w)
  IN IF Len(all) > CarryMs THEN Tail(all) ELSE all

(* beginCapture: a new recording, with what was heard meanwhile in front.   *)
Begun(ring) == [ResetCursor EXCEPT !.hasVoice = TRUE, !.voiced = ring # <<>>]

(* endCapture, up to its wait for the probe that is on its way.  What is  *)
(* not worth sending is dropped.                                            *)
EndCapture(send, frames, c) ==
  IF send /\ c.hasVoice
  THEN /\ ends' = ends \cup {[at |-> "probe", frames |-> frames, on |-> pending]}
       /\ ending' = TRUE /\ cursor' = c
  ELSE UNCHANGED <<ends, ending>> /\ cursor' = ResetCursor

Frames == Idle /\ started /\ isOpen /\ ~muted
Talking == busy \/ speaking

(* whileFree, a word: it begins a recording or goes on with one; while the  *)
(* last one is being finished it is kept for later.                         *)
WordWhileFree ==
  /\ Frames /\ ~Talking /\ words < MaxWords
  /\ words' = words + 1
  /\ IF ~capturing /\ ending
     THEN carry' = Push(carry, words') /\ UNCHANGED <<capturing, capture, cursor>>
     ELSE /\ capturing' = TRUE
          /\ capture' = (IF capturing THEN capture ELSE ToSet(carry)) \cup {words'}
          /\ carry' = IF capturing THEN carry ELSE <<>>
          /\ cursor' = Heard(IF capturing THEN cursor ELSE Begun(carry))
  /\ UNCHANGED <<micVars, ending, replyVars, askVars, ends>>

(* whileFree, a quiet frame: what the cursor decides about the pause.       *)
QuietWhileFree ==
  LET frames == IF capturing THEN capture ELSE ToSet(carry)
      c == Quiet(IF capturing THEN cursor ELSE Begun(carry))
      over(send) == EndCapture(send, frames, c) /\ capturing' = FALSE /\ capture' = {}
      goesOn(kept) == /\ capturing' = TRUE /\ capture' = frames /\ cursor' = kept
                      /\ UNCHANGED <<ending, ends>>
  IN
  /\ Frames /\ ~Talking
  /\ capturing \/ (~ending /\ carry # <<>>)
  /\ carry' = IF capturing THEN carry ELSE <<>>
  /\ IF Asks(c)
     THEN /\ probes' = Append(probes, [seq |-> seq, words |-> frames, settled |-> FALSE])
          /\ pending' = Len(probes')
          /\ goesOn([c EXCEPT !.asked = TRUE])
     ELSE /\ IF ending \/ ~c.hasVoice THEN goesOn(c)
             ELSE IF ~Enough(c) /\ c.silence > EndMs
                  THEN over(FALSE)
             ELSE IF Enough(c) /\ Ready(c) THEN over(TRUE)
             ELSE goesOn(c)
          /\ UNCHANGED <<pending, probes>>
  /\ UNCHANGED <<micVars, replyVars, transcript, words>>

(* Nobody has spoken into this recording for so long that it is dropped.    *)
GiveUp ==
  /\ Frames /\ ~Talking /\ capturing /\ ~ending /\ ~cursor.hasVoice
  /\ capturing' = FALSE /\ capture' = {} /\ cursor' = ResetCursor
  /\ UNCHANGED <<micVars, ending, carry, replyVars, askVars, ends, words>>

(* breakIn: what was said is taken before the turn is stopped, and begins a *)
(* recording, if there is none.                                             *)
BreakIn(ring) ==
  /\ StopTurn
  /\ carry' = <<>>
  /\ IF capturing THEN UNCHANGED <<capturing, capture, cursor>>
     ELSE capturing' = TRUE /\ capture' = ToSet(ring) /\ cursor' = Begun(ring)

(* whileBusy: a word over the reply, or while the reply is being written.   *)
WordWhileBusy ==
  LET ring == Push(carry, words + 1) IN
  /\ Frames /\ Talking /\ words < MaxWords
  /\ words' = words + 1
  /\ IF echo = "open" /\ runMs + 1 >= BargeMs THEN BreakIn(ring)
     ELSE /\ carry' = ring
          /\ runMs' = IF echo = "open" THEN runMs + 1 ELSE IF echo = "closed" THEN runMs ELSE 0
          /\ UNCHANGED <<capturing, capture, cursor, pending, busy, seq, speaking, echo>>
  /\ UNCHANGED <<micVars, ending, turns, transcript, probes, ends>>

QuietWhileBusy ==
  /\ Frames /\ Talking /\ echo # "closed" /\ runMs > 0
  /\ runMs' = 0
  /\ UNCHANGED <<micVars, recVars, busy, seq, speaking, echo, turns, askVars, ends, words>>

(********************************** Turns **********************************)

(* No other recording runs, or waits for its probe.                         *)
Alone == ~capturing /\ \A d, e \in ends : d.at = "probe" /\ e.at = "probe" => d = e

(* Bug: the words stay when they have been sent.                            *)
SendKeeping(said, heard) ==
  /\ seq' = seq + 1
  /\ turns' = Append(turns, [seq |-> seq', words |-> said, heard |-> heard,
                            alone |-> Alone, streaming |-> TRUE, sounds |-> 0])
  /\ pending' = 0
  /\ busy' = TRUE /\ speaking' = FALSE /\ echo' = "closed" /\ runMs' = 0
  /\ UNCHANGED transcript

Send(said, heard) ==
  /\ seq' = seq + 1
  /\ turns' = Append(turns, [seq |-> seq', words |-> said, heard |-> heard,
                            alone |-> Alone, streaming |-> TRUE, sounds |-> 0])
  /\ pending' = 0 /\ transcript' = {}
  /\ busy' = TRUE /\ speaking' = FALSE /\ echo' = "closed" /\ runMs' = 0

(* A typed message; the older stream goes on, and is not listened to.       *)
Say ==
  /\ Idle /\ seq < MaxSeq
  /\ Send({}, {})
  /\ UNCHANGED <<micVars, recVars, probes, ends, words>>

Interrupt ==
  /\ Idle /\ busy
  /\ StopTurn /\ carry' = <<>>
  /\ UNCHANGED <<micVars, capturing, ending, capture, cursor, turns, transcript, probes, ends, words>>

(* endCapture after its wait: not after all, by the verdict that came; or   *)
(* nothing was recognised; or the turn is sent, and waited for.             *)
GoOn(e) ==
  /\ e \in Waiting
  /\ IF ~Ready(cursor)
     THEN /\ capturing' = TRUE /\ capture' = e.frames \cup ToSet(carry) /\ carry' = <<>>
          /\ ending' = FALSE /\ ends' = ends \ {e}
          /\ UNCHANGED <<cursor, replyVars, askVars>>
     ELSE IF transcript = {}
     THEN /\ cursor' = ResetCursor /\ ending' = FALSE /\ ends' = ends \ {e}
          /\ UNCHANGED <<capturing, capture, carry, replyVars, askVars>>
     ELSE /\ Send(transcript, e.frames)
          /\ ends' = (ends \ {e}) \cup {[e EXCEPT !.at = "turn", !.on = Len(turns')]}
          /\ UNCHANGED <<capturing, ending, capture, carry, cursor, probes>>
  /\ UNCHANGED <<micVars, words>>

(* The service answers a probe, or fails to: words, whether they were       *)
(* enough and whether the person has finished.  An answer to an older turn  *)
(* is not looked at.                                                        *)
ProbeAnswers(p) ==
  /\ Idle /\ ~Settled(p)
  /\ probes' = [probes EXCEPT ![p].settled = TRUE]
  /\ \/ UNCHANGED <<cursor, transcript>>
     \/ /\ probes[p].seq = seq
        /\ \/ cursor' = [cursor EXCEPT !.verdict = NoVerdict] /\ UNCHANGED transcript
           \/ /\ \E v \in {"finished", "unfinished", NoVerdict}, ms \in {"unset", "enough", "short"} :
                   cursor' = [cursor EXCEPT !.verdict = v, !.voiceMs = ms]
              /\ transcript' \in {probes[p].words, {}}
  /\ UNCHANGED <<micVars, capturing, ending, capture, carry, replyVars, pending, ends, words>>

Settles(i) ==
  LET e == {x \in ends : x.at = "turn" /\ x.on = i} IN
  /\ Idle /\ turns[i].streaming
  /\ turns' = [turns EXCEPT ![i].streaming = FALSE]
  /\ ends' = ends \ e
  /\ IF e = {} THEN UNCHANGED <<ending, cursor>> ELSE ending' = FALSE /\ cursor' = ResetCursor
  /\ UNCHANGED <<micVars, capturing, capture, carry, seq, speaking, echo, runMs, askVars, words>>

(* Bug: whichever stream ends, the reply is over.                           *)
StreamEndsAny(i) == Settles(i) /\ busy' = FALSE

(* The stream of a turn is over, breaks or was aborted: the newest one's    *)
(* end is the reply's.  Its recording is finished with.                     *)
StreamEnds(i) ==
  /\ Settles(i)
  /\ busy' = IF turns[i].seq = seq THEN FALSE ELSE busy

(* A sound of the reply, which may go on when its stream has ended; the     *)
(* echo is measured before anything counts as an interruption.              *)
SoundBegins ==
  /\ Idle /\ ~speaking
  /\ \E i \in DOMAIN turns :
       /\ turns[i].seq = seq /\ turns[i].sounds < MaxSounds
       /\ turns' = [turns EXCEPT ![i].sounds = @ + 1]
  /\ speaking' = TRUE /\ echo' = "learning"
  /\ UNCHANGED <<micVars, recVars, busy, seq, runMs, askVars, ends, words>>

SoundEnds ==
  /\ Idle /\ speaking
  /\ speaking' = FALSE
  /\ UNCHANGED <<micVars, recVars, busy, seq, echo, runMs, turns, askVars, ends, words>>

GuardOver ==
  /\ Idle /\ echo = "learning"
  /\ echo' = "open"
  /\ UNCHANGED <<micVars, recVars, busy, seq, speaking, runMs, turns, askVars, ends, words>>

(***************************************************************************)

Person == Start \/ Stop \/ SetMuted \/ Say \/ Interrupt \/ WordWhileFree \/ WordWhileBusy
Page ==
  \/ Opened \/ QuietWhileFree \/ QuietWhileBusy \/ GiveUp
  \/ SoundBegins \/ SoundEnds \/ GuardOver
  \/ \E e \in ends : GoOn(e)
  \/ \E p \in DOMAIN probes : ProbeAnswers(p)
  \/ \E i \in DOMAIN turns : StreamEnds(i)
Next == Person \/ Page

(* Frames keep coming from an open microphone, time passes, and the service *)
(* answers or fails in the end.  The person owes nothing.                   *)
Spec == Init /\ [][Next]_vars /\ WF_vars(QuietWhileFree) /\ WF_vars(GiveUp)
        /\ WF_vars(SoundEnds) /\ WF_vars(\E e \in ends : GoOn(e))
        /\ WF_vars(\E p \in DOMAIN probes : ProbeAnswers(p))
        /\ WF_vars(\E i \in DOMAIN turns : StreamEnds(i))

(******************************** Properties *******************************)

Cursor == [silence : Nat, voiced : BOOLEAN, reopen : Nat,
           verdict : {"finished", "unfinished", NoVerdict},
           voiceMs : {"unset", "enough", "short"}, hasVoice : BOOLEAN, asked : BOOLEAN]
Turn == [seq : Nat, words : SUBSET Nat, heard : SUBSET Nat, alone : BOOLEAN,
         streaming : BOOLEAN, sounds : Nat]
Probe == [seq : Nat, words : SUBSET Nat, settled : BOOLEAN]
TypeOK ==
  /\ started \in BOOLEAN /\ muted \in BOOLEAN /\ opening \in BOOLEAN /\ isOpen \in BOOLEAN
  /\ capturing \in BOOLEAN /\ ending \in BOOLEAN
  /\ capture \subseteq Nat /\ carry \in Seq(Nat) /\ cursor \in Cursor
  /\ busy \in BOOLEAN /\ seq \in Nat /\ speaking \in BOOLEAN
  /\ echo \in {"closed", "learning", "open"} /\ runMs \in Nat
  /\ turns \in Seq(Turn) /\ probes \in Seq(Probe) /\ pending \in 0 .. Len(probes)
  /\ transcript \subseteq Nat /\ words \in Nat
  /\ ends \subseteq [at : {"probe", "turn"}, frames : SUBSET Nat, on : Nat]

(* Every turn has a number of its own, and none has one to come.            *)
NumbersOnce ==
  /\ \A i \in DOMAIN turns : turns[i].seq <= seq
  /\ \A i, j \in DOMAIN turns : turns[i].seq = turns[j].seq => i = j

(* What was said is sent in one turn (whileFree: a second recording while    *)
(* the first one waits would send the same pause twice).                    *)
SentOnce ==
  \A i, j \in DOMAIN turns : i # j => turns[i].words \cap turns[j].words = {}

(* What was said is sent in one turn at most, whatever is typed,            *)
(* interrupted or answered late (endCapture, send).  Not so when a turn is  *)
(* sent while another recording runs or waits for its probe, which takes a  *)
(* mute or a typed message while the first one waits: it is sent with the   *)
(* words of the other, which goes on with them.                             *)
NeverSentTwice ==
  \A i, j \in DOMAIN turns :
    i # j /\ turns[i].alone /\ turns[j].alone => turns[i].words \cap turns[j].words = {}

(* What NeverSentTwice rests on: what is recorded, waits to be sent or has  *)
(* come back from a probe of this turn has not been sent before, and what   *)
(* was heard meanwhile is not part of any recording yet.                    *)
Recorded ==
  UNION ({capture, transcript}
         \cup {e.frames : e \in {d \in ends : d.at = "probe"}}
         \cup {probes[p].words : p \in {q \in DOMAIN probes : probes[q].seq = seq}})
Sent == UNION {turns[i].words : i \in {j \in DOMAIN turns : turns[j].alone}}
SaidInv ==
  /\ ~capturing => capture = {}
  /\ \A p \in DOMAIN probes : probes[p].seq <= seq
  /\ Recorded \subseteq 1 .. words /\ Sent \subseteq 1 .. words /\ ToSet(carry) \subseteq 1 .. words
  /\ Recorded \cap Sent = {} /\ ToSet(carry) \cap (Recorded \cup Sent) = {}

(* The client is busy exactly while the newest turn streams: an older one   *)
(* that ends late does not end the newer, and a stopped one does not last   *)
(* (send, stopTurn, finish).                                                *)
BusyIsTheTurn ==
  busy <=> \E i \in DOMAIN turns : turns[i].seq = seq /\ turns[i].streaming
TurnsInv == TypeOK /\ NumbersOnce /\ BusyIsTheTurn

(* No verdict and no answer that fails to come leaves somebody waiting: a   *)
(* recording ends, unless the call does or is muted (SilenceCursor.ready,   *)
(* endCapture).                                                             *)
Recording == capturing /\ started /\ isOpen /\ ~muted
RecordingEnds == Recording ~> ~Recording

(* A turn says all that was said in its recording (SilenceCursor.observe:   *)
(* a verdict about another pause is how a client answers half a sentence).  *)
WholeSentence == \A i \in DOMAIN turns : turns[i].heard \subseteq turns[i].words
=============================================================================
