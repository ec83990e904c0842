--------------------------- MODULE PlaybackQueue ----------------------------
(***************************************************************************)
(* PlaybackQueue of clients/queue.js: the audio of a turn, decoded as it   *)
(* arrives and played by its number on the audio clock, until it is over   *)
(* or stopped.                                                             *)
(*                                                                         *)
(* Nothing here runs in parallel, but much is in flight: every decode is a *)
(* promise that comes back when it likes, after a stop() too, and so do    *)
(* the onended callbacks of the sources.  drain() runs to its end before   *)
(* anything else does; it is one step of the model per turn of its loop,   *)
(* and draining keeps the rest away.                                       *)
(*                                                                         *)
(* The page hands over the audio events of one turn between two stops, in  *)
(* the order _AudioOrder gives them (Call.onEvent): by chunk, one event or *)
(* several for each, none for a chunk that turned out to have no sound.    *)
(***************************************************************************)
EXTENDS Integers, Sequences, FiniteSets

CONSTANTS
  MaxIdx,     (* bound: the last chunk index of a turn                      *)
  MaxPieces,  (* bound: audio events of one chunk                           *)
  MaxGap,     (* bound: chunks without sound between two that have some     *)
  MaxDecodes, (* bound: decodes under way at a time                         *)
  Durations,  (* lengths a clip may have                                    *)
  MaxTime,    (* bound: the audio clock                                     *)
  MaxStops,   (* bound: calls of stop()                                     *)
  Absent,     (* what waiting holds where nothing has arrived               *)
  Null        (* and what it holds for a chunk that would not decode        *)

ASSUME PlaybackAssumption ==
  /\ MaxIdx \in Nat /\ MaxPieces \in Nat \ {0} /\ MaxGap \in Nat /\ MaxDecodes \in Nat
  /\ Durations \subseteq Nat
  /\ MaxTime \in Nat /\ MaxStops \in Nat

Index == 0 .. MaxIdx
Clip ==
  [gen : Nat, idx : Index, piece : 1 .. MaxPieces, length : Durations]
(* A clip on the audio clock (an AudioBufferSourceNode).                    *)
Source == [clip : Clip, at : Nat, end : Nat]

ASSUME NoClipAssumption == Absent \notin Clip /\ Null \notin Clip /\ Absent # Null

VARIABLES
  generation, expected, waiting, playAt, live,  (* the fields of the class  *)
  decoding,  (* decodes in flight, each with the generation it began in     *)
  draining,  (* drain() is running                                          *)
  silenced,  (* clips that were stopped and whose onended was not called    *)
  now,       (* context.currentTime                                         *)
  told,      (* what onSpeaking was last called with                        *)
  sent,      (* audio events of every chunk of this turn                    *)
  heard,     (* history: the sources started since the last stop            *)
  sounds     (* history: clips decoded since the last stop, for this turn   *)

fields == <<generation, expected, waiting, playAt, live>>
history == <<heard, sounds>>
vars == <<fields, decoding, draining, silenced, now, told, sent, history>>

(* LEAD_SEC, in units of the model's clock                                  *)
Lead == 1

NoneYet == [i \in Index |-> 0]

Init ==
  /\ generation = 0 /\ expected = 0 /\ playAt = 0 /\ live = {}
  /\ waiting = [i \in Index |-> Absent]
  /\ decoding = {}
  /\ draining = FALSE
  /\ silenced = {}
  /\ now = 0
  /\ told = FALSE
  /\ sent = NoneYet
  /\ heard = <<>>
  /\ sounds = {}

(* Another piece of the last chunk, or the first of a later one.            *)
Following(i) ==
  /\ sent[i] < MaxPieces
  /\ \A j \in Index : j > i => sent[j] = 0
  /\ i <= MaxGap \/ \E j \in Index : sent[j] > 0 /\ i - j <= MaxGap + 1

(* enqueue(), up to its await                                               *)
Enqueue ==
  /\ ~draining /\ Cardinality(decoding) < MaxDecodes
  /\ \E i \in Index, l \in Durations :
       /\ Following(i)
       /\ decoding' = decoding \cup
            {[gen |-> generation, idx |-> i, piece |-> sent[i] + 1, length |-> l]}
       /\ sent' = [sent EXCEPT ![i] = @ + 1]
  /\ UNCHANGED <<fields, draining, silenced, now, told, history>>

(* Bug: the generation is not checked again after the decode.               *)
DecodeEndsLate(c) ==
  /\ ~draining
  /\ decoding' = decoding \ {c}
  /\ \E sound \in {c, Null} :
       /\ waiting' = [waiting EXCEPT ![c.idx] = sound]
       /\ sounds' = sounds \cup ({sound} \ {Null})
  /\ draining' = TRUE
  /\ UNCHANGED <<generation, expected, playAt, live, silenced, now, told,
                 sent, heard>>

(* enqueue(), after its await: decodeAudioData came back or threw           *)
DecodeEnds(c) ==
  /\ ~draining
  /\ decoding' = decoding \ {c}
  /\ \/ /\ c.gen # generation
        /\ UNCHANGED <<waiting, sounds, draining>>
     \/ /\ c.gen = generation
        /\ \E sound \in {c, Null} :
             /\ waiting' = [waiting EXCEPT ![c.idx] = sound]
             /\ sounds' = sounds \cup ({sound} \ {Null})
        /\ draining' = TRUE
  /\ UNCHANGED <<generation, expected, playAt, live, silenced, now, told,
                 sent, heard>>

(* Math.max(this.playAt, ctx.currentTime + LEAD_SEC)                        *)
StartTime == IF playAt >= now + Lead THEN playAt ELSE now + Lead

(* Bug: the clip starts at once, whatever is playing.                       *)
ScheduleAtOnce(c) ==
  LET source == [clip |-> c, at |-> now + Lead, end |-> now + Lead + c.length] IN
  /\ playAt' = source.end
  /\ told' = (told \/ live = {})
  /\ live' = live \cup {source}
  /\ heard' = Append(heard, source)

(* schedule()                                                               *)
Schedule(c) ==
  LET source == [clip |-> c, at |-> StartTime, end |-> StartTime + c.length] IN
  /\ playAt' = source.end
  /\ told' = (told \/ live = {})
  /\ live' = live \cup {source}
  /\ heard' = Append(heard, source)

Ready == expected \in Index /\ waiting[expected] # Absent

(* Bug: a clip that would not decode does not use up its number.            *)
DrainOneSound ==
  /\ draining /\ Ready
  /\ waiting' = [waiting EXCEPT ![expected] = Absent]
  /\ \/ /\ waiting[expected] = Null
        /\ UNCHANGED <<expected, playAt, told, live, heard>>
     \/ /\ waiting[expected] # Null
        /\ expected' = expected + 1
        /\ Schedule(waiting[expected])
  /\ UNCHANGED <<generation, decoding, draining, silenced, now, sent, sounds>>

(* One turn of the loop of drain().                                         *)
DrainOne ==
  /\ draining /\ Ready
  /\ waiting' = [waiting EXCEPT ![expected] = Absent]
  /\ expected' = expected + 1
  /\ \/ /\ waiting[expected] = Null
        /\ UNCHANGED <<playAt, told, live, heard>>
     \/ /\ waiting[expected] # Null
        /\ Schedule(waiting[expected])
  /\ UNCHANGED <<generation, decoding, draining, silenced, now, sent, sounds>>

DrainEnds ==
  /\ draining /\ ~Ready
  /\ draining' = FALSE
  /\ UNCHANGED <<fields, decoding, silenced, now, told, sent, history>>

(* Bug: the end of any clip is taken for the end of the sound.              *)
EndedAlone(s) ==
  /\ ~draining
  /\ s \in live /\ s.end <= now
  /\ live' = live \ {s}
  /\ told' = FALSE
  /\ UNCHANGED <<generation, expected, waiting, playAt, decoding, draining,
                 silenced, now, sent, history>>

(* onended of a clip that ran to its end                                    *)
Ended(s) ==
  /\ ~draining
  /\ s \in live /\ s.end <= now
  /\ live' = live \ {s}
  /\ told' = (told /\ live' # {})
  /\ UNCHANGED <<generation, expected, waiting, playAt, decoding, draining,
                 silenced, now, sent, history>>

(* onended of a clip that stop() stopped, later                             *)
EndedSilenced(c) ==
  /\ ~draining
  /\ silenced' = silenced \ {c}
  /\ told' = (told /\ live # {})
  /\ UNCHANGED <<fields, decoding, draining, now, sent, history>>

(* stop()                                                                   *)
Stop ==
  /\ ~draining
  /\ generation < MaxStops
  /\ generation' = generation + 1
  /\ silenced' = silenced \cup {s.clip : s \in live}
  /\ live' = {}
  /\ waiting' = [i \in Index |-> Absent]
  /\ expected' = 0
  /\ playAt' = now
  /\ told' = FALSE
  /\ sent' = NoneYet /\ heard' = <<>> /\ sounds' = {}
  /\ UNCHANGED <<decoding, draining, now>>

(* The audio clock runs while nothing of ours does.                         *)
Tick ==
  /\ ~draining
  /\ now < MaxTime
  /\ now' = now + 1
  /\ UNCHANGED <<fields, decoding, draining, silenced, told, sent, history>>

Next ==
  \/ Enqueue
  \/ \E c \in decoding : DecodeEnds(c)
  \/ DrainOne
  \/ DrainEnds
  \/ \E s \in live : Ended(s)
  \/ \E c \in silenced : EndedSilenced(c)
  \/ Stop
  \/ Tick

Spec == Init /\ [][Next]_vars

-----------------------------------------------------------------------------
TypeOK ==
  /\ generation \in 0 .. MaxStops
  /\ expected \in 0 .. MaxIdx + 1
  /\ waiting \in [Index -> Clip \cup {Absent, Null}]
  /\ playAt \in Nat
  /\ live \subseteq Source
  /\ decoding \subseteq Clip
  /\ draining \in BOOLEAN
  /\ silenced \subseteq Clip
  /\ now \in 0 .. MaxTime
  /\ told \in BOOLEAN
  /\ sent \in [Index -> 0 .. MaxPieces]
  /\ heard \in Seq(Source)
  /\ sounds \subseteq Clip

(* A turn is heard in the order of its chunks, whatever order they decode   *)
(* in and however many will not, and no clip starts before the one in front *)
(* of it has ended (PlaybackQueue).                                         *)
HeardInOrder ==
  \A i, j \in DOMAIN heard : i < j =>
    /\ heard[i].clip.idx < heard[j].clip.idx
    /\ heard[i].end <= heard[j].at

(* No sound of a stopped turn starts after the stop, though its decodes     *)
(* come back later ("how a stopped reply says two more sentences anyway"),  *)
(* and none of it goes on sounding.                                         *)
NothingStale ==
  /\ \A i \in DOMAIN heard : heard[i].clip.gen = generation
  /\ \A s \in live : \E i \in DOMAIN heard : s = heard[i]

(* The page was last told that there is sound if and only if there is any,  *)
(* also when the clips of a stopped turn report their end during the next.  *)
SpeakingTold == told = (live # {})

(* Nothing whose turn it is is kept waiting.                                *)
NothingHeldBack == draining \/ ~Ready

Pending == {c \in decoding : c.gen = generation}

Heard(c) == \E i \in DOMAIN heard : heard[i].clip = c

(* A clip that had sound has been given to the audio clock, unless another  *)
(* event came for the same chunk (the class keeps one for a number), or the *)
(* chunk expected has no event, or one whose decode is under way: nothing   *)
(* else loses a sound, whatever decodes when, or not at all (drain).        *)
NothingLost ==
  ~draining => \A c \in sounds :
    \/ Heard(c) \/ sent[c.idx] > 1
    \/ /\ expected < c.idx
       /\ sent[expected] = 0 \/ \E d \in Pending : d.idx = expected

(* What the README says of this queue ("nothing is skipped, doubled"): when *)
(* no decode is under way every clip that had sound was heard.              *)
EveryClipHeard == ~draining /\ Pending = {} => \A c \in sounds : Heard(c)

(* What makes the order inductive: what is waiting is of this turn and at   *)
(* its own number, and what was heard lies before expected and playAt.      *)
WaitingInPlace ==
  \A i \in Index : waiting[i] \in Clip =>
    waiting[i].idx = i /\ waiting[i].gen = generation

HeardIsBehind ==
  \A i \in DOMAIN heard : heard[i].clip.idx < expected /\ heard[i].end <= playAt

PlaybackInv ==
  /\ TypeOK
  /\ HeardInOrder
  /\ NothingStale
  /\ SpeakingTold
  /\ NothingHeldBack
  /\ WaitingInPlace
  /\ HeardIsBehind

(* Where the events of the turn are: one decodes, or it waits at its        *)
(* number, or its chunk lies before expected; and the only event of a chunk *)
(* that had sound waits there or was heard.                                 *)
DecodesInPlace ==
  /\ \A c \in decoding : c.gen <= generation
  /\ \A c \in Pending :
       /\ sent[c.idx] > 0
       /\ sent[c.idx] = 1 =>
            /\ expected <= c.idx /\ waiting[c.idx] = Absent
            /\ \A d \in Pending : d.idx = c.idx => d = c

ChunksInPlace ==
  \A i \in Index :
    /\ waiting[i] # Absent => sent[i] > 0 /\ (sent[i] = 1 => expected <= i)
    /\ i < expected => sent[i] > 0
    /\ expected <= i /\ sent[i] > 0 =>
         waiting[i] # Absent \/ \E c \in Pending : c.idx = i

SoundsInPlace ==
  \A c \in sounds :
    sent[c.idx] > 0 /\ (sent[c.idx] = 1 => Heard(c) \/ waiting[c.idx] = c)

Accounted == DecodesInPlace /\ ChunksInPlace /\ SoundsInPlace
=============================================================================
