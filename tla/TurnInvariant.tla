---------------------------- MODULE TurnInvariant ----------------------------
(***************************************************************************)
(* The inductive invariant of Turn: what the proofs about the text, the    *)
(* sound, the end and the stream of a turn rest on, part by part.          *)
(***************************************************************************)
EXTENDS Turn

(* The turn has more to say.                                                *)
Live == cpc \notin {"failing", "over"}
Opening == {"ack", "sink", "begin"}
Closing == {"finally", "wait", "gone"}
ErrorIssued == \E i \in DOMAIN Issued : Issued[i].type = "error"

(* The lines that are out as text.                                          *)
Put == IF ppc = "put" THEN Len(lines) - 1 ELSE Len(lines)

QueueTypes ==
  /\ {speaking, cancel, stopping, failed} \subseteq BOOLEAN
  /\ ppc \in {"unborn", "read", "put", "boundary", "flush"} \cup Closing
  /\ cpc \in Opening \cup {"check", "get", "yielded", "superseded", "failing",
                           "closing", "over"}
  /\ Len(lines) <= MaxLines
  /\ warnings \in SUBSET Chunk
  /\ spoken \in SUBSET Chunk
  /\ attempts \in [Chunk -> 0 .. 2]
  /\ queue \in Seq(Event)
  /\ out \in Seq(Event \ {EndMark})

(* The consumer stops before it says so, and starts the producer after it   *)
(* has opened the stream.                                                   *)
ConsumerInv ==
  /\ stopping => cpc \in {"superseded", "failing", "closing", "over"}
  /\ cpc \in {"superseded", "failing", "closing"} => stopping
  /\ cpc \in Opening => ppc = "unborn"
  /\ ppc = "unborn" => /\ cpc \in Opening \cup {"over"}
                       /\ lines = <<>> /\ chunks = <<>> /\ buffer = <<>> /\ queue = <<>>
  /\ cpc = "ack" => out = <<>>
  /\ cpc = "sink" => Len(out) = 1
  /\ cpc \notin {"ack", "sink", "over"} => Len(out) >= 2
  /\ failed <=> \E i \in DOMAIN out : out[i].type = "error"

(* The end mark is the last word of the producer, which has nothing to wait *)
(* for any more, and an error its last but one.                             *)
EndInv ==
  /\ \A i \in DOMAIN queue : queue[i] = EndMark => ppc = "gone" /\ i = Len(queue)
  /\ ErrorIssued => ppc \in Closing
  /\ Live => \A i \in DOMAIN Issued : Issued[i].type \notin {"done", "aborted"}
  /\ ppc = "gone" /\ ~StoppingWanted => \A c \in Chunk : task[c] \in {"none", "cancelled", "done"}

WorkInv ==
  \A c \in Chunk :
    /\ c \in finished <=> task[c] \in {"ending", "done"}
    /\ holder = c <=> task[c] \in {"piecing", "ending"}
    /\ c \in spoken <=> made[c] # 0
    /\ task[c] = "cancelled" => ~Live

(* Messages only go up, a chunk or a buffer holds lines of its own message. *)
MessagesInv ==
  /\ \A i, j \in DOMAIN lines : i <= j => lines[i] <= lines[j]
  /\ \A i \in DOMAIN chunks :
       /\ chunks[i].message <= current
       /\ \A j \in DOMAIN chunks : i <= j => chunks[i].message <= chunks[j].message
       /\ \A j \in DOMAIN chunks[i].text :
            chunks[i].text[j] \in 1 .. Put /\ lines[chunks[i].text[j]] = chunks[i].message
  /\ \A j \in DOMAIN buffer : buffer[j] \in 1 .. Put /\ lines[buffer[j]] = current

(* No line is lost between the reply, the buffer and the chunks.            *)
LinesInv ==
  /\ ~speaking => chunks = <<>> /\ buffer = <<>>
  /\ ppc \in {"boundary", "flush"} => speaking /\ buffer # <<>>
  /\ \A i \in DOMAIN chunks :
       /\ chunks[i].text # <<>>
       /\ GoesOn(chunks[i].text, LastLine(i - 1))
       /\ LastLine(i) >= i
  /\ ~Refused => GoesOn(buffer, LastLine(Len(chunks)))
  /\ Refused => ppc \in Closing /\ ErrorIssued
  /\ speaking /\ ppc \notin Closing =>
       LastLine(Len(chunks)) + Len(buffer) = IF ppc = "boundary" THEN Len(lines) - 1 ELSE Put
  /\ speaking /\ ppc \in Closing /\ ~StoppingWanted /\ ~ErrorIssued =>
       LastLine(Len(chunks)) = Len(lines)

(* The text that is out.                                                    *)
SentencesInv ==
  Live =>
    /\ \A i \in DOMAIN Issued : Issued[i].type = "sentence" =>
         Issued[i].line \in 1 .. Put /\ Issued[i].message = lines[Issued[i].line]
    /\ \A n \in 1 .. Put : \E i \in DOMAIN Issued : Issued[i] = Sentence(lines[n], n)
    /\ Put # 0 => \E i \in Stream!Newest(Issued, "sentence") : Issued[i] = Sentence(lines[Put], Put)

(* The sound that is out.                                                   *)
AudioOf(p) == Audio(p.idx, MessageOf(p.idx), p.piece)

SoundInv ==
  Live =>
    /\ \A i \in DOMAIN Issued : Issued[i].type = "audio" =>
         /\ Issued[i].idx \in Chunk /\ Issued[i].idx < Len(chunks)
         /\ \E n \in DOMAIN handed : Issued[i] = AudioOf(handed[n])
    /\ ~StoppingWanted =>
         /\ \A n \in DOMAIN handed : \E i \in DOMAIN Issued : Issued[i] = AudioOf(handed[n])
         /\ handed # <<>> => \E i \in Stream!Newest(Issued, "audio") :
                               Issued[i] = AudioOf(handed[Len(handed)])

(* What is in the queue may be yielded when its turn comes.                 *)
StreamInv ==
  Live => \A i \in DOMAIN Issued :
            Issued[i] = EndMark \/ Stream!MayFollow(SubSeq(Issued, 1, i - 1), Issued[i])

DoneInv ==
  /\ Finished => cpc = "over" /\ ppc = "gone"
  /\ DoneIsComplete
  /\ UnspokenIsExact

TurnInv ==
  /\ QueueTypes /\ SpeechInv /\ RequestInv /\ ConsumerInv /\ EndInv /\ WorkInv /\ MessagesInv
  /\ LinesInv /\ SentencesInv /\ SoundInv /\ StreamInv /\ SoundIsWhole /\ DoneInv
=============================================================================
