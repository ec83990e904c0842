---------------------------- MODULE EventStream -----------------------------
(***************************************************************************)
(* What a client of one turn may rely on: the order in which the events of *)
(* the stream can arrive (events.py).  The threads, the queue and the pool *)
(* behind it are invisible here.                                           *)
(*                                                                         *)
(* A stream opens with ack and sink.  Text runs ahead of sound: a line is  *)
(* a subtitle before its message is heard.  Audio comes by chunk, a chunk  *)
(* piece by piece.  done, aborted and error each come at most once; done   *)
(* is the last event of all and never follows error; what can still follow *)
(* error is audio, and aborted.                                            *)
(***************************************************************************)
EXTENDS Integers, Sequences

VARIABLE out

Seen(s, t) == \E i \in DOMAIN s : s[i].type = t

(* Where the last event of a type is, if there is one.                      *)
Newest(s, t) ==
  {i \in DOMAIN s : s[i].type = t /\ \A j \in DOMAIN s : s[j].type = t => j <= i}

Opened(s) == Len(s) >= 2
Ended(s) == Seen(s, "done") \/ Seen(s, "aborted")

(* The line e is the next one, and its message is not behind the last.      *)
NextSentence(s, e) ==
  \/ ~Seen(s, "sentence") /\ e.line = 1
  \/ \E i \in Newest(s, "sentence") :
       e.line = s[i].line + 1 /\ s[i].message <= e.message

(* The piece e continues the last chunk heard or opens a later one, of a    *)
(* message whose text is already there.                                     *)
NextPiece(s, e) ==
  /\ \E i \in DOMAIN s : s[i].type = "sentence" /\ s[i].message = e.message
  /\ \/ ~Seen(s, "audio") /\ e.piece = 1
     \/ \E i \in Newest(s, "audio") :
          \/ s[i].idx = e.idx /\ e.piece = s[i].piece + 1 /\ e.message = s[i].message
          \/ s[i].idx < e.idx /\ e.piece = 1 /\ s[i].message <= e.message

MayFollow(s, e) ==
  \/ e.type = "ack" /\ s = <<>>
  \/ e.type = "sink" /\ Len(s) = 1
  \/ /\ Opened(s) /\ ~Ended(s)
     /\ \/ e.type = "sentence" /\ NextSentence(s, e) /\ ~Seen(s, "error")
        \/ e.type = "audio" /\ NextPiece(s, e)
        \/ e.type \in {"error", "done"} /\ ~Seen(s, "error")
        \/ e.type = "aborted"

Init == out = <<>>

Next ==
  /\ Len(out') = Len(out) + 1
  /\ SubSeq(out', 1, Len(out)) = out
  /\ MayFollow(out, out'[Len(out')])

Spec == Init /\ [][Next]_out
=============================================================================
