------------------------------- MODULE Reply --------------------------------
(***************************************************************************)
(* A reply on its way from the model's stream to the sentences of a turn:  *)
(* the stream of openai_compatible.py, the message walk                    *)
(* (iter_message_sentences) and the sentence walk (iter_sentences) of      *)
(* text/sentences.py, three generators that pull on one another.  The      *)
(* sentence walk runs until its buffer cannot yield a sentence any more,   *)
(* then asks the message walk for a piece; the message walk asks the       *)
(* stream for a token when the line it holds is not decided yet.           *)
(*                                                                         *)
(* Where one token ends and the next begins is up to the network, so it is *)
(* a free choice here: the same reply arrives in every possible cutting.   *)
(***************************************************************************)
EXTENDS SpeechText

CONSTANTS
  Replies,      (* bound: the replies the model may write, each a sequence  *)
                (* of symbols                                               *)
  MaxLen,       (* symbols a sentence may have before a soft cut            *)
  KeepOne,      (* the style's keep_one_filler                              *)
  MayFail       (* the stream may break off                                 *)

(* A symbol's place is where it stands in the reply.                        *)
ASSUME ReplyAssumption ==
  \A t \in Replies : t \in Seq(STRING \X Nat) /\ \A i \in DOMAIN t : t[i][2] = i

VARIABLES
  text,         (* what the model writes                                    *)
  got,          (* how much of it has arrived                               *)
  midline,      (* history: a token ended inside a line                     *)
  buf,          (* message walk: the line being read                        *)
  emitted,      (* message walk: this message already contains words        *)
  line_open,    (* message walk: content went out, its break did not        *)
  index,        (* message walk: the number of the message                  *)
  mpc,          (* message walk: what it does when it is asked again        *)
  sbuf,         (* sentence walk: what is not yet a sentence                *)
  in_fence,     (* sentence walk: inside a fenced block                     *)
  spc,          (* sentence walk: reading its buffer, or asking for more    *)
  spent,        (* messages that used their filler                          *)
  out,          (* history: the sentences yielded, each with its message    *)
                (* and the cleaned piece it was made of                     *)
  ended         (* "no", "clean", "failed": how the generators returned     *)

walkVars == <<buf, emitted, line_open, index, mpc>>
cutVars == <<sbuf, in_fence, spc, spent, out>>
vars == <<text, got, midline, walkVars, cutVars, ended>>

Init ==
  /\ text \in Replies
  /\ got = 0 /\ midline = FALSE /\ ended = "no"
  /\ buf = <<>> /\ emitted = FALSE /\ line_open = FALSE /\ index = 0 /\ mpc = "scan"
  /\ sbuf = <<>> /\ in_fence = FALSE /\ spc = "await" /\ spent = {} /\ out = <<>>

(******************************* One sentence ******************************)

(* _clean_piece: empty means that there is nothing to say.                  *)
CleanPiece(piece) ==
  LET t == StripStageDirections(CutOpenObject(StripDataObjects(StripReasoning(piece))))
      said == IF KeepOne THEN t ELSE StripLeadingFiller(t)
  IN IF IsSpeakable(said) THEN said ELSE <<>>

(* Bug: the budget is the reply's, and every sentence is the first.         *)
BudgetUnspent(said) == IF ~KeepOne THEN <<StripLeadingFiller(said), FALSE>>
                       ELSE KeepOneFiller(said)

(* A sentence leaves with the number of its message; the first filler of a  *)
(* message may stay, once.                                                  *)
Budget(said) == IF ~KeepOne \/ index \in spent
                THEN <<StripLeadingFiller(said), FALSE>> ELSE KeepOneFiller(said)

Say(piece) ==
  \E said \in {CleanPiece(piece)} :
    IF said = <<>> THEN UNCHANGED <<out, spent>>
    ELSE /\ out' = Append(out, [message |-> index, piece |-> said, said |-> Budget(said)[1]])
         /\ spent' = IF Budget(said)[2] THEN spent \cup {index} ELSE spent

(******************************* The stream ********************************)

Asking == spc = "await" /\ ended = "no"
LineEnds == Places(buf, {"nl"})

(* Bug: a line is held until it is whole.                                   *)
UndecidedLine == Asking /\ mpc = "scan" /\ LineEnds = {}

(* The line so far decides nothing: it is empty, or may become a separator. *)
Undecided == Asking /\ mpc = "scan" /\ LineEnds = {} /\ SepPrefix(buf)

(* One delta of the stream; frames without text ([DONE] is one) yield none. *)
Delta(n) ==
  /\ Undecided
  /\ got + n <= Len(text)
  /\ got' = got + n
  /\ midline' = (midline \/ (got' < Len(text) /\ Kind(text[got']) # "nl"))
  /\ buf' = buf \o SubSeq(text, got + 1, got + n)
  /\ UNCHANGED <<text, emitted, line_open, index, mpc, cutVars, ended>>

(* The service refuses, the connection breaks or a frame is not readable:   *)
(* the error goes through both walks, and what they held goes with them.    *)
StreamFails ==
  /\ MayFail
  /\ Undecided
  /\ ended' = "failed"
  /\ UNCHANGED <<text, got, midline, walkVars, cutVars>>

(***************************** The message walk ****************************)

Pass(piece) == /\ sbuf' = sbuf \o piece
               /\ spc' = "scan"
               /\ UNCHANGED <<in_fence, spent, out>>
Line == UpTo(buf, Min(LineEnds) - 1)
Break == <<buf[Min(LineEnds)]>>
Rest == From(buf, Min(LineEnds) + 1)

(* An unfinished line that cannot be a separator goes out at once.          *)
PassOpenLine ==
  /\ Asking /\ mpc = "scan" /\ LineEnds = {} /\ ~SepPrefix(buf)
  /\ Pass(buf)
  /\ line_open' = TRUE
  /\ buf' = <<>>
  /\ UNCHANGED <<text, got, midline, emitted, index, mpc, ended>>

(* The break of a line whose content went out before.                       *)
EndOpenLine ==
  /\ Asking /\ mpc = "scan" /\ LineEnds # {}
  /\ Line = <<>> /\ line_open
  /\ Pass(Break)
  /\ line_open' = FALSE
  /\ buf' = Rest
  /\ UNCHANGED <<text, got, midline, emitted, index, mpc, ended>>

(* Bug: what was flushed stays in the buffer.                               *)
SeparatorKeepsBuffer ==
  /\ Asking /\ mpc = "scan" /\ LineEnds # {}
  /\ ~(Line = <<>> /\ line_open)
  /\ IsMessageSep(Line)
  /\ UNCHANGED sbuf
  /\ IF in_fence THEN UNCHANGED <<out, spent>> ELSE Say(sbuf)
  /\ line_open' = FALSE
  /\ mpc' = "advance"
  /\ UNCHANGED <<text, got, midline, buf, emitted, index, in_fence, spc, ended>>

(* A separator: the sentence walk flushes into the message it was in.       *)
Separator ==
  /\ Asking /\ mpc = "scan" /\ LineEnds # {}
  /\ ~(Line = <<>> /\ line_open)
  /\ IsMessageSep(Line)
  /\ IF in_fence THEN UNCHANGED <<sbuf, out, spent>>
     ELSE Say(sbuf) /\ sbuf' = <<>>
  /\ line_open' = FALSE
  /\ mpc' = "advance"
  /\ UNCHANGED <<text, got, midline, buf, emitted, index, in_fence, spc, ended>>

(* Bug: an empty message is counted as well.                                *)
AdvanceAlways ==
  /\ Asking /\ mpc = "advance"
  /\ index' = index + 1
  /\ emitted' = FALSE
  /\ Pass(Break)
  /\ buf' = Rest
  /\ mpc' = "scan"
  /\ UNCHANGED <<text, got, midline, line_open, ended>>

(* Only then the number moves on, if the message had words.                 *)
Advance ==
  /\ Asking /\ mpc = "advance"
  /\ index' = IF emitted THEN index + 1 ELSE index
  /\ emitted' = FALSE
  /\ Pass(Break)
  /\ buf' = Rest
  /\ mpc' = "scan"
  /\ UNCHANGED <<text, got, midline, line_open, ended>>

WholeLine ==
  /\ Asking /\ mpc = "scan" /\ LineEnds # {}
  /\ ~(Line = <<>> /\ line_open)
  /\ ~IsMessageSep(Line)
  /\ emitted' = TRUE
  /\ line_open' = FALSE
  /\ Pass(StraySep(Line))
  /\ mpc' = "break"
  /\ UNCHANGED <<text, got, midline, buf, index, ended>>

BreakLine ==
  /\ Asking /\ mpc = "break"
  /\ Pass(Break)
  /\ buf' = Rest
  /\ mpc' = "scan"
  /\ UNCHANGED <<text, got, midline, emitted, line_open, index, ended>>

(* The reply is over: what was held as a possible separator goes out.       *)
StreamEnds ==
  /\ Undecided
  /\ got = Len(text)
  /\ Pass(buf)
  /\ buf' = <<>>
  /\ mpc' = "end"
  /\ UNCHANGED <<text, got, midline, emitted, line_open, index, ended>>

(**************************** The sentence walk ****************************)

(* Bug: a brace holds nothing back.                                         *)
HoldNothing(t) == [gone |-> {}, stop |-> Len(t)]

(* The places of the finished objects in the buffer, and how far it can be  *)
(* read without them: a brace that may open an object holds everything from *)
(* there on.                                                                *)
Hold(t) ==
  LET from[i \in 1 .. Len(t) + 1, gone \in SUBSET DOMAIN t] ==
        LET braces == {b \in Places(t, {"open"}) : b >= i /\ OpensDataObject(t, gone, b)}
            b == Min(braces)
            e == ObjectEnd(t, b)
        IN IF braces = {} THEN [gone |-> gone, stop |-> Len(t) - Cardinality(gone)]
           ELSE IF e = 0 THEN [gone |-> gone, stop |-> b - 1 - Cardinality(gone)]
           ELSE from[e + 1, IF IsDataObject(t, b, e) THEN gone \cup b .. e ELSE gone]
  IN from[1, {}]

Held == Without(sbuf, Hold(sbuf).gone)
Readable == {i \in DOMAIN Held : i <= Hold(sbuf).stop}
Reading == spc = "scan" /\ ended = "no"
Prose == Reading /\ ~in_fence
Fences == {i \in Markers(Held, 1) : i + Fence - 1 \in Readable}
Hard == Places(Held, {"end"}) \cap Readable
Soft == Places(Held, {"comma", "dots"}) \cap Readable
SoftCut == Hard = {} /\ Cardinality(Readable) >= MaxLen /\ Soft # {} /\ Max(Soft) > 1

(* The longest tail of the buffer that may grow into the closing marker.    *)
MarkerTail(t) ==
  From(t, Min({i \in 1 .. Len(t) + 1 : /\ Len(t) - i + 1 < Fence
                                       /\ Others(From(t, i), {"tick"}) = {}}))

LeaveFence ==
  /\ Reading /\ in_fence /\ Markers(sbuf, 1) # {}
  /\ sbuf' = From(sbuf, Min(Markers(sbuf, 1)) + Fence)
  /\ in_fence' = FALSE
  /\ UNCHANGED <<text, got, midline, walkVars, spc, spent, out, ended>>

HoldFence ==
  /\ Reading /\ in_fence /\ Markers(sbuf, 1) = {}
  /\ sbuf' = MarkerTail(sbuf)
  /\ spc' = "await"
  /\ UNCHANGED <<text, got, midline, walkVars, in_fence, spent, out, ended>>

EnterFence ==
  /\ Prose /\ Fences # {}
  /\ Say(UpTo(Held, Min(Fences) - 1))
  /\ sbuf' = From(Held, Min(Fences) + Fence)
  /\ in_fence' = TRUE
  /\ UNCHANGED <<text, got, midline, walkVars, spc, ended>>

CutAt(i) == /\ Say(UpTo(Held, i))
            /\ sbuf' = From(Held, i + 1)
            /\ UNCHANGED <<text, got, midline, walkVars, in_fence, spc, ended>>

CutHard == Prose /\ Fences = {} /\ Hard # {} /\ CutAt(Min(Hard))
CutSoft == Prose /\ Fences = {} /\ SoftCut /\ CutAt(Max(Soft))

AskForMore ==
  /\ Prose /\ Fences = {} /\ Hard = {} /\ ~SoftCut
  /\ sbuf' = Held
  /\ spc' = "await"
  /\ UNCHANGED <<text, got, midline, walkVars, in_fence, spent, out, ended>>

(* The pieces are over: what is left is the last sentence.                  *)
SayTail ==
  /\ Asking /\ mpc = "end"
  /\ IF in_fence THEN UNCHANGED <<out, spent>> ELSE Say(sbuf)
  /\ ended' = "clean"
  /\ UNCHANGED <<text, got, midline, walkVars, sbuf, in_fence, spc>>

Walk == PassOpenLine \/ EndOpenLine \/ Separator \/ Advance \/ WholeLine \/ BreakLine
Cut == LeaveFence \/ HoldFence \/ EnterFence \/ CutHard \/ CutSoft \/ AskForMore

Next == \/ \E n \in 1 .. Len(text) - got : Delta(n)
        \/ StreamFails \/ StreamEnds \/ SayTail
        \/ Walk \/ Cut

Spec == Init /\ [][Next]_vars

(******************************* Properties ********************************)

TypeOK ==
  /\ got \in 0 .. Len(text) /\ index \in Nat
  /\ {midline, emitted, line_open, in_fence} \subseteq BOOLEAN
  /\ mpc \in {"scan", "advance", "break", "end"}
  /\ spc \in {"await", "scan"} /\ ended \in {"no", "clean", "failed"}
  /\ Range(buf) \cup Range(sbuf) \subseteq Range(text)
  /\ spent \subseteq 0 .. index
  /\ Asking /\ in_fence => Len(sbuf) < Fence
  /\ \A i \in DOMAIN out : out[i].message \in 0 .. index

Content(t) == OfKind(t, {"word"})
Said == FlattenSeq([i \in DOMAIN out |-> Content(out[i].said)])
Shown == CleanReply(text, KeepOne)

(* The words of the sentences are the words of the reply as done reports    *)
(* it, in the same order; up to the end they are its beginning.             *)
VoiceMatchesScreen ==
  LET shown == Content(JoinLines(Shown))
  IN IF ended = "clean" THEN Said = shown ELSE IsPrefix(Said, shown)

(* The number of the message each word belongs to, by the splitter of the   *)
(* whole reply.                                                             *)
NumberOf(c) ==
  LET messages == SplitMessages(JoinLines(Shown))
  IN (CHOOSE m \in DOMAIN messages : c \in Range(messages[m])) - 1

(* The walk never puts a sentence into a later message than the splitter    *)
(* does, and when no token ends inside a line both agree on every word.     *)
NumbersFollowLines ==
  ended = "clean" =>
    \A i \in DOMAIN out : \A c \in Range(Content(out[i].said)) :
      /\ out[i].message <= NumberOf(c)
      /\ ~midline => out[i].message = NumberOf(c)

(* The same for every cutting: what the walk's own comment asks for.        *)
NumbersAgree ==
  ended = "clean" =>
    \A i \in DOMAIN out : \A c \in Range(Content(out[i].said)) :
      out[i].message = NumberOf(c)

(* When the walks ask for the next token they have said every sentence that *)
(* is finished, unless an object or a fence is still open.                  *)
SpokenAsItComes ==
  LET received == UpTo(text, got)
      open == \/ \E b \in Places(received, {"open"}) : ObjectEnd(received, b) = 0
              \/ Cardinality(Places(received, {"tick"})) % (2 * Fence) # 0
              \/ IsOnlyObjects(received)
      shown == JoinLines(CleanReply(received, KeepOne))
      finished == UpTo(shown, Max(Places(shown, {"end"}) \cup {0}))
  IN Undecided /\ ~open => IsPrefix(Content(finished), Said)

(* Whatever the reply and however it is cut, what is said are symbols that  *)
(* have arrived, each once and in their order, and no sentence goes into a  *)
(* message before that of an earlier one (iter_sentences, pieces).          *)
Rising(t) == \A i, j \in DOMAIN t : i < j => t[i][2] < t[j][2]
SaidInOrder ==
  /\ \A i \in DOMAIN out : /\ Rising(out[i].said)
                            /\ Range(out[i].said) \subseteq Range(UpTo(text, got))
  /\ \A i, j \in DOMAIN out : i < j =>
       /\ out[i].message <= out[j].message
       /\ \A c \in Range(out[i].said), d \in Range(out[j].said) : c[2] < d[2]

(* In the voice style one sentence of a message opens with a hesitation at  *)
(* most, in writing none, wherever the sentences were cut; but for those    *)
(* the model opened with more than one, of which the first was taken off    *)
(* (iter_message_sentences, strip_leading_filler).                          *)
Hesitant(m) == {i \in DOMAIN out : /\ out[i].message = m
                                   /\ Hesitates(out[i].said)
                                   /\ Has(out[i].said, {"word"})}
Repeated == {i \in DOMAIN out :
  LET s == LeadBlank(out[i].piece) IN \E k \in 2 .. Len(s) : out[i].said = From(s, k)}
Allowed == IF KeepOne THEN 1 ELSE 0
OneFillerEach == \A m \in 0 .. index : Cardinality(Hesitant(m) \ Repeated) <= Allowed

(* The same with no exception, as the style asks for.                       *)
OneFillerAtMost == \A m \in 0 .. index : Cardinality(Hesitant(m)) <= Allowed
=============================================================================
