----------------------------- MODULE SpeechText -----------------------------
(***************************************************************************)
(* What of a model's reply is meant for a person: the rules of             *)
(* echoturn/text that decide what is data, reasoning, a stage direction,   *)
(* a hesitation or a message (reply.py, reasoning.py, stage.py,            *)
(* fillers.py, normalize.py, separators.py, messages.py).                  *)
(*                                                                         *)
(* A text is a sequence of symbols <<kind, place>>.  The kind is what the  *)
(* rules tell apart; the place is where in the model's output the symbol   *)
(* stood, so that every symbol is known again wherever it ends up.         *)
(*   word, filler        content, and a hesitation sound                   *)
(*   end, comma, dots    hard boundary, soft boundary, ellipsis            *)
(*   space, nl, dash     blank, line break, a dash of a separator          *)
(*   tick                one backtick: three make a fence                  *)
(*   open, close, quote  what a JSON object is made of                     *)
(*   lbr, rbr, star      what a stage direction is marked by               *)
(*   think, unthink      opening and closing tag of reasoning              *)
(* Character classes are abstracted to one symbol each, and the taste      *)
(* rules of style.py (emoji, exclamation marks, tildes, repeated           *)
(* punctuation) are left out: no word depends on them.                     *)
(***************************************************************************)
EXTENDS Integers, Sequences, FiniteSets, SequencesExt

CONSTANT MaxSpan  \* symbols a stage direction has at most

Kind(c) == c[1]
OfKind(t, ks) == SelectSeq(t, LAMBDA c : Kind(c) \in ks)
Places(t, ks) == {i \in DOMAIN t : Kind(t[i]) \in ks}
From(t, i) == SubSeq(t, i, Len(t))
UpTo(t, i) == SubSeq(t, 1, i)
Ascending(n, Test(_)) == SelectSeq([i \in 1 .. n |-> i], Test)
Without(t, P) == LET kept[i \in 0 .. Len(t)] ==
                       IF i = 0 THEN <<>>
                       ELSE IF i \in P THEN kept[i - 1] ELSE Append(kept[i - 1], t[i])
                 IN kept[Len(t)]
Others(t, ks) == {i \in DOMAIN t : Kind(t[i]) \notin ks}
Has(t, ks) == Places(t, ks) # {}
DropAll(t, ks) == LET rest == Others(t, ks)
                  IN IF rest = {} THEN <<>> ELSE From(t, Min(rest))

Blank == {"space", "nl"}
Speech == {"word", "filler"}
Words(t) == OfKind(t, Speech)
DropBlank(t) == Without(t, Places(t, Blank))
Trim(t) == LET inner == Others(t, Blank)
           IN IF inner = {} THEN <<>> ELSE SubSeq(t, Min(inner), Max(inner))

(* A piece of punctuation, tags and blanks is not sent to synthesis.        *)
IsSpeakable(t) == \E i \in DOMAIN t :
  Kind(t[i]) \notin Blank \cup {"end", "comma", "dots", "dash", "quote", "lbr", "rbr", "star"}

(***************************** Data objects ********************************)

Quoted(t, b, i) == Cardinality(Places(SubSeq(t, b, i - 1), {"quote"})) % 2 = 1
Loose(t, b, ks) == {i \in b .. Len(t) : Kind(t[i]) \in ks /\ ~Quoted(t, b, i)}

(* The brace that balances the one at b, 0 while there is none.             *)
ObjectEnd(t, b) ==
  LET opens == Loose(t, b, {"open"})
      closes == Loose(t, b, {"close"})
      balanced == {i \in closes : Cardinality({j \in opens : j <= i})
                                  = Cardinality({j \in closes : j <= i})}
  IN IF balanced = {} THEN 0 ELSE Min(balanced)

AreMembers(all) ==
  LET members == IF all # <<>> /\ Kind(all[Len(all)]) = "comma" THEN Front(all) ELSE all
  IN /\ Len(members) % 3 # 1 /\ (Len(members) % 3 = 0 => members = <<>>)
     /\ \A i \in DOMAIN members :
          Kind(members[i]) = IF i % 3 = 0 THEN "comma" ELSE "quote"

(* b .. e parses as a JSON object: a quoted run stands for one member with *)
(* its value, and members are parted by commas.  A comma too many at the    *)
(* end and a line break inside a string are accepted.                       *)
IsDataObject(t, b, e) ==
  LET loose == {i \in b + 1 .. e - 1 : Kind(t[i]) = "quote" \/ ~Quoted(t, b, i)}
  IN AreMembers(DropBlank(Without(t, DOMAIN t \ loose)))

ObjectAt(t, b) == Kind(t[b]) = "open" /\
                  \E e \in {ObjectEnd(t, b)} : e # 0 /\ IsDataObject(t, b, e)

(* The brace at b opens a line, or a quoted key; gone is what was removed   *)
(* in front of it.                                                          *)
OpensDataObject(t, gone, b) ==
  LET before == Others(UpTo(t, b - 1), {"space"}) \ gone
      after == Others(t, Blank) \cap (b + 1 .. Len(t))
  IN \/ before = {} \/ Kind(t[Max(before)]) = "nl"
     \/ after # {} /\ Kind(t[Min(after)]) = "quote"

(* The places of the finished objects, one after the other.                 *)
DataObjects(t) ==
  LET from[i \in 1 .. Len(t) + 1] ==
        IF i > Len(t) THEN {}
        ELSE IF ObjectAt(t, i) THEN i .. ObjectEnd(t, i) \cup from[ObjectEnd(t, i) + 1]
        ELSE from[i + 1]
  IN from[1]
StripDataObjects(t) == Without(t, DataObjects(t))

(* The text before a run that opened as data and never closed.              *)
CutOpenObject(t) ==
  LET from[i \in 1 .. Len(t) + 1] ==
        IF i > Len(t) THEN {}
        ELSE IF Kind(t[i]) # "open" THEN from[i + 1]
        ELSE IF ObjectEnd(t, i) # 0 THEN from[ObjectEnd(t, i) + 1]
        ELSE IF OpensDataObject(t, {}, i) THEN i .. Len(t) ELSE {}
  IN Without(t, from[1])

(* Nothing but complete objects, one after the other.                       *)
IsOnlyObjects(t) == /\ Has(t, {"open"})
                    /\ Others(StripDataObjects(t), Blank) = {}

(***************** Reasoning, fences and stage directions ******************)

StripReasoning(t) ==
  IF Has(t, {"unthink"}) THEN From(t, Min(Places(t, {"unthink"})) + 1)
  ELSE IF Has(t, {"think"}) THEN UpTo(t, Min(Places(t, {"think"})) - 1)
  ELSE t

Fence == 3
MarkerAt(t, i) == /\ i + Fence - 1 <= Len(t)
                  /\ \A j \in i .. i + Fence - 1 : Kind(t[j]) = "tick"
Markers(t, from) == {i \in from .. Len(t) : MarkerAt(t, i)}

(* Fenced blocks are removed; one that never closes goes to the end, but    *)
(* only when no block of the text is closed.                                *)
StripClosed(t) ==
  LET from[i \in 1 .. Len(t) + 1] ==
        LET e == Min(Markers(t, i + Fence)) + Fence
        IN IF i > Len(t) THEN {}
           ELSE IF MarkerAt(t, i) /\ Markers(t, i + Fence) # {} THEN i .. e - 1 \cup from[e]
           ELSE from[i + 1]
  IN Without(t, from[1])

StripFences(t) ==
  IF Markers(t, 1) = {} \/ StripClosed(t) # t THEN StripClosed(t)
  ELSE UpTo(t, Min(Markers(t, 1)) - 1)

DropMachineText(t) ==
  IF Markers(t, 1) # {} THEN StripFences(t)
  ELSE IF IsOnlyObjects(t) THEN t
  ELSE CutOpenObject(StripDataObjects(t))

(* The bracketed spans, as pairs of places.                                 *)
Brackets(t) ==
  {s \in Places(t, {"lbr"}) \X Places(t, {"rbr"}) :
    /\ s[2] - s[1] - 1 \in 0 .. MaxSpan
    /\ \A j \in s[1] + 1 .. s[2] - 1 : Kind(t[j]) \notin {"lbr", "rbr", "nl"}}

(* The last place of the emphasis that opens with the star at i, 0 if there *)
(* is none: one star or two on each side, as many as there are; two stars   *)
(* that close nowhere are an empty one.                                     *)
StarAt(t, i) == i \in DOMAIN t /\ Kind(t[i]) = "star"
EmphasisEnd(t, i) ==
  LET from == IF StarAt(t, i + 1) THEN i + 2 ELSE i + 1
      closers == {e \in from .. from + MaxSpan :
                   StarAt(t, e) /\ \A j \in from .. e - 1 : Kind(t[j]) \notin {"star", "nl"}}
      e == Min(closers)
  IN IF closers # {} THEN IF StarAt(t, e + 1) THEN e + 1 ELSE e
     ELSE IF StarAt(t, i + 1) THEN i + 1 ELSE 0
Emphases(t) ==
  LET from[i \in 1 .. Len(t) + 1] ==
        IF i > Len(t) THEN {}
        ELSE IF StarAt(t, i) /\ EmphasisEnd(t, i) # 0
             THEN {<<i, EmphasisEnd(t, i)>>} \cup from[EmphasisEnd(t, i) + 1]
        ELSE from[i + 1]
  IN from[1]

WithoutSpans(t, spans) == Without(t, UNION {s[1] .. s[2] : s \in spans})
DropBrackets(t) == WithoutSpans(t, Brackets(t))
DropEmphases(t) == WithoutSpans(t, Emphases(t))

(* The text before an opening bracket that never closes at its end.         *)
DropUnclosed(t) ==
  LET last == Places(t, {"lbr"})
      rest == From(t, Max(last) + 1)
  IN IF \/ last = {} \/ Places(rest, {"rbr"}) # {}
        \/ Has(UpTo(rest, Len(rest) - 1), {"nl"})
     THEN t ELSE UpTo(t, Max(last) - 1)

(* Of what is left the closing brackets at the beginning go as well.        *)
StripStageDirections(t) ==
  Trim(DropAll(DropUnclosed(DropEmphases(DropBrackets(t))), {"rbr"}))

(********************************* Fillers *********************************)

LeadBlank(t) == DropAll(t, Blank)
DropLead(t, ks) == LET s == LeadBlank(t)
                   IN IF s # <<>> /\ Kind(s[1]) \in ks THEN LeadBlank(Tail(s)) ELSE t

(* A hesitation: a filler, then an ellipsis.  A bare filler is a word.      *)
Hesitates(t) == LET s == LeadBlank(t)
                    r == DropLead(s, {"filler"})
                IN r # s /\ r # <<>> /\ Kind(r[1]) = "dots"

StripLeadingFiller(t) ==
  LET out == LeadBlank(DropAll(LeadBlank(
               IF Hesitates(t) THEN DropLead(t, {"filler"}) ELSE t), {"dots"}))
  IN IF IsSpeakable(out) THEN out ELSE t

(* One leading filler stays, its repetitions go: <<text, kept>>.            *)
KeepOneFiller(t) ==
  LET s == LeadBlank(t)
      one(r) == DropLead(DropLead(r, {"filler"}), {"dots"})
      again[r \in {From(s, i) : i \in 1 .. Len(s) + 1}] ==
        IF r # <<>> /\ Kind(r[1]) = "filler" THEN again[one(r)] ELSE LeadBlank(r)
      rest == again[one(s)]
      repeats == Len(s) - Len(one(s)) + 1 .. Len(s) - Len(rest)
  IN IF s # <<>> /\ Kind(s[1]) = "filler" /\ IsSpeakable(rest)
     THEN <<Without(s, repeats), TRUE>> ELSE <<StripLeadingFiller(t), FALSE>>

(******************************** Messages *********************************)

Dashes == 3
Body(line) == LET inner == Others(line, {"space"})
              IN IF inner = {} THEN <<>> ELSE SubSeq(line, Min(inner), Max(inner))

(* A blank line, or a line that is one run of dashes.                       *)
IsMessageSep(line) ==
  \/ Body(line) = <<>>
  \/ Len(Body(line)) >= Dashes /\ Others(Body(line), {"dash"}) = {}

(* Nothing but blanks and then dashes: could still become a separator.      *)
SepPrefix(t) == Others(DropAll(t, {"space"}), {"dash"}) = {}

(* Runs of dashes inside a line are noise.                                  *)
StraySep(t) == Without(t, {i \in DOMAIN t :
  \E a \in 1 .. i : /\ a + Dashes - 1 <= Len(t)
                    /\ \A j \in a .. (IF a + Dashes - 1 < i THEN i ELSE a + Dashes - 1) :
                         Kind(t[j]) = "dash"})

Lines(t) ==
  LET from[i \in 1 .. Len(t) + 1] ==
        LET nls == {j \in i .. Len(t) : Kind(t[j]) = "nl"}
        IN IF nls = {} THEN <<From(t, i)>>
           ELSE <<SubSeq(t, i, Min(nls) - 1)>> \o from[Min(nls) + 1]
  IN from[1]

(* The lines of a reply as one text again; <<"nl", 0>> is no symbol of it.  *)
Broken(ls) == FlattenSeq([i \in DOMAIN ls |-> <<<<"nl", 0>>>> \o ls[i]])
JoinLines(ls) == IF ls = <<>> THEN <<>> ELSE Tail(Broken(ls))

(* split_messages: the lines between two separators are one message, a      *)
(* message that carries nothing is none.                                    *)
SplitMessages(t) ==
  LET ls == Lines(t)
      sep(i) == i \notin DOMAIN ls \/ IsMessageSep(ls[i])
      starts == Ascending(Len(ls), LAMBDA i : ~sep(i) /\ sep(i - 1))
      stop(i) == Min({j \in i .. Len(ls) : sep(j + 1)})
      piece(s) == IF s[1] = 1 THEN JoinLines(SubSeq(ls, s[1], s[2]))
                  ELSE Broken(SubSeq(ls, s[1], s[2]))
      part(i) == StraySep(StripStageDirections(piece(<<i, stop(i)>>)))
  IN SelectSeq([n \in DOMAIN starts |-> part(starts[n])], LAMBDA m : Body(m) # <<>>)

(* normalize_speech: fillers line by line, one a message in the voice style.*)
NormalizeSpeech(t, keepOne) ==
  LET clean(st, line) ==
        IF IsMessageSep(line) THEN [st EXCEPT !.kept = FALSE, !.out = Append(@, line)]
        ELSE IF ~keepOne \/ st.kept
        THEN [st EXCEPT !.out = Append(@, StripLeadingFiller(line))]
        ELSE [kept |-> KeepOneFiller(line)[2],
              out |-> Append(st.out, KeepOneFiller(line)[1])]
  IN FoldLeft(clean, [kept |-> FALSE, out |-> <<>>], Lines(t)).out

(* The displayable lines of a raw reply: what the done event reports.       *)
CleanReply(t, keepOne) ==
  NormalizeSpeech(StripStageDirections(DropMachineText(StripReasoning(t))), keepOne)

=============================================================================
