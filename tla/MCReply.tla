------------------------------ MODULE MCReply -------------------------------
(* Reply with every text of up to MaxFragments fragments.                   *)
EXTENDS Reply

CONSTANTS MaxFragments, Fragments

Written(most, fragments) ==
  {[i \in DOMAIN t |-> <<t[i], i>>] : t \in
     UNION {{FlattenSeq(fs) : fs \in [1 .. n -> fragments]} : n \in 1 .. most}}
AllReplies == Written(MaxFragments, Fragments)

(* No bracket holds words after the end of a sentence: the walk cuts it     *)
(* there, and of the second half nothing but the bracket would go.  And no  *)
(* two emphases touch once everything between them is gone: their stars     *)
(* would pair in another way.                                               *)
Uncut(t) ==
  LET shown == DropMachineText(StripReasoning(t))
      prose == DropBrackets(shown)
  IN /\ \A s \in Brackets(shown) :
          ~\E i \in Places(shown, {"end"}), j \in Places(shown, Speech) :
             s[1] < i /\ i < j /\ j < s[2]
     /\ \A i \in DOMAIN prose : ~(StarAt(prose, i) /\ StarAt(prose, i + 1))

(* The replies on which voice and screen are meant to agree, and do: what   *)
(* is left out is listed in README.md.                                      *)
Plain(t) ==
  /\ Uncut(t)
  /\ ~IsOnlyObjects(t)
  /\ Has(t, {"tick"}) => ~Has(t, {"open"})
  /\ \A b \in Places(t, {"open"}) :
       ObjectEnd(t, b) = 0 => OpensDataObject(t, {}, b) /\ ~Has(From(t, b), {"nl"})

(* Every line is a separator or leaves a word behind: the walk counts a     *)
(* message of which nothing is left, the splitter does not.                 *)
NoEmptyMessage(t) ==
  \A l \in Range(Lines(t)) :
    IsMessageSep(l) \/ Has(StripStageDirections(StripFences(StripDataObjects(l))), {"word"})

(* Replies of sentences that open with one hesitation or with two.          *)
Hesitation == {
  <<"filler", "dots", "word", "end">>, <<"filler", "dots", "filler", "dots", "word", "end">>,
  <<"filler", "dots">>, <<"nl">>, <<"nl", "nl">>}

(* Replies with stage directions: in brackets or stars, with the sentence   *)
(* ending inside, and in brackets that hold too much to be one.             *)
Direction == {
  <<"word", "end">>, <<"nl">>, <<"filler", "dots">>,
  <<"star", "word", "star">>, <<"star", "star", "word", "star", "star">>,
  <<"lbr", "word", "end", "rbr">>, <<"lbr", "word", "word", "word", "rbr">>}

PlainReplies ==
  {t \in AllReplies \cup Written(3, Hesitation) \cup Written(MaxFragments, Direction) :
     Plain(t) /\ NoEmptyMessage(t)}

Block == <<"tick", "tick", "tick">>
Fragment == {
  <<"word">>, <<"filler", "dots", "word">>, <<"end">>,
  <<"nl">>, <<"nl", "dash", "dash", "dash", "nl">>,
  <<"lbr", "word", "rbr">>, Block \o <<"word", "end">> \o Block,
  <<"open", "quote", "word", "end", "quote", "close">>, <<"open", "quote", "word">>}

(* Stage directions that the walk cuts in two.                              *)
CutDirections == {<<"word">>, <<"lbr", "end", "word", "rbr">>, <<"star", "word", "end", "star">>}

(* Replies that begin with reasoning, tagged at both ends.                  *)
Tagged == {<<"think">>, <<"unthink">>, <<"word", "end">>}
TaggedReplies == {t \in AllReplies :
  Places(t, {"think"}) = {1} /\ Cardinality(Places(t, {"unthink"})) = 1}
=============================================================================
