------------------------- MODULE Conversation_proofs -------------------------
(***************************************************************************)
(* For any number of requests of one conversation: the registry of live    *)
(* turns keeps its invariant; a pump that runs is registered, or stopped,  *)
(* or about to be; every reply is written down once, as its turn ended; a  *)
(* client that stays is sent all of its turn; and the store keeps its      *)
(* bound.                                                                  *)
(***************************************************************************)
EXTENDS Conversation, SequenceTheorems, TLAPS

(**************************** A queue's moves ****************************)

LEMMA Appended ==
  ASSUME NEW S, NEW s \in Seq(S), NEW e \in S
  PROVE  /\ Len(s) \in Nat /\ DOMAIN s = 1 .. Len(s)
         /\ Append(s, e) \in Seq(S) /\ Len(Append(s, e)) = Len(s) + 1
         /\ DOMAIN Append(s, e) = 1 .. Len(s) + 1
         /\ \A i \in 1 .. Len(s) : Append(s, e)[i] = s[i]
         /\ Append(s, e)[Len(s) + 1] = e
  BY AppendProperties, LenProperties

LEMMA PutBehind ==
  ASSUME NEW S, NEW o \in Seq(S), NEW q \in Seq(S), NEW e \in S
  PROVE  o \o Append(q, e) = Append(o \o q, e)
  OBVIOUS

LEMMA MoveOn ==
  ASSUME NEW S, NEW o \in Seq(S), NEW q \in Seq(S), q # <<>>
  PROVE  Append(o, Head(q)) \o Tail(q) = o \o q
<1> DEFINE h == Head(q)
           r == Tail(q)
<1>1. h \in S /\ r \in Seq(S) /\ <<h>> \in Seq(S) /\ Len(q) \in Nat \ {0} /\ h = q[1]
  BY HeadTailProperties, EmptySeq
<1>2. q = <<h>> \o r
  <2>1. SubSeq(q, 1, Len(q)) = <<q[1]>> \o SubSeq(q, 2, Len(q))
    BY <1>1, SubSeqRecursiveFirst
  <2>2. r = SubSeq(q, 2, Len(q)) /\ SubSeq(q, 1, Len(q)) = q
    BY TailIsSubSeq, SubSeqFull
  <2> QED
    BY <1>1, <2>1, <2>2
<1>3. Append(o, h) = o \o <<h>>
  BY <1>1, AppendIsConcat
<1> HIDE DEF h, r
<1>4. (o \o <<h>>) \o r = o \o (<<h>> \o r)
  BY <1>1, ConcatAssociative
<1> QED
  BY <1>2, <1>3, <1>4 DEF h, r

(****************************** The registry *******************************)

LEMMA InitRegistry == Live!Init => Live!RegistryInv
  BY DEF Live!Init, Live!RegistryInv, Live!TypeOK, Live!NewestWins, Live!Turn,
         Live!Nobody

LEMMA StepRegistry == Live!RegistryInv /\ [Live!Next]_liveVars => Live!RegistryInv'
<1> SUFFICES ASSUME Live!RegistryInv, [Live!Next]_liveVars PROVE Live!RegistryInv'
  OBVIOUS
<1> USE DEF Live!RegistryInv, Live!TypeOK, Live!NewestWins
<1>0. Live!Nobody \notin Live!Turn
  BY DEF Live!Nobody, Live!Turn
<1>1. ASSUME NEW t \in Live!Turn, Live!Swap(t) PROVE Live!RegistryInv'
  BY <1>0, <1>1 DEF Live!Swap
<1>2. ASSUME NEW t \in Live!Turn, Live!Displace(t) PROVE Live!RegistryInv'
  BY <1>0, <1>2 DEF Live!Displace
<1>3. ASSUME NEW t \in Live!Turn, Live!SetOwn(t) PROVE Live!RegistryInv'
  BY <1>0, <1>3 DEF Live!SetOwn
<1>4. ASSUME NEW t \in Live!Turn, Live!End(t) PROVE Live!RegistryInv'
  BY <1>0, <1>4 DEF Live!End
<1>5. CASE Live!StopReads
  BY <1>5 DEF Live!StopReads
<1>6. CASE Live!StopSets
  BY <1>0, <1>6 DEF Live!StopSets
<1>7. CASE UNCHANGED liveVars
  BY <1>7 DEF liveVars
<1> QED
  BY <1>1, <1>2, <1>3, <1>4, <1>5, <1>6, <1>7 DEF Live!Next, Live!TurnStep

(* The registry's invariant holds for any number of requests.               *)
THEOREM RegistryInvariant == Live!Spec => []Live!RegistryInv
<1>1. Live!Init => Live!RegistryInv
  BY InitRegistry
<1>2. Live!RegistryInv /\ [Live!Next]_liveVars => Live!RegistryInv'
  BY StepRegistry
<1> QED
  BY <1>1, <1>2, PTL DEF Live!Spec, liveVars, Live!vars

LEMMA LiveStep ==
  ASSUME [Next]_vars
  PROVE  [Live!Next]_liveVars
<1>1. ASSUME NEW t \in Turn, Begin(t) PROVE Live!Next
  BY <1>1 DEF Begin, Live!Next, Live!TurnStep, Turn, Live!Turn
<1>2. ASSUME NEW t \in Turn, Leave(t) PROVE Live!Next
  BY <1>2 DEF Leave, Live!Next, Live!TurnStep, Turn, Live!Turn
<1>3. ASSUME NEW t \in Turn, Close(t) PROVE Live!Next
  BY <1>3 DEF Close, Live!Next, Live!TurnStep, Turn, Live!Turn
<1>4. CASE HangUp
  BY <1>4 DEF HangUp, Live!Next
<1>5. ASSUME NEW t \in Turn, Ask(t) \/ ReadWindow(t) \/ Respond(t) PROVE UNCHANGED liveVars
  BY <1>5 DEF Ask, ReadWindow, Respond
<1>6. ASSUME NEW t \in Turn, PumpStep(t) \/ FailedEnds(t) \/ Deliver(t) \/ TurnActs(t)
      PROVE  UNCHANGED liveVars
  BY <1>6 DEF PumpStep, Resume, Record, Push, PushFailure, PumpEnds, FailedEnds, Deliver, TurnActs,
              Says, Raises
<1>7. CASE Silence \/ UNCHANGED vars
  BY <1>7 DEF Silence, vars
<1> QED
  BY <1>1, <1>2, <1>3, <1>4, <1>5, <1>6, <1>7 DEF Next, Route, Bridge

LEMMA StepLive == Live!RegistryInv /\ [Next]_vars => Live!RegistryInv'
  BY LiveStep, StepRegistry

LEMMA InitLive == Init => Live!RegistryInv
  BY InitRegistry DEF Init

(* Of two turns of one conversation nobody lets the older one run on.       *)
THEOREM NewestTurnWins == Spec => []NewestWins
<1>1. Live!RegistryInv => NewestWins
  BY DEF Live!RegistryInv, NewestWins
<1> QED
  BY <1>1, InitLive, StepLive, PTL DEF Spec

(******************************* The replies *******************************)

LEMMA PumpUnmoved ==
  ASSUME PumpInv, UNCHANGED pumpVars
  PROVE  PumpInv'
  BY DEF PumpInv, PumpTypes, Undecided, Decided, Due, pumpVars

LEMMA OthersUnmoved ==
  ASSUME NEW t, NEW u \in Turn \ {t}, Undecided(u), Decided(u),
         gpc'[u] = gpc[u], event'[u] = event[u], said'[u] = said[u], recorded'[u] = recorded[u]
  PROVE  Undecided(u)' /\ Decided(u)'
  BY DEF Undecided, Decided, Due

(* The event that ends a turn is looked at when the pump is resumed, or the *)
(* turn says it; until then nothing is written down.                        *)
LEMMA CarriesKeeps ==
  ASSUME PumpInv, NEW t \in Turn, Resume(t) \/ TurnActs(t)
  PROVE  PumpInv'
<1>1. PumpTypes /\ Undecided(t) /\ gpc[t] \in {"next", "blocked"}
  BY DEF PumpInv, Resume, TurnActs, Says, Raises
<1>2. UNCHANGED <<said, recorded>> /\ recorded[t] = <<>>
  BY <1>1 DEF Resume, TurnActs, Says, Raises, Undecided
<1>3. \/ /\ \E e \in Event : event' = [event EXCEPT ![t] = e]
         /\ gpc' = [gpc EXCEPT ![t] = "record"]
      \/ gpc' = [gpc EXCEPT ![t] = "blocked"] /\ event' = event
      \/ gpc' = [gpc EXCEPT ![t] = "raised"] /\ event' = [event EXCEPT ![t] = "error"]
  BY DEF Resume, TurnActs, Says, Raises, Event
<1>4. PumpTypes'
  BY <1>1, <1>2, <1>3 DEF PumpTypes, Event
<1>5. Undecided(t)' /\ Decided(t)'
  BY <1>1, <1>2, <1>3 DEF PumpTypes, Undecided, Decided
<1>6. ASSUME NEW u \in Turn \ {t} PROVE Undecided(u)' /\ Decided(u)'
  <2>1. gpc'[u] = gpc[u] /\ event'[u] = event[u]
    BY <1>1, <1>3 DEF PumpTypes
  <2> QED
    BY <1>2, <2>1, OthersUnmoved DEF PumpInv
<1> QED
  BY <1>4, <1>5, <1>6 DEF PumpInv

(* record_turn writes down what is due, when it is due.                     *)
LEMMA RecordKeeps ==
  ASSUME PumpInv, NEW t \in Turn, Record(t)
  PROVE  PumpInv'
<1>1. PumpTypes /\ Undecided(t) /\ gpc[t] = "record" /\ event' = event
  BY DEF PumpInv, Record
<1>2. gpc' = [gpc EXCEPT ![t] = "push"] /\ recorded[t] = <<>>
  BY <1>1 DEF Record, Undecided
<1>3. said' = [said EXCEPT ![t] = IF event[t] = "sentence" THEN said[t] + 1 ELSE said[t]]
  BY DEF Record
<1>4. said' \in [Turn -> Nat] /\ (event[t] # "sentence" => said' = said)
  BY <1>1, <1>3 DEF PumpTypes
<1>5. Append(<<>>, event[t]) = <<event[t]>>
  OBVIOUS
<1>6. \/ /\ event[t] = "done" \/ (event[t] = "aborted" /\ said[t] > 0)
         /\ recorded' = [recorded EXCEPT ![t] = <<event[t]>>]
      \/ /\ ~(event[t] = "done" \/ (event[t] = "aborted" /\ said[t] > 0))
         /\ recorded' = recorded
  BY <1>2, <1>5 DEF Record
<1>7. recorded' \in [Turn -> Seq({"done", "aborted"})]
  <2>1. <<"done">> \in Seq({"done", "aborted"}) /\ <<"aborted">> \in Seq({"done", "aborted"})
    OBVIOUS
  <2> QED
    BY <1>1, <1>6, <2>1 DEF PumpTypes
<1>8. gpc' \in [Turn -> {"unborn", "next", "blocked", "record", "push", "raised", "finish",
                         "gone"}]
      /\ gpc'[t] = "push"
  BY <1>1, <1>2 DEF PumpTypes
<1>9. recorded'[t] = Due(t)'
  BY <1>1, <1>2, <1>4, <1>6 DEF Due, PumpTypes
<1>10. ASSUME NEW u \in Turn \ {t} PROVE Undecided(u)' /\ Decided(u)'
  <2>1. gpc'[u] = gpc[u] /\ said'[u] = said[u] /\ recorded'[u] = recorded[u]
    BY <1>1, <1>2, <1>3, <1>6 DEF PumpTypes
  <2> QED
    BY <1>1, <2>1, OthersUnmoved DEF PumpInv
<1>11. PumpTypes' /\ Undecided(t)' /\ Decided(t)'
  BY <1>1, <1>4, <1>7, <1>8, <1>9 DEF PumpTypes, Undecided, Decided
<1> QED
  BY <1>10, <1>11 DEF PumpInv

(* What is over stays as it was written down.                               *)
LEMMA GoesOnKeeps ==
  ASSUME PumpInv, PumpFollows, NEW t \in Turn,
         Respond(t) \/ Push(t) \/ FailedEnds(t) \/ PushFailure(t) \/ PumpEnds(t)
  PROVE  PumpInv'
<1>1. PumpTypes /\ Undecided(t) /\ Decided(t) /\ UNCHANGED <<event, said, recorded>>
  BY DEF PumpInv, Respond, Push, FailedEnds, PushFailure, PumpEnds
<1>0. hpc[t] = "answer" => gpc[t] = "unborn"
  BY DEF PumpFollows, Handling
<1>2. \/ gpc[t] = "unborn" /\ gpc' = [gpc EXCEPT ![t] = "next"]
      \/ /\ gpc[t] = "push"
         /\ gpc' = [gpc EXCEPT ![t] = IF event[t] \in {"done", "aborted"} THEN "finish" ELSE "next"]
      \/ gpc[t] = "blocked" /\ event[t] = "error" /\ gpc' = [gpc EXCEPT ![t] = "finish"]
      \/ gpc[t] = "raised" /\ gpc' = [gpc EXCEPT ![t] = "finish"]
      \/ gpc[t] = "finish" /\ gpc' = [gpc EXCEPT ![t] = "gone"]
  BY <1>0 DEF Respond, Push, FailedEnds, PushFailure, PumpEnds, HasFailed
<1>3. PumpTypes'
  BY <1>1, <1>2 DEF PumpTypes
<1>4. Undecided(t)' /\ Decided(t)'
  BY <1>1, <1>2 DEF PumpTypes, Undecided, Decided, Due
<1>5. ASSUME NEW u \in Turn \ {t} PROVE Undecided(u)' /\ Decided(u)'
  <2>1. gpc'[u] = gpc[u]
    BY <1>1, <1>2 DEF PumpTypes
  <2> QED
    BY <1>1, <2>1, OthersUnmoved DEF PumpInv
<1> QED
  BY <1>3, <1>4, <1>5 DEF PumpInv

(* A pump begins when its handler is done, and once.                        *)
LEMMA FollowsKeeps ==
  ASSUME PumpTypes, PumpFollows, [Next]_vars
  PROVE  PumpFollows'
<1> USE DEF PumpFollows, Handling
<1>1. ASSUME NEW t \in Turn, Begin(t) \/ Ask(t) \/ ReadWindow(t) \/ Leave(t) \/ Close(t)
      PROVE  PumpFollows'
  <2>1. gpc' = gpc
    BY <1>1 DEF Begin, Ask, ReadWindow, Leave, Close, pumpVars
  <2>2. \/ hpc' = hpc
        \/ \E at \in {"ask", "read", "answer"} :
             hpc[t] \in Handling /\ hpc' = [hpc EXCEPT ![t] = at]
        \/ \E at \in {"close", "closed"} : hpc' = [hpc EXCEPT ![t] = at]
    BY <1>1 DEF Begin, Ask, ReadWindow, Leave, Close
  <2> QED
    BY <2>1, <2>2
<1>2. ASSUME NEW t \in Turn, Respond(t) PROVE PumpFollows'
  BY <1>2 DEF Respond
<1>3. ASSUME NEW t \in Turn,
             PumpStep(t) \/ FailedEnds(t) \/ TurnActs(t)
      PROVE  PumpFollows'
  <2>1. gpc[t] # "unborn" /\ hpc' = hpc
    BY <1>3 DEF PumpStep, Resume, Record, Push, PushFailure, PumpEnds, FailedEnds, TurnActs, Says,
                Raises
  <2>2. \E at : gpc' = [gpc EXCEPT ![t] = at]
    BY <1>3 DEF PumpStep, Resume, Record, Push, PushFailure, PumpEnds, FailedEnds, TurnActs, Says,
                Raises
  <2> QED
    BY <2>1, <2>2 DEF PumpTypes
<1>4. CASE \/ \E t \in Turn : Deliver(t)
           \/ HangUp \/ Silence \/ UNCHANGED vars
  BY <1>4 DEF Deliver, HangUp, Silence, vars, pumpVars
<1> QED
  BY <1>1, <1>2, <1>3, <1>4 DEF Next, Route, Bridge, PumpStep

LEMMA StepReplies ==
  ASSUME RepliesInv, [Next]_vars
  PROVE  RepliesInv'
<1>1. PumpInv /\ PumpFollows /\ PumpTypes
  BY DEF RepliesInv, PumpInv
<1>2. ASSUME NEW t \in Turn, Resume(t) \/ TurnActs(t) PROVE PumpInv'
  BY <1>1, <1>2, CarriesKeeps
<1>3. ASSUME NEW t \in Turn, Record(t) PROVE PumpInv'
  BY <1>1, <1>3, RecordKeeps
<1>4. ASSUME NEW t \in Turn,
             Respond(t) \/ Push(t) \/ FailedEnds(t) \/ PushFailure(t) \/ PumpEnds(t)
      PROVE  PumpInv'
  BY <1>1, <1>4, GoesOnKeeps
<1>5. ASSUME \/ \E t \in Turn : \/ Begin(t) \/ Ask(t) \/ ReadWindow(t)
                                 \/ Leave(t) \/ Close(t) \/ Deliver(t)
             \/ HangUp \/ Silence \/ UNCHANGED vars
      PROVE  PumpInv'
  <2>1. UNCHANGED pumpVars
    BY <1>5 DEF Begin, Ask, ReadWindow, Leave, Close, Deliver, HangUp, Silence,
                vars, pumpVars
  <2> QED
    BY <1>1, <2>1, PumpUnmoved
<1>6. PumpInv'
  BY <1>2, <1>3, <1>4, <1>5 DEF Next, Route, Bridge, PumpStep
<1> QED
  BY <1>1, <1>6, FollowsKeeps DEF RepliesInv

LEMMA InitReplies == Init => RepliesInv
<1> SUFFICES ASSUME Init PROVE RepliesInv
  OBVIOUS
<1>1. <<>> \in Seq({"done", "aborted"})
  OBVIOUS
<1>2. PumpTypes
  BY <1>1 DEF Init, PumpTypes
<1>3. \A t \in Turn : Undecided(t) /\ Decided(t)
  BY DEF Init, Undecided, Decided
<1>4. PumpFollows
  BY DEF Init, PumpFollows, Handling
<1> QED
  BY <1>2, <1>3, <1>4 DEF RepliesInv, PumpInv

(* A reply is written down once, when and as its turn ends.                 *)
THEOREM WrittenDownOnce == Spec => []RecordedOnce
<1>1. RepliesInv /\ [Next]_vars => RepliesInv'
  BY StepReplies
<1>2. RepliesInv => RecordedOnce
  BY DEF RepliesInv, PumpInv, Decided, RecordedOnce
<1> QED
  BY <1>1, <1>2, InitReplies, PTL DEF Spec

(******************************* The clients *******************************)

Frame == Event \cup {Finished}

LEMMA FrameFacts ==
  /\ Finished \notin Event /\ Event \subseteq Frame /\ Finished \in Frame
  /\ {"sentence", "done", "error", "aborted"} = Event
  BY DEF Frame, Finished, Event

LEMMA SentencesType ==
  ASSUME NEW n \in Nat
  PROVE  /\ Sentences(n) \in Seq(Event)
         /\ Append(Sentences(n), "sentence") = Sentences(n + 1)
<1>1. Sentences(n) = [i \in 1 .. n |-> "sentence"] /\ Sentences(n) \in Seq(Event)
  BY DEF Sentences, Event
<1>2. Append(Sentences(n), "sentence") = [i \in 1 .. n + 1 |-> "sentence"]
  BY <1>1
<1> QED
  BY <1>1, <1>2 DEF Sentences

LEMMA WordsType ==
  ASSUME PumpTypes, NEW t \in Turn, Told(t)
  PROVE  Pushed(t) \in Nat /\ Words(gpc[t], event[t], Sentences(Pushed(t))) \in SUBSET Seq(Event)
<1>1. said[t] \in Nat
  BY DEF PumpTypes
<1>2. Pushed(t) \in Nat
  BY <1>1 DEF Pushed, Told
<1> DEFINE plain == Sentences(Pushed(t))
<1>3. plain \in Seq(Event)
  BY <1>2, SentencesType
<1> HIDE DEF plain
<1>4. Append(plain, "error") \in Seq(Event) /\ Append(plain, "done") \in Seq(Event)
      /\ Append(plain, "aborted") \in Seq(Event)
      /\ Append(Append(plain, "error"), "aborted") \in Seq(Event)
  BY <1>3, FrameFacts
<1> QED
  BY <1>2, <1>3, <1>4 DEF Words, plain

(* What may have been pushed, as the pump goes on with the event it carries *)
(* or takes another one.                                                    *)
LEMMA SameWords ==
  ASSUME NEW plain, NEW at, NEW to, NEW c, NEW d, NEW w \in Words(at, c, plain),
         \/ at \in {"next", "blocked"} /\ to = "blocked" /\ d = c
         \/ at \in {"next", "blocked"} /\ to = "record" /\ (d = "aborted" \/ c # "error")
         \/ at = "blocked" /\ to = "raised" /\ c # "error"
         \/ at = "record" /\ to = "push" /\ d = c
         \/ at = "blocked" /\ to = "finish" /\ c = "error" /\ d = c
         \/ at = "unborn" /\ to = "next" /\ c # "error" /\ d = c
         \/ at = "finish" /\ to = "gone" /\ d = c
  PROVE  w \in Words(to, d, plain)
  BY DEF Words

LEMMA MoreWords ==
  ASSUME NEW plain, NEW to, NEW c \in Event, c # "sentence", NEW w \in Words("push", c, plain),
         to = IF c \in {"done", "aborted"} THEN "finish" ELSE "next"
  PROVE  Append(w, c) \in Words(to, c, plain)
<1>1. CASE c = "aborted"
  BY <1>1 DEF Words
<1>2. CASE c = "error"
  BY <1>2 DEF Words
<1>3. CASE c = "done"
  BY <1>3 DEF Words
<1> QED
  BY <1>1, <1>2, <1>3 DEF Event

LEMMA PipeTypes ==
  ASSUME ToldInv, NEW t \in Turn
  PROVE  /\ sent[t] \in Seq(Event) /\ sent[t] \in Seq(Frame) /\ pipe[t] \in Seq(Frame)
         /\ sent \in [Turn -> Seq(Event)] /\ pipe \in [Turn -> Seq(Frame)] /\ Told(t)
<1>1. sent[t] \in Seq(Event) /\ pipe[t] \in Seq(Frame) /\ Told(t)
  BY DEF ToldInv, Frame
<1>2. sent[t] \in Seq(Frame)
  BY <1>1, FrameFacts, SeqMonotonic
<1> QED
  BY <1>1, <1>2 DEF ToldInv, Frame

(* A turn whose pump, response and client did nothing.                      *)
Still(u) ==
  /\ gpc'[u] = gpc[u] /\ event'[u] = event[u] /\ said'[u] = said[u] /\ hpc'[u] = hpc[u]
  /\ pipe'[u] = pipe[u] /\ sent'[u] = sent[u] /\ (u \in left' <=> u \in left)

LEMMA StillIsTold ==
  ASSUME NEW u, Told(u), Still(u)
  PROVE  Told(u)'
  BY DEF Told, Still, Words, Pushed, Stayed, HasFailed

LEMMA OthersAreTold ==
  ASSUME ToldInv, NEW t \in Turn, Told(t)', \A u \in Turn \ {t} : Still(u),
         pipe' \in [Turn -> Seq(Frame)], sent' \in [Turn -> Seq(Event)]
  PROVE  ToldInv'
<1>1. \A u \in Turn \ {t} : Told(u)'
  BY StillIsTold DEF ToldInv
<1> QED
  BY <1>1 DEF ToldInv, Frame

(* The pump goes on without pushing anything.                               *)
LEMMA PumpTells ==
  ASSUME RepliesInv, ToldInv, NEW t \in Turn,
         Resume(t) \/ TurnActs(t) \/ Record(t) \/ FailedEnds(t) \/ Respond(t)
  PROVE  ToldInv'
<1>0. PumpTypes /\ Told(t) /\ Undecided(t)
  BY DEF RepliesInv, PumpInv, ToldInv
<1>1. UNCHANGED <<pipe, sent, left>>
  BY DEF Resume, TurnActs, Says, Raises, Record, FailedEnds, Respond
<1>2. hpc[t] = "answer" => gpc[t] = "unborn"
  BY DEF RepliesInv, PumpFollows, Handling
<1>3. \A u \in Turn \ {t} : Still(u)
  BY <1>0, <1>1 DEF Still, Resume, TurnActs, Says, Raises, Record, FailedEnds, Respond, PumpTypes, RepliesInv, PumpFollows
<1>4. PICK w \in Words(gpc[t], event[t], Sentences(Pushed(t))) : sent[t] \o pipe[t] = w
  BY <1>0, <1>2 DEF Told, Stayed, Resume, TurnActs, Says, Raises, Record, FailedEnds, Respond
<1>5. ~Stayed(t) /\ ~Stayed(t)'
  BY <1>0, <1>1, <1>2 DEF Told, Stayed, Resume, TurnActs, Says, Raises, Record, FailedEnds, Respond, RepliesInv, PumpFollows
<1>6. CASE Resume(t) \/ TurnActs(t)
  <2>1. /\ gpc[t] \in {"next", "blocked"} /\ said' = said /\ hpc' = hpc
        /\ \/ gpc'[t] = "blocked" /\ event' = event
           \/ gpc'[t] = "record" /\ event'[t] = "aborted"
           \/ gpc'[t] = "record" /\ event'[t] \in {"sentence", "done", "error"} /\ ~HasFailed(t)
           \/ /\ gpc[t] = "blocked" /\ gpc'[t] = "raised" /\ event'[t] = "error"
              /\ ~HasFailed(t)
    BY <1>0, <1>6 DEF Resume, TurnActs, Says, Raises, PumpTypes
  <2>2. Pushed(t)' = Pushed(t)
    BY <2>1 DEF Pushed
  <2>3. w \in Words(gpc'[t], event'[t], Sentences(Pushed(t)'))
    BY <1>4, <2>1, <2>2, SameWords DEF HasFailed
  <2>4. Told(t)'
    BY <1>0, <1>1, <1>4, <1>5, <2>1, <2>3 DEF Told, Event
  <2> QED
    BY <1>1, <1>3, <2>4, PipeTypes, OthersAreTold
<1>7. CASE Record(t)
  <2>1. /\ gpc[t] = "record" /\ gpc'[t] = "push" /\ event' = event /\ hpc' = hpc
        /\ said'[t] = IF event[t] = "sentence" THEN said[t] + 1 ELSE said[t]
    BY <1>0, <1>7 DEF Record, PumpTypes
  <2>2. Pushed(t)' = Pushed(t) /\ (event[t] = "sentence" => said'[t] > 0)
    BY <1>0, <2>1 DEF Pushed, PumpTypes
  <2>3. w \in Words(gpc'[t], event'[t], Sentences(Pushed(t)'))
    BY <1>4, <2>1, <2>2, SameWords
  <2>4. Told(t)'
    BY <1>0, <1>1, <1>4, <1>5, <2>1, <2>2, <2>3 DEF Told
  <2> QED
    BY <1>1, <1>3, <2>4, PipeTypes, OthersAreTold
<1>8. CASE FailedEnds(t) \/ Respond(t)
  <2>1. /\ UNCHANGED <<event, said>>
        /\ \/ gpc[t] = "blocked" /\ HasFailed(t) /\ gpc'[t] = "finish" /\ hpc' = hpc
           \/ gpc[t] = "unborn" /\ gpc'[t] = "next" /\ hpc'[t] = "open" /\ hpc[t] = "answer"
    BY <1>0, <1>2, <1>8 DEF FailedEnds, Respond, PumpTypes, RepliesInv, PumpFollows
  <2>2. Pushed(t)' = Pushed(t)
    BY <2>1 DEF Pushed
  <2>3. w \in Words(gpc'[t], event'[t], Sentences(Pushed(t)'))
    BY <1>0, <1>4, <2>1, <2>2, SameWords DEF HasFailed, Told
  <2>4. Told(t)'
    BY <1>0, <1>1, <1>4, <1>5, <2>1, <2>3 DEF Told, HasFailed, Event
  <2> QED
    BY <1>1, <1>3, <2>4, PipeTypes, OthersAreTold
<1> QED
  BY <1>6, <1>7, <1>8

(* Something is pushed.                                                     *)
LEMMA PushTells ==
  ASSUME RepliesInv, ToldInv, NEW t \in Turn, Push(t) \/ PushFailure(t) \/ PumpEnds(t)
  PROVE  ToldInv'
<1>0. PumpTypes /\ Told(t) /\ Undecided(t)
  BY DEF RepliesInv, PumpInv, ToldInv
<1>1. UNCHANGED <<sent, left, hpc, said, event>>
  BY DEF Push, PushFailure, PumpEnds
<1>2. PICK e \in Frame : /\ pipe' = [pipe EXCEPT ![t] = Append(pipe[t], e)]
                         /\ Push(t) => e = event[t] /\ gpc[t] = "push"
                         /\ PushFailure(t) => e = "error" /\ gpc[t] = "raised"
                         /\ PumpEnds(t) => e = Finished /\ gpc[t] = "finish"
  BY <1>0, FrameFacts DEF Push, PushFailure, PumpEnds, Told
<1>3. /\ pipe' \in [Turn -> Seq(Frame)] /\ pipe'[t] = Append(pipe[t], e)
      /\ sent'[t] \o pipe'[t] = Append(sent[t] \o pipe[t], e)
  <2>1. pipe'[t] = Append(pipe[t], e) /\ Append(pipe[t], e) \in Seq(Frame)
    BY <1>2, PipeTypes, Appended
  <2>2. sent[t] \o Append(pipe[t], e) = Append(sent[t] \o pipe[t], e)
    <3>1. sent[t] \in Seq(Frame) /\ pipe[t] \in Seq(Frame)
      BY PipeTypes
    <3>2. \A o, q \in Seq(Frame), x \in Frame : o \o Append(q, x) = Append(o \o q, x)
      BY PutBehind
    <3> QED
      BY <1>2, <3>1, <3>2
  <2> QED
    BY <1>1, <1>2, <2>1, <2>2, PipeTypes
<1>4. \A u \in Turn \ {t} : Still(u)
  BY <1>0, <1>1, <1>2, PipeTypes DEF Still, Push, PushFailure, PumpEnds, PumpTypes
<1>5. PICK w \in Words(gpc[t], event[t], Sentences(Pushed(t))) : sent[t] \o pipe[t] = w
  BY <1>0, <1>2 DEF Told
<1>6. ~Stayed(t) /\ ~Stayed(t)'
  BY <1>0, <1>1, <1>2 DEF Told, Stayed
<1>7. CASE Push(t)
  <2>1. /\ gpc[t] = "push" /\ e = event[t] /\ event[t] \in Event
        /\ gpc'[t] = IF event[t] \in {"done", "aborted"} THEN "finish" ELSE "next"
    BY <1>0, <1>2, <1>7 DEF Push, PumpTypes, Told
  <2>2. CASE event[t] = "sentence"
    <3>1. w = Sentences(said[t] - 1) /\ said[t] - 1 \in Nat
      BY <1>0, <1>5, <2>1, <2>2 DEF Words, Pushed, Told, PumpTypes
    <3>2. (said[t] - 1) + 1 = said[t]
      BY <1>0 DEF PumpTypes
    <3>3. Append(w, e) = Sentences(said[t])
      BY <2>1, <2>2, <3>1, <3>2, SentencesType
    <3>4. Append(w, e) \in Words(gpc'[t], event'[t], Sentences(Pushed(t)'))
      BY <1>1, <2>1, <2>2, <3>3 DEF Words, Pushed, HasFailed
    <3> QED
      BY <1>0, <1>1, <1>3, <1>4, <1>5, <1>6, <2>1, <2>2, <3>4, PipeTypes, OthersAreTold DEF Told
  <2>3. CASE event[t] # "sentence"
    <3>1. Pushed(t)' = Pushed(t)
      BY <1>1, <2>3 DEF Pushed
    <3>2. Append(w, e) \in Words(gpc'[t], event'[t], Sentences(Pushed(t)'))
      BY <1>1, <1>5, <2>1, <2>3, <3>1, MoreWords
    <3> QED
      BY <1>0, <1>1, <1>3, <1>4, <1>5, <1>6, <2>1, <2>3, <3>2, PipeTypes, OthersAreTold DEF Told
  <2> QED
    BY <2>2, <2>3
<1>9. CASE PushFailure(t)
  <2>1. /\ gpc[t] = "raised" /\ gpc'[t] = "finish" /\ e = "error" /\ event[t] = "error"
    BY <1>0, <1>2, <1>9 DEF PushFailure, PumpTypes, Told
  <2>2. Pushed(t)' = Pushed(t)
    BY <1>1, <2>1 DEF Pushed
  <2>3. Append(w, e) \in Words(gpc'[t], event'[t], Sentences(Pushed(t)'))
    BY <1>1, <1>5, <2>1, <2>2 DEF Words
  <2> QED
    BY <1>0, <1>1, <1>3, <1>4, <1>5, <1>6, <2>1, <2>3, PipeTypes, OthersAreTold DEF Told, Event
<1>8. CASE PumpEnds(t)
  <2>1. gpc[t] = "finish" /\ gpc'[t] = "gone" /\ e = Finished
    BY <1>0, <1>2, <1>8 DEF PumpEnds, PumpTypes
  <2>2. Pushed(t)' = Pushed(t)
    BY <1>1, <2>1 DEF Pushed
  <2>3. w \in Words(gpc'[t], event'[t], Sentences(Pushed(t)'))
    BY <1>1, <1>5, <2>1, <2>2, SameWords
  <2> QED
    BY <1>0, <1>1, <1>3, <1>4, <1>5, <1>6, <2>1, <2>3, PipeTypes, OthersAreTold DEF Told
<1> QED
  BY <1>7, <1>8, <1>9

(* A frame goes to the client.                                              *)
LEMMA DeliverTells ==
  ASSUME RepliesInv, ToldInv, NEW t \in Turn, Deliver(t)
  PROVE  ToldInv'
<1>0. PumpTypes /\ Told(t)
  BY DEF RepliesInv, PumpInv, ToldInv
<1>1. UNCHANGED <<gpc, event, said, hpc, left>>
  BY DEF Deliver, pumpVars
<1>2. pipe[t] # <<>> /\ Head(pipe[t]) \in Event /\ Tail(pipe[t]) \in Seq(Frame)
  <2>1. pipe[t] # <<>> /\ Head(pipe[t]) # Finished
    BY DEF Deliver
  <2>2. Head(pipe[t]) \in Frame /\ Tail(pipe[t]) \in Seq(Frame)
    BY <2>1, PipeTypes, HeadTailProperties
  <2> QED
    BY <2>1, <2>2 DEF Frame
<1>3. /\ sent' = [sent EXCEPT ![t] = Append(sent[t], Head(pipe[t]))]
      /\ pipe' = [pipe EXCEPT ![t] = Tail(pipe[t])]
  BY DEF Deliver
<1>4. /\ sent' \in [Turn -> Seq(Event)] /\ pipe' \in [Turn -> Seq(Frame)]
      /\ sent'[t] = Append(sent[t], Head(pipe[t])) /\ pipe'[t] = Tail(pipe[t])
  <2>1. Append(sent[t], Head(pipe[t])) \in Seq(Event)
    BY <1>2, PipeTypes, Appended
  <2> QED
    BY <1>2, <1>3, <2>1, PipeTypes
<1>5. sent'[t] \o pipe'[t] = sent[t] \o pipe[t]
  <2>1. \A o, q \in Seq(Frame) : q # <<>> => Append(o, Head(q)) \o Tail(q) = o \o q
    BY MoveOn
  <2> QED
    BY <1>2, <1>4, <2>1, PipeTypes
<1>6. \A u \in Turn \ {t} : Still(u)
  BY <1>1, <1>3, PipeTypes DEF Still
<1>7. ~Stayed(t) /\ ~Stayed(t)'
  BY <1>1 DEF Stayed, Deliver
<1>8. Told(t)'
  <2>1. Pushed(t)' = Pushed(t)
    BY <1>1 DEF Pushed
  <2> QED
    BY <1>0, <1>1, <1>5, <1>7, <2>1 DEF Told
<1> QED
  BY <1>4, <1>6, <1>8, OthersAreTold

(* The end mark is at the end and nowhere else.                             *)
LEMMA LastFrame ==
  ASSUME NEW s \in Seq(Event), NEW p \in Seq(Frame), NEW w \in Seq(Event),
         p # <<>>, Head(p) = Finished
  PROVE  /\ s \o p # w
         /\ s \o p = Append(w, Finished) => s = w /\ Tail(p) = <<>>
<1> DEFINE n == Len(s)
           k == Len(p)
           r == s \o p
<1>1. /\ s \in Seq(Frame) /\ w \in Seq(Frame) /\ n \in Nat /\ k \in Nat /\ k # 0 /\ p[1] = Finished
      /\ Len(w) \in Nat /\ (\A i \in 1 .. Len(w) : w[i] \in Event)
  BY FrameFacts, SeqMonotonic, LenProperties, EmptySeq, HeadTailProperties, ElementOfSeq
<1>2. /\ Len(r) = n + k
      /\ \A i \in 1 .. n + k : r[i] = IF i <= n THEN s[i] ELSE p[i - n]
  BY <1>1, ConcatProperties
<1> HIDE DEF n, k, r
<1>3. r[n + 1] = Finished /\ Len(r) = n + k /\ \A i \in 1 .. n : r[i] = s[i]
  <2>1. /\ n + 1 \in 1 .. n + k /\ (n + 1) - n = 1 /\ ~(n + 1 <= n)
        /\ \A i \in 1 .. n : i \in 1 .. n + k /\ i <= n
    BY <1>1
  <2> QED
    BY <1>1, <1>2, <2>1
<1>4. r # w
  <2>1. SUFFICES ASSUME r = w PROVE FALSE
    OBVIOUS
  <2>2. n + 1 \in 1 .. Len(w)
    BY <1>1, <1>3, <2>1
  <2> QED
    BY <1>1, <1>3, <2>1, <2>2, FrameFacts
<1>5. ASSUME r = Append(w, Finished) PROVE s = w /\ Tail(p) = <<>>
  <2>1. /\ Len(r) = Len(w) + 1 /\ \A i \in 1 .. Len(w) : r[i] = w[i]
    BY <1>1, <1>5, FrameFacts, AppendProperties
  <2>2. n + 1 \notin 1 .. Len(w)
    BY <1>1, <1>3, <2>1, FrameFacts
  <2>3. n = Len(w) /\ k = 1
    BY <1>1, <1>3, <2>1, <2>2
  <2>4. \A i \in 1 .. Len(w) : s[i] = w[i]
    BY <1>3, <2>1, <2>3
  <2>5. s = w
    BY <1>1, <2>3, <2>4, SeqEqual DEF n
  <2>6. Tail(p) \in Seq(Frame) /\ Len(Tail(p)) = k - 1
    BY HeadTailProperties DEF k
  <2>7. Len(Tail(p)) = 0
    BY <2>3, <2>6
  <2> QED
    BY <2>5, <2>6, <2>7, EmptySeq
<1> QED
  BY <1>4, <1>5 DEF r

(* The stream of a client that stayed ends when all of it has been sent.    *)
LEMMA AllSent ==
  ASSUME RepliesInv, ToldInv, NEW t \in Turn, hpc[t] = "open", pipe[t] # <<>>,
         Head(pipe[t]) = Finished
  PROVE  /\ gpc[t] = "gone" /\ Tail(pipe[t]) = <<>>
         /\ sent[t] \in Words(gpc[t], event[t], Sentences(Pushed(t)))
<1>0. PumpTypes /\ Told(t) /\ ~Stayed(t)
  BY DEF RepliesInv, PumpInv, ToldInv, Stayed
<1>1. PICK w \in Words(gpc[t], event[t], Sentences(Pushed(t))) :
        sent[t] \o pipe[t] = IF gpc[t] = "gone" THEN Append(w, Finished) ELSE w
  BY <1>0 DEF Told
<1>2. sent[t] \in Seq(Event) /\ pipe[t] \in Seq(Frame) /\ w \in Seq(Event)
  BY <1>0, <1>1, PipeTypes, WordsType
<1>3. /\ sent[t] \o pipe[t] # w
      /\ sent[t] \o pipe[t] = Append(w, Finished) => sent[t] = w /\ Tail(pipe[t]) = <<>>
  BY <1>2, LastFrame
<1> QED
  BY <1>1, <1>3

LEMMA LeaveTells ==
  ASSUME RepliesInv, ToldInv, NEW t \in Turn, Leave(t)
  PROVE  ToldInv'
<1>0. PumpTypes /\ Told(t) /\ hpc[t] = "open" /\ t \notin left /\ ~Stayed(t)
  BY DEF RepliesInv, PumpInv, ToldInv, Leave, Told, Stayed
<1>1. UNCHANGED <<gpc, event, said, sent>> /\ hpc' = [hpc EXCEPT ![t] = "close"] /\ hpc'[t] = "close"
  BY DEF Leave, pumpVars, RepliesInv, PumpFollows
<1>2. Pushed(t)' = Pushed(t)
  BY <1>1 DEF Pushed
<1>3. CASE left' = left \cup {t} /\ pipe' = pipe
  <2>1. \A u \in Turn \ {t} : Still(u)
    BY <1>1, <1>3 DEF Still, RepliesInv, PumpFollows
  <2>2. ~Stayed(t)'
    BY <1>3 DEF Stayed
  <2>3. Told(t)'
    BY <1>0, <1>1, <1>2, <1>3, <2>2 DEF Told
  <2> QED
    BY <1>1, <1>3, <2>1, <2>3, PipeTypes, OthersAreTold
<1>4. CASE /\ pipe[t] # <<>> /\ Head(pipe[t]) = Finished
           /\ pipe' = [pipe EXCEPT ![t] = Tail(pipe[t])] /\ left' = left
  <2>1. \A u \in Turn \ {t} : Still(u)
    BY <1>1, <1>4, PipeTypes DEF Still, RepliesInv, PumpFollows
  <2>2. /\ gpc[t] = "gone" /\ Tail(pipe[t]) = <<>>
        /\ sent[t] \in Words(gpc[t], event[t], Sentences(Pushed(t)))
    BY <1>0, <1>4, AllSent
  <2>3. pipe' \in [Turn -> Seq(Frame)] /\ pipe'[t] = <<>>
    <3>1. Tail(pipe[t]) \in Seq(Frame)
      BY <1>4, PipeTypes, HeadTailProperties
    <3> QED
      BY <1>4, <2>2, <3>1, PipeTypes
  <2>4. Stayed(t)'
    BY <1>0, <1>1, <1>4 DEF Stayed
  <2>5. sent'[t] \o pipe'[t] = sent[t]
    BY <1>1, <2>3, PipeTypes, ConcatEmptySeq
  <2>6. Told(t)'
    BY <1>0, <1>1, <1>2, <1>4, <2>2, <2>3, <2>4, <2>5 DEF Told
  <2> QED
    BY <1>1, <2>1, <2>3, <2>6, PipeTypes, OthersAreTold
<1> QED
  BY <1>3, <1>4 DEF Leave

(* The handler and the end of a response change nothing of this.            *)
LEMMA HandlerTells ==
  ASSUME RepliesInv, ToldInv, NEW t \in Turn, Begin(t) \/ Ask(t) \/ ReadWindow(t) \/ Close(t)
  PROVE  ToldInv'
<1>0. PumpTypes /\ Told(t)
  BY DEF RepliesInv, PumpInv, ToldInv
<1>1. UNCHANGED <<gpc, event, said, sent, pipe, left>>
  BY DEF Begin, Ask, ReadWindow, Close, pumpVars
<1>2. /\ \/ hpc' = hpc
         \/ hpc[t] \in Handling /\ \E at \in Handling : hpc' = [hpc EXCEPT ![t] = at]
         \/ hpc[t] = "close" /\ hpc' = [hpc EXCEPT ![t] = "closed"]
  BY DEF Begin, Ask, ReadWindow, Close, Handling
<1>3. \A u \in Turn \ {t} : Still(u)
  BY <1>1, <1>2 DEF Still, RepliesInv, PumpFollows
<1>4. /\ Stayed(t)' <=> Stayed(t)
      /\ t \in left => hpc'[t] \in {"close", "closed"}
  BY <1>0, <1>1, <1>2 DEF Stayed, Told, RepliesInv, PumpFollows, Handling
<1>5. Pushed(t)' = Pushed(t)
  BY <1>1 DEF Pushed
<1>6. Told(t)'
  BY <1>0, <1>1, <1>4, <1>5 DEF Told
<1> QED
  BY <1>1, <1>3, <1>6, PipeTypes, OthersAreTold

LEMMA StepTold ==
  ASSUME RepliesInv, ToldInv, [Next]_vars
  PROVE  ToldInv'
<1>1. CASE HangUp \/ Silence \/ UNCHANGED vars
  <2>1. UNCHANGED <<hpc, gpc, said, event, pipe, sent, left>>
    BY <1>1 DEF HangUp, Silence, vars, pumpVars
  <2>2. \A u \in Turn : Told(u)'
    BY <2>1, StillIsTold DEF ToldInv, Still
  <2> QED
    BY <2>1, <2>2 DEF ToldInv
<1> QED
  BY <1>1, PumpTells, PushTells, DeliverTells, LeaveTells, HandlerTells
     DEF Next, Route, Bridge, PumpStep

LEMMA InitTold == Init => ToldInv
<1> SUFFICES ASSUME Init PROVE ToldInv
  OBVIOUS
<1>1. /\ hpc = [t \in Turn |-> "begin"] /\ gpc = [t \in Turn |-> "unborn"]
      /\ said = [t \in Turn |-> 0] /\ event = [t \in Turn |-> "none"]
      /\ pipe = [t \in Turn |-> <<>>] /\ sent = [t \in Turn |-> <<>>] /\ left = {}
  BY DEF Init
<1>2. <<>> \in Seq(Event) /\ <<>> \in Seq(Event \cup {Finished}) /\ <<>> \o <<>> = <<>>
  OBVIOUS
<1>3. Sentences(0) = <<>>
  BY DEF Sentences
<1>4. ASSUME NEW t \in Turn PROVE Told(t)
  <2>1. Pushed(t) = 0 /\ ~Stayed(t) /\ sent[t] \o pipe[t] = Sentences(0)
    BY <1>1, <1>2, <1>3 DEF Pushed, Stayed
  <2>2. Sentences(0) \in Words("unborn", "none", Sentences(0))
    BY DEF Words
  <2> QED
    BY <1>1, <2>1, <2>2 DEF Told
<1>5. pipe \in [Turn -> Seq(Event \cup {Finished})] /\ sent \in [Turn -> Seq(Event)]
  BY <1>1, <1>2
<1> QED
  BY <1>4, <1>5 DEF ToldInv

LEMMA Pair ==
  ASSUME NEW a, NEW b
  PROVE  Append(<<a>>, b) = <<a, b>>
<1> DEFINE S == {a, b}
<1>1. <<a>> \in Seq(S) /\ <<a, b>> \in Seq(S) /\ b \in S /\ Len(<<a>>) = 1 /\ Len(<<a, b>>) = 2
  OBVIOUS
<1>2. <<a>>[1] = a /\ <<a, b>>[1] = a /\ <<a, b>>[2] = b
  OBVIOUS
<1> HIDE DEF S
<1>3. /\ Append(<<a>>, b) \in Seq(S) /\ Len(Append(<<a>>, b)) = 2
      /\ Append(<<a>>, b)[1] = <<a>>[1] /\ Append(<<a>>, b)[2] = b
  <2>1. /\ Append(<<a>>, b) \in Seq(S) /\ Len(Append(<<a>>, b)) = 1 + 1
        /\ \A i \in 1 .. 1 : Append(<<a>>, b)[i] = <<a>>[i]
        /\ Append(<<a>>, b)[1 + 1] = b
    BY <1>1, AppendProperties
  <2> QED
    BY <2>1
<1>4. \A i \in 1 .. 2 : Append(<<a>>, b)[i] = <<a, b>>[i]
  <2>1. \A i \in 1 .. 2 : i = 1 \/ i = 2
    OBVIOUS
  <2> QED
    BY <1>2, <1>3, <2>1
<1> QED
  BY <1>1, <1>3, <1>4, SeqEqual

LEMMA EndsAreTold ==
  ASSUME RepliesInv, ToldInv
  PROVE  StayersAreTold
<1> SUFFICES ASSUME NEW t \in Turn, Stayed(t)
             PROVE  \E ending \in Endings : sent[t] = Sentences(said[t]) \o ending
  BY DEF StayersAreTold
<1>0. /\ PumpTypes /\ Told(t) /\ gpc[t] = "gone" /\ pipe[t] = <<>> /\ event[t] \in Event
      /\ event[t] # "sentence"
  BY DEF RepliesInv, PumpInv, ToldInv, Told
<1>1. Pushed(t) = said[t] /\ said[t] \in Nat
  BY <1>0 DEF Pushed, PumpTypes
<1>2. sent[t] \in Words("gone", event[t], Sentences(said[t]))
  <2>1. sent[t] \o pipe[t] = sent[t]
    BY <1>0, PipeTypes, ConcatEmptySeq
  <2> QED
    BY <1>0, <1>1, <2>1 DEF Told
<1> DEFINE s == Sentences(said[t])
<1>3. s \in Seq(Event)
  BY <1>1, SentencesType
<1> HIDE DEF s
<1>4. /\ Append(s, "done") = s \o <<"done">> /\ Append(s, "error") = s \o <<"error">>
      /\ Append(s, "aborted") = s \o <<"aborted">>
      /\ Append(Append(s, "error"), "aborted") = s \o <<"error", "aborted">>
  <2>1. \A e \in Event : Append(s, e) = s \o <<e>>
    BY <1>3, AppendIsConcat
  <2>2. Append(Append(s, "error"), "aborted") = s \o Append(<<"error">>, "aborted")
    <3>1. <<"error">> \in Seq(Event) /\ "aborted" \in Event /\ Append(s, "error") = s \o <<"error">>
      BY <2>1, FrameFacts
    <3>2. \A o, q \in Seq(Event), x \in Event : o \o Append(q, x) = Append(o \o q, x)
      BY PutBehind
    <3> QED
      BY <1>3, <3>1, <3>2
  <2>3. Append(<<"error">>, "aborted") = <<"error", "aborted">>
    BY Pair
  <2> QED
    BY <2>1, <2>2, <2>3, FrameFacts
<1>5. \/ sent[t] = Append(s, "done") \/ sent[t] = Append(s, "error")
      \/ sent[t] = Append(s, "aborted") \/ sent[t] = Append(Append(s, "error"), "aborted")
  BY <1>2 DEF Words, s
<1> QED
  BY <1>4, <1>5 DEF Endings, s

(* A client that stays is sent every sentence of its turn, and its ending.  *)
THEOREM WhoStaysIsTold == Spec => []StayersAreTold
<1>1. RepliesInv /\ ToldInv /\ [Next]_vars => (RepliesInv /\ ToldInv)'
  BY StepReplies, StepTold
<1>2. Init => RepliesInv /\ ToldInv
  BY InitReplies, InitTold
<1>3. RepliesInv /\ ToldInv => StayersAreTold
  BY EndsAreTold
<1> QED
  BY <1>1, <1>2, <1>3, PTL DEF Spec

(******************************** The store ********************************)

LEMMA LaterOfTwo ==
  ASSUME NEW k \in Int
  PROVE  Max({1, k}) \in {1, k} /\ Max({1, k}) >= 1 /\ Max({1, k}) >= k
<1>1. \E x \in {1, k} : \A y \in {1, k} : x >= y
  <2>1. CASE k >= 1
    BY <2>1
  <2>2. CASE ~(k >= 1)
    BY <2>2
  <2> QED
    BY <2>1, <2>2
<1> QED
  BY <1>1 DEF Max

(* What is kept of the messages is the last of them.                        *)
LEMMA LastOfType ==
  ASSUME NEW S, NEW s \in Seq(S), NEW n \in Nat \ {0}
  PROVE  LastOf(s, n) \in Seq(S) /\ Len(LastOf(s, n)) <= n
<1> DEFINE k == Len(s) - n + 1
           m == Max({1, k})
<1>1. Len(s) \in Nat /\ k \in Int /\ k <= Len(s)
  BY LenProperties
<1>2. m \in Int /\ m >= 1 /\ m >= k /\ m \in {1, k}
  BY <1>1, LaterOfTwo
<1>3. LastOf(s, n) = SubSeq(s, m, Len(s))
  BY DEF LastOf
<1> HIDE DEF m
<1>4. \A i \in m .. Len(s) : i \in 1 .. Len(s) /\ s[i] \in S
  <2>1. \A i \in m .. Len(s) : i \in 1 .. Len(s)
    BY <1>1, <1>2
  <2> QED
    BY <2>1, ElementOfSeq
<1>5. /\ SubSeq(s, m, Len(s)) \in Seq(S)
      /\ Len(SubSeq(s, m, Len(s))) = IF m <= Len(s) THEN Len(s) - m + 1 ELSE 0
  BY <1>1, <1>2, <1>4, SubSeqProperties
<1> QED
  BY <1>1, <1>2, <1>3, <1>5

StoreInv ==
  /\ messages \in Seq(StoredMessage) /\ Len(messages) <= Keep
  /\ quiet \in BOOLEAN /\ left \in SUBSET Turn
  /\ said \in [Turn -> 0 .. MaxSentences]
  /\ \A t \in Turn : gpc[t] = "record" /\ event[t] = "sentence" => said[t] < MaxSentences

LEMMA InitStore == Init => StoreInv
<1> SUFFICES ASSUME Init PROVE StoreInv
  OBVIOUS
<1>1. <<>> \in Seq(StoredMessage) /\ Len(<<>>) = 0
  OBVIOUS
<1>2. messages \in Seq(StoredMessage) /\ Len(messages) <= Keep
  BY <1>1, ConversationAssumption DEF Init
<1>3. said \in [Turn -> 0 .. MaxSentences] /\ quiet \in BOOLEAN /\ left \in SUBSET Turn
      /\ \A t \in Turn : gpc[t] # "record"
  <2>1. 0 \in 0 .. MaxSentences
    BY ConversationAssumption
  <2> QED
    BY <2>1 DEF Init
<1> QED
  BY <1>2, <1>3 DEF StoreInv

LEMMA StoreKeeps ==
  ASSUME StoreInv
  PROVE  /\ \A m \in StoredMessage : StoreAppend(m) => messages' \in Seq(StoredMessage)
                                                       /\ Len(messages') <= Keep /\ quiet' \in BOOLEAN
         /\ StoreWindow => messages' \in Seq(StoredMessage) /\ Len(messages') <= Keep
                           /\ quiet' \in BOOLEAN
<1>1. Reopened \in Seq(StoredMessage) /\ Len(Reopened) <= Keep
  <2>1. <<>> \in Seq(StoredMessage) /\ Len(<<>>) = 0
    OBVIOUS
  <2> QED
    BY <2>1, ConversationAssumption DEF Reopened, StoreInv
<1>2. ASSUME NEW m \in StoredMessage
      PROVE  /\ LastOf(Append(Reopened, m), Keep) \in Seq(StoredMessage)
             /\ Len(LastOf(Append(Reopened, m), Keep)) <= Keep
  <2>1. Append(Reopened, m) \in Seq(StoredMessage)
    BY <1>1, AppendProperties
  <2> QED
    BY <2>1, LastOfType, ConversationAssumption
<1> QED
  BY <1>1, <1>2 DEF StoreAppend, StoreWindow

LEMMA StepStore ==
  ASSUME RepliesInv, StoreInv, [Next]_vars
  PROVE  StoreInv'
<1>0. PumpTypes /\ PumpFollows
  BY DEF RepliesInv, PumpInv
<1> USE DEF StoreInv
<1>1. ASSUME NEW t \in Turn, Ask(t) \/ ReadWindow(t) PROVE StoreInv'
  <2>1. UNCHANGED <<gpc, event, said, left>>
    BY <1>1 DEF Ask, ReadWindow, pumpVars
  <2>2. UserMessage(t) \in StoredMessage
    BY DEF UserMessage, StoredMessage
  <2> QED
    BY <1>1, <2>1, <2>2, StoreKeeps DEF Ask, ReadWindow
<1>2. ASSUME NEW t \in Turn, Record(t) PROVE StoreInv'
  <2>1. /\ UNCHANGED <<event, left>> /\ gpc' = [gpc EXCEPT ![t] = "push"] /\ gpc[t] = "record"
        /\ said' = [said EXCEPT ![t] = IF event[t] = "sentence" THEN said[t] + 1 ELSE said[t]]
    BY <1>2 DEF Record
  <2>2. Reply(t, said[t]) \in StoredMessage
    <3>1. said[t] \in 0 .. MaxSentences
      OBVIOUS
    <3> QED
      BY <3>1 DEF Reply, StoredMessage
  <2>3. messages' \in Seq(StoredMessage) /\ Len(messages') <= Keep /\ quiet' \in BOOLEAN
    BY <1>2, <2>2, StoreKeeps DEF Record, storeVars
  <2>4. said' \in [Turn -> 0 .. MaxSentences]
    BY <2>1, ConversationAssumption
  <2>5. \A u \in Turn : gpc'[u] = "record" => gpc[u] = "record" /\ said'[u] = said[u]
    BY <1>0, <2>1 DEF PumpTypes
  <2> QED
    BY <2>1, <2>3, <2>4, <2>5
<1>3. ASSUME NEW t \in Turn, \/ Begin(t) \/ Respond(t) \/ Push(t) \/ PushFailure(t)
                             \/ PumpEnds(t) \/ FailedEnds(t) \/ Deliver(t) \/ Leave(t) \/ Close(t)
      PROVE  StoreInv'
  <2>1. UNCHANGED <<messages, quiet, event, said>> /\ left' \in SUBSET Turn
    BY <1>3 DEF Begin, Respond, Push, PushFailure, PumpEnds, FailedEnds, Deliver, Leave,
                Close, storeVars, pumpVars
  <2>2. \A u \in Turn : gpc'[u] = "record" => gpc[u] = "record"
    BY <1>0, <1>3 DEF Begin, Respond, Push, PushFailure, PumpEnds, FailedEnds, Deliver, Leave,
                      Close, pumpVars, PumpTypes
  <2> QED
    BY <2>1, <2>2
<1>4. ASSUME NEW t \in Turn, Resume(t) \/ TurnActs(t) PROVE StoreInv'
  <2>1. UNCHANGED <<messages, quiet, said, left>>
    BY <1>4 DEF Resume, TurnActs, Says, Raises, storeVars
  <2>2. \A u \in Turn : gpc'[u] = "record" /\ event'[u] = "sentence" => said[u] < MaxSentences
    BY <1>0, <1>4 DEF Resume, TurnActs, Says, Raises, PumpTypes
  <2> QED
    BY <2>1, <2>2
<1>5. CASE HangUp \/ Silence \/ UNCHANGED vars
  BY <1>5 DEF HangUp, Silence, vars, storeVars, pumpVars
<1> QED
  BY <1>1, <1>2, <1>3, <1>4, <1>5 DEF Next, Route, Bridge, PumpStep

(******************************** The pumps ********************************)

LEMMA InitBegun == Init => BegunInv
  BY DEF Init, BegunInv, Live!Init, Live!Turn, Turn

LEMMA StepBegun ==
  ASSUME RepliesInv, Live!RegistryInv, BegunInv, [Next]_vars
  PROVE  BegunInv'
<1>0. /\ PumpTypes /\ PumpFollows /\ Live!TypeOK /\ Live!Turn = Turn
      /\ cancel \in [Turn -> BOOLEAN]
      /\ stage \in [Turn -> {"new", "swapped", "begun", "ending", "ended"}]
  BY DEF RepliesInv, PumpInv, Live!RegistryInv, Live!TypeOK, Live!Turn, Turn
<1> USE DEF BegunInv
<1>1. ASSUME NEW t \in Turn, Begin(t) PROVE BegunInv'
  <2>1. hpc[t] = "begin" /\ gpc[t] = "unborn" /\ gpc' = gpc
    BY <1>0, <1>1 DEF Begin, PumpFollows, Handling, pumpVars
  <2>2. CASE Live!Swap(t) /\ hpc' = hpc
    BY <1>0, <2>1, <2>2 DEF Live!Swap, PumpFollows
  <2>3. CASE Live!Displace(t) /\ hpc' = [hpc EXCEPT ![t] = "ask"]
    <3>1. /\ stage[t] = "swapped" /\ stage' = [stage EXCEPT ![t] = "begun"]
          /\ \A u \in Turn : cancel[u] => cancel'[u]
      BY <1>0, <2>3 DEF Live!Displace
    <3> QED
      BY <1>0, <2>1, <2>3, <3>1 DEF PumpFollows
  <2> QED
    BY <1>1, <2>2, <2>3 DEF Begin
<1>2. ASSUME NEW t \in Turn, Leave(t) PROVE BegunInv'
  BY <1>0, <1>2 DEF Leave, Live!SetOwn, pumpVars, PumpFollows
<1>3. ASSUME NEW t \in Turn, Close(t) PROVE BegunInv'
  BY <1>0, <1>3 DEF Close, Live!End, pumpVars, PumpFollows
<1>4. CASE HangUp
  BY <1>0, <1>4 DEF HangUp, Live!StopReads, Live!StopSets, pumpVars
<1>5. ASSUME NEW t \in Turn, Ask(t) \/ ReadWindow(t) \/ Respond(t) PROVE BegunInv'
  <2>1. UNCHANGED <<stage, cancel>> /\ stage[t] \in {"begun", "ending", "ended"}
    BY <1>5 DEF Ask, ReadWindow, Respond, liveVars
  <2>2. \A u \in Turn \ {t} : hpc'[u] = hpc[u] /\ gpc'[u] = gpc[u]
    BY <1>0, <1>5 DEF Ask, ReadWindow, Respond, pumpVars, PumpFollows, PumpTypes
  <2> QED
    BY <2>1, <2>2
<1>6. ASSUME NEW t \in Turn, PumpStep(t) \/ FailedEnds(t) \/ Deliver(t) \/ TurnActs(t)
      PROVE  BegunInv'
  <2>1. UNCHANGED <<stage, cancel, hpc>> /\ (gpc[t] # "unborn" \/ gpc' = gpc)
    BY <1>6 DEF PumpStep, Resume, Record, Push, PushFailure, PumpEnds, FailedEnds, Deliver, TurnActs,
                Says, Raises, liveVars, pumpVars
  <2>2. \A u \in Turn \ {t} : gpc'[u] = gpc[u]
    BY <1>0, <1>6 DEF PumpStep, Resume, Record, Push, PushFailure, PumpEnds, FailedEnds, Deliver,
                      TurnActs, Says, Raises, pumpVars, PumpTypes
  <2> QED
    BY <2>1, <2>2
<1>7. CASE Silence \/ UNCHANGED vars
  BY <1>7 DEF Silence, vars, liveVars, pumpVars
<1> QED
  BY <1>1, <1>2, <1>3, <1>4, <1>5, <1>6, <1>7 DEF Next, Route, Bridge

(* A pump that runs is registered, or has been stopped, or is about to be.  *)
THEOREM NoPumpEscapes == Spec => []NoneUnseen
<1>1. RepliesInv /\ Live!RegistryInv /\ BegunInv /\ [Next]_vars
        => (RepliesInv /\ Live!RegistryInv /\ BegunInv)'
  BY StepReplies, StepLive, StepBegun
<1>2. Init => RepliesInv /\ Live!RegistryInv /\ BegunInv
  BY InitReplies, InitLive, InitBegun
<1>3. Live!RegistryInv /\ BegunInv => NoneUnseen
  <2> SUFFICES ASSUME Live!RegistryInv, BegunInv, NEW t \in Turn, Running(t), ~cancel[t]
               PROVE  live = t \/ \E u \in Turn : stage[u] = "swapped" /\ displaced[u] = t
    BY DEF NoneUnseen
  <2>1. stage[t] = "begun"
    BY DEF BegunInv, Running
  <2> QED
    BY <2>1 DEF Live!RegistryInv, Live!NewestWins, Live!Turn, Turn
<1> QED
  BY <1>1, <1>2, <1>3, PTL DEF Spec

(* Every variable keeps its type, and the store its bound.                  *)
THEOREM TypeCorrect == Spec => []TypeOK
<1>1. RepliesInv /\ StoreInv /\ ToldInv /\ [Next]_vars => (RepliesInv /\ StoreInv /\ ToldInv)'
  BY StepReplies, StepStore, StepTold
<1>2. Init => RepliesInv /\ StoreInv /\ ToldInv
  BY InitReplies, InitStore, InitTold
<1>3. RepliesInv /\ StoreInv /\ ToldInv /\ Live!RegistryInv => TypeOK
  BY DEF RepliesInv, PumpInv, PumpTypes, PumpFollows, Handling, StoreInv, ToldInv, TypeOK,
         Live!RegistryInv
<1> QED
  BY <1>1, <1>2, <1>3, InitLive, StepLive, PTL DEF Spec
=============================================================================
