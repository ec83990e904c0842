---------------------------- MODULE Conversation ----------------------------
(***************************************************************************)
(* The server side of one conversation: the requests that share a key, as  *)
(* the route /api/turn of examples/minimal_call/app.py serves them.        *)
(*                                                                         *)
(*   the handler   turn(): registers the turn (LiveTurns), writes down     *)
(*                 what was asked and reads the window, on a thread of a   *)
(*                 pool, so that two of them interleave anywhere;          *)
(*   the pump      of sse_stream: a thread of its own that iterates        *)
(*                 record_turn(run_turn(..)), writes the reply to the      *)
(*                 store and pushes the events to the event loop;          *)
(*   the response  the async generator of sse_stream, which the client can *)
(*                 leave at any moment.                                    *)
(*                                                                         *)
(* The events of run_turn are those module Turn shows: sentences, then one *)
(* of done, error or aborted, where aborted can also follow error.  ack,   *)
(* sink and audio go the way of sentences and are left out, and so are the *)
(* comment frames of a quiet stream.                                       *)
(***************************************************************************)
EXTENDS Integers, Sequences, SequencesExt

CONSTANTS
  MaxTurns,      (* bound: requests with this key                           *)
  MaxSentences,  (* bound: sentences of one reply                           *)
  Keep           (* InMemoryStore.keep: messages retained                   *)

(* keep = max(window_size, keep), and window_size = max(1, window)          *)
ASSUME ConversationAssumption ==
  /\ MaxTurns \in Nat /\ MaxSentences \in Nat
  /\ Keep \in Nat \ {0}

Turn == 1 .. MaxTurns

VARIABLES
  live, cancel, stage, displaced, stopping,  (* LiveTurns                   *)
  messages,  (* _messages[key] of the store                                 *)
  quiet,     (* the idle gap has passed since the store was last asked      *)
  hpc,       (* hpc[t]: where the handler of request t is                   *)
  gpc,       (* gpc[t]: where the pump of turn t is                         *)
  said,      (* said[t]: sentences record_turn has seen                     *)
  event,     (* event[t]: the event the pump is carrying                    *)
  pipe,      (* pipe[t]: the asyncio queue                                  *)
  sent,      (* sent[t]: frames given to the client                         *)
  left,      (* clients that went away                                      *)
  recorded   (* history: recorded[t], the replies of turn t written down    *)

liveVars == <<live, cancel, stage, displaced, stopping>>
storeVars == <<messages, quiet>>
pumpVars == <<gpc, said, event, recorded>>
vars == <<liveVars, storeVars, hpc, pumpVars, pipe, sent, left>>

Live == INSTANCE LiveTurns

-----------------------------------------------------------------------------
(* The store (InMemoryStore).                                               *)

LastOf(s, n) == SubSeq(s, Max({1, Len(s) - n + 1}), Len(s))

(* _reopen_if_stale, which every call begins with                           *)
Reopened == IF quiet THEN <<>> ELSE messages

(* append                                                                   *)
StoreAppend(m) ==
  /\ messages' = LastOf(Append(Reopened, m), Keep)
  /\ quiet' = FALSE

(* window: reading counts as activity                                       *)
StoreWindow ==
  /\ messages' = Reopened
  /\ quiet' = FALSE

UserMessage(t) == [role |-> "user", turn |-> t]
Reply(t, n) == [role |-> "assistant", turn |-> t, said |-> n]

Init ==
  /\ Live!Init
  /\ messages = <<>>
  /\ quiet = FALSE
  /\ hpc = [t \in Turn |-> "begin"]
  /\ gpc = [t \in Turn |-> "unborn"]
  /\ said = [t \in Turn |-> 0]
  /\ event = [t \in Turn |-> "none"]
  /\ pipe = [t \in Turn |-> <<>>]
  /\ sent = [t \in Turn |-> <<>>]
  /\ left = {}
  /\ recorded = [t \in Turn |-> <<>>]

-----------------------------------------------------------------------------
(* The handler.                                                             *)

(* live.begin(key, cancel)                                                  *)
Begin(t) ==
  /\ hpc[t] = "begin"
  /\ \/ Live!Swap(t) /\ UNCHANGED hpc
     \/ Live!Displace(t) /\ hpc' = [hpc EXCEPT ![t] = "ask"]
  /\ UNCHANGED <<storeVars, pumpVars, pipe, sent, left>>

(* window.append(key, "user", req.text)                                     *)
Ask(t) ==
  /\ hpc[t] = "ask"
  /\ StoreAppend(UserMessage(t))
  /\ hpc' = [hpc EXCEPT ![t] = "read"]
  /\ UNCHANGED <<liveVars, pumpVars, pipe, sent, left>>

(* history=window.window(key)[:-1]; what the model makes of it is its own   *)
(* affair, so the context itself is not kept.                               *)
ReadWindow(t) ==
  /\ hpc[t] = "read"
  /\ StoreWindow
  /\ hpc' = [hpc EXCEPT ![t] = "answer"]
  /\ UNCHANGED <<liveVars, pumpVars, pipe, sent, left>>

(* The response is returned and its body iterated: the pump starts.  A      *)
(* client that is gone by now never gets that far.                          *)
Respond(t) ==
  /\ hpc[t] = "answer"
  /\ hpc' = [hpc EXCEPT ![t] = "open"]
  /\ gpc' = [gpc EXCEPT ![t] = "next"]
  /\ UNCHANGED <<liveVars, storeVars, said, event, recorded, pipe,
                 sent, left>>

-----------------------------------------------------------------------------
(* The pump, and inside it the generators record_turn and run_turn.         *)

(* The bridge's own end mark (finished).                                    *)
Finished == "finished"

(* Bug: the pump gives up a turn that was stopped without asking it for its *)
(* last word.                                                               *)
ResumeWilling(t) ==
  /\ gpc[t] = "next"
  /\ gpc' = [gpc EXCEPT ![t] = IF cancel[t] THEN "finish" ELSE "blocked"]
  /\ UNCHANGED <<event, liveVars, storeVars, hpc, said, recorded, pipe,
                 sent, left>>

(* Bug: the turn looks at its flag only when the model says something.      *)
ResumeDeaf(t) ==
  /\ gpc[t] = "next"
  /\ IF cancel[t]
     THEN /\ event' = [event EXCEPT ![t] = "aborted"]
          /\ gpc' = [gpc EXCEPT ![t] = "record"]
     ELSE /\ gpc' = [gpc EXCEPT ![t] = "blocked"]
          /\ UNCHANGED event
  /\ UNCHANGED <<liveVars, storeVars, hpc, said, recorded, pipe, sent, left>>

(* for event in events: the turn looks at its flag when it is resumed, and  *)
(* every poll interval while nothing comes.                                 *)
Resume(t) ==
  /\ \/ gpc[t] = "next"
     \/ gpc[t] = "blocked" /\ cancel[t]
  /\ IF cancel[t]
     THEN /\ event' = [event EXCEPT ![t] = "aborted"]
          /\ gpc' = [gpc EXCEPT ![t] = "record"]
     ELSE /\ gpc' = [gpc EXCEPT ![t] = "blocked"]
          /\ UNCHANGED event
  /\ UNCHANGED <<liveVars, storeVars, hpc, said, recorded, pipe, sent, left>>

HasFailed(t) == event[t] = "error"

(* The turn says something.  A turn that failed says nothing more.          *)
Says(t) ==
  /\ gpc[t] = "blocked"
  /\ ~HasFailed(t)
  /\ \/ said[t] < MaxSentences /\ event' = [event EXCEPT ![t] = "sentence"]
     \/ event' = [event EXCEPT ![t] = "done"]
     \/ event' = [event EXCEPT ![t] = "error"]
  /\ gpc' = [gpc EXCEPT ![t] = "record"]
  /\ UNCHANGED <<liveVars, storeVars, hpc, said, recorded, pipe, sent, left>>

(* The iterator of the events raises instead: the pump catches it.          *)
Raises(t) ==
  /\ gpc[t] = "blocked"
  /\ ~HasFailed(t)
  /\ event' = [event EXCEPT ![t] = "error"]
  /\ gpc' = [gpc EXCEPT ![t] = "raised"]
  /\ UNCHANGED <<liveVars, storeVars, hpc, said, recorded, pipe, sent, left>>

(* A turn that failed is over when its chunks have been waited for.         *)
FailedEnds(t) ==
  /\ gpc[t] = "blocked"
  /\ HasFailed(t)
  /\ gpc' = [gpc EXCEPT ![t] = "finish"]
  /\ UNCHANGED <<liveVars, storeVars, hpc, said, event, recorded, pipe,
                 sent, left>>

(* Bug: what was said is written down as it is said, and again at the end.  *)
RecordEagerly(t) ==
  /\ gpc[t] = "record"
  /\ IF event[t] \in {"sentence", "done"} \/ (event[t] = "aborted" /\ said[t] > 0)
     THEN /\ StoreAppend(Reply(t, said[t]))
          /\ recorded' = [recorded EXCEPT ![t] = Append(@, event[t])]
     ELSE UNCHANGED <<storeVars, recorded>>
  /\ said' = [said EXCEPT ![t] = IF event[t] = "sentence" THEN @ + 1 ELSE @]
  /\ gpc' = [gpc EXCEPT ![t] = "push"]
  /\ UNCHANGED <<liveVars, hpc, event, pipe, sent, left>>

(* record_turn: a finished reply is written down, an interrupted one as far *)
(* as it was said.                                                          *)
Record(t) ==
  /\ gpc[t] = "record"
  /\ IF event[t] = "done" \/ (event[t] = "aborted" /\ said[t] > 0)
     THEN /\ StoreAppend(Reply(t, said[t]))
          /\ recorded' = [recorded EXCEPT ![t] = Append(@, event[t])]
     ELSE UNCHANGED <<storeVars, recorded>>
  /\ said' = [said EXCEPT ![t] = IF event[t] = "sentence" THEN @ + 1 ELSE @]
  /\ gpc' = [gpc EXCEPT ![t] = "push"]
  /\ UNCHANGED <<liveVars, hpc, event, pipe, sent, left>>

(* push(event), which waits for the event loop to take it                   *)
Push(t) ==
  /\ gpc[t] = "push"
  /\ pipe' = [pipe EXCEPT ![t] = Append(@, event[t])]
  /\ gpc' = [gpc EXCEPT ![t] =
               IF event[t] \in {"done", "aborted"} THEN "finish" ELSE "next"]
  /\ UNCHANGED <<liveVars, storeVars, hpc, said, event, recorded, sent,
                 left>>

(* except: push(error(..)), which never went through record_turn            *)
PushFailure(t) ==
  /\ gpc[t] = "raised"
  /\ pipe' = [pipe EXCEPT ![t] = Append(@, event[t])]
  /\ gpc' = [gpc EXCEPT ![t] = "finish"]
  /\ UNCHANGED <<liveVars, storeVars, hpc, said, event, recorded, sent,
                 left>>

(* finally: push(finished), and the generator is closed by its own thread   *)
PumpEnds(t) ==
  /\ gpc[t] = "finish"
  /\ pipe' = [pipe EXCEPT ![t] = Append(@, Finished)]
  /\ gpc' = [gpc EXCEPT ![t] = "gone"]
  /\ UNCHANGED <<liveVars, storeVars, hpc, said, event, recorded, sent,
                 left>>

PumpStep(t) ==
  Resume(t) \/ Record(t) \/ Push(t) \/ PushFailure(t) \/ PumpEnds(t)

-----------------------------------------------------------------------------
(* The response.                                                            *)

(* yield encode(event)                                                      *)
Deliver(t) ==
  /\ hpc[t] = "open"
  /\ pipe[t] # <<>>
  /\ Head(pipe[t]) # Finished
  /\ sent' = [sent EXCEPT ![t] = Append(@, Head(pipe[t]))]
  /\ pipe' = [pipe EXCEPT ![t] = Tail(@)]
  /\ UNCHANGED <<liveVars, storeVars, hpc, pumpVars, left>>

(* The stream is over, or the client left: finally: cancel.set()            *)
Leave(t) ==
  /\ hpc[t] = "open"
  /\ \/ /\ pipe[t] # <<>>
        /\ Head(pipe[t]) = Finished
        /\ pipe' = [pipe EXCEPT ![t] = Tail(@)]
        /\ UNCHANGED left
     \/ left' = left \cup {t} /\ UNCHANGED pipe
  /\ Live!SetOwn(t)
  /\ hpc' = [hpc EXCEPT ![t] = "close"]
  /\ UNCHANGED <<storeVars, pumpVars, sent>>

(* live.end(key, cancel)                                                    *)
Close(t) ==
  /\ hpc[t] = "close"
  /\ Live!End(t)
  /\ hpc' = [hpc EXCEPT ![t] = "closed"]
  /\ UNCHANGED <<storeVars, pumpVars, pipe, sent, left>>

(* live.stop(key): a host's hang-up button.  To stop a turn twice changes   *)
(* nothing and is left out.                                                 *)
HangUp ==
  /\ \/ Live!StopReads /\ ~cancel[live]
     \/ Live!StopSets
  /\ UNCHANGED <<storeVars, hpc, pumpVars, pipe, sent, left>>

(* Nothing is said for longer than the idle gap.  That is ten minutes, and  *)
(* the providers give up after one or two: no turn is under way meanwhile.  *)
Silence ==
  /\ ~quiet
  /\ messages # <<>>
  /\ \A t \in Turn : /\ hpc[t] \in {"begin", "closed"}
                     /\ gpc[t] \in {"unborn", "gone"}
  /\ quiet' = TRUE
  /\ UNCHANGED <<liveVars, messages, hpc, pumpVars, pipe, sent, left>>

Route(t) == Begin(t) \/ Ask(t) \/ ReadWindow(t) \/ Respond(t)
Bridge(t) == PumpStep(t) \/ FailedEnds(t) \/ Deliver(t) \/ Leave(t) \/ Close(t)
TurnActs(t) == Says(t) \/ Raises(t)

Next ==
  \/ \E t \in Turn : Route(t) \/ Bridge(t) \/ TurnActs(t)
  \/ HangUp
  \/ Silence

(* Fairness: the pump's thread runs, and the event loop takes what it       *)
(* pushes.  The model may hang for ever; clients need neither come nor go   *)
(* nor read what they are sent.                                             *)
Spec ==
  /\ Init
  /\ [][Next]_vars
  /\ \A t \in Turn : WF_vars(PumpStep(t))

-----------------------------------------------------------------------------
Event == {"sentence", "done", "error", "aborted"}
StoredMessage ==
  [role : {"user"}, turn : Turn]
    \cup [role : {"assistant"}, turn : Turn, said : 0 .. MaxSentences]

TypeOK ==
  /\ Live!TypeOK
  /\ messages \in Seq(StoredMessage) /\ Len(messages) <= Keep
  /\ quiet \in BOOLEAN
  /\ hpc \in [Turn -> {"begin", "ask", "read", "answer", "open", "close", "closed"}]
  /\ gpc \in [Turn -> {"unborn", "next", "blocked", "record", "push", "raised",
                       "finish", "gone"}]
  /\ said \in [Turn -> 0 .. MaxSentences]
  /\ event \in [Turn -> Event \cup {"none"}]
  /\ pipe \in [Turn -> Seq(Event \cup {Finished})]
  /\ sent \in [Turn -> Seq(Event)]
  /\ left \in SUBSET Turn
  /\ recorded \in [Turn -> Seq({"done", "aborted"})]

(* Of two turns of one conversation nobody lets the older one run on: see   *)
(* LiveTurns.                                                               *)
NewestWins == Live!NewestWins

(* A pump that is running is known to the registry, or has been stopped, or *)
(* is about to be by the begin() that displaced it: "a finished turn would  *)
(* remove its replacement, and a third turn would then run alongside the    *)
(* second" (LiveTurns.end) does not happen, whatever the client of a turn   *)
(* does and however long a pump outlives its response.                      *)
Running(t) == gpc[t] \notin {"unborn", "gone"}
NoneUnseen ==
  \A t \in Turn : Running(t) /\ ~cancel[t] =>
    live = t \/ \E u \in Turn : stage[u] = "swapped" /\ displaced[u] = t

(* Why: the pump starts when its turn is registered, and the response lets  *)
(* go of the turn only when it has set its Event.                           *)
BegunInv ==
  \A t \in Turn :
    /\ gpc[t] # "unborn" => stage[t] \in {"begun", "ending", "ended"}
    /\ hpc[t] \in {"ask", "read", "answer", "open", "close", "closed"} =>
         stage[t] \in {"begun", "ending", "ended"}
    /\ stage[t] \in {"ending", "ended"} => cancel[t]

(* A turn leaves its reply behind once: a finished one the whole of it, an  *)
(* interrupted one what was said if anything was, also when its client is   *)
(* gone, and a failed one nothing (record_turn).                            *)
Due(t) ==
  CASE event[t] = "done" -> <<"done">>
    [] event[t] = "aborted" /\ said[t] > 0 -> <<"aborted">>
    [] OTHER -> <<>>
RecordedOnce == \A t \in Turn : gpc[t] = "gone" => recorded[t] = Due(t)

(* What RecordedOnce rests on: nothing is written down before the event     *)
(* that ends the turn, and that one is the last the pump carries.           *)
PumpTypes ==
  /\ gpc \in [Turn -> {"unborn", "next", "blocked", "record", "push", "raised", "finish",
                       "gone"}]
  /\ event \in [Turn -> Event \cup {"none"}]
  /\ said \in [Turn -> Nat]
  /\ recorded \in [Turn -> Seq({"done", "aborted"})]
Undecided(t) ==
  /\ gpc[t] \in {"unborn", "next", "blocked", "raised"} =>
       event[t] \notin {"done", "aborted"}
  /\ gpc[t] \in {"unborn", "next", "blocked", "raised", "record"} =>
       recorded[t] = <<>>
Decided(t) == gpc[t] \in {"push", "finish", "gone"} => recorded[t] = Due(t)
PumpInv == PumpTypes /\ \A t \in Turn : Undecided(t) /\ Decided(t)
Handling == {"begin", "ask", "read", "answer"}
PumpFollows ==
  /\ hpc \in [Turn -> Handling \cup {"open", "close", "closed"}]
  /\ \A t \in Turn : hpc[t] \in Handling => gpc[t] = "unborn"
RepliesInv == PumpInv /\ PumpFollows

(* A client that stays is told how its turn ended: when the stream closes   *)
(* by itself it has been sent every sentence and then an ending, also when  *)
(* the turn was superseded ("the other cancellation path, a newer turn      *)
(* replacing this one, still has a listener").                              *)
Sentences(n) == [i \in 1 .. n |-> "sentence"]
Endings == {<<"done">>, <<"error">>, <<"aborted">>, <<"error", "aborted">>}
Stayed(t) == hpc[t] \in {"close", "closed"} /\ t \notin left
StayersAreTold ==
  \A t \in Turn : Stayed(t) =>
    \E ending \in Endings : sent[t] = Sentences(said[t]) \o ending

(* What StayersAreTold rests on: what has been pushed, whether it was sent  *)
(* already or not, is what was said, and its end when the pump is done.     *)
Pushed(t) == IF gpc[t] = "push" /\ event[t] = "sentence" THEN said[t] - 1 ELSE said[t]
Words(at, carried, plain) ==
  LET failed == Append(plain, "error")
      done == Append(plain, "done")
      stopped == {Append(plain, "aborted"), Append(failed, "aborted")}
  IN  {w \in {plain, failed, done} \cup stopped :
         \/ at \in {"unborn", "raised"} /\ w = plain
         \/ at \in {"next", "blocked"} /\ w = IF carried = "error" THEN failed ELSE plain
         \/ at \in {"record", "push"} /\ (w = plain \/ (carried = "aborted" /\ w = failed))
         \/ /\ at \in {"finish", "gone"}
            /\ \/ carried = "done" /\ w = done
               \/ carried = "error" /\ w = failed
               \/ carried = "aborted" /\ w \in stopped}
Told(t) ==
  /\ gpc[t] = "unborn" => event[t] = "none"
  /\ gpc[t] \in {"record", "push", "finish", "gone"} => event[t] \in Event
  /\ gpc[t] = "raised" => event[t] = "error"
  /\ gpc[t] \in {"finish", "gone"} => event[t] # "sentence"
  /\ gpc[t] = "push" /\ event[t] = "sentence" => said[t] > 0
  /\ t \in left => hpc[t] \in {"close", "closed"}
  /\ Stayed(t) => gpc[t] = "gone" /\ pipe[t] = <<>>
  /\ \E w \in Words(gpc[t], event[t], Sentences(Pushed(t))) :
       sent[t] \o pipe[t] = IF gpc[t] = "gone" /\ ~Stayed(t) THEN Append(w, Finished) ELSE w
ToldInv ==
  /\ pipe \in [Turn -> Seq(Event \cup {Finished})] /\ sent \in [Turn -> Seq(Event)]
  /\ \A t \in Turn : Told(t)

(* A turn that was stopped, by its client, by a newer one or by hanging up, *)
(* gives its thread back although the model may hang for ever.              *)
StoppedTurnsEnd == \A t \in Turn : cancel[t] ~> gpc[t] \in {"unborn", "gone"}

(* "Two turns writing the same conversation interleave into something       *)
(* nobody can read: the reply to the first question arrives under the       *)
(* second one" (LiveTurns): a reply stands under its own question.          *)
ReplyUnderItsQuestion ==
  \A i \in DOMAIN messages : i > 1 /\ messages[i].role = "assistant" =>
    messages[i - 1] = UserMessage(messages[i].turn)
=============================================================================
