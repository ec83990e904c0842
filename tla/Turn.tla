-------------------------------- MODULE Turn --------------------------------
(***************************************************************************)
(* One turn of the voice pipeline (TurnRunner of pipeline.py) and the four *)
(* kinds of thread that take part in it:                                   *)
(*                                                                         *)
(*   the producer   _produce: reads the model's reply line by line,        *)
(*                  accumulates chunks, submits them, waits for them;      *)
(*   the workers    _synthesise: one pool thread per running chunk, whose  *)
(*                  pieces go through the ordering queue (AudioOrder);     *)
(*   the consumer   run: the generator the host iterates, which moves      *)
(*                  events out of the queue and ends the turn;             *)
(*   the host       sets cancel, closes the generator, shuts the pool      *)
(*                  down, all at any moment.                               *)
(*                                                                         *)
(* A line of the reply is its number; a piece of audio is its number in    *)
(* its chunk.  Wording, timings and bytes are left out.                    *)
(***************************************************************************)
EXTENDS Integers, Sequences, FiniteSets, SequencesExt, Events

CONSTANTS
  MaxLines,     (* bound: lines the model writes in one turn                *)
  MaxMessages,  (* bound: messages those lines belong to                    *)
  MaxPieces,    (* bound: pieces of audio one chunk makes                   *)
  Workers,      (* threads of the synthesis pool                            *)
  HostActs      (* bound: what the host may do to the turn                  *)

ASSUME TurnAssumption ==
  /\ MaxLines \in Nat
  /\ MaxMessages \in Nat \ {0}
  /\ MaxPieces \in Nat
  /\ Workers \in Nat \ {0}
  /\ HostActs \subseteq {"cancel", "close", "shutdown"}

(* Every chunk holds at least one line, so this is the most there can be.   *)
MaxChunks == MaxLines
Chunk == 0 .. (MaxChunks - 1)
Message == 0 .. (MaxMessages - 1)

VARIABLES
  speaking,   (* a speech client was given (deps.tts is not None)           *)
  cancel,     (* the caller's Event                                         *)
  stopping,   (* the turn's own Event                                       *)
  ppc,        (* where the producer is                                      *)
  lines,      (* history: message of every line read from the model         *)
  current,    (* message of the text in buffer                              *)
  buffer,     (* lines accumulated and not submitted                        *)
  chunks,     (* chunks[c+1]: text and message of submitted chunk c         *)
  task,       (* task[c]: what the future and the worker of chunk c are at  *)
  attempts,   (* attempts[c]: synthesis requests made for chunk c           *)
  late,       (* history: requests made when the turn was to be stopped     *)
  spoken,     (* chunks that produced sound                                 *)
  warnings,   (* chunks recorded as not synthesised                         *)
  queue,      (* events between the threads and the consumer                *)
  cpc,        (* where the consumer is                                      *)
  failed,     (* an error event went through                                *)
  out,        (* history: the events the generator has yielded              *)
  next, finished, waiting, holder, made, handed   (* AudioOrder             *)

producerVars == <<ppc, lines, current, buffer, chunks>>
workerVars == <<attempts, late, spoken, warnings>>
orderVars == <<next, finished, waiting, holder, made, handed>>
consumerVars == <<cpc, failed, out>>
hostVars == <<speaking, cancel>>
vars == <<hostVars, stopping, producerVars, task, workerVars, queue,
          consumerVars, orderVars>>

Order == INSTANCE AudioOrder

-----------------------------------------------------------------------------
(* The events (events.py).                                                  *)

AckEvent == [type |-> "ack"]
SinkEvent == [type |-> "sink"]
Sentence(m, n) == [type |-> "sentence", message |-> m, line |-> n]
Audio(c, m, k) == [type |-> "audio", idx |-> c, message |-> m, piece |-> k]
ErrorEvent == [type |-> "error"]
AbortedEvent == [type |-> "aborted"]
DoneEvent(quiet, warned) ==
  [type |-> "done", unspoken |-> quiet, warnings |-> warned]
EndMark == [type |-> "end"]    (* _End, which never leaves the queue        *)

(* stopping_wanted                                                          *)
StoppingWanted == stopping \/ cancel

(* chunk_message.get(idx, 0)                                                *)
MessageOf(c) == IF c < Len(chunks) THEN chunks[c + 1].message ELSE 0

(* Bug: the chunks that were warned about are taken for the silent ones.    *)
UnspokenFromWarnings ==
  IF ~speaking THEN {} ELSE {MessageOf(c) : c \in warnings}

(* unspoken()                                                               *)
Unspoken ==
  IF ~speaking THEN {}
  ELSE {chunks[i].message : i \in DOMAIN chunks}
         \ {MessageOf(c) : c \in {d \in spoken : d < Len(chunks)}}

Init ==
  /\ speaking \in BOOLEAN
  /\ cancel = FALSE
  /\ stopping = FALSE
  /\ ppc = "unborn"
  /\ lines = <<>>
  /\ current = 0
  /\ buffer = <<>>
  /\ chunks = <<>>
  /\ task = [c \in Chunk |-> "none"]
  /\ attempts = [c \in Chunk |-> 0]
  /\ late = 0
  /\ spoken = {}
  /\ warnings = {}
  /\ queue = <<>>
  /\ cpc = "ack"
  /\ failed = FALSE
  /\ out = <<>>
  /\ Order!Init

-----------------------------------------------------------------------------
(* The producer.                                                            *)

(* A line arrives from iter_message_sentences.  Message numbers never go    *)
(* back (text/sentences.py).  The turn is checked for being stopped before  *)
(* anything is done with the line.                                          *)
NextLine(m) ==
  /\ ppc = "read"
  /\ Len(lines) < MaxLines
  /\ lines # <<>> => m >= lines[Len(lines)]
  /\ IF StoppingWanted
     THEN ppc' = "finally" /\ UNCHANGED lines
     ELSE ppc' = "put" /\ lines' = Append(lines, m)
  /\ UNCHANGED <<hostVars, stopping, current, buffer, chunks, task, workerVars,
                 queue, consumerVars, orderVars>>

(* The line just read joins the text of its message.                        *)
JoinBuffer(text) ==
  /\ buffer' = Append(text, Len(lines))
  /\ current' = lines[Len(lines)]

(* Bug: a message boundary does not end the chunk.                          *)
PutSentenceUncut ==
  /\ ppc = "put"
  /\ queue' = Append(queue, Sentence(lines[Len(lines)], Len(lines)))
  /\ IF ~speaking
     THEN ppc' = "read" /\ UNCHANGED <<buffer, current>>
     ELSE ppc' = "flush" /\ JoinBuffer(buffer)
  /\ UNCHANGED <<hostVars, stopping, lines, chunks, task, workerVars,
                 consumerVars, orderVars>>

(* self.queue.put(sentence(message_index, line)).  A text-only turn goes on *)
(* to the next line; a message boundary has to end the open chunk first.    *)
PutSentence ==
  /\ ppc = "put"
  /\ queue' = Append(queue, Sentence(lines[Len(lines)], Len(lines)))
  /\ IF ~speaking
     THEN ppc' = "read" /\ UNCHANGED <<buffer, current>>
     ELSE IF buffer # <<>> /\ lines[Len(lines)] # current
          THEN ppc' = "boundary" /\ UNCHANGED <<buffer, current>>
          ELSE ppc' = "flush" /\ JoinBuffer(buffer)
  /\ UNCHANGED <<hostVars, stopping, lines, chunks, task, workerVars,
                 consumerVars, orderVars>>

(* _submit: the chunk and its message are recorded first, then the pool     *)
(* takes the work.                                                          *)
Submit(then) ==
  /\ chunks' = Append(chunks, [text |-> buffer, message |-> current])
  /\ task' = [task EXCEPT ![Len(chunks)] = "queued"]
  /\ ppc' = then
  /\ UNCHANGED queue

(* The host shut the pool down at some moment since this turn obtained it,  *)
(* which the first submit does just before it submits: what was submitted   *)
(* still runs, but submit raises, and _produce turns that into an error     *)
(* event and goes to its finally clause.                                    *)
Refuse ==
  /\ "shutdown" \in HostActs
  /\ chunks' = Append(chunks, [text |-> buffer, message |-> current])
  /\ queue' = Append(queue, ErrorEvent)
  /\ ppc' = "finally"
  /\ UNCHANGED <<buffer, current, task>>

(* A message boundary always ends a chunk.                                  *)
Boundary ==
  /\ ppc = "boundary"
  /\ \/ Submit("flush") /\ JoinBuffer(<<>>)
     \/ Refuse
  /\ UNCHANGED <<hostVars, stopping, lines, workerVars, consumerVars, orderVars>>

(* policy.should_flush decides on lengths this model leaves out, so either  *)
(* answer is possible.                                                      *)
Flush ==
  /\ ppc = "flush"
  /\ \/ Submit("read") /\ buffer' = <<>> /\ UNCHANGED current
     \/ Refuse
     \/ ppc' = "read" /\ UNCHANGED <<chunks, buffer, current, task, queue>>
  /\ UNCHANGED <<hostVars, stopping, lines, workerVars, consumerVars, orderVars>>

(* The reply is over: what is left in the buffer is the last chunk.         *)
StreamEnds ==
  /\ ppc = "read"
  /\ IF buffer # <<>> /\ speaking /\ ~StoppingWanted
     THEN \/ Submit("finally") /\ buffer' = <<>> /\ UNCHANGED current
          \/ Refuse
     ELSE ppc' = "finally" /\ UNCHANGED <<chunks, buffer, current, task, queue>>
  /\ UNCHANGED <<hostVars, stopping, lines, workerVars, consumerVars, orderVars>>

(* Bug: the exception skips the end mark.                                   *)
StreamFailsSilently ==
  /\ ppc = "read"
  /\ queue' = Append(queue, ErrorEvent)
  /\ ppc' = "gone"
  /\ UNCHANGED <<hostVars, stopping, lines, current, buffer, chunks, task,
                 workerVars, consumerVars, orderVars>>

(* The model raises.  The buffer is never spoken.                           *)
StreamFails ==
  /\ ppc = "read"
  /\ queue' = Append(queue, ErrorEvent)
  /\ ppc' = "finally"
  /\ UNCHANGED <<hostVars, stopping, lines, current, buffer, chunks, task,
                 workerVars, consumerVars, orderVars>>

(* Bug: nothing is waited for.                                              *)
FinallyAtOnce ==
  /\ ppc = "finally"
  /\ ppc' = "gone"
  /\ queue' = Append(queue, EndMark)
  /\ UNCHANGED <<hostVars, stopping, lines, current, buffer, chunks, task,
                 workerVars, consumerVars, orderVars>>

(* finally: the end mark follows at once when the turn is being stopped,    *)
(* and otherwise when the chunks have been waited for.                      *)
Finally ==
  /\ ppc = "finally"
  /\ IF StoppingWanted
     THEN ppc' = "gone" /\ queue' = Append(queue, EndMark)
     ELSE ppc' = "wait" /\ UNCHANGED queue
  /\ UNCHANGED <<hostVars, stopping, lines, current, buffer, chunks, task,
                 workerVars, consumerVars, orderVars>>

(* Bug: a cancelled future is waited for like one that runs.                *)
WaitForAllChunks ==
  /\ ppc = "wait"
  /\ \A c \in Chunk : task[c] \in {"none", "done"}
  /\ ppc' = "gone"
  /\ queue' = Append(queue, EndMark)
  /\ UNCHANGED <<hostVars, stopping, lines, current, buffer, chunks, task,
                 workerVars, consumerVars, orderVars>>

(* _wait_for_chunks: result() returns for a future that ran or was          *)
(* cancelled.  A chunk the pool refused has no future.                      *)
WaitForChunks ==
  /\ ppc = "wait"
  /\ \A c \in Chunk : task[c] \in {"none", "cancelled", "done"}
  /\ ppc' = "gone"
  /\ queue' = Append(queue, EndMark)
  /\ UNCHANGED <<hostVars, stopping, lines, current, buffer, chunks, task,
                 workerVars, consumerVars, orderVars>>

ModelAnswers == (\E m \in Message : NextLine(m)) \/ StreamEnds \/ StreamFails

ProducerStep ==
  \/ PutSentence \/ Boundary \/ Flush \/ Finally \/ WaitForChunks

-----------------------------------------------------------------------------
(* The workers.                                                             *)

Working ==
  {"entered", "asking", "speaking", "piecing", "finishing", "ending"}
Busy(c) == task[c] \in Working

(* The pool runs queued work in order, as many at once as it has threads.   *)
Start(c) ==
  /\ task[c] = "queued"
  /\ \A d \in Chunk : d < c => task[d] # "queued"
  /\ Cardinality({d \in Chunk : Busy(d)}) < Workers
  /\ task' = [task EXCEPT ![c] = "entered"]
  /\ UNCHANGED <<hostVars, stopping, producerVars, workerVars, queue,
                 consumerVars, orderVars>>

(* _synthesise: the worker looks at the flag before it asks for anything.   *)
Enter(c) ==
  /\ task[c] = "entered"
  /\ task' = [task EXCEPT ![c] = IF StoppingWanted THEN "finishing" ELSE "asking"]
  /\ UNCHANGED <<hostVars, stopping, producerVars, workerVars, queue,
                 consumerVars, orderVars>>

(* _speak: the request goes out.  The turn may have been stopped since the  *)
(* worker looked.                                                           *)
Ask(c) ==
  /\ task[c] = "asking"
  /\ task' = [task EXCEPT ![c] = "speaking"]
  /\ attempts' = [attempts EXCEPT ![c] = @ + 1]
  /\ late' = IF StoppingWanted THEN late + 1 ELSE late
  /\ UNCHANGED <<hostVars, stopping, producerVars, spoken, warnings, queue,
                 consumerVars, orderVars>>

(* _piece: the speech client calls back with sound.  An empty piece changes *)
(* nothing.                                                                 *)
MakePiece(c) ==
  /\ task[c] = "speaking"
  /\ Order!Piece(c)
  /\ spoken' = spoken \cup {c}
  /\ task' = [task EXCEPT ![c] = "piecing"]
  /\ UNCHANGED <<hostVars, stopping, producerVars, attempts, late, warnings, queue,
                 consumerVars>>

(* The speech request returns, with or without having produced sound.       *)
SpeakReturns(c) ==
  /\ task[c] = "speaking"
  /\ task' = [task EXCEPT ![c] = "finishing"]
  /\ UNCHANGED <<hostVars, stopping, producerVars, workerVars, queue,
                 consumerVars, orderVars>>

(* Bug: a chunk that was heard is tried again as well.                      *)
SpeakRaisesAgain(c) ==
  /\ task[c] = "speaking"
  /\ IF attempts[c] = 1 /\ ~StoppingWanted
     THEN /\ task' = [task EXCEPT ![c] = "asking"]
          /\ UNCHANGED warnings
     ELSE /\ task' = [task EXCEPT ![c] = "finishing"]
          /\ warnings' = warnings \cup {c}
  /\ UNCHANGED <<hostVars, stopping, producerVars, attempts, late, spoken, queue,
                 consumerVars, orderVars>>

(* Bug: the worker does not look at the flag again.                         *)
SpeakRaisesUnchecked(c) ==
  /\ task[c] = "speaking"
  /\ IF attempts[c] = 1 /\ c \notin spoken
     THEN /\ task' = [task EXCEPT ![c] = "asking"]
          /\ UNCHANGED warnings
     ELSE /\ task' = [task EXCEPT ![c] = "finishing"]
          /\ warnings' = warnings \cup {c}
  /\ UNCHANGED <<hostVars, stopping, producerVars, attempts, late, spoken, queue,
                 consumerVars, orderVars>>

(* The speech request raises: one more attempt for a chunk that is silent   *)
(* in a turn that goes on, a warning otherwise.                             *)
SpeakRaises(c) ==
  /\ task[c] = "speaking"
  /\ IF attempts[c] = 1 /\ c \notin spoken /\ ~StoppingWanted
     THEN /\ task' = [task EXCEPT ![c] = "asking"]
          /\ UNCHANGED warnings
     ELSE /\ task' = [task EXCEPT ![c] = "finishing"]
          /\ warnings' = warnings \cup {c}
  /\ UNCHANGED <<hostVars, stopping, producerVars, attempts, late, spoken, queue,
                 consumerVars, orderVars>>

(* finally: self.order.finish(idx)                                          *)
FinishChunk(c) ==
  /\ task[c] = "finishing"
  /\ Order!Finish(c)
  /\ task' = [task EXCEPT ![c] = "ending"]
  /\ UNCHANGED <<hostVars, stopping, producerVars, workerVars, queue, consumerVars>>

(* Bug: a worker passes on only the sound of its own chunk.                 *)
EmitOwnAudio(c) ==
  /\ Order!HandOver(c)
  /\ IF StoppingWanted \/ next # c
     THEN UNCHANGED queue
     ELSE queue' = Append(queue, Audio(next, MessageOf(next), Head(waiting[next])))
  /\ UNCHANGED <<hostVars, stopping, producerVars, task, workerVars, consumerVars>>

(* _emit_audio, called by the ordering queue inside its lock: the piece is  *)
(* dropped when the turn is being stopped.                                  *)
EmitAudio(c) ==
  /\ Order!HandOver(c)
  /\ IF StoppingWanted
     THEN UNCHANGED queue
     ELSE queue' = Append(queue, Audio(next, MessageOf(next), Head(waiting[next])))
  /\ UNCHANGED <<hostVars, stopping, producerVars, task, workerVars, consumerVars>>

AdvanceCursor(c) ==
  /\ Order!Advance(c)
  /\ UNCHANGED <<hostVars, stopping, producerVars, task, workerVars, queue,
                 consumerVars>>

(* The call into the ordering queue returns; a finished chunk's future is   *)
(* done.                                                                    *)
LeaveOrder(c) ==
  /\ Order!Unlock(c)
  /\ task' = [task EXCEPT ![c] = IF @ = "piecing" THEN "speaking" ELSE "done"]
  /\ UNCHANGED <<hostVars, stopping, producerVars, workerVars, queue, consumerVars>>

SpeechEnds(c) == SpeakReturns(c) \/ SpeakRaises(c)

WorkerStep(c) ==
  \/ Start(c) \/ Enter(c) \/ Ask(c) \/ FinishChunk(c)
  \/ EmitAudio(c) \/ AdvanceCursor(c) \/ LeaveOrder(c)

-----------------------------------------------------------------------------
(* The consumer.                                                            *)

Yield(e) == out' = Append(out, e)

YieldAck ==
  /\ cpc = "ack"
  /\ Yield(AckEvent)
  /\ cpc' = "sink"
  /\ UNCHANGED <<hostVars, stopping, producerVars, task, workerVars, queue,
                 failed, orderVars>>

YieldSink ==
  /\ cpc = "sink"
  /\ Yield(SinkEvent)
  /\ cpc' = "begin"
  /\ UNCHANGED <<hostVars, stopping, producerVars, task, workerVars, queue,
                 failed, orderVars>>

(* The host asks for the third event: the reply thread starts.              *)
StartProducer ==
  /\ cpc = "begin"
  /\ ppc' = "read"
  /\ cpc' = "check"
  /\ UNCHANGED <<hostVars, stopping, lines, current, buffer, chunks, task,
                 workerVars, queue, failed, out, orderVars>>

(* Bug: queue.get() without a timeout.                                      *)
CheckStopNoPoll ==
  /\ cpc \in {"check", "yielded"}
  /\ IF StoppingWanted
     THEN stopping' = TRUE /\ cpc' = "superseded"
     ELSE cpc' = "get" /\ UNCHANGED stopping
  /\ UNCHANGED <<hostVars, producerVars, task, workerVars, queue, failed, out,
                 orderVars>>

(* The top of the loop, on the first pass, when the host asks for another   *)
(* event, and whenever queue.get(timeout=POLL_SEC) found nothing: a turn    *)
(* that is to stop is aborted, which begins by setting the flag the other   *)
(* threads look at.                                                         *)
CheckStop ==
  /\ cpc \in {"check", "yielded"} \/ (cpc = "get" /\ queue = <<>>)
  /\ IF StoppingWanted
     THEN stopping' = TRUE /\ cpc' = "superseded"
     ELSE cpc' = "get" /\ UNCHANGED stopping
  /\ UNCHANGED <<hostVars, producerVars, task, workerVars, queue, failed, out,
                 orderVars>>

(* An event is passed on, and the generator is suspended in its yield.      *)
PassOn ==
  /\ cpc = "get"
  /\ queue # <<>>
  /\ Head(queue) # EndMark
  /\ failed' = (failed \/ Head(queue) = ErrorEvent)
  /\ Yield(Head(queue))
  /\ queue' = Tail(queue)
  /\ cpc' = "yielded"
  /\ UNCHANGED <<hostVars, stopping, producerVars, task, workerVars, orderVars>>

(* The whole reply and what the turn measured are data; what was not heard  *)
(* is not.                                                                  *)
Finish == DoneEvent(Unspoken, warnings)

(* Bug: the failure is forgotten by the time the end mark comes.            *)
GetEndAsDone ==
  /\ cpc = "get"
  /\ queue # <<>>
  /\ Head(queue) = EndMark
  /\ queue' = Tail(queue)
  /\ Yield(Finish)
  /\ cpc' = "over"
  /\ UNCHANGED <<hostVars, stopping, producerVars, task, workerVars, failed,
                 orderVars>>

(* The end mark: a turn that failed is aborted without another word, any    *)
(* other turn is done.                                                      *)
GetEnd ==
  /\ cpc = "get"
  /\ queue # <<>>
  /\ Head(queue) = EndMark
  /\ queue' = Tail(queue)
  /\ IF failed
     THEN stopping' = TRUE /\ cpc' = "failing" /\ UNCHANGED out
     ELSE /\ Yield(Finish)
          /\ cpc' = "over"
          /\ UNCHANGED stopping
  /\ UNCHANGED <<hostVars, producerVars, task, workerVars, failed, orderVars>>

(* The rest of _abort: every submitted chunk that has not started is        *)
(* cancelled.  Then the turn says so, or says nothing because it failed or  *)
(* was closed.                                                              *)
CancelQueued ==
  /\ cpc \in {"superseded", "failing", "closing"}
  /\ task' = [c \in Chunk |-> IF task[c] = "queued" THEN "cancelled" ELSE task[c]]
  /\ IF cpc = "superseded" THEN Yield(AbortedEvent) ELSE UNCHANGED out
  /\ cpc' = "over"
  /\ UNCHANGED <<hostVars, stopping, producerVars, workerVars, queue, failed,
                 orderVars>>

ConsumerStep ==
  \/ YieldAck \/ YieldSink \/ StartProducer
  \/ CheckStop \/ PassOn \/ GetEnd \/ CancelQueued

-----------------------------------------------------------------------------
(* The host, which may do any of this at any time.                          *)

Cancel ==
  /\ "cancel" \in HostActs
  /\ ~cancel
  /\ cancel' = TRUE
  /\ UNCHANGED <<speaking, stopping, producerVars, task, workerVars, queue,
                 consumerVars, orderVars>>

(* The generator is closed while it is suspended in a yield: inside the     *)
(* loop that aborts the turn, before it nothing has been started.           *)
Close ==
  /\ "close" \in HostActs
  /\ \/ cpc \in {"sink", "begin"} /\ cpc' = "over" /\ UNCHANGED stopping
     \/ cpc = "yielded" /\ cpc' = "closing" /\ stopping' = TRUE
  /\ UNCHANGED <<hostVars, producerVars, task, workerVars, queue, failed, out,
                 orderVars>>

HostStep == Cancel \/ Close

Next ==
  \/ ModelAnswers
  \/ ProducerStep
  \/ \E c \in Chunk : WorkerStep(c) \/ MakePiece(c) \/ SpeechEnds(c)
  \/ ConsumerStep
  \/ HostStep

(* Fairness the code justifies on its own: no thread of the turn blocks     *)
(* except on the model, on a speech request, on the futures it waits for    *)
(* and on the ordering lock, and the host keeps iterating the generator.    *)
(* The model and the speech service may hang; the host need not act.        *)
Spec ==
  /\ Init
  /\ [][Next]_vars
  /\ WF_vars(ConsumerStep)
  /\ WF_vars(ProducerStep)
  /\ \A c \in Chunk : WF_vars(WorkerStep(c))

(* Providers that answer: the model's stream ends or raises, a speech       *)
(* request returns or raises (both clients have timeouts).                  *)
ProvidersAnswer ==
  /\ WF_vars(ModelAnswers)
  /\ \A c \in Chunk : WF_vars(SpeechEnds(c))

-----------------------------------------------------------------------------
Event ==
  {AckEvent, SinkEvent, ErrorEvent, AbortedEvent, EndMark}
    \cup {Sentence(m, n) : m \in Message, n \in 1 .. MaxLines}
    \cup {Audio(c, m, k) : c \in Chunk, m \in Message, k \in 1 .. MaxPieces}
    \cup {DoneEvent(q, w) : q \in SUBSET Message, w \in SUBSET Chunk}

TypeOK ==
  /\ {speaking, cancel, stopping, failed} \subseteq BOOLEAN
  /\ ppc \in {"unborn", "read", "put", "boundary", "flush", "finally",
               "wait", "gone"}
  /\ lines \in Seq(Message) /\ Len(lines) <= MaxLines
  /\ current \in Message
  /\ buffer \in Seq(1 .. MaxLines)
  /\ chunks \in Seq([text : Seq(1 .. MaxLines), message : Message])
  /\ Len(chunks) <= MaxChunks
  /\ task \in [Chunk -> {"none", "queued", "cancelled", "done"} \cup Working]
  /\ attempts \in [Chunk -> 0 .. 2]
  /\ late \in Nat
  /\ spoken \in SUBSET Chunk
  /\ warnings \in SUBSET Chunk
  /\ queue \in Seq(Event)
  /\ cpc \in {"ack", "sink", "begin", "check", "get", "yielded", "superseded",
               "failing", "closing", "over"}
  /\ out \in Seq(Event \ {EndMark})
  /\ Order!TypeOK

-----------------------------------------------------------------------------
(* Text.                                                                    *)

(* The last line of the text of chunk i - 1, and a text that goes on after  *)
(* line n.                                                                  *)
LastLine(i) == IF i = 0 THEN 0 ELSE chunks[i].text[Len(chunks[i].text)]
GoesOn(text, n) == \A j \in DOMAIN text : text[j] = n + j

(* A chunk that a closed pool refused is also still in the buffer.          *)
Refused == \E i \in DOMAIN chunks : task[i - 1] = "none"

(* No line of the reply is lost, doubled or moved on its way to synthesis,  *)
(* and no chunk mixes two messages: each submitted chunk begins with the    *)
(* line after the last of the chunk before, the buffer goes on after the    *)
(* last chunk, and all the lines that have been put out as text are in them *)
(* (_produce's accumulation).                                               *)
LinesKept ==
  speaking =>
    /\ \A i \in DOMAIN chunks :
         /\ chunks[i].text # <<>>
         /\ GoesOn(chunks[i].text, LastLine(i - 1))
         /\ \A j \in DOMAIN chunks[i].text :
              lines[chunks[i].text[j]] = chunks[i].message
    /\ ~Refused => GoesOn(buffer, LastLine(Len(chunks)))
    /\ ppc \in {"read", "flush"} => LastLine(Len(chunks)) + Len(buffer) = Len(lines)

Issued == out \o queue
Heard == OfType(Issued, "audio")

(* Sound.                                                                   *)

(* What the client gets is what the ordering queue handed over, in that     *)
(* order, cut off at one point if the turn is stopped and whole if it is    *)
(* not: no gap, no repetition (_emit_audio, _AudioOrder).                   *)
SoundIsWhole ==
  LET got == [i \in DOMAIN Heard |-> [idx |-> Heard[i].idx, piece |-> Heard[i].piece]]
  IN  /\ IsPrefix(got, handed)
      /\ ~StoppingWanted => got = handed

(* A chunk that has been heard is never requested again, or its beginning   *)
(* would be said twice (_synthesise).                                       *)
NeverSaidTwice ==
  [][\A c \in Chunk : attempts'[c] > attempts[c] => made[c] = 0]_vars

(* What NeverSaidTwice rests on: a chunk makes its first piece after its    *)
(* first request, and is in spoken from then on.                            *)
TextTypes ==
  /\ lines \in Seq(Message) /\ (ppc \in {"put", "boundary"} => lines # <<>>)
  /\ current \in Message /\ buffer \in Seq(Nat)
  /\ chunks \in Seq([text : Seq(Nat), message : Message])
WorkTypes ==
  /\ task \in [Chunk -> {"none", "queued", "cancelled", "done"} \cup Working]
  /\ attempts \in [Chunk -> Nat] /\ made \in [Chunk -> Nat]
Unasked == {"none", "queued", "cancelled", "entered", "asking"}
SilentUntilAsked ==
  \A c \in Chunk : /\ c >= Len(chunks) => task[c] = "none"
                   /\ task[c] \in Unasked => made[c] = 0
                   /\ made[c] # 0 => c \in spoken
                   /\ holder = c => c < Len(chunks)
SpeechInv == TextTypes /\ WorkTypes /\ SilentUntilAsked

(* Once a turn is to be stopped, the requests that still go out are those   *)
(* that were on their way when the flag was set: one for a thread of the    *)
(* pool at most, however many chunks are queued or would have been tried    *)
(* again (_synthesise looks at the flag, and then asks).                    *)
LateRequests == late <= Workers

(* Why: a worker that has looked at the flag may be about to ask, and once  *)
(* the flag is set nobody else will be.                                     *)
RequestInv ==
  /\ late \in Nat
  /\ \A c \in Chunk :
       /\ task[c] \in {"none", "queued", "entered"} => attempts[c] = 0
       /\ task[c] = "asking" => attempts[c] <= 1
  /\ Cardinality({c \in Chunk : Busy(c)}) <= Workers
  /\ ~StoppingWanted => late = 0
  /\ late + Cardinality({c \in Chunk : task[c] = "asking"}) <= Workers

(* The end.                                                                 *)

Finished == \E i \in DOMAIN out : out[i].type = "done"

(* A turn nobody cancelled says done only when all there was has been       *)
(* said: every line is out as text and in a chunk, every submitted chunk    *)
(* has run to its end and every piece it made has been yielded (second      *)
(* invariant of the module docstring).                                      *)
DoneIsComplete ==
  Finished /\ ~cancel =>
    /\ \A n \in DOMAIN lines : \E i \in DOMAIN out : out[i] = Sentence(lines[n], n)
    /\ speaking => LastLine(Len(chunks)) = Len(lines)
    /\ \A c \in Chunk : c < Len(chunks) => task[c] = "done"
    /\ \A c \in Chunk : \A k \in 1 .. made[c] :
         \E i \in DOMAIN out : out[i] = Audio(c, MessageOf(c), k)

(* done.unspoken names exactly the messages a client has been given text    *)
(* to speak and no sound for; a chunk is in done.warnings when its last     *)
(* request failed, so a chunk that is neither heard nor warned about was    *)
(* answered without sound.                                                  *)
UnspokenIsExact ==
  \A i \in DOMAIN out : out[i].type = "done" /\ ~cancel =>
    out[i].unspoken =
      {m \in Message :
         /\ speaking
         /\ \E j \in DOMAIN out : out[j].type = "sentence" /\ out[j].message = m
         /\ ~ \E j \in DOMAIN out : out[j].type = "audio" /\ out[j].message = m}

(* What the documents say and the code does not do.                         *)

(* "Exactly one of these ends a stream, and a client that has seen one      *)
(* should stop expecting anything else" (events.py, TERMINAL).              *)
NothingAfterTerminal ==
  \A i \in DOMAIN out : out[i].type \in {"done", "aborted", "error"} => i = Len(out)

(* "Every submitted chunk is waited for before it is emitted" (pipeline.py, *)
(* of done), also by a turn that is cancelled while it waits.               *)
DoneWaitsForChunks ==
  Finished => \A c \in Chunk : c < Len(chunks) => task[c] = "done"

(* "A chunk that produced no audio at all is sent to synthesis a second     *)
(* time before the turn ends" (docs/events.md).                             *)
SilentChunkTriedTwice ==
  Finished /\ ~cancel =>
    \A c \in Chunk : c < Len(chunks) => c \in spoken \/ attempts[c] = 2

(* "At worst one more chunk is paid for and handed to nobody" (pipeline.py, *)
(* of _abort): with two threads that are about to ask it is two.            *)
AtWorstOneMore == late <= 1

(* Progress.                                                                *)

(* A cancelled turn ends although the model and the speech service may hang *)
(* for ever ("It is checked between events").                               *)
CancelHeeded == cancel ~> cpc = "over"

(* With providers that answer, every turn ends,                             *)
TurnEnds == ProvidersAnswer => <>(cpc = "over")

(* and it leaves no thread behind: the producer returns and no worker is    *)
(* kept, even of a turn that was cancelled, refused by the pool or failed.  *)
ThreadsReturn ==
  ProvidersAnswer =>
    (cpc = "over" ~> ppc \in {"unborn", "gone"} /\ \A c \in Chunk : ~Busy(c))

-----------------------------------------------------------------------------
(* Refinement.                                                              *)

(* The generator's events follow the rules of EventStream.                  *)
Stream == INSTANCE EventStream
ImplementsStream == Stream!Spec
=============================================================================
