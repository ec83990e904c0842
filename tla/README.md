# Echoturn, specified

TLA+ modules that model Echoturn from the model's token to the page that plays the reply,
TLC configurations that check them on small instances, and proofs, checked by TLAPS, that
hold for every instance of its core. Paths below are relative to the repository.

## 1. The system

Echoturn turns something a person said into a spoken reply, in pieces, so that
the first sound comes before the reply is written, and so that the person can
interrupt. One turn goes through these parts.

| part | source | state it keeps | operations | how it meets the others |
|---|---|---|---|---|
| turn pipeline | `src/echoturn/pipeline.py` `TurnRunner` | accumulated text, submitted chunks and their futures, `spoken`, `warnings`, an event queue, two stop flags | `run`, `_produce`, `_synthesise`, `_abort`, `shutdown_pool` | a producer thread, pool threads and the generator the host iterates share the queue and the flags |
| ordering queue | `pipeline.py` `_AudioOrder` | a lock, the cursor, finished chunks, buffered pieces | `piece`, `finish`, `_release` | called by every pool thread, calls the sink while it holds the lock |
| event contract | `events.py`, `docs/events.md` | none | seven events | what the host and the client rely on |
| SSE bridge | `integrations/starlette.py` `sse_stream` | an asyncio queue | `push`, `pump`, the response generator | a pump thread iterates the turn, the event loop sends |
| registry of live turns | `starlette.py` `LiveTurns` | the live turn of each key | `begin`, `end`, `stop`, `is_live` | request threads, the event loop |
| store | `store.py` `InMemoryStore` | messages and the time of the last call, per key | `append`, `window`, `clear`, `keys` | request threads and pump threads |
| example host | `examples/minimal_call/app.py` | none of its own | `/api/turn`, `record_turn`, `/api/transcribe`, ... | puts the parts above together |
| playback queue | `clients/queue.js` | generation, the expected number, decoded clips that wait, sources on the clock | `enqueue`, `drain`, `schedule`, `stop` | promises of the decoder and `onended` callbacks come back at any time |
| call | `clients/call.js` | recording, pending probe, turn number, mute, state shown | `start`, `onFrame`, `probe`, `endCapture`, `send`, `breakIn`, `stop` | owns the playback queue, the microphone and the cursor |
| cursor, echo, gate, ring, microphone | `clients/*.js` | silence and speech so far, the verdict; the echo reference; buffered frames | `observe`, `noteVerdict`, `push`, `open`, `close` | driven by the call, one frame at a time |
| sentence and message walk | `text/sentences.py`, `separators.py`, `messages.py` | the line and the buffer not yet cut, the message number, the filler budget | `iter_message_sentences`, `iter_sentences`, `split_messages` | two generators between the model's stream and the producer thread |
| cleaners | `text/reply.py`, `reasoning.py`, `stage.py`, `fillers.py`, `normalize.py` | none | `clean_reply`, `strip_reasoning`, `object_end`, ... | used by the walk for one sentence, by `done` for the whole reply |
| terminal host | `cli/demo.py`, `cli/audio.py` | the transcript, the clip, an Event per recording | `main`, `conversation`, `Ear.hear`, `Session.say`, `ClipCollector.add` | a main thread, and a reader thread for each recording, on one keyboard |
| model files | `models.py` | files and their `.part` names | `download`, `fetch_all`, `smoke` | a command; the detectors read what it leaves |
| detectors | `vad/*`, `endpoint/*` | a session and a lock in each detector that is built | `build_vad`, `report`, `build_turn`, `verdict`, `speech_ms` | threads of a service, which builds one for every request; the terminal's gate, which keeps one |
| providers | `providers/*` | a shared HTTP client | `stream`, `synth_stream`, `transcribe` | the outside: they answer in blocks, late, or not at all |
| audio, config | `audio/*`, `config.py` | none | numbers from samples, settings | outside, as far as the models go |

What is hard here: three kinds of thread share one turn and any of them may
fail or hang; a turn can be cancelled, closed, superseded or hung up at any
moment; requests with the same key interleave; on the client every `await` is a
place where the world can change. `PROJECT.json` lists each hazard at its line
("hazards"), with the properties that would catch it, and every component with
what is modelled of it ("components").

What makes each part correct, in a sentence:

* ordering queue: every piece made is handed over once, by chunk and by piece,
  and nobody leaves the lock with something deliverable behind him;
* pipeline: text before sound, nothing said twice, `done` only after everything,
  a stop lets no more requests out than there are workers, the stream ends and the
  threads come back;
* registry: of the turns of one key only the newest is left alone, and no pump runs
  on that the registry has forgotten;
* bridge, store and host: a client that stays is told how its turn ended, each
  reply is written down once and under its question, a stopped turn ends;
* playback: heard by number, without overlap, never after a stop, and no sound lost
  but what two events of a chunk, or a chunk with none, cost (section 5);
* call: what is said is sent once, a verdict is used for the pause it was about,
  an old turn never touches the newer one's state, every recording ends;
* walk and cleaners: voice and screen agree, and on the message of every word,
  however the stream is cut; a finished sentence is not held back;
* terminal: every Enter does what it was pressed for, the audio is whole, the
  transcript is an exchange, the program ends with its input;
* files and detectors: a model that works is never damaged, half a file is never
  used, a detector builds one session however many threads ask it.

## 2. Modules

```
 OrderedVoice <-- implements -- AudioOrder <-- INSTANCE -- Turn -- implements --> EventStream
                                    |                        |                        |
                             AudioOrder_proofs        TurnInvariant             Events (OfType)
                                    ^                        |
                                    +------ used by -- Turn_proofs

 LiveTurns <-- INSTANCE -- Conversation -- Conversation_proofs
 SpeechText <-- EXTENDS -- Reply -- Reply_proofs
 PlaybackQueue -- PlaybackQueue_proofs           Terminal -- Terminal_proofs
 Models -- Models_proofs                         Call -- Call_proofs
```

`MC*` modules extend a component for TLC; each `.cfg` gives constants their
values and replaces nothing. A definition marked "Bug:" stands before the one it
is a variant of; it is not part of the specification, and `PROJECT.json`
("mutants") names the property that notices when it takes its place.

**AudioOrder** is `_AudioOrder`. The lock is `holder`; `Piece` and `Finish` are
what a worker does when it has the lock, and `HandOver`, `Advance` and `Unlock`
are the turns of the loop in `_release`, one step each, because the sink is
called from inside it. `waiting`, `finished` and `next` are the fields of the
class; `made` and `handed` are history. A thread that waits for the lock has no
state of its own: its step is simply not enabled.

**OrderedVoice** says what that queue is for, without lock, buffer or cursor.
`AudioOrder!Voice` maps what has been handed over to what has been sent.

**Turn** is `TurnRunner` with its threads. `ppc` is the producer's place
(`NextLine` to `Finally`, one action per branch of `_produce`), `task[c]` the
state of chunk `c`'s future and worker (`Start`, `Enter`, `Ask`, `MakePiece`,
`SpeakReturns`, `SpeakRaises`, `FinishChunk`, and the steps in the ordering queue,
which are those of AudioOrder conjoined with what they do to the rest), `cpc`
the consumer's place in `run`. `Enter` and `SpeakRaises` look at the flag and `Ask`
makes the request, a step later, because anything may happen in between; `late`
counts the requests that went out although the turn was to be stopped. The host
sets the caller's Event (`Cancel`) and closes the generator where it is suspended
(`Close`). A pool that it shut down shows only in a submit that raises, the first of
the turn or a later one (`Refuse`, an alternative wherever something is submitted).
The model writes lines into messages whose numbers do not
decrease, ends or raises (`ModelAnswers`); a speech request makes pieces, and
then returns or raises, with or without sound. The chunk policy is the choice
in `Flush` between handing the buffer over and going on.

**EventStream** says what a client of one turn may rely on: the order in which
events can arrive. It says what is true of the code, which is less than the
documents say (section 5). **Events** holds what both sides say of a list of events.

**TurnInvariant** holds the inductive invariant of Turn, TurnInv, in a module of its
own without proofs, so that TLC can be given it as an invariant.

**LiveTurns** is the registry of one key, with `begin` and `stop` in the two
halves their lock leaves them in. A turn stands for its Event.

**Conversation** is the route `/api/turn` for one key: the handler (`Begin`,
`Ask`, `ReadWindow`, `Respond`), the pump with `record_turn` and the turn inside
it (`Resume`, `Says`, `FailedEnds`, `Record`, `Push`, `PumpEnds`; `Raises` and
`PushFailure` for a turn that raises, which `record_turn` never sees), the response
(`Deliver`, `Leave`, `Close`), and a host's hang-up. The registry's steps are
those of LiveTurns. Of the turn it keeps what Turn shows of it: sentences, then
one ending, where the flag is looked at between events and at every poll. The
store is `messages` and `quiet`; a gap is a flag that the next call of the store
acts upon, as `_reopen_if_stale` does.

**PlaybackQueue** is the class of that name. Everything runs on one thread, so
a step is what happens between two awaits, except that the loop of `drain` takes
one step a turn with everything else held back (`draining`), which keeps the loop
a plain action. Decodes in flight carry the generation they began in; sources
that were stopped wait in `silenced` for their `onended`. The page hands over what
the server sends: per chunk one audio event, several (the streaming voice calls back
for every network block, `openai_compatible.py:237`) or none (`MaxPieces`, `MaxGap`).

**SpeechText** holds the rules that decide what of a reply is meant for a person.
A text is a sequence of symbols; a symbol has a kind (a word, a sentence end, a
brace, a bracket, an asterisk, a backtick, a tag, ...) and its place in the model's
output, so that each word is known again wherever it ends up. An operator stands for a
function of the source and has its name. `MaxSpan` is the cap of a stage direction, 80
characters in the source, in symbols.

**Reply** is the stream, `iter_message_sentences` and `iter_sentences` as what they are:
three generators that pull on one another. `spc` and `mpc` are where the two walks stand;
`Delta(n)` is a token of any length, so every cutting of a reply is a behaviour. `Hold` is
the scan for objects of the sentence walk and `LeaveFence` to `AskForMore` are its
branches, `PassOpenLine` to `BreakLine` those of the message walk, `Say` is `_clean_piece`
and the filler budget of the last lines of `iter_message_sentences`. The whole-reply
cleaner, `CleanReply` of SpeechText, is the reference definition.

**Terminal** is `cli/demo.py` in both its modes. `pc` is the main thread (`main`,
`conversation`, `Ear.hear`, `Session.say`, in that order of nesting); `reader[r]` is
the thread of recording `r` that waits for one line of the same keyboard. Blocks of
a recording are loud or not, which is what `speech_ms` reads; a byte of audio is a
chunk and a place, and a network block of the streaming voice (`NetworkBlock`, the
loop of `synth_stream`) ends after any byte. `Add` is `ClipCollector.add` and `ReadWav`
what it makes of audio that can be read or cannot, `Written` the
store's `append`. The turn between `Say` and `TurnEnds` is what Turn promises.

**Models** is the command `echoturn-fetch-models` (`cmd`, one action per step of
`download` that another process can see, and `Kill` between any two) and a service with
its detectors. A file is an inode, a name is bound to one, and a handle outlives the name,
as on the systems this runs on. A block is that of the published build, that of another
one, which may have the same size, or a hole; what a source sends (`Bodies`) is a build,
or the beginning of the published one. `session`, `lock` and `loads` belong to a detector.
`build_vad` and `build_turn` make a new one at each call: the example host calls them for
every request (`app.py:142`, `:157`), so a thread has one of its own until it has answered
(`<<"own", t>>`), and the terminal keeps one (`demo.py`; `Keeps` are the models a host
does that for, `<<"kept", m>>`), which all its threads ask.

**Call** is `Call` of `clients/call.js` with the cursor, the interrupt gate and the carry
ring. A frame is quiet or holds a word, and time is counted in frames. What an `async`
function does between two awaits is one action; what waits is a record in `ends`
(`endCapture`), `probes` or `turns` (`send`), and a wait whose promise has settled goes on
before anything else, as microtasks do (`Idle`). `heard` and `alone` of a turn are
history: what had been said when it was sent, and whether any other recording ran, or
waited for its probe, at that moment. It leaves out: interruption switched off, the frames
kept from before the first word, words shorter than `min_speech_ms`, and a second
`start()` while the first one waits for the permission.

## 3. Runs

| run | instance | distinct states | what it shows |
|---|---|---|---|
| `audio_order` | 3 chunks, 2 pieces | 1,395 | order and completeness; AudioOrder implements OrderedVoice: what can be sent is sent, whoever lets go of the lock |
| `turn_host` | 2 lines, 2 messages, 1 piece, 2 workers; cancel, close, pool shutdown | 5,637,432 | no line lost, sound whole, `done` complete, `unspoken` exact, nothing said twice, no more requests after a stop than workers; Turn implements EventStream |
| `turn_progress` | 2 lines, 1 message, 1 piece, 2 workers; cancel, pool shutdown | 1,146,208 | a cancelled turn ends though the providers hang; with providers that answer, every turn ends and gives its threads back, also one that the pool refused |
| `server` | 2 requests, 1 sentence, 3 messages kept | 1,106,347 | registry, store, pump and response together: the newest turn wins, no pump runs on unknown to the registry, replies written down once, who stays is told, stopped turns end |
| `playback` | 3 chunks of up to 2 events, gaps of 1, 2 decodes at a time, 1 clip length, 1 stop, clock to 4 | 4,710,845 | order, no overlap, nothing stale, the page is told, no sound lost but to a second event or a missing one |
| `reply` | every text of up to 4 of 9 fragments, of up to 3 with one hesitation or two, and of up to 4 with stage directions, in brackets (a cap of 2 symbols) and in one star or two; every cutting, soft cut at 3 symbols, stream that may fail | 803,823 | what is said is what is shown, in the same messages; one hesitation a message, but for one written twice; each symbol once, in its order, and no message number falls; no finished sentence waits |
| `reply_screen` | every text of up to 4 fragments that begins with reasoning | | violated: the middle of reasoning is spoken |
| `terminal` | 4 lines typed, recordings of 5 blocks, 2 chunks of 3 bytes, unreadable sound, 5 messages kept, both modes, both voices | 531,242 | no Enter astray, exact gate, whole samples, an alternating history, an end |
| `terminal_clip` | 2 lines, 2 chunks of 4 bytes, streaming voice | | violated: of a chunk only its first block is played |
| `models` | 2 models of 2 blocks, 2 builds, 1 command run twice, 2 threads, a kept detector of Silero and one for each request of SmartTurn | 3,259,098 | nothing that works damaged, nothing half used, no detector builds twice, nothing left behind |
| `call` | 2 words, 2 to break in, probe after 1 quiet frame, end after 2, 2 stretches of sound, 1 typed message or hang-up | 617,419 | no word sent twice, unless another recording ran or waited when it was sent (difference 4); `busy` is the newest turn's, every recording ends |
| `call_half` | 2 words, 1 to break in, 1 stretch of sound | | violated: a late answer sends half a sentence |

Why the bounds are enough. Three chunks put one at, one behind and one ahead of
the cursor, and two pieces let one be caught half sent. Two lines make two
chunks that race, or one chunk of two lines, and two messages put a boundary
between them; more lines repeat these. The registry has one slot per key, so two
turns already displace, end and hang up against each other, and the proof covers
the rest. Two requests with a question and a reply each are one message more than
`Keep`. A turn of three clips has one that plays, one that waits and one that
decodes while a stop falls anywhere between; two events and a gap of one put a second
event before, beside and after the decode of the first, and a hole in front of a clip. A
clip of two ticks outlasts the lead of one, so that it ends before or after the next is
decoded, and the proofs cover other lengths.

Four fragments put something before, inside, between and after an object, a fence or a
separator, and a soft cut at three symbols falls inside a sentence of two fragments. A
bracket of three symbols is one more than the cap, one of two with a sentence end in it is
where the walk cuts, and stars come alone and in pairs. Four presses of Enter are two
recordings, or one whose device breaks and the one that suffers from it; two messages of
question and answer in a store of five and a window of four make both of them drop an odd
message. Three bytes are a sample and a half. A file of two blocks can be empty, half,
whole or too long, and two starts of the command let the second meet what the first,
killed, left; a body of the other build has fewer blocks, as many or more. Two threads ask
one kept detector at once, and each has one of its own. Two words with a pause between
them are what a stale verdict needs, and the two that breaking in takes; the pauses of one
and two frames make a probe answer before, between and after them. That longer calls show
nothing new is proved for NeverSentTwice and BusyIsTheTurn (section 4), and the invariant
of that proof, SaidInv, was also checked with four words and no sounds or typed messages
(3.6 million states): only there does a turn that is sent while two recordings wait for
their probes show the case that `alone` leaves out with its second conjunct.

`reply` leaves out replies about which the two definitions differ for reasons that
section 5 lists: see `Plain` and `NoEmptyMessage` in MCReply.

Deadlock is not checked: every model is of something that ends.

**Fairness.** Turn: the producer, the workers and the consumer make progress (threads run;
the host keeps iterating), the model and the speech service need not. `TurnEnds` and
`ThreadsReturn` add `ProvidersAnswer`, for both clients have timeouts
(`openai_compatible.py:110`, `:179`); `CancelHeeded` does not, and that is its point.
Conversation: the pump's thread runs and the event loop takes what it pushes; nothing is
assumed of clients, of the model or of the handler. A silence of the idle gap (ten minutes
by default, `config.py:221`) does not fall into a turn, as the providers time out after
one or two. Terminal: the threads run, the person types until the input ends, the
providers answer or time out. `RecordingEnds` is fair: a recording whose Event is set ends
when `stream.read` returns (`audio.py:158`), so the device is assumed to deliver its block
or to fail; before that it need do neither. Call: the microphone delivers frames while it
is open, sounds end (playback is on a clock), and the service answers a probe and ends a
stream, because recognition and model have timeouts on the server
(`openai_compatible.py:277`, `:110`); the page itself sets none (`call.js:399`), so this
is an assumption about the host. PlaybackQueue, Reply and Models have safety properties
only.

## 4. What is proved

With TLAPS, for every value of the constants that satisfies the stated
assumptions. `PROJECT.json` ("theorems") lists the results.

*AudioOrder* (`OrderAssumption`). `OrderInvariant` proves the inductive invariant
OrderInv: between two holders of the lock the cursor stands at a chunk that is not
finished and whose buffer is empty, inside the loop the holder is the only one
who may find otherwise, and per chunk what was made is what was handed over
plus what is buffered. `InOrder`, `Complete`, `NoneStranded` and `TypeCorrect`
follow from it, and `RefinesVoice` shows that every step is a step of OrderedVoice
or none: handing over a piece is sending it because everything before the cursor
is finished and its buffer empty, which only the invariant says.

*PlaybackQueue* (`PlaybackAssumption`, `NoClipAssumption`). HeardInOrder is not
inductive. PlaybackInv adds that what was heard lies before `expected` and
`playAt`, and that what waits is of this turn and at its own number; this makes
`PlayedInOrder`, `StopIsFinal` and `PageIsTold`. `HeardAsAWhole` proves NothingLost
for every turn, with any number of events of a chunk and any gaps, from Accounted: where
the events of a turn are (DecodesInPlace), that no chunk before `expected` is without one
and every later one that has some decodes or waits (ChunksInPlace), and that the one event
of a chunk, once it has sound, waits at its number or was heard (SoundsInPlace).
NothingLost names the two ways a sound is lost, which differences 6 and 7 of section 5
show to be possible.

*Turn* (`TurnAssumption`). The steps of a turn in the ordering queue are AudioOrder's,
so the invariant proved there holds of the turn (`SoundInOrder`): the proof instantiates
AudioOrder_proofs and discharges its assumption. `FewLateRequests` proves LateRequests
from RequestInv: the requests that were late and the workers that have looked at the flag
and not asked yet are together no more than the pool has threads, because while nobody is
to stop none is late and a worker holds a thread, and afterwards nobody looks and goes on
to ask. `SaidOnce` needs SpeechInv: a chunk makes its first
piece after its first request and is in `spoken` from then on.

The rest follows from TurnInv (`InvariantHolds`, with `TypeCorrect` among its parts),
which says in named parts what the threads know of each other: what the producer has
put out as text is in a chunk or in its buffer; the stages a chunk's worker can be in,
and that a worker which has left its chunk has reported it to the queue; which events
the queue still holds, and that what the consumer has yielded and what it will yield
are together what was put there; and where the consumer can be when the producer is
done. From it come `TextKept`, `SoundWhole`, `DoneComplete` and `UnspokenExact`, and
`FollowsTheStream`, step by step: a line is yielded before any sound of it because the
producer puts it into the queue before it submits its chunk, and `done` of a turn nobody is
stopping finds every chunk at its end because the producer waits for all of them before
it puts the end mark.

*Conversation* (`ConversationAssumption`). `RegistryInvariant` is the registry's own
invariant, of any number of requests, and `NewestTurnWins` follows from it. NewestWins
needs the disjunct about a `begin()` between its two halves: without it the property is
false in the code, and with it, it is inductive. `NoPumpEscapes` joins the registry to the
pumps, which outlive their responses: a pump runs only for a turn that was registered, and
a response lets the registry forget its turn only after it has set its Event (BegunInv), so
a pump nobody stopped is the registry's, or that of a turn whose displacer is between its
two halves. `WrittenDownOnce` rests on
RepliesInv: until the event that ends a turn nothing is written down, afterwards what
is due is, and a pump is started once, by a handler that is done. `WhoStaysIsTold` rests
on ToldInv: what has been sent, what waits in the response's queue and what the pump
has still to push are, in this order, what the turn said; the proof puts queues one
behind the other (PutBehind, MoveOn).

*Models* (`DiskAssumption`, and commands that do not overlap, OneAtATime, where the
theorem says so; difference 11 shows that it is needed). FilesInv says that the file a
command writes has only the name `.part`, that what has arrived of it is what came of the
body and is the whole model when it is renamed, and that the name of a model never stands
for less, unless somebody else put it there. From it follow `ModelsAreSafe`,
`NothingLeftBehind` and `NoSessionFromHalfAFile`. A session from half a file means one
that is of no build: the whole file of another build is as good as this code can tell
(difference 14). `BuiltOnce` is about one detector, asked by any number of threads; it
needs only its lock, and no OneAtATime.

*Terminal* (`TypingAssumption`, `StoreAssumption`, `SoundAssumption`, `GateAssumption`:
the bounds are numbers, and a silence that parts two segments is at least one block).
`NoEnterAstray` rests on EntersInv: a reader thread waits for the keyboard exactly as long
as its Event is not set; the ones that wait outside of their recording are no more than
the recordings a device broke off, less the lines they took (LateIsBehind, by counting the
set); and while none was broken off, starts are ahead of sends by one during a recording
(SendFollows). `AnExchange` rests on StoreInv: outside of a turn every question of the
transcript is followed by its answer, in a turn every one but the last message, and a
store that forgets, from the front or altogether, keeps it so (LastNOpen, WrittenFacts),
for any window and any `Keep`. `NoClick` rests on SoundInv: what is kept back is the last
byte that arrived or nothing, so that every block handed on begins at a sample (EvenOdd),
and putting whole pieces together by number leaves them whole (AddFacts), also those that
the collector of difference 2 loses. `NobodyCutOff` is about the fold of `speech_ms`,
unfolded as a function on sets of places (Counted). Its induction over the blocks (Stands)
says what the three counters mean after m of them: the total is the loud blocks of the
segments that are over and long enough, `current` is the size of the segment that may
still go on, and the silence behind it is shorter than `MinSilence`, or that segment is
empty. A loud block joins the open segment or begins one (LoudGoesOn), a quiet one keeps
it open or closes it (QuietGoesOn, Closes), and closing it decides once whether it counts.
`TypeCorrect` needs LinesSpent: recordings and questions come out of lines typed, so there
is always a thread left for a recording.

*Call* (`ThresholdAssumption`). `BusyWhileTheTurnStreams` needs NumbersOnce: no two turns
have a number in common and none has one to come, so the stream that ends is told
from the newest one by its number, whatever was typed, said, interrupted or answered late
in between. TurnsInv puts this together with the types (`TypeCorrect`). `NothingSentTwice`
rests on SaidInv: what is being recorded, waits for its probe or has come back from a
probe of the newest turn was not sent before, and what the carry ring holds is in no
recording yet. It was this proof that found difference 4 in its full
extent: the first of two recordings that wait for their probes is sent with the transcript
of the second, which goes on with its frames.

*Reply* (`ReplyAssumption`: a symbol's place is where it stands in the reply). The
proofs are about every reply and every cutting, the ones that `Plain` leaves out included.
They do not ask what the text rules compute. They use that each of them takes symbols out
of a text and puts none in: it leaves a part (PartOf, DropAllIs), or the text without some
of its places (WithoutText, by induction over them), so cleaning a piece leaves a text of
its symbols in their order (CleanText). `InOrder` rests on
WalkInv and SaidInv: the sentence walk's buffer comes before what the message walk will
still pass on (`Coming`: all of its line, or, once the line itself went out, the break and
what is behind it), both hold only what has arrived, and until the tail is said everything
said comes before both of them. `Coming` is what makes this inductive, because between the
two yields of a line its words are in both buffers. `OneFiller` rests on FillerInv, that
a message which opened a sentence with a hesitation has spent its filler, and on what
strip_leading_filler does: what it leaves hesitates only if it took something off
(StripLeadingFillerIs), which is the exception that OneFillerEach names. `TypeCorrect`
needs that what a fence holds back while it waits is shorter than a marker (MarkerTailIs).
The invariant, IInv, was also checked by TLC, for replies of up to three of ten fragments.

*Induction*. The library's induction theorems take an operator as a parameter, which
the provers cannot instantiate. In Turn_proofs, Terminal_proofs and Reply_proofs the
induction is the least element of a set of naturals (LeastNat), with sets and functions in
the place of predicates and operators; that is enough to show that a function computed step
by step exists (Recursion), that it is unique (SameRecursion), and what OfType, FlattenSeq
and Without make of a longer sequence. Recursive definitions are functions for that reason.

**Only model-checked**: of Reply, VoiceMatchesScreen, NumbersFollowLines and SpokenAsItComes,
which compare what the walks say with what the rules make of the whole reply, so that a proof
would have to say what each recursive rule computes of a text put together from parts, for the
replies where they agree at all; CheckMeansLoaded of Models, which is false (section 5); all
liveness (fairness and ENABLED are beyond the prover).

## 5. Where code and documents differ

Three runs end in a counterexample; `PROJECT.json` ("findings") has the quotes.

1. Reasoning of three sentences or more is spoken in part, and not shown
   (`reply_screen`).
2. The terminal plays one network block of each chunk (`terminal_clip`).
3. A verdict about an earlier pause sends half a sentence (`call_half`).

These are met by other properties of the modules, which no run lists; each can be
seen by giving the property to a cfg with the constants named.

4. A mute while a recording waits for its probe lets the next one begin, the first is
   sent with its words, and it goes on with them and is sent as well (`call.js:235`; `:320`):
   SentOnce of Call, as in `call` but with 3 words, no sounds and nothing typed
   (MaxSeq 0). NeverSentTwice says what is left: no word is in two turns if no other
   recording ran or waited when they were sent (`Alone`).
5. `error` is not the last event of a stream (`pipeline.py:397`; `events.py:63`), and
   `done` may come before a chunk was waited for when a cancel arrives after the
   consumer's last look (`pipeline.py:404`; `:25`): NothingAfterTerminal with no host
   acts, DoneWaitsForChunks with `{"cancel"}`, of Turn, with 2 lines, 1 message, 1
   piece and 2 workers. A request that returns without sound is not tried again
   (`pipeline.py:463`; `docs/events.md:116`): SilentChunkTriedTwice, the same.
6. Of a chunk sent as several audio events the browser plays one, as a number is played
   once (`queue.js:95`; `README.md:43`: "nothing is skipped, doubled"): EveryClipHeard
   of PlaybackQueue, as in `playback` but with MaxIdx 1, MaxGap 0 and no stops. NothingLost says what is left.
7. A chunk without sound stops playback for the rest of its turn (`queue.js:102`): the
   same with MaxPieces 1 and MaxGap 1.
8. The reply to the first question can be written down under the second one
   (`app.py:108`; `starlette.py:69`): ReplyUnderItsQuestion of Conversation with 2
   turns, 1 sentence and 4 messages kept.
9. The message number of a sentence can depend on where a token ended: a line that
   went out before its break did not set `emitted` (`sentences.py:232`; `:209`), so a
   message that consists of such lines does not move the number on: NumbersAgree of
   Reply, with the constants of `reply`. NumbersFollowLines says what is left.
10. `--check` prints "loaded and ran: None" and returns 0 where onnxruntime cannot be
   imported (`models.py:178`; `:166`): CheckMeansLoaded of Models, as in `models`.
11. Two commands that overlap damage a model that works, because they share a
    `.part` file (`models.py:129`): NeverDamaged with `TwoCommands`.
12. Of a hesitation written twice ("um... um..."), or with a pause in front of it,
    `strip_leading_filler` takes off the first half (`fillers.py:66`), so a message that has
    used its filler opens another sentence with one (`style.py:33`: "at most one leading
    filler per message"), and in writing three in a row leave one: OneFillerAtMost of Reply,
    with the constants of `reply`.
    OneFillerEach says what is left.
13. More than "one more chunk" can be paid for after a turn was stopped
    (`pipeline.py:567`): every worker that has looked at the flag and not asked yet asks.
    AtWorstOneMore of Turn with 2 lines, 1 message, 1 piece, 2 workers and `{"close"}`.
    LateRequests says what is left.
14. A different build of the same size is installed (`models.py:141`; `:61`: "a source
    that publishes a different build is refused"): OtherBuildsRefused of Models, as in
    `models`.
15. "Loading happens once, on the first turn" (`silero.py:63`) is so for a host that keeps
    its detector. The example host builds one for every request, and each loads its own
    session (`vad/__init__.py:70`, `endpoint/__init__.py:77`; `app.py:142`, `:157`):
    OneSessionEach of Models, as in `models`. LoadedOnce says what is left.
16. A stage direction with a sentence end inside is shown without its words and spoken with
    the second half of them, as the walk cuts it in two and each half is cleaned by itself
    (`sentences.py:79`; `stage.py:26`, `:31`): VoiceMatchesScreen of Reply, as in `reply`
    with AllReplies for the replies, CutDirections for the fragments and MaxFragments 2.

And without a property: voice and screen also differ for a reply that consists of
objects only, for a fence next to an object, for a brace left open behind a
sentence end, and for two emphases with nothing left between them, whose stars pair in
another way; and a message of which nothing is left is counted by the walk and
not by the splitter; `synth_stream` without a callback puts its leftover byte in
front (`openai_compatible.py:257`); `download(force=True)` that fails says False
although the model is installed; `ready()` asks whether a file exists, not whether it
is whole; a turn whose `endCapture` waits is sent after the call was hung up.

## 6. Not modelled

Wording, formatting, prompts, timings and samples; heartbeats and headers; the
store's `clear`, `keys` and keys that are not strings, which no host here uses; an event
loop that stops while pumps push; the sizes of the chunk policy; characters and
the taste rules over them (`punctuation.py`, `style.py`, `tts.py`); signal processing
(`audio/*`, `mel.py`, `levels.js`) and inference, which are numeric; connection pooling,
the offline providers and the registry of providers; on the client, `mic.js` and its
worklet, the frames of `stream.js`, dials and conversions; the bench and the scripts.

## 7. Plan

1. *Mic*: `open`, `openOnce` and `close`, composed with Call.
2. Call with PlaybackQueue in place of `speaking`, so that what `onSpeaking` tells
   the page can be compared with the state it shows.
3. What a turn's model is given when two requests of one key interleave
   (`app.py:244`), in Conversation.
