------------------------------- MODULE Models -------------------------------
(***************************************************************************)
(* The optional model files: the command that installs and checks them     *)
(* (models.py), which may be killed and run again, and a service that uses *)
(* them meanwhile (vad/__init__.py, vad/silero.py, endpoint/__init__.py,   *)
(* endpoint/turn.py), several threads to one detector.                     *)
(*                                                                         *)
(* A file is an inode, whose content is a sequence of blocks: "ours" is    *)
(* the block at that place of the build the table was measured with,       *)
(* "other" that of another build, "hole" what nobody wrote.  A name is the *)
(* inode it is bound to, 0 when there is none: a handle outlives the name. *)
(* What a model answers is left out; that it answers, and from which bytes *)
(* it was built, is not.                                                   *)
(*                                                                         *)
(* A detector belongs to a call of build_vad or build_turn.  A host keeps  *)
(* the one of a model for all its threads (cli/demo.py keeps that of       *)
(* Silero), <<"kept", m>>, or a thread builds one for every request it     *)
(* answers, gone with it (examples/minimal_call/app.py), <<"own", t>>.     *)
(***************************************************************************)
EXTENDS Integers, Sequences, FiniteSets

CONSTANTS
  Commands,     (* runs of echoturn-fetch-models that may overlap           *)
  Threads,      (* threads of the service                                   *)
  Keeps,        (* models the host keeps a detector of                      *)
  Size,         (* blocks of every model                                    *)
  MaxRuns,      (* bound: how often a command is started                    *)
  MaxInodes     (* bound: files at a time                                   *)

(* Every model can have a file and a .part, and another one is opened.      *)
ASSUME DiskAssumption == Size \in Nat \ {0} /\ MaxInodes \in Nat /\ MaxInodes > 4

VARIABLES
  runtime,      (* whether onnxruntime can be imported on this machine      *)
  short,        (* history: models whose file was there, with a wrong size, *)
                (* before any command ran                                   *)
  disk,         (* the content of every inode                               *)
  target,       (* the file under the name of a model                       *)
  part,         (* the file under that name with .part                      *)
  orphans,      (* history: models whose .part a killed command left        *)
  runs,         (* commands started                                         *)
  cmd,          (* the commands, see Idle                                   *)
  kept,         (* what the host's own build_vad and build_turn chose       *)
  session,      (* _session of every detector                               *)
  lock,         (* the thread in the _lock of every detector                *)
  thread,       (* [pc, model] of every thread of the service               *)
  loads         (* history: sessions built by every detector                *)

files == <<disk, target, part, orphans>>
service == <<kept, session, lock, thread, loads>>
vars == <<runtime, short, files, runs, cmd, service>>

(* MODELS, in the order of the table.                                       *)
SILERO == 1
SMART_TURN == 2
MODELS == {SILERO, SMART_TURN}
ASSUME KeepsAssumption == Keeps \subseteq MODELS
Last(m) == m = SMART_TURN

Idle == [pc |-> "idle", force |-> FALSE, at |-> 1, handle |-> 0, written |-> 0,
         body |-> <<>>, missing |-> {}, failed |-> FALSE]
Detectors == ({"kept"} \X Keeps) \cup ({"own"} \X Threads)
Resting == [pc |-> "idle", model |-> SILERO]
NewService ==
  /\ kept = [m \in Keeps |-> "none"]
  /\ session = [d \in Detectors |-> "none"] /\ loads = [d \in Detectors |-> 0]
  /\ lock = [d \in Detectors |-> "free"]
  /\ thread = [t \in Threads |-> Resting]

Blocks == {"ours", "other", "hole"}
All(block, n) == [i \in 1 .. n |-> block]
Builds == {"ours", "other"}
Whole(content) == \E build \in Builds : content = All(build, Size)

(* Nothing, the model, or a file of another size put there by other means.  *)
Init ==
  /\ runtime \in BOOLEAN
  /\ \E found \in [MODELS -> {"nothing", "model", "short"}] :
       /\ short = {m \in MODELS : found[m] = "short"}
       /\ disk = [m \in 1 .. MaxInodes |->
            IF m \notin MODELS \/ found[m] = "nothing" THEN <<>>
            ELSE All("ours", IF found[m] = "short" THEN Size - 1 ELSE Size)]
       /\ target = [m \in MODELS |-> IF found[m] = "nothing" THEN 0 ELSE m]
  /\ part = [m \in MODELS |-> 0] /\ orphans = {}
  /\ runs = 0 /\ cmd = [c \in Commands |-> Idle]
  /\ NewService

Exists(name) == name # 0
SizeIs(name, n) == Exists(name) /\ Len(disk[name]) = n
Installed(m) == SizeIs(target[m], Size)

(******************************* The command *******************************)

(* main, without --check or with it: the models one after the other.        *)
Start(c) ==
  /\ cmd[c].pc = "idle" /\ runs < MaxRuns
  /\ runs' = runs + 1
  /\ \E force \in BOOLEAN, pc \in {"look", "smoke"} :
       cmd' = [cmd EXCEPT ![c] = [Idle EXCEPT !.pc = pc, !.force = force]]
  /\ UNCHANGED <<runtime, short, files, service>>

Step(c, pc) == cmd' = [cmd EXCEPT ![c].pc = pc]

(* download returns; fetch_all goes on with the next, and counts this one.  *)
Returns(c, ok) ==
  LET m == cmd[c].at
      missing == IF ok THEN cmd[c].missing ELSE cmd[c].missing \cup {m}
  IN cmd' = [cmd EXCEPT ![c] =
       [Idle EXCEPT !.pc = IF Last(m) THEN "exit" ELSE "look",
                    !.force = cmd[c].force, !.missing = missing,
                    !.at = IF Last(m) THEN m ELSE m + 1]]

Skip(c) ==
  /\ cmd[c].pc = "look" /\ ~cmd[c].force /\ Installed(cmd[c].at)
  /\ Returns(c, TRUE)
  /\ UNCHANGED <<runtime, short, files, runs, service>>

(* The request fails, or its directory cannot be made.                      *)
RequestFails(c) ==
  /\ cmd[c].pc = "look" /\ (cmd[c].force \/ ~Installed(cmd[c].at))
  /\ Step(c, "cleanup")
  /\ UNCHANGED <<runtime, short, files, runs, service>>

(* What the source may send: the model, or another build, shorter, longer   *)
(* or of the same size; or less of it: a connection that is cut reads as    *)
(* the end.                                                                 *)
Bodies == {All("ours", n) : n \in 0 .. Size} \cup {All("other", n) : n \in 0 .. Size + 1}

(* An inode that has neither a name nor a handle is gone.                   *)
Used == {target[m] : m \in MODELS} \cup {part[m] : m \in MODELS}
          \cup {cmd[c].handle : c \in Commands}
Sweep == disk' = [i \in DOMAIN disk |-> IF i \in Used' THEN disk[i] ELSE <<>>]

NewInode == CHOOSE i \in DOMAIN disk : i \notin Used

(* Bug: the old file goes before the new one is there.                      *)
OpenAfterUnlink(c) ==
  LET m == cmd[c].at IN
  /\ cmd[c].pc = "look" /\ (cmd[c].force \/ ~Installed(m))
  /\ \E body \in Bodies :
       cmd' = [cmd EXCEPT ![c].pc = "copy", ![c].body = body, ![c].handle = NewInode]
  /\ target' = [target EXCEPT ![m] = 0]
  /\ part' = [part EXCEPT ![m] = NewInode]
  /\ UNCHANGED <<runtime, short, orphans, runs, service>>
  /\ Sweep

(* open(part, "wb"): a file that has the name is emptied, whoever has it    *)
(* open.                                                                    *)
Open(c) ==
  LET m == cmd[c].at
      inode == IF Exists(part[m]) THEN part[m] ELSE NewInode
  IN
  /\ cmd[c].pc = "look" /\ (cmd[c].force \/ ~Installed(m))
  /\ \E body \in Bodies :
       cmd' = [cmd EXCEPT ![c].pc = "copy", ![c].body = body, ![c].handle = inode]
  /\ disk' = [disk EXCEPT ![inode] = <<>>]
  /\ part' = [part EXCEPT ![m] = inode]
  /\ orphans' = orphans \ {m}
  /\ UNCHANGED <<runtime, short, target, runs, service>>

(* A write at its own place in the file, past a hole when another command   *)
(* emptied it meanwhile.                                                    *)
Put(content, place, block) ==
  [i \in 1 .. IF place > Len(content) THEN place ELSE Len(content) |->
     IF i = place THEN block ELSE IF i <= Len(content) THEN content[i] ELSE "hole"]

CopyBlock(c) ==
  LET n == cmd[c].written + 1 IN
  /\ cmd[c].pc = "copy" /\ n <= Len(cmd[c].body)
  /\ disk' = [disk EXCEPT ![cmd[c].handle] = Put(@, n, cmd[c].body[n])]
  /\ cmd' = [cmd EXCEPT ![c].written = n]
  /\ UNCHANGED <<runtime, short, target, part, orphans, runs, service>>

(* A read that times out, a disk that is full.                              *)
CopyFails(c) ==
  /\ cmd[c].pc = "copy"
  /\ Step(c, "cleanup")
  /\ UNCHANGED <<runtime, short, files, runs, service>>

(* Bug: any file that arrived without an error is taken.                    *)
VerifiedAny(m) == Exists(part[m])

Verified(m) == SizeIs(part[m], Size)

(* The body is over, and the file is measured.                              *)
Verify(c) ==
  /\ cmd[c].pc = "copy" /\ cmd[c].written = Len(cmd[c].body)
  /\ Step(c, IF Verified(cmd[c].at) THEN "replace" ELSE "cleanup")
  /\ UNCHANGED <<runtime, short, files, runs, service>>

(* os.replace, unless the name has gone meanwhile.                          *)
Replace(c) ==
  LET m == cmd[c].at IN
  /\ cmd[c].pc = "replace"
  /\ IF Exists(part[m])
     THEN /\ target' = [target EXCEPT ![m] = part[m]]
          /\ part' = [part EXCEPT ![m] = 0]
          /\ Returns(c, TRUE)
     ELSE Step(c, "cleanup") /\ UNCHANGED <<target, part>>
  /\ UNCHANGED <<runtime, short, orphans, runs, service>>
  /\ Sweep

(* Bug: the file is only taken away when it was measured.                   *)
CleanupMeasured(c) ==
  LET m == cmd[c].at IN
  /\ cmd[c].pc = "cleanup"
  /\ IF cmd[c].written = Len(cmd[c].body)
     THEN part' = [part EXCEPT ![m] = 0] /\ orphans' = orphans \ {m}
     ELSE UNCHANGED <<part, orphans>>
  /\ Returns(c, FALSE)
  /\ UNCHANGED <<runtime, short, target, runs, service>>
  /\ Sweep

(* The finally of download, after any failure: no half file stays.          *)
Cleanup(c) ==
  LET m == cmd[c].at IN
  /\ cmd[c].pc = "cleanup"
  /\ part' = [part EXCEPT ![m] = 0]
  /\ orphans' = orphans \ {m}
  /\ Returns(c, FALSE)
  /\ UNCHANGED <<runtime, short, target, runs, service>>
  /\ Sweep

(* smoke: a model that is not installed fails, and one that raises.  One    *)
(* that cannot be loaded answers None, which counts as an answer.           *)
Smoke(c) ==
  LET m == cmd[c].at IN
  /\ cmd[c].pc = "smoke"
  /\ \E raised \in BOOLEAN :
       /\ raised => Installed(m)
       /\ cmd' = [cmd EXCEPT ![c].failed = @ \/ ~Installed(m) \/ raised,
                             ![c].pc = IF Last(m) THEN "checked" ELSE "smoke",
                             ![c].at = IF Last(m) THEN m ELSE m + 1]
  /\ UNCHANGED <<runtime, short, files, runs, service>>

Exit(c) ==
  /\ cmd[c].pc \in {"exit", "checked"}
  /\ cmd' = [cmd EXCEPT ![c] = Idle]
  /\ UNCHANGED <<runtime, short, files, runs, service>>

(* The process is killed: nothing of download runs any more.                *)
Kill(c) ==
  /\ cmd[c].pc \notin {"idle", "exit", "checked"}
  /\ cmd' = [cmd EXCEPT ![c] = Idle]
  /\ orphans' = IF cmd[c].handle = 0 THEN orphans ELSE orphans \cup {cmd[c].at}
  /\ UNCHANGED part
  /\ UNCHANGED <<runtime, short, target, runs, service>>
  /\ Sweep

(******************************* The service *******************************)

(* build_vad, build_turn: the model, when a file is there; the fallback, or *)
(* what the host asked for instead, which need no file.                     *)
Choices(m) == {IF Exists(target[m]) THEN "model" ELSE "other", "other"}

(* A host that builds a detector once and keeps it.                         *)
Build(m) ==
  /\ m \in Keeps /\ kept[m] = "none"
  /\ \E choice \in Choices(m) : kept' = [kept EXCEPT ![m] = choice]
  /\ UNCHANGED <<runtime, short, files, runs, cmd, session, lock, thread, loads>>

BuildVad == Build(SILERO)
BuildTurn == Build(SMART_TURN)

DetectorOf(t) ==
  IF thread[t].model \in Keeps THEN <<"kept", thread[t].model>> ELSE <<"own", t>>
Unloaded == UNCHANGED <<runtime, short, files, runs, cmd, kept, session, lock, loads>>

(* The detector the host kept, or one that is built for this request; one   *)
(* that needs no model answers at once.                                     *)
Ask(t, m) ==
  /\ thread[t].pc = "idle"
  /\ IF m \in Keeps THEN kept[m] = "model" ELSE "model" \in Choices(m)
  /\ thread' = [thread EXCEPT ![t] = [pc |-> "load", model |-> m]]
  /\ Unloaded

Report(t) == Ask(t, SILERO)
Verdict(t) == Ask(t, SMART_TURN)

Goes(t, pc) == thread' = [thread EXCEPT ![t].pc = pc]

(* The request is answered, and the detector that was built for it is gone. *)
Answered(t) ==
  /\ thread' = [thread EXCEPT ![t] = Resting]
  /\ session' = [session EXCEPT ![<<"own", t>>] = "none"]
  /\ loads' = [loads EXCEPT ![<<"own", t>>] = 0]

(* load: the session is there; there is no file; or one has to be built.    *)
Load(t) ==
  /\ thread[t].pc = "load"
  /\ thread' = [thread EXCEPT ![t] =
       IF session[DetectorOf(t)] # "none" THEN [@ EXCEPT !.pc = "run"]
       ELSE IF Exists(target[@.model]) THEN [@ EXCEPT !.pc = "wait"] ELSE Resting]
  /\ Unloaded

Acquire(t) ==
  /\ thread[t].pc = "wait" /\ lock[DetectorOf(t)] = "free"
  /\ lock' = [lock EXCEPT ![DetectorOf(t)] = t]
  /\ Goes(t, "locked")
  /\ UNCHANGED <<runtime, short, files, runs, cmd, kept, session, loads>>

(* What a session is built from: a build, or bytes that are none.           *)
Sound(m) ==
  IF disk[target[m]] = All("ours", Size) THEN "model"
  ELSE IF disk[target[m]] = All("other", Size) THEN "another" ELSE "nonsense"

(* The InferenceSession of a detector.                                      *)
NewSession(t) ==
  LET d == DetectorOf(t)
      m == thread[t].model
  IN
  /\ session' = [session EXCEPT ![d] = Sound(m)]
  /\ loads' = [loads EXCEPT ![d] = @ + 1]
  /\ Goes(t, "run")
Release(t) == lock' = [lock EXCEPT ![DetectorOf(t)] = "free"]

(* Bug: the session is not looked for again under the lock.                 *)
BuildSessionAnyway(t) ==
  /\ thread[t].pc = "locked"
  /\ IF runtime THEN NewSession(t) ELSE Answered(t)
  /\ Release(t)
  /\ UNCHANGED <<runtime, short, files, runs, cmd, kept>>

(* Under the lock: another thread built it; or the file is read as it is,   *)
(* a truncated one without a complaint; or the session cannot be built, for *)
(* want of the runtime or for another reason, and the answer is None.       *)
BuildSession(t) ==
  /\ thread[t].pc = "locked"
  /\ \/ /\ session[DetectorOf(t)] # "none"
        /\ Goes(t, "run") /\ UNCHANGED <<session, loads>>
     \/ session[DetectorOf(t)] = "none" /\ runtime /\ NewSession(t)
     \/ session[DetectorOf(t)] = "none" /\ Answered(t)
  /\ Release(t)
  /\ UNCHANGED <<runtime, short, files, runs, cmd, kept>>

(* probabilities, judge: an answer, or None after an error.                 *)
Run(t) ==
  /\ thread[t].pc = "run"
  /\ Answered(t)
  /\ UNCHANGED <<runtime, short, files, runs, cmd, kept, lock>>

(* The two detectors, each with a lock and a session of its own.            *)
Detector(t) == Load(t) \/ Acquire(t) \/ BuildSession(t) \/ Run(t)
SileroVad(t) == thread[t].model = SILERO /\ Detector(t)
SmartTurn(t) == thread[t].model = SMART_TURN /\ Detector(t)

Restart ==
  /\ ~NewService
  /\ kept' = [m \in Keeps |-> "none"]
  /\ session' = [d \in Detectors |-> "none"] /\ loads' = [d \in Detectors |-> 0]
  /\ lock' = [d \in Detectors |-> "free"] /\ thread' = [t \in Threads |-> Resting]
  /\ UNCHANGED <<runtime, short, files, runs, cmd>>

(***************************************************************************)

Download(c) ==
  \/ Skip(c) \/ RequestFails(c) \/ Open(c) \/ CopyBlock(c)
  \/ CopyFails(c) \/ Verify(c) \/ Replace(c) \/ Cleanup(c)
Serve(t) == Report(t) \/ Verdict(t) \/ SileroVad(t) \/ SmartTurn(t)

Next ==
  \/ \E c \in Commands : Start(c) \/ Download(c) \/ Smoke(c) \/ Exit(c) \/ Kill(c)
  \/ BuildVad \/ BuildTurn
  \/ \E t \in Threads : Serve(t)
  \/ Restart

Spec == Init /\ [][Next]_vars

(******************************* Properties ********************************)

Pcs == {"idle", "look", "copy", "replace", "cleanup", "exit", "smoke", "checked"}
Command == [pc : Pcs, force : BOOLEAN, at : MODELS, handle : 0 .. MaxInodes,
            written : 0 .. Size + 1, body : {<<>>} \cup Bodies,
            missing : SUBSET MODELS, failed : BOOLEAN]
TypeOK ==
  /\ runtime \in BOOLEAN /\ short \subseteq MODELS /\ orphans \subseteq MODELS
  /\ disk \in [1 .. MaxInodes -> Seq(Blocks)]
  /\ target \in [MODELS -> 0 .. MaxInodes] /\ part \in [MODELS -> 0 .. MaxInodes]
  /\ cmd \in [Commands -> Command]
  /\ session \in [Detectors -> {"none", "model", "another", "nonsense"}]
  /\ loads \in [Detectors -> Nat]
  /\ kept \in [Keeps -> {"none", "model", "other"}]
  /\ thread \in [Threads -> [pc : {"idle", "load", "wait", "locked", "run"}, model : MODELS]]

(* A detector is never built from a file that is still arriving, was cut    *)
(* short or holds pieces of two builds, whenever a service looks and        *)
(* whenever a command is killed: only a file that somebody else put there   *)
(* with a wrong size is (download, SileroVad.load, SmartTurn.load).         *)
SessionsAreWhole ==
  /\ \A m \in Keeps : session[<<"kept", m>>] = "nonsense" => m \in short
  /\ \A t \in Threads : session[<<"own", t>>] = "nonsense" => thread[t].model \in short

(* A file that is whole, all of it of one build, is never damaged: not by a *)
(* forced download, not by one that fails at any point, not by a kill       *)
(* (download, os.replace).                                                  *)
Works(m) == Installed(m) /\ Whole(disk[target[m]])
NeverDamaged == [][\A m \in MODELS : Works(m) => Works(m)']_vars

(* A source that publishes a different build is refused, and the model the  *)
(* thresholds were measured with stays (the comment above MODELS).          *)
OtherBuildsRefused ==
  \A m \in MODELS : SizeIs(target[m], Size) => disk[target[m]] = All("ours", Size)

(* No half file stays behind: a .part belongs to a download that is running *)
(* or to one that was killed (the finally of download).                     *)
PartGone ==
  \A m \in MODELS : Exists(part[m]) =>
    m \in orphans \/ \E c \in Commands : cmd[c].at = m /\ cmd[c].handle # 0

(* However many threads ask one detector at once, it builds one session,    *)
(* and the one that was built stays (load, under _lock).                    *)
LoadedOnce == \A d \in Detectors : loads[d] <= 1 /\ (loads[d] = 1 <=> session[d] # "none")

(* Loading happens once, on the first turn (the docstring of load): the     *)
(* threads that run a model run one session.                                *)
OneSessionEach ==
  \A t, u \in Threads :
    thread[t].pc = "run" /\ thread[u].pc = "run" /\ thread[t].model = thread[u].model
      => DetectorOf(t) = DetectorOf(u)

(* Why, when commands do not overlap: names are bound to files apart; the   *)
(* file that is being written has only the name .part, holds what came of   *)
(* the body, and is whole when its time to be renamed has come.  A detector *)
(* that was built for a request is asked for that request only.             *)
NamesApart ==
  \A m, n \in MODELS :
    /\ part[m] = target[n] => part[m] = 0
    /\ m # n => /\ target[m] = target[n] => target[m] = 0
                /\ part[m] = part[n] => part[m] = 0
HandlesArePart ==
  \A c \in Commands :
    /\ cmd[c].handle # 0 => /\ cmd[c].pc \in {"copy", "replace", "cleanup"}
                            /\ part[cmd[c].at] = cmd[c].handle
    /\ cmd[c].pc \in {"copy", "replace"} => cmd[c].handle # 0
Arriving ==
  \A c \in Commands :
    /\ cmd[c].pc = "copy" =>
         /\ cmd[c].body \in Bodies /\ cmd[c].written <= Len(cmd[c].body)
         /\ disk[cmd[c].handle] = [i \in 1 .. cmd[c].written |-> cmd[c].body[i]]
    /\ cmd[c].pc = "look" => cmd[c].written = 0
    /\ cmd[c].pc = "replace" => Whole(disk[cmd[c].handle])
TargetsAreWhole == \A m \in MODELS : Exists(target[m]) => m \in short \/ Whole(disk[target[m]])
LoadersFound ==
  \A t \in Threads : thread[t].pc \in {"wait", "locked"} => Exists(target[thread[t].model])
OwnGone == \A t \in Threads : session[<<"own", t>>] # "none" => thread[t].pc = "run"
FilesInv == TypeOK /\ NamesApart /\ HandlesArePart /\ Arriving /\ TargetsAreWhole
              /\ LoadersFound /\ OwnGone /\ SessionsAreWhole

(* --check that finds nothing wrong has loaded every model (smoke).         *)
CheckMeansLoaded ==
  \A c \in Commands : cmd[c].pc = "checked" /\ ~cmd[c].failed => runtime
=============================================================================
