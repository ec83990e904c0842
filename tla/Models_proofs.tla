--------------------------- MODULE Models_proofs ----------------------------
(***************************************************************************)
(* For models of any size, any number of restarts and any threads of the   *)
(* service: what a download may leave behind, and what a service may load. *)
(*                                                                         *)
(* NeverDamaged and SessionsAreWhole are about commands that do not        *)
(* overlap (OneAtATime): two of them share a .part, and can damage a       *)
(* model.  FilesInv says why one cannot: the file it writes has no other   *)
(* name, and is the whole model before it gets one.                        *)
(***************************************************************************)
EXTENDS Models, TLAPS

OneAtATime == \A c, d \in Commands : c = d

(******************************* Type invariant ****************************)

LEMMA BodyTypes ==
  ASSUME NEW body \in {<<>>} \cup Bodies
  PROVE  body \in Seq(Blocks) /\ Len(body) \in 0 .. Size + 1
<1>1. CASE body = <<>>
  BY <1>1, DiskAssumption
<1>2. ASSUME NEW n \in 0 .. Size + 1, NEW b \in Blocks, body = All(b, n)
      PROVE  body \in Seq(Blocks) /\ Len(body) \in 0 .. Size + 1
  <2>1. n \in Nat /\ n \in 0 .. Size + 1
    BY DiskAssumption
  <2>2. body \in [1 .. n -> Blocks]
    BY <1>2 DEF All
  <2>3. body \in Seq(Blocks)
    BY <2>1, <2>2
  <2>4. Len(body) = n
    BY <2>1, <2>2, <2>3
  <2> QED
    BY <2>1, <2>3, <2>4
<1>3. 0 .. Size \subseteq 0 .. Size + 1 /\ Size + 1 \in 0 .. Size + 1
  BY DiskAssumption
<1> QED
  BY <1>1, <1>2, <1>3 DEF Bodies, Blocks

LEMMA PutType ==
  ASSUME NEW content \in Seq(Blocks), NEW place \in Nat \ {0}, NEW block \in Blocks
  PROVE  Put(content, place, block) \in Seq(Blocks)
<1> DEFINE n == IF place > Len(content) THEN place ELSE Len(content)
<1>1. n \in Nat
  OBVIOUS
<1>2. \A i \in 1 .. n : (IF i = place THEN block
                         ELSE IF i <= Len(content) THEN content[i] ELSE "hole") \in Blocks
  <2>1. \A i \in 1 .. Len(content) : content[i] \in Blocks
    OBVIOUS
  <2> HIDE DEF n
  <2>2. ASSUME NEW i \in 1 .. n, i <= Len(content)
        PROVE  content[i] \in Blocks
    BY <1>1, <2>1, <2>2
  <2>3. "hole" \in Blocks
    BY DEF Blocks
  <2> QED
    BY <2>2, <2>3
<1> HIDE DEF n
<1>3. [i \in 1 .. n |-> IF i = place THEN block
                        ELSE IF i <= Len(content) THEN content[i] ELSE "hole"] \in [1 .. n -> Blocks]
  BY <1>2
<1>4. [1 .. n -> Blocks] \subseteq Seq(Blocks)
  BY <1>1
<1> QED
  BY <1>3, <1>4 DEF Put, n

LEMMA SweepType ==
  ASSUME disk \in [1 .. MaxInodes -> Seq(Blocks)], Sweep
  PROVE  disk' \in [1 .. MaxInodes -> Seq(Blocks)]
<1>1. \A i \in DOMAIN disk : (IF i \in Used' THEN disk[i] ELSE <<>>) \in Seq(Blocks)
  <2>1. <<>> \in Seq(Blocks)
    OBVIOUS
  <2>2. \A i \in DOMAIN disk : disk[i] \in Seq(Blocks)
    OBVIOUS
  <2> QED
    BY <2>1, <2>2
<1> QED
  BY <1>1 DEF Sweep

(* An inode that still has a name or a handle keeps its content.            *)
LEMMA SweepKeeps ==
  ASSUME NEW i \in DOMAIN disk, i \in Used', Sweep
  PROVE  disk'[i] = disk[i]
  BY DEF Sweep

(* There is always a file to be had, when the one command has none open.    *)
LEMMA NewInodeIsNew ==
  ASSUME TypeOK, OneAtATime, NEW c \in Commands, cmd[c].handle = 0
  PROVE  NewInode \in 1 .. MaxInodes /\ NewInode \notin Used
<1>1. DOMAIN disk = 1 .. MaxInodes
  BY DEF TypeOK
<1>2. Used \subseteq {target[1], target[2], part[1], part[2], 0}
  BY DEF Used, OneAtATime, MODELS, SILERO, SMART_TURN
<1>3. /\ target[1] \in Int /\ target[2] \in Int
      /\ part[1] \in Int /\ part[2] \in Int
  BY DEF TypeOK, MODELS, SILERO, SMART_TURN
<1>4. \E i \in 1 .. 5 : i \notin {target[1], target[2], part[1], part[2], 0}
  BY <1>3
<1>5. 1 .. 5 \subseteq 1 .. MaxInodes
  BY DiskAssumption
<1>6. \E i \in DOMAIN disk : i \notin Used
  BY <1>1, <1>2, <1>4, <1>5
<1> QED
  BY <1>1, <1>6 DEF NewInode

LEMMA IdleType == Idle \in Command
  BY DiskAssumption DEF Idle, Command, Pcs, MODELS, SILERO, SMART_TURN

(* What a command is after a step of it.                                    *)
LEMMA StepType ==
  ASSUME TypeOK, NEW c \in Commands, NEW pc \in Pcs, Step(c, pc)
  PROVE  /\ cmd' \in [Commands -> Command]
         /\ cmd'[c] = [cmd[c] EXCEPT !.pc = pc]
         /\ \A d \in Commands : d # c => cmd'[d] = cmd[d]
<1> DEFINE new == [cmd[c] EXCEPT !.pc = pc]
<1>1. cmd \in [Commands -> Command] /\ cmd[c] \in Command
  BY DEF TypeOK
<1>2. new \in Command
  BY <1>1 DEF Command
<1>3. cmd' = [cmd EXCEPT ![c] = new]
  BY DEF Step
<1> HIDE DEF new
<1>4. /\ cmd' \in [Commands -> Command]
      /\ cmd'[c] = new
      /\ \A d \in Commands : d # c => cmd'[d] = cmd[d]
  BY <1>1, <1>2, <1>3
<1> QED
  BY <1>4 DEF new

LEMMA ReturnsType ==
  ASSUME TypeOK, NEW c \in Commands, NEW ok \in BOOLEAN, Returns(c, ok)
  PROVE  /\ cmd' \in [Commands -> Command]
         /\ cmd'[c].handle = 0 /\ cmd'[c].pc \in {"exit", "look"}
         /\ \A d \in Commands : d # c => cmd'[d] = cmd[d]
<1> DEFINE m == cmd[c].at
           missing == IF ok THEN cmd[c].missing ELSE cmd[c].missing \cup {m}
           new == [Idle EXCEPT !.pc = IF Last(m) THEN "exit" ELSE "look",
                               !.force = cmd[c].force, !.missing = missing,
                               !.at = IF Last(m) THEN m ELSE m + 1]
<1>1. cmd' = [cmd EXCEPT ![c] = new]
  BY DEF Returns
<1>2. /\ m \in MODELS /\ missing \in SUBSET MODELS /\ cmd[c].force \in BOOLEAN
      /\ (IF Last(m) THEN m ELSE m + 1) \in MODELS
  BY DEF TypeOK, Command, Last, MODELS, SILERO, SMART_TURN
<1>3. new \in Command /\ new.handle = 0 /\ new.pc \in {"exit", "look"}
  BY <1>2, IdleType DEF Command, Idle, Pcs
<1> QED
  BY <1>1, <1>3 DEF TypeOK

LEMMA ReturnsIdle ==
  ASSUME TypeOK, NEW c \in Commands, NEW ok \in BOOLEAN, Returns(c, ok)
  PROVE  cmd'[c].written = 0
  BY DEF Returns, TypeOK, Idle

LEMMA StepKeeps ==
  ASSUME TypeOK, NEW c \in Commands, NEW pc \in Pcs, Step(c, pc)
  PROVE  /\ cmd'[c].pc = pc /\ cmd'[c].at = cmd[c].at
         /\ cmd'[c].handle = cmd[c].handle /\ cmd'[c].written = cmd[c].written
<1>1. cmd[c] \in Command /\ cmd'[c] = [cmd[c] EXCEPT !.pc = pc]
  BY StepType DEF TypeOK
<1> QED
  BY <1>1 DEF Command

(* The steps that write nothing but commands.                               *)
LEMMA TypesOfCommands ==
  ASSUME TypeOK, cmd' \in [Commands -> Command],
         UNCHANGED <<runtime, short, files, service>>
  PROVE  TypeOK'
  BY DEF TypeOK, files, service

LEMMA TypesOfService ==
  ASSUME TypeOK, UNCHANGED <<runtime, short, files, cmd>>,
         kept' \in [Keeps -> {"none", "model", "other"}],
         session' \in [Detectors -> {"none", "model", "another", "nonsense"}],
         loads' \in [Detectors -> Nat],
         thread' \in [Threads -> [pc : {"idle", "load", "wait", "locked", "run"}, model : MODELS]]
  PROVE  TypeOK'
  BY DEF TypeOK, files

LEMMA InitTypes == Init => TypeOK
<1> SUFFICES ASSUME Init PROVE TypeOK
  OBVIOUS
<1>1. PICK found \in [MODELS -> {"nothing", "model", "short"}] :
        /\ short = {m \in MODELS : found[m] = "short"}
        /\ disk = [m \in 1 .. MaxInodes |->
             IF m \notin MODELS \/ found[m] = "nothing" THEN <<>>
             ELSE All("ours", IF found[m] = "short" THEN Size - 1 ELSE Size)]
        /\ target = [m \in MODELS |-> IF found[m] = "nothing" THEN 0 ELSE m]
  BY DEF Init
<1>2. ASSUME NEW n \in Nat
      PROVE  All("ours", n) \in Seq(Blocks)
  <2>1. All("ours", n) \in [1 .. n -> Blocks]
    BY DEF All, Blocks
  <2> QED
    BY <2>1
<1>3. disk \in [1 .. MaxInodes -> Seq(Blocks)]
  <2>1. Size \in Nat /\ Size - 1 \in Nat
    BY DiskAssumption
  <2>2. <<>> \in Seq(Blocks)
    OBVIOUS
  <2>3. \A m \in 1 .. MaxInodes :
          (IF m \notin MODELS \/ found[m] = "nothing" THEN <<>>
           ELSE All("ours", IF found[m] = "short" THEN Size - 1 ELSE Size)) \in Seq(Blocks)
    BY <1>2, <2>1, <2>2
  <2> QED
    BY <1>1, <2>3
<1>4. target \in [MODELS -> 0 .. MaxInodes]
  BY <1>1, DiskAssumption DEF MODELS, SILERO, SMART_TURN
<1>5. part \in [MODELS -> 0 .. MaxInodes]
  BY DiskAssumption DEF Init
<1>6. cmd \in [Commands -> Command]
  BY IdleType DEF Init
<1> QED
  BY <1>1, <1>3, <1>4, <1>5, <1>6
     DEF Init, NewService, Resting, TypeOK, MODELS, SILERO, SMART_TURN

(* The inode a download opens, the name it had or a new one.                *)
LEMMA OpenTypes ==
  ASSUME TypeOK, NEW c \in Commands, Open(c), NewInode \in 1 .. MaxInodes
  PROVE  TypeOK'
<1> DEFINE m == cmd[c].at
           inode == IF Exists(part[m]) THEN part[m] ELSE NewInode
<1>1. m \in MODELS /\ inode \in 1 .. MaxInodes
  BY DiskAssumption DEF TypeOK, Command, Exists
<1>2. PICK body \in Bodies :
        cmd' = [cmd EXCEPT ![c].pc = "copy", ![c].body = body, ![c].handle = inode]
  BY DEF Open
<1>3. inode \in 0 .. MaxInodes
  BY <1>1, DiskAssumption
<1>4. cmd' \in [Commands -> Command]
  <2>1. cmd[c] \in Command /\ body \in {<<>>} \cup Bodies /\ "copy" \in Pcs
    BY DEF TypeOK, Pcs
  <2>2. [[[cmd[c] EXCEPT !.pc = "copy"] EXCEPT !.body = body] EXCEPT !.handle = inode] \in Command
    BY <1>3, <2>1 DEF Command
  <2>3. cmd' = [cmd EXCEPT ![c] = [[[cmd[c] EXCEPT !.pc = "copy"] EXCEPT !.body = body]
                                     EXCEPT !.handle = inode]]
    BY <1>2, <2>1 DEF TypeOK, Command
  <2> QED
    BY <2>2, <2>3 DEF TypeOK
<1>5. disk' \in [1 .. MaxInodes -> Seq(Blocks)]
  <2>1. disk' = [disk EXCEPT ![inode] = <<>>]
    BY DEF Open
  <2>2. <<>> \in Seq(Blocks)
    OBVIOUS
  <2> QED
    BY <1>1, <2>1, <2>2 DEF TypeOK
<1>6. part' \in [MODELS -> 0 .. MaxInodes]
  BY <1>1, <1>3 DEF TypeOK, Open
<1>7. orphans' \subseteq MODELS
  BY DEF TypeOK, Open
<1> QED
  BY <1>4, <1>5, <1>6, <1>7 DEF TypeOK, Open, service

LEMMA CopyTypes ==
  ASSUME TypeOK, NEW c \in Commands, CopyBlock(c)
  PROVE  TypeOK'
<1> DEFINE n == cmd[c].written + 1
<1>1. /\ cmd[c].written \in 0 .. Size + 1 /\ cmd[c].body \in {<<>>} \cup Bodies
      /\ cmd[c].handle \in 0 .. MaxInodes
  BY DEF TypeOK, Command
<1>2. cmd[c].body \in Seq(Blocks) /\ Len(cmd[c].body) \in 0 .. Size + 1
  BY <1>1, BodyTypes
<1>3. n \in 1 .. Len(cmd[c].body) /\ n \in 0 .. Size + 1 /\ n \in Nat \ {0}
  BY <1>1, <1>2, DiskAssumption DEF CopyBlock
<1>4. cmd[c].body[n] \in Blocks
  BY <1>2, <1>3
<1>5. disk' = [disk EXCEPT ![cmd[c].handle] = Put(@, n, cmd[c].body[n])]
  BY DEF CopyBlock
<1>6. disk' \in [1 .. MaxInodes -> Seq(Blocks)]
  <2>1. CASE cmd[c].handle \in DOMAIN disk
    <3>1. disk[cmd[c].handle] \in Seq(Blocks)
      BY <2>1 DEF TypeOK
    <3>2. Put(disk[cmd[c].handle], n, cmd[c].body[n]) \in Seq(Blocks)
      BY <3>1, <1>3, <1>4, PutType
    <3> QED
      BY <1>5, <2>1, <3>2 DEF TypeOK
  <2>2. CASE cmd[c].handle \notin DOMAIN disk
    BY <1>5, <2>2 DEF TypeOK
  <2> QED
    BY <2>1, <2>2
<1>7. cmd' \in [Commands -> Command]
  <2>1. cmd' = [cmd EXCEPT ![c].written = n]
    BY DEF CopyBlock
  <2>2. [cmd[c] EXCEPT !.written = n] \in Command
    <3>1. cmd[c] \in Command /\ n \in 0 .. Size + 1
      BY <1>3 DEF TypeOK
    <3> HIDE DEF n
    <3> QED
      BY <3>1 DEF Command
  <2> QED
    BY <2>1, <2>2 DEF TypeOK
<1> QED
  BY <1>6, <1>7 DEF TypeOK, CopyBlock, service

(* The steps after which files without a name or a handle are gone.         *)
LEMMA SweepTypes ==
  ASSUME TypeOK, cmd' \in [Commands -> Command], Sweep, orphans' \subseteq MODELS,
         target' \in [MODELS -> 0 .. MaxInodes], part' \in [MODELS -> 0 .. MaxInodes],
         UNCHANGED <<runtime, short, service>>
  PROVE  TypeOK'
  BY SweepType DEF TypeOK, service

LEMMA CommandTypes ==
  ASSUME TypeOK, NEW c \in Commands, Open(c) => NewInode \in 1 .. MaxInodes,
         Start(c) \/ Download(c) \/ Smoke(c) \/ Exit(c) \/ Kill(c)
  PROVE  TypeOK'
<1> USE DEF Pcs
<1>0. cmd[c] \in Command /\ cmd[c].at \in MODELS /\ 0 \in 0 .. MaxInodes
  BY DiskAssumption DEF TypeOK, Command
<1>1. CASE Start(c)
  <2>1. cmd' \in [Commands -> Command]
    <3>1. PICK force \in BOOLEAN, pc \in {"look", "smoke"} :
            cmd' = [cmd EXCEPT ![c] = [Idle EXCEPT !.pc = pc, !.force = force]]
      BY <1>1 DEF Start
    <3>2. [Idle EXCEPT !.pc = pc, !.force = force] \in Command
      BY IdleType DEF Idle, Command
    <3> QED
      BY <3>1, <3>2 DEF TypeOK
  <2> QED
    BY <1>1, <2>1, TypesOfCommands DEF Start
<1>2. CASE Skip(c)
  BY <1>2, ReturnsType, TypesOfCommands DEF Skip
<1>3. CASE RequestFails(c)
  BY <1>3, StepType, TypesOfCommands DEF RequestFails
<1>4. CASE Open(c)
  BY <1>4, OpenTypes
<1>5. CASE CopyBlock(c)
  BY <1>5, CopyTypes
<1>6. CASE CopyFails(c)
  BY <1>6, StepType, TypesOfCommands DEF CopyFails
<1>7. CASE Verify(c)
  <2>1. (IF Verified(cmd[c].at) THEN "replace" ELSE "cleanup") \in Pcs
    OBVIOUS
  <2> QED
    BY <1>7, <2>1, StepType, TypesOfCommands DEF Verify
<1>8. CASE Replace(c)
  <2>1. part[cmd[c].at] \in 0 .. MaxInodes
    BY <1>0 DEF TypeOK
  <2>2. target' \in [MODELS -> 0 .. MaxInodes] /\ part' \in [MODELS -> 0 .. MaxInodes]
    BY <1>0, <1>8, <2>1 DEF Replace, TypeOK
  <2>3. cmd' \in [Commands -> Command]
    BY <1>8, ReturnsType, StepType DEF Replace
  <2> QED
    BY <1>8, <2>2, <2>3, SweepTypes DEF Replace, TypeOK
<1>9. CASE Cleanup(c)
  <2>1. part' \in [MODELS -> 0 .. MaxInodes] /\ orphans' \subseteq MODELS
    BY <1>0, <1>9 DEF Cleanup, TypeOK
  <2>2. cmd' \in [Commands -> Command]
    BY <1>9, ReturnsType DEF Cleanup
  <2> QED
    BY <1>9, <2>1, <2>2, SweepTypes DEF Cleanup, TypeOK
<1>10. CASE Smoke(c)
  <2>1. (IF Last(cmd[c].at) THEN cmd[c].at ELSE cmd[c].at + 1) \in MODELS
    BY <1>0 DEF Last, MODELS, SILERO, SMART_TURN
  <2>2. PICK raised \in BOOLEAN :
          cmd' = [cmd EXCEPT ![c].failed = @ \/ ~Installed(cmd[c].at) \/ raised,
                             ![c].pc = IF Last(cmd[c].at) THEN "checked" ELSE "smoke",
                             ![c].at = IF Last(cmd[c].at) THEN cmd[c].at ELSE cmd[c].at + 1]
    BY <1>10 DEF Smoke
  <2>3. (cmd[c].failed \/ ~Installed(cmd[c].at) \/ raised) \in BOOLEAN
    OBVIOUS
  <2>4. cmd' \in [Commands -> Command]
    <3> DEFINE at == IF Last(cmd[c].at) THEN cmd[c].at ELSE cmd[c].at + 1
               pc == IF Last(cmd[c].at) THEN "checked" ELSE "smoke"
               failed == cmd[c].failed \/ ~Installed(cmd[c].at) \/ raised
    <3>1. at \in MODELS /\ pc \in Pcs /\ failed \in BOOLEAN
      BY <2>1, <2>3
    <3>2. cmd' = [cmd EXCEPT ![c] = [[[cmd[c] EXCEPT !.failed = failed] EXCEPT !.pc = pc]
                                       EXCEPT !.at = at]]
      BY <2>2, Zenon DEF TypeOK, Command
    <3> HIDE DEF at, pc, failed
    <3>3. [[[cmd[c] EXCEPT !.failed = failed] EXCEPT !.pc = pc] EXCEPT !.at = at] \in Command
      BY <1>0, <3>1 DEF Command
    <3> QED
      BY <3>2, <3>3 DEF TypeOK
  <2> QED
    BY <1>10, <2>4, TypesOfCommands DEF Smoke
<1>11. CASE Exit(c)
  BY <1>11, IdleType, TypesOfCommands DEF Exit, TypeOK
<1>12. CASE Kill(c)
  <2>1. cmd' \in [Commands -> Command] /\ orphans' \subseteq MODELS
    BY <1>0, <1>12, IdleType DEF Kill, TypeOK
  <2> QED
    BY <1>12, <2>1, SweepTypes DEF Kill, TypeOK
<1> QED
  BY <1>1, <1>2, <1>3, <1>4, <1>5, <1>6, <1>7, <1>8, <1>9, <1>10, <1>11, <1>12 DEF Download

(* The detector a thread asks is one of those there are.                    *)
LEMMA DetectorIsThere ==
  ASSUME NEW t \in Threads, thread[t].model \in MODELS
  PROVE  DetectorOf(t) \in Detectors /\ <<"own", t>> \in Detectors
  BY DEF DetectorOf, Detectors

Sessions == {"none", "model", "another", "nonsense"}

LEMMA NewSessionTypes ==
  ASSUME session \in [Detectors -> Sessions], loads \in [Detectors -> Nat],
         NEW t \in Threads, thread[t].model \in MODELS, NewSession(t)
  PROVE  /\ session' \in [Detectors -> Sessions] /\ loads' \in [Detectors -> Nat]
<1> DEFINE d == DetectorOf(t)
<1>1. d \in Detectors
  BY DetectorIsThere
<1>2. Sound(thread[t].model) \in Sessions
  BY DEF Sound, Sessions
<1>3. /\ session' = [session EXCEPT ![d] = Sound(thread[t].model)]
      /\ loads' = [loads EXCEPT ![d] = @ + 1]
  BY DEF NewSession
<1> HIDE DEF d
<1>4. session' \in [Detectors -> Sessions]
  BY <1>1, <1>2, <1>3
<1>5. loads' \in [Detectors -> Nat]
  <2>1. loads[d] + 1 \in Nat
    BY <1>1
  <2> QED
    BY <1>3, <2>1
<1> QED
  BY <1>3, <1>4, <1>5

LEMMA AnsweredTypes ==
  ASSUME session \in [Detectors -> Sessions], loads \in [Detectors -> Nat],
         NEW t \in Threads, Answered(t)
  PROVE  session' \in [Detectors -> Sessions] /\ loads' \in [Detectors -> Nat]
  BY DEF Answered, Sessions

ThreadTypes ==
  thread \in [Threads -> [pc : {"idle", "load", "wait", "locked", "run"}, model : MODELS]]

(* What a thread is after a step of its own.                                *)
LEMMA ThreadStep ==
  ASSUME ThreadTypes, NEW t \in Threads,
         \/ Report(t) \/ Verdict(t) \/ Load(t) \/ Acquire(t) \/ BuildSession(t) \/ Run(t)
  PROVE  ThreadTypes'
<1>1. \/ \E m \in MODELS : Ask(t, m)
      \/ \E pc \in {"run", "wait", "locked"} : Goes(t, pc)
      \/ thread' = [thread EXCEPT ![t] = Resting]
  <2>1. CASE Load(t)
    BY <2>1 DEF Load, ThreadTypes, Goes
  <2> QED
    BY <2>1 DEF Report, Verdict, Acquire, BuildSession, Run, NewSession, Answered, MODELS
<1> QED
  BY <1>1 DEF Ask, Goes, Resting, ThreadTypes, MODELS

LEMMA ServiceTypes ==
  ASSUME TypeOK, BuildVad \/ BuildTurn \/ (\E t \in Threads : Serve(t)) \/ Restart
  PROVE  TypeOK'
<1> USE DEF Sessions
<1>1. CASE BuildVad \/ BuildTurn
  <2>1. PICK m \in MODELS : Build(m)
    BY <1>1 DEF BuildVad, BuildTurn, MODELS
  <2>2. kept' \in [Keeps -> {"none", "model", "other"}]
    BY <2>1 DEF Build, Choices, TypeOK
  <2> QED
    BY <2>1, <2>2, TypesOfService DEF Build, TypeOK
<1>2. ASSUME NEW t \in Threads, Serve(t)
      PROVE  TypeOK'
  <2>0. thread[t].model \in MODELS /\ ThreadTypes
    BY DEF TypeOK, ThreadTypes
  <2>1. CASE Report(t) \/ Verdict(t) \/ Load(t) \/ Acquire(t)
    BY <2>0, <2>1, ThreadStep, TypesOfService
       DEF Report, Verdict, Ask, Load, Acquire, Unloaded, TypeOK, ThreadTypes
  <2>2. CASE BuildSession(t)
    <3>1. /\ session' \in [Detectors -> Sessions] /\ loads' \in [Detectors -> Nat]
      BY <2>0, <2>2, NewSessionTypes, AnsweredTypes DEF BuildSession, TypeOK
    <3> QED
      BY <2>0, <2>2, <3>1, ThreadStep, TypesOfService DEF BuildSession, TypeOK, ThreadTypes
  <2>3. CASE Run(t)
    <3>1. session' \in [Detectors -> Sessions] /\ loads' \in [Detectors -> Nat]
      BY <2>3, AnsweredTypes DEF Run, TypeOK
    <3> QED
      BY <2>0, <2>3, <3>1, ThreadStep, TypesOfService DEF Run, TypeOK, ThreadTypes
  <2> QED
    BY <1>2, <2>1, <2>2, <2>3 DEF Serve, SileroVad, SmartTurn, Detector
<1>3. CASE Restart
  BY <1>3, TypesOfService DEF Restart, Resting, TypeOK, MODELS, SILERO, SMART_TURN
<1> QED
  BY <1>1, <1>2, <1>3

LEMMA StepTypes ==
  ASSUME FilesInv, OneAtATime, [Next]_vars
  PROVE  TypeOK'
<1>1. ASSUME NEW c \in Commands, Start(c) \/ Download(c) \/ Smoke(c) \/ Exit(c) \/ Kill(c)
      PROVE  TypeOK'
  <2>1. Open(c) => cmd[c].handle = 0
    BY DEF Open, FilesInv, HandlesArePart
  <2> QED
    BY <1>1, <2>1, NewInodeIsNew, CommandTypes DEF FilesInv
<1>2. CASE BuildVad \/ BuildTurn \/ (\E t \in Threads : Serve(t)) \/ Restart
  BY <1>2, ServiceTypes DEF FilesInv
<1>3. CASE UNCHANGED vars
  BY <1>3 DEF FilesInv, TypeOK, vars, files, service
<1> QED
  BY <1>1, <1>2, <1>3 DEF Next

(*************** What a download may do to the files of others *************)

Undamaged == \A m \in MODELS : Works(m) => Works(m)'

(* A step of the command that leaves the files alone.                       *)
LEMMA FilesAlone ==
  ASSUME FilesInv, OneAtATime, TypeOK', NEW c \in Commands,
         UNCHANGED <<short, files, service>>,
         cmd'[c].handle # 0 => /\ cmd'[c].pc \in {"copy", "replace", "cleanup"}
                               /\ part[cmd'[c].at] = cmd'[c].handle,
         cmd'[c].pc \in {"copy", "replace"} => cmd'[c].handle # 0,
         cmd'[c].pc # "copy", cmd'[c].pc = "look" => cmd'[c].written = 0,
         cmd'[c].pc = "replace" => Whole(disk[cmd'[c].handle])
  PROVE  FilesInv' /\ Undamaged
<1>1. \A d \in Commands : d = c
  BY DEF OneAtATime
<1>2. HandlesArePart'
  BY <1>1 DEF HandlesArePart, files
<1>3. Arriving'
  BY <1>1 DEF Arriving, files, Whole
<1>4. NamesApart' /\ TargetsAreWhole' /\ LoadersFound' /\ OwnGone' /\ SessionsAreWhole'
  BY DEF FilesInv, NamesApart, TargetsAreWhole, LoadersFound, OwnGone, SessionsAreWhole,
         files, service, Exists, Whole, All
<1>5. Undamaged
  BY DEF Undamaged, Works, Installed, SizeIs, Exists, Whole, files
<1> QED
  BY <1>2, <1>3, <1>4, <1>5 DEF FilesInv

(* A step of the command that moves names and writes only to a file that is *)
(* no model: the files that are models stay.                                *)
LEMMA ModelsStay ==
  ASSUME TypeOK, NEW m \in MODELS, target'[m] = target[m],
         Exists(target[m]) => disk'[target[m]] = disk[target[m]]
  PROVE  /\ Works(m) => Works(m)'
         /\ Exists(target[m]) /\ Whole(disk[target[m]]) => Whole(disk'[target'[m]])
  BY DEF Works, Installed, SizeIs, Exists, Whole

(* The model is renamed into place.                                         *)
LEMMA ModelArrives ==
  ASSUME NEW m \in MODELS, Exists(target'[m]), Whole(disk'[target'[m]])
  PROVE  Works(m)'
<1>1. \A build \in Builds : Len(All(build, Size)) = Size
  <2>1. \A build \in Builds : All(build, Size) \in [1 .. Size -> Builds]
    BY DEF All
  <2> QED
    BY <2>1, DiskAssumption
<1> QED
  BY <1>1 DEF Works, Installed, SizeIs, Exists, Whole

(***************************** One step of each ****************************)

LEMMA OpenKeeps ==
  ASSUME FilesInv, OneAtATime, TypeOK', NEW c \in Commands, Open(c)
  PROVE  FilesInv' /\ Undamaged
<1> DEFINE m == cmd[c].at
           inode == IF Exists(part[m]) THEN part[m] ELSE NewInode
<1> USE DEF FilesInv
<1>1. /\ \A d \in Commands : d = c
      /\ cmd[c].pc = "look" /\ cmd[c].handle = 0 /\ m \in MODELS
  BY DEF OneAtATime, Open, HandlesArePart, TypeOK, Command
<1>2. NewInode \in 1 .. MaxInodes /\ NewInode \notin Used
  BY <1>1, NewInodeIsNew
<1>3. /\ inode \in 1 .. MaxInodes /\ inode # 0
      /\ \A n \in MODELS : target[n] # inode /\ (n # m => part[n] # inode)
  BY <1>1, <1>2, DiskAssumption DEF TypeOK, Exists, NamesApart, Used
<1>4. /\ disk' = [disk EXCEPT ![inode] = <<>>]
      /\ part' = [part EXCEPT ![m] = inode]
      /\ UNCHANGED <<short, target, service>>
  BY DEF Open
<1>5. PICK body \in Bodies :
        cmd' = [cmd EXCEPT ![c].pc = "copy", ![c].body = body, ![c].handle = inode]
  BY DEF Open
<1>6. /\ cmd'[c].pc = "copy" /\ cmd'[c].body = body /\ cmd'[c].handle = inode
      /\ cmd'[c].at = m /\ cmd'[c].written = cmd[c].written
  BY <1>5 DEF TypeOK, Command
<1> HIDE DEF inode
<1>7. NamesApart'
  BY <1>1, <1>3, <1>4 DEF NamesApart, TypeOK
<1>8. HandlesArePart'
  BY <1>1, <1>3, <1>4, <1>6 DEF HandlesArePart, TypeOK
<1>9. Arriving'
  <2>1. cmd'[c].written = 0 /\ disk'[inode] = <<>>
    BY <1>1, <1>3, <1>4, <1>6 DEF Arriving, TypeOK
  <2>2. [i \in 1 .. 0 |-> body[i]] = <<>>
    OBVIOUS
  <2>3. body \in Bodies /\ 0 <= Len(body)
    BY BodyTypes, DiskAssumption
  <2> QED
    BY <1>1, <1>6, <2>1, <2>2, <2>3 DEF Arriving
<1>10. \A n \in MODELS : target'[n] = target[n] /\ disk'[target[n]] = disk[target[n]]
  BY <1>3, <1>4 DEF TypeOK
<1>11. Undamaged
  BY <1>10, ModelsStay DEF Undamaged
<1>12. TargetsAreWhole'
  BY <1>4, <1>10, ModelsStay DEF TargetsAreWhole, Exists
<1>13. LoadersFound' /\ OwnGone' /\ SessionsAreWhole'
  BY <1>4 DEF LoadersFound, OwnGone, SessionsAreWhole, service, Exists
<1> QED
  BY <1>7, <1>8, <1>9, <1>11, <1>12, <1>13

LEMMA CopyKeeps ==
  ASSUME FilesInv, OneAtATime, TypeOK', NEW c \in Commands, CopyBlock(c)
  PROVE  FilesInv' /\ Undamaged
<1> DEFINE n == cmd[c].written + 1
           h == cmd[c].handle
           body == cmd[c].body
<1> USE DEF FilesInv
<1>1. /\ \A d \in Commands : d = c
      /\ cmd[c].pc = "copy" /\ h # 0 /\ part[cmd[c].at] = h /\ cmd[c].at \in MODELS
      /\ body \in Bodies /\ cmd[c].written \in Nat
      /\ disk[h] = [i \in 1 .. cmd[c].written |-> body[i]]
  BY DiskAssumption DEF OneAtATime, CopyBlock, HandlesArePart, Arriving, TypeOK, Command
<1>2. /\ n <= Len(body) /\ disk' = [disk EXCEPT ![h] = Put(@, n, body[n])]
      /\ cmd' = [cmd EXCEPT ![c].written = n]
      /\ UNCHANGED <<short, target, part, service>>
  BY DEF CopyBlock
<1>3. /\ cmd'[c].pc = "copy" /\ cmd'[c].body = body /\ cmd'[c].handle = h
      /\ cmd'[c].at = cmd[c].at /\ cmd'[c].written = n
  <2>1. cmd[c] \in Command /\ cmd' = [cmd EXCEPT ![c].written = n]
    BY <1>2 DEF TypeOK
  <2> HIDE DEF n
  <2> QED
    <3>1. cmd'[c] = [cmd[c] EXCEPT !.written = n]
      BY <2>1 DEF TypeOK
    <3> HIDE DEF h, body
    <3>2. /\ cmd'[c].pc = cmd[c].pc /\ cmd'[c].at = cmd[c].at /\ cmd'[c].written = n
          /\ cmd'[c].body = cmd[c].body /\ cmd'[c].handle = cmd[c].handle
      BY <2>1, <3>1 DEF Command
    <3> QED
      BY <1>1, <3>2 DEF h, body
<1>4. h \in 1 .. MaxInodes /\ \A k \in MODELS : target[k] # h
  BY <1>1, DiskAssumption DEF TypeOK, Command, NamesApart
<1>5. Put(disk[h], n, body[n]) = [i \in 1 .. n |-> body[i]]
  <2> DEFINE w == cmd[c].written
  <2>1. w \in Nat /\ n = w + 1
    BY <1>1
  <2>2. disk[h] \in Seq(Blocks) /\ DOMAIN disk[h] = 1 .. w /\ \A i \in 1 .. w : disk[h][i] = body[i]
    BY <1>1, <1>4 DEF TypeOK
  <2>3. Len(disk[h]) = w
    BY <2>1, <2>2
  <2> HIDE DEF w, n
  <2>4. \A i \in 1 .. n : (IF i = n THEN body[n]
                          ELSE IF i <= Len(disk[h]) THEN disk[h][i] ELSE "hole") = body[i]
    <3> SUFFICES ASSUME NEW i \in 1 .. n
                 PROVE  (IF i = n THEN body[n]
                         ELSE IF i <= Len(disk[h]) THEN disk[h][i] ELSE "hole") = body[i]
      OBVIOUS
    <3>1. CASE i = n
      BY <3>1
    <3>2. CASE i # n
      <4>1. i \in 1 .. w
        BY <2>1, <3>2
      <4>2. i <= Len(disk[h]) /\ disk[h][i] = body[i]
        BY <2>1, <2>2, <2>3, <4>1
      <4> QED
        BY <3>2, <4>2
    <3> QED
      BY <3>1, <3>2
  <2>5. (IF n > Len(disk[h]) THEN n ELSE Len(disk[h])) = n
    BY <2>1, <2>3
  <2> QED
    BY <2>4, <2>5 DEF Put
<1>6. disk'[h] = [i \in 1 .. n |-> body[i]]
  BY <1>2, <1>4, <1>5 DEF TypeOK
<1>7. HandlesArePart'
  BY <1>1, <1>2, <1>3 DEF HandlesArePart
<1>8. Arriving'
  <2>1. n <= Len(body) /\ body \in Bodies
    BY <1>1, <1>2
  <2> HIDE DEF n, body, h
  <2>2. disk'[cmd'[c].handle] = [i \in 1 .. cmd'[c].written |-> cmd'[c].body[i]]
    BY <1>3, <1>6
  <2> QED
    BY <1>1, <1>3, <2>1, <2>2 DEF Arriving
<1>9. \A k \in MODELS : target'[k] = target[k] /\ disk'[target[k]] = disk[target[k]]
  BY <1>2, <1>4 DEF TypeOK
<1>10. Undamaged
  BY <1>9, ModelsStay DEF Undamaged
<1>11. TargetsAreWhole'
  BY <1>2, <1>9, ModelsStay DEF TargetsAreWhole, Exists
<1>12. LoadersFound' /\ OwnGone' /\ SessionsAreWhole' /\ NamesApart'
  BY <1>2 DEF LoadersFound, OwnGone, SessionsAreWhole, NamesApart, service, Exists
<1> QED
  BY <1>7, <1>8, <1>10, <1>11, <1>12

(* What is measured and found complete is one build.                        *)
LEMMA MeasuredIsWhole ==
  ASSUME FilesInv, NEW c \in Commands, cmd[c].pc = "copy",
         cmd[c].written = Len(cmd[c].body), Len(disk[cmd[c].handle]) = Size
  PROVE  Whole(disk[cmd[c].handle])
<1> DEFINE body == cmd[c].body
<1>1. body \in Bodies /\ disk[cmd[c].handle] = [i \in 1 .. Len(body) |-> body[i]]
  BY DEF FilesInv, Arriving
<1>2. body \in Seq(Blocks) /\ Len(body) \in Nat
  BY <1>1, BodyTypes
<1>3. disk[cmd[c].handle] = body /\ Len(body) = Size
  <2>1. [i \in 1 .. Len(body) |-> body[i]] = body
    BY <1>2
  <2> QED
    BY <1>1, <2>1
<1>4. PICK build \in Builds, k \in 0 .. Size + 1 : body = All(build, k)
  <2>1. 0 .. Size \subseteq 0 .. Size + 1
    BY DiskAssumption
  <2> QED
    BY <1>1, <2>1 DEF Bodies, Builds
<1>5. k = Size
  <2>1. k \in Nat /\ body \in [1 .. k -> Builds]
    BY <1>4, DiskAssumption DEF All
  <2>2. Len(body) = k
    BY <1>2, <2>1
  <2> QED
    BY <1>3, <2>2
<1> QED
  BY <1>3, <1>4, <1>5 DEF Whole

LEMMA ReplaceKeeps ==
  ASSUME FilesInv, OneAtATime, TypeOK', NEW c \in Commands, Replace(c)
  PROVE  FilesInv' /\ Undamaged
<1> DEFINE m == cmd[c].at
           h == cmd[c].handle
<1> USE DEF FilesInv
<1>1. /\ \A d \in Commands : d = c
      /\ cmd[c].pc = "replace" /\ h # 0 /\ part[m] = h /\ m \in MODELS
      /\ Whole(disk[h]) /\ h \in 1 .. MaxInodes
  <2>1. /\ \A d \in Commands : d = c
        /\ cmd[c].pc = "replace" /\ m \in MODELS /\ h \in 0 .. MaxInodes
    BY DEF OneAtATime, Replace, TypeOK, Command
  <2>2. h # 0 /\ part[m] = h /\ Whole(disk[h])
    BY <2>1 DEF HandlesArePart, Arriving
  <2> QED
    BY <2>1, <2>2, DiskAssumption
<1>2. /\ target' = [target EXCEPT ![m] = h] /\ part' = [part EXCEPT ![m] = 0]
      /\ Returns(c, TRUE) /\ UNCHANGED <<short, service>> /\ Sweep
  BY <1>1 DEF Replace, Exists
<1>3. cmd'[c].handle = 0 /\ cmd'[c].pc \in {"exit", "look"} /\ cmd'[c].written = 0
  <2>1. cmd'[c].handle = 0 /\ cmd'[c].pc \in {"exit", "look"}
    BY <1>2, ReturnsType
  <2>2. cmd'[c].written = 0
    BY <1>2, ReturnsIdle
  <2> QED
    BY <2>1, <2>2
<1>4. target'[m] = h /\ \A k \in MODELS : k # m => target'[k] = target[k] /\ target[k] # h
  BY <1>1, <1>2 DEF TypeOK, NamesApart
<1>5. \A k \in MODELS : Exists(target'[k]) => disk'[target'[k]] = disk[target'[k]]
  <2>1. \A k \in MODELS : target'[k] \in Used'
    BY DEF Used
  <2>2. \A k \in MODELS : Exists(target'[k]) => target'[k] \in DOMAIN disk
    BY DEF TypeOK, Exists
  <2> QED
    BY <1>2, <2>1, <2>2, SweepKeeps
<1>6. Exists(target'[m]) /\ Whole(disk'[target'[m]])
  BY <1>1, <1>4, <1>5 DEF Exists
<1>7. Undamaged
  BY <1>4, <1>5, <1>6, ModelsStay, ModelArrives DEF Undamaged
<1>8. TargetsAreWhole'
  BY <1>2, <1>4, <1>5, <1>6 DEF TargetsAreWhole, Exists
<1>9. NamesApart'
  BY <1>1, <1>2, <1>4 DEF NamesApart, TypeOK
<1>10. HandlesArePart' /\ Arriving'
  BY <1>1, <1>3 DEF HandlesArePart, Arriving
<1>11. LoadersFound' /\ OwnGone' /\ SessionsAreWhole'
  BY <1>1, <1>2, <1>4 DEF LoadersFound, OwnGone, SessionsAreWhole, TypeOK, service, Exists
<1> QED
  BY <1>7, <1>8, <1>9, <1>10, <1>11

(* The .part is taken away, or left to nobody.                              *)
LEMMA PartKeeps ==
  ASSUME FilesInv, OneAtATime, TypeOK', NEW c \in Commands, Sweep,
         UNCHANGED <<short, target, service>>,
         cmd'[c].handle = 0 /\ cmd'[c].pc \notin {"copy", "replace"} /\ cmd'[c].written = 0,
         \/ UNCHANGED part
         \/ part' = [part EXCEPT ![cmd[c].at] = 0]
  PROVE  FilesInv' /\ Undamaged
<1> USE DEF FilesInv
<1>1. \A d \in Commands : d = c
  BY DEF OneAtATime
<1>2. \A k \in MODELS : Exists(target[k]) => disk'[target[k]] = disk[target[k]]
  <2>1. \A k \in MODELS : target[k] \in Used'
    BY DEF Used
  <2>2. \A k \in MODELS : Exists(target[k]) => target[k] \in DOMAIN disk
    BY DEF TypeOK, Exists
  <2> QED
    BY <2>1, <2>2, SweepKeeps
<1>3. Undamaged
  BY <1>2, ModelsStay DEF Undamaged
<1>4. TargetsAreWhole'
  BY <1>2, ModelsStay DEF TargetsAreWhole, Exists
<1>5. NamesApart'
  BY DEF NamesApart, TypeOK
<1>6. HandlesArePart' /\ Arriving'
  BY <1>1 DEF HandlesArePart, Arriving
<1>7. LoadersFound' /\ OwnGone' /\ SessionsAreWhole'
  BY DEF LoadersFound, OwnGone, SessionsAreWhole, service, Exists
<1> QED
  BY <1>3, <1>4, <1>5, <1>6, <1>7

LEMMA CommandKeeps ==
  ASSUME FilesInv, OneAtATime, TypeOK', NEW c \in Commands,
         Start(c) \/ Download(c) \/ Smoke(c) \/ Exit(c) \/ Kill(c)
  PROVE  FilesInv' /\ Undamaged
<1>0. TypeOK /\ cmd[c] \in Command /\ HandlesArePart /\ Arriving
  BY DEF FilesInv, TypeOK
<1>1. CASE Start(c)
  <2>1. /\ cmd'[c].handle = 0 /\ cmd'[c].written = 0 /\ cmd'[c].pc \in {"look", "smoke"}
    BY <1>0, <1>1 DEF Start, TypeOK, Idle
  <2> QED
    BY <1>1, <2>1, FilesAlone DEF Start
<1>2. CASE Skip(c)
  BY <1>0, <1>2, ReturnsType, ReturnsIdle, FilesAlone DEF Skip
<1>3. CASE RequestFails(c)
  BY <1>0, <1>3, StepKeeps, StepType, FilesAlone DEF RequestFails, Pcs, HandlesArePart
<1>4. CASE Open(c)
  BY <1>4, OpenKeeps
<1>5. CASE CopyBlock(c)
  BY <1>5, CopyKeeps
<1>6. CASE CopyFails(c)
  BY <1>0, <1>6, StepKeeps, StepType, FilesAlone DEF CopyFails, Pcs, HandlesArePart
<1>7. CASE Verify(c)
  <2> DEFINE pc == IF Verified(cmd[c].at) THEN "replace" ELSE "cleanup"
  <2>1. pc \in Pcs /\ pc \in {"replace", "cleanup"}
    BY DEF Pcs
  <2>2. cmd[c].handle # 0 /\ part[cmd[c].at] = cmd[c].handle
    BY <1>0, <1>7 DEF Verify, HandlesArePart
  <2>3. pc = "replace" => Whole(disk[cmd[c].handle])
    BY <1>7, <2>2, MeasuredIsWhole DEF Verify, Verified, SizeIs
  <2>4. Step(c, pc) /\ UNCHANGED <<short, files, service>>
    BY <1>7 DEF Verify
  <2> HIDE DEF pc
  <2> QED
    BY <1>0, <2>1, <2>2, <2>3, <2>4, StepKeeps, FilesAlone
<1>8. CASE Replace(c)
  BY <1>8, ReplaceKeeps
<1>9. CASE Cleanup(c)
  BY <1>0, <1>9, ReturnsType, ReturnsIdle, PartKeeps DEF Cleanup
<1>10. CASE Smoke(c)
  <2>1. /\ cmd'[c].handle = cmd[c].handle /\ cmd'[c].pc \in {"checked", "smoke"}
    <3>1. PICK raised \in BOOLEAN :
            cmd' = [cmd EXCEPT ![c].failed = @ \/ ~Installed(cmd[c].at) \/ raised,
                               ![c].pc = IF Last(cmd[c].at) THEN "checked" ELSE "smoke",
                               ![c].at = IF Last(cmd[c].at) THEN cmd[c].at ELSE cmd[c].at + 1]
      BY <1>10 DEF Smoke
    <3> DEFINE at == IF Last(cmd[c].at) THEN cmd[c].at ELSE cmd[c].at + 1
               pc == IF Last(cmd[c].at) THEN "checked" ELSE "smoke"
               failed == cmd[c].failed \/ ~Installed(cmd[c].at) \/ raised
    <3>2. cmd' = [cmd EXCEPT ![c] = [[[cmd[c] EXCEPT !.failed = failed] EXCEPT !.pc = pc]
                                       EXCEPT !.at = at]]
      BY <1>0, <3>1, Zenon DEF TypeOK, Command
    <3>3. pc \in {"checked", "smoke"}
      OBVIOUS
    <3> HIDE DEF at, pc, failed
    <3>4. cmd'[c] = [[[cmd[c] EXCEPT !.failed = failed] EXCEPT !.pc = pc] EXCEPT !.at = at]
      BY <1>0, <3>2 DEF TypeOK
    <3> QED
      BY <1>0, <3>3, <3>4 DEF Command
  <2>2. cmd[c].handle = 0
    BY <1>0, <1>10 DEF Smoke, HandlesArePart
  <2> QED
    BY <1>10, <2>1, <2>2, FilesAlone DEF Smoke
<1>11. CASE Exit(c)
  <2>1. cmd'[c] = Idle
    BY <1>0, <1>11 DEF Exit, TypeOK
  <2> QED
    BY <1>11, <2>1, FilesAlone DEF Exit, Idle
<1>12. CASE Kill(c)
  <2>1. cmd'[c] = Idle
    BY <1>0, <1>12 DEF Kill, TypeOK
  <2> QED
    BY <1>12, <2>1, PartKeeps DEF Kill, Idle
<1> QED
  BY <1>1, <1>2, <1>3, <1>4, <1>5, <1>6, <1>7, <1>8, <1>9, <1>10, <1>11, <1>12 DEF Download

(* A request that is answered leaves no session of its own.                 *)
LEMMA AnsweredKeeps ==
  ASSUME TypeOK, LoadersFound, OwnGone, SessionsAreWhole, NEW t \in Threads, Answered(t),
         UNCHANGED <<short, target>>
  PROVE  LoadersFound' /\ OwnGone' /\ SessionsAreWhole'
<1>1. /\ thread'[t] = Resting
      /\ \A u \in Threads : u # t => thread'[u] = thread[u]
  BY DEF Answered, TypeOK
<1>2. /\ session'[<<"own", t>>] = "none"
      /\ \A d \in Detectors : d # <<"own", t>> => session'[d] = session[d]
  <2>1. <<"own", t>> \in Detectors
    BY DEF Detectors
  <2> QED
    BY <2>1 DEF Answered, TypeOK
<1>3. \A m \in Keeps : session'[<<"kept", m>>] = session[<<"kept", m>>]
  BY <1>2 DEF Detectors
<1>4. \A u \in Threads : u # t => session'[<<"own", u>>] = session[<<"own", u>>]
  BY <1>2 DEF Detectors
<1> QED
  BY <1>1, <1>2, <1>3, <1>4 DEF LoadersFound, OwnGone, SessionsAreWhole, Resting, Exists

LEMMA ServiceKeeps ==
  ASSUME FilesInv, TypeOK',
         BuildVad \/ BuildTurn \/ (\E t \in Threads : Serve(t)) \/ Restart
  PROVE  FilesInv' /\ Undamaged
<1> USE DEF FilesInv
<1>1. UNCHANGED <<short, files, cmd>>
  BY DEF BuildVad, BuildTurn, Build, Serve, Report, Verdict, Ask, SileroVad, SmartTurn,
         Detector, Load, Acquire, BuildSession, NewSession, Answered, Run, Unloaded, Restart
<1>2. NamesApart' /\ HandlesArePart' /\ Arriving' /\ TargetsAreWhole' /\ Undamaged
  BY <1>1 DEF NamesApart, HandlesArePart, Arriving, TargetsAreWhole, Undamaged,
              Works, Installed, SizeIs, Exists, Whole, files
<1>3. LoadersFound' /\ OwnGone' /\ SessionsAreWhole'
  <2> USE DEF LoadersFound, OwnGone, SessionsAreWhole, Exists
  <2>0. target' = target /\ short' = short /\ TypeOK
    BY <1>1 DEF files
  <2>1. CASE BuildVad \/ BuildTurn
    BY <2>0, <2>1 DEF BuildVad, BuildTurn, Build
  <2>2. ASSUME NEW t \in Threads, Serve(t)
        PROVE  LoadersFound' /\ OwnGone' /\ SessionsAreWhole'
    <3> DEFINE m == thread[t].model
               d == DetectorOf(t)
    <3>0. m \in MODELS /\ d \in Detectors /\ \A u \in Threads : <<"own", u>> \in Detectors
      BY <2>0, DetectorIsThere DEF TypeOK
    <3>1. CASE Report(t) \/ Verdict(t)
      <4>1. PICK n \in MODELS : Ask(t, n)
        BY <3>1 DEF Report, Verdict, MODELS
      <4> QED
        BY <2>0, <4>1 DEF Ask, Unloaded, TypeOK
    <3>2. CASE Load(t)
      BY <2>0, <3>2 DEF Load, Unloaded, Resting, TypeOK
    <3>3. CASE Acquire(t)
      BY <2>0, <3>3 DEF Acquire, Goes, TypeOK
    <3>4. CASE BuildSession(t)
      <4>0. thread[t].pc = "locked" /\ Exists(target[m]) /\ session[<<"own", t>>] = "none"
        BY <2>0, <3>4 DEF BuildSession
      <4>1. CASE NewSession(t)
        <5>1. Sound(m) = "nonsense" => m \in short
          BY <3>0, <4>0 DEF Sound, TargetsAreWhole, Whole, Builds
        <5>2. /\ session' = [session EXCEPT ![d] = Sound(m)]
              /\ thread' = [thread EXCEPT ![t].pc = "run"]
          BY <4>1 DEF NewSession, Goes
        <5>3. /\ thread'[t].pc = "run" /\ thread'[t].model = m
              /\ \A u \in Threads : u # t => thread'[u] = thread[u]
          BY <2>0, <5>2 DEF TypeOK
        <5>4. \A u \in Threads : u # t => session'[<<"own", u>>] = session[<<"own", u>>]
          BY <2>0, <3>0, <5>2 DEF TypeOK, DetectorOf
        <5>5. session'[<<"own", t>>] = "nonsense" => m \in short
          BY <2>0, <3>0, <4>0, <5>1, <5>2 DEF TypeOK
        <5>6. \A n \in Keeps : session'[<<"kept", n>>] = "nonsense" => n \in short
          <6>1. \A n \in Keeps : <<"kept", n>> \in Detectors
            BY DEF Detectors
          <6>2. ASSUME NEW n \in Keeps, d = <<"kept", n>>
                PROVE  m = n
            BY <6>2 DEF DetectorOf
          <6> QED
            BY <2>0, <3>0, <5>1, <5>2, <6>1, <6>2 DEF TypeOK
        <5> QED
          BY <2>0, <5>3, <5>4, <5>5, <5>6
      <4>2. CASE Answered(t)
        BY <2>0, <3>0, <4>2, AnsweredKeeps
      <4>3. CASE Goes(t, "run") /\ UNCHANGED session
        BY <2>0, <4>3 DEF Goes, TypeOK
      <4> QED
        BY <3>4, <4>1, <4>2, <4>3 DEF BuildSession
    <3>5. CASE Run(t)
      BY <2>0, <3>0, <3>5, AnsweredKeeps DEF Run
    <3> QED
      BY <2>2, <3>1, <3>2, <3>3, <3>4, <3>5 DEF Serve, SileroVad, SmartTurn, Detector
  <2>3. CASE Restart
    <3>1. \A x \in Keeps : <<"kept", x>> \in Detectors
      BY DEF Detectors
    <3>2. \A u \in Threads : <<"own", u>> \in Detectors
      BY DEF Detectors
    <3> QED
      BY <2>0, <2>3, <3>1, <3>2 DEF Restart, Resting
  <2> QED
    BY <2>1, <2>2, <2>3
<1> QED
  BY <1>2, <1>3

LEMMA StepFiles ==
  ASSUME OneAtATime, FilesInv, [Next]_vars
  PROVE  FilesInv' /\ Undamaged
<1>1. TypeOK'
  BY StepTypes
<1>2. CASE UNCHANGED vars
  <2> USE <1>2 DEF vars, files, service, FilesInv
  <2>1. NamesApart' /\ HandlesArePart' /\ Arriving'
    BY DEF NamesApart, HandlesArePart, Arriving, Whole
  <2>2. TargetsAreWhole' /\ LoadersFound' /\ OwnGone' /\ SessionsAreWhole'
    BY DEF TargetsAreWhole, LoadersFound, OwnGone, SessionsAreWhole, Exists, Whole
  <2>3. Undamaged
    BY DEF Undamaged, Works, Installed, SizeIs, Exists, Whole
  <2> QED
    BY <1>1, <2>1, <2>2, <2>3
<1> QED
  BY <1>1, <1>2, CommandKeeps, ServiceKeeps DEF Next

LEMMA InitFiles == Init => FilesInv
<1> SUFFICES ASSUME Init PROVE FilesInv
  OBVIOUS
<1>1. TypeOK
  BY InitTypes
<1>2. PICK found \in [MODELS -> {"nothing", "model", "short"}] :
        /\ short = {m \in MODELS : found[m] = "short"}
        /\ disk = [m \in 1 .. MaxInodes |->
             IF m \notin MODELS \/ found[m] = "nothing" THEN <<>>
             ELSE All("ours", IF found[m] = "short" THEN Size - 1 ELSE Size)]
        /\ target = [m \in MODELS |-> IF found[m] = "nothing" THEN 0 ELSE m]
  BY DEF Init
<1>3. MODELS \subseteq 1 .. MaxInodes /\ 0 \notin MODELS
  BY DiskAssumption DEF MODELS, SILERO, SMART_TURN
<1>4. TargetsAreWhole
  BY <1>2, <1>3 DEF TargetsAreWhole, Exists, Whole, Builds
<1>5. NamesApart
  BY <1>2, <1>3 DEF Init, NamesApart
<1>6. HandlesArePart /\ Arriving
  BY DEF Init, HandlesArePart, Arriving, Idle
<1>7. LoadersFound /\ OwnGone /\ SessionsAreWhole
  BY DEF Init, NewService, LoadersFound, OwnGone, SessionsAreWhole, Resting, Detectors
<1> QED
  BY <1>1, <1>4, <1>5, <1>6, <1>7 DEF FilesInv

(* One command at a time: the file that arrives never has the name of a     *)
(* model before it is the model.                                            *)
THEOREM FilesInvariant == OneAtATime => (Spec => []FilesInv)
<1> SUFFICES ASSUME OneAtATime PROVE Spec => []FilesInv
  OBVIOUS
<1>1. FilesInv /\ [Next]_vars => FilesInv'
  BY StepFiles
<1> QED
  BY <1>1, InitFiles, PTL DEF Spec

(* A detector is never built from half a file or from pieces of two builds. *)
THEOREM NoSessionFromHalfAFile == OneAtATime => (Spec => []SessionsAreWhole)
<1> SUFFICES ASSUME OneAtATime PROVE Spec => []SessionsAreWhole
  OBVIOUS
<1>1. FilesInv => SessionsAreWhole
  BY DEF FilesInv
<1>2. Spec => []FilesInv
  BY FilesInvariant
<1> QED
  BY <1>1, <1>2, PTL

(* A model that works is not damaged by a download, however it ends.        *)
THEOREM ModelsAreSafe == OneAtATime => (Spec => NeverDamaged)
<1> SUFFICES ASSUME OneAtATime PROVE Spec => NeverDamaged
  OBVIOUS
<1>1. Spec => []FilesInv
  BY FilesInvariant
<1>2. FilesInv /\ [Next]_vars => [\A m \in MODELS : Works(m) => Works(m)']_vars
  BY StepFiles DEF Undamaged
<1> QED
  BY <1>1, <1>2, PTL DEF Spec, NeverDamaged

(******************************* What is left ******************************)

LEMMA StepPart ==
  ASSUME OneAtATime, FilesInv, PartGone, [Next]_vars
  PROVE  PartGone'
<1> SUFFICES ASSUME NEW m \in MODELS, Exists(part'[m])
             PROVE  m \in orphans' \/ \E c \in Commands : cmd'[c].at = m /\ cmd'[c].handle # 0
  BY DEF PartGone, Exists
<1>0. TypeOK /\ HandlesArePart /\ (Exists(part[m]) =>
        m \in orphans \/ \E c \in Commands : cmd[c].at = m /\ cmd[c].handle # 0)
  BY DEF FilesInv, PartGone
<1>1. ASSUME NEW c \in Commands, Start(c) \/ Download(c) \/ Smoke(c) \/ Exit(c) \/ Kill(c)
      PROVE  m \in orphans' \/ (cmd'[c].at = m /\ cmd'[c].handle # 0)
  <2>0. /\ cmd[c] \in Command /\ \A d \in Commands : d = c
        /\ Exists(part[m]) => m \in orphans \/ (cmd[c].at = m /\ cmd[c].handle # 0)
    <3>1. cmd[c] \in Command
      BY <1>0 DEF TypeOK
    <3>2. \A d \in Commands : d = c
      BY DEF OneAtATime
    <3> QED
      BY <1>0, <3>1, <3>2
  <2>00. part[m] = 0 \/ m \in orphans \/ (cmd[c].at = m /\ cmd[c].handle # 0)
    BY <2>0 DEF Exists
  <2>1. CASE Start(c) \/ Skip(c) \/ Smoke(c) \/ Exit(c)
    <3>1. cmd[c].handle = 0
      BY <1>0, <2>1 DEF Start, Skip, Smoke, Exit, HandlesArePart
    <3>2. part' = part /\ orphans' = orphans
      BY <2>1 DEF Start, Skip, Smoke, Exit, files
    <3> QED
      BY <2>0, <3>1, <3>2
  <2>2. CASE RequestFails(c) \/ CopyFails(c) \/ Verify(c)
    <3>1. PICK pc \in Pcs : Step(c, pc)
      BY <2>2 DEF RequestFails, CopyFails, Verify, Pcs
    <3>2. part' = part /\ orphans' = orphans
      BY <2>2 DEF RequestFails, CopyFails, Verify, files
    <3> QED
      BY <1>0, <2>0, <3>1, <3>2, StepKeeps
  <2>3. CASE Open(c)
    <3>1. cmd[c].handle = 0
      BY <1>0, <2>3 DEF Open, HandlesArePart
    <3>2. NewInode # 0
      BY <1>0, <3>1, NewInodeIsNew, DiskAssumption
    <3> DEFINE inode == IF Exists(part[cmd[c].at]) THEN part[cmd[c].at] ELSE NewInode
    <3>3. inode # 0
      BY <3>2 DEF Exists
    <3>4. PICK body \in Bodies :
            cmd' = [cmd EXCEPT ![c].pc = "copy", ![c].body = body, ![c].handle = inode]
      BY <2>3 DEF Open
    <3>5. part' = [part EXCEPT ![cmd[c].at] = inode] /\ orphans' = orphans \ {cmd[c].at}
      BY <2>3 DEF Open
    <3> HIDE DEF inode
    <3>6. cmd'[c].at = cmd[c].at /\ cmd'[c].handle = inode
      BY <1>0, <3>4 DEF TypeOK, Command
    <3> QED
      BY <1>0, <2>0, <3>1, <3>3, <3>5, <3>6 DEF TypeOK
  <2>4. CASE CopyBlock(c)
    <3>1. part' = part /\ orphans' = orphans /\ \E n : cmd' = [cmd EXCEPT ![c].written = n]
      BY <2>4 DEF CopyBlock
    <3>2. cmd'[c].at = cmd[c].at /\ cmd'[c].handle = cmd[c].handle
      BY <1>0, <3>1 DEF TypeOK, Command
    <3> QED
      BY <2>0, <3>1, <3>2
  <2>5. CASE Replace(c)
    <3>1. Exists(part[cmd[c].at])
      BY <1>0, <2>5 DEF Replace, HandlesArePart, Exists
    <3>2. part' = [part EXCEPT ![cmd[c].at] = 0] /\ orphans' = orphans
      BY <2>5, <3>1 DEF Replace
    <3>3. m # cmd[c].at /\ part'[m] = part[m] /\ part[m] # 0
      BY <1>0, <2>5, <3>2 DEF TypeOK, Exists
    <3> QED
      BY <2>00, <3>2, <3>3
  <2>6. CASE Cleanup(c)
    <3>1. part' = [part EXCEPT ![cmd[c].at] = 0] /\ orphans' = orphans \ {cmd[c].at}
      BY <2>6 DEF Cleanup
    <3>2. m # cmd[c].at /\ part'[m] = part[m] /\ part[m] # 0
      BY <1>0, <2>6, <3>1 DEF TypeOK, Exists
    <3> QED
      BY <2>00, <3>1, <3>2
  <2>7. CASE Kill(c)
    BY <2>00, <2>7 DEF Kill, Exists
  <2> QED
    BY <1>1, <2>1, <2>2, <2>3, <2>4, <2>5, <2>6, <2>7 DEF Download
<1>2. CASE BuildVad \/ BuildTurn \/ (\E t \in Threads : Serve(t)) \/ Restart
  <2>1. UNCHANGED <<files, cmd>>
    BY <1>2 DEF BuildVad, BuildTurn, Build, Serve, Report, Verdict, Ask, SileroVad, SmartTurn,
                Detector, Load, Acquire, BuildSession, NewSession, Answered, Run, Unloaded, Restart
  <2> QED
    BY <1>0, <2>1 DEF files
<1>3. CASE UNCHANGED vars
  BY <1>0, <1>3 DEF vars, files
<1> QED
  BY <1>1, <1>2, <1>3 DEF Next

(* No half file stays behind, unless the command that wrote it was killed.  *)
THEOREM NothingLeftBehind == OneAtATime => (Spec => []PartGone)
<1> SUFFICES ASSUME OneAtATime PROVE Spec => []PartGone
  OBVIOUS
<1>1. Init => PartGone
  BY DEF Init, PartGone, Exists
<1>2. FilesInv /\ PartGone /\ [Next]_vars => PartGone'
  BY StepPart
<1>3. Spec => []FilesInv
  BY FilesInvariant
<1> QED
  BY <1>1, <1>2, <1>3, PTL DEF Spec

(* The service alone, whatever the commands do.                             *)
ServiceTypesOK ==
  /\ session \in [Detectors -> Sessions] /\ loads \in [Detectors -> Nat]
  /\ ThreadTypes

LEMMA StepLoads ==
  ASSUME ServiceTypesOK, LoadedOnce, [Next]_vars
  PROVE  ServiceTypesOK' /\ LoadedOnce'
<1> USE DEF ServiceTypesOK
<1>1. CASE UNCHANGED <<session, loads, thread>>
  BY <1>1 DEF LoadedOnce, ThreadTypes
<1>2. ASSUME NEW t \in Threads, Answered(t)
      PROVE  session' \in [Detectors -> Sessions] /\ loads' \in [Detectors -> Nat] /\ LoadedOnce'
  <2>1. session' \in [Detectors -> Sessions] /\ loads' \in [Detectors -> Nat]
    BY <1>2, AnsweredTypes
  <2>2. LoadedOnce'
    BY <1>2 DEF LoadedOnce, Answered
  <2> QED
    BY <2>1, <2>2
<1>3. ASSUME NEW t \in Threads, BuildSession(t)
      PROVE  ServiceTypesOK' /\ LoadedOnce'
  <2> DEFINE d == DetectorOf(t)
  <2>1. thread[t].model \in MODELS /\ ThreadTypes'
    BY <1>3, ThreadStep DEF ThreadTypes
  <2>2. d \in Detectors /\ Sound(thread[t].model) \in {"model", "another", "nonsense"}
    BY <2>1, DetectorIsThere DEF Sound
  <2>3. CASE session[d] = "none" /\ NewSession(t)
    <3>1. /\ session' \in [Detectors -> Sessions] /\ loads' \in [Detectors -> Nat]
      BY <2>1, <2>3, NewSessionTypes
    <3>2. loads[d] = 0
      BY <2>2, <2>3 DEF LoadedOnce
    <3>3. /\ session' = [session EXCEPT ![d] = Sound(thread[t].model)]
          /\ loads' = [loads EXCEPT ![d] = @ + 1]
      BY <2>3 DEF NewSession
    <3> HIDE DEF d
    <3>4. session'[d] # "none" /\ loads'[d] = 1
      BY <2>2, <3>2, <3>3
    <3>5. \A x \in Detectors : x # d => session'[x] = session[x] /\ loads'[x] = loads[x]
      BY <3>3
    <3>6. LoadedOnce'
      BY <3>4, <3>5 DEF LoadedOnce
    <3> QED
      BY <2>1, <3>1, <3>6
  <2>4. CASE Answered(t)
    BY <1>2, <2>1, <2>4
  <2>5. CASE UNCHANGED <<session, loads>>
    BY <2>1, <2>5 DEF LoadedOnce
  <2> QED
    BY <1>3, <2>3, <2>4, <2>5 DEF BuildSession
<1>4. ASSUME NEW t \in Threads, Report(t) \/ Verdict(t) \/ Load(t) \/ Acquire(t)
      PROVE  ServiceTypesOK' /\ LoadedOnce'
  <2>1. UNCHANGED <<session, loads>>
    BY <1>4 DEF Report, Verdict, Ask, Load, Acquire, Unloaded
  <2>2. ThreadTypes'
    BY <1>4, ThreadStep
  <2> QED
    BY <2>1, <2>2 DEF LoadedOnce
<1>5. ASSUME NEW t \in Threads, Run(t)
      PROVE  ServiceTypesOK' /\ LoadedOnce'
  <2>1. ThreadTypes'
    BY <1>5, ThreadStep
  <2> QED
    BY <1>2, <1>5, <2>1 DEF Run
<1>6. CASE Restart
  BY <1>6 DEF Restart, LoadedOnce, Sessions, ThreadTypes, Resting, MODELS, SILERO, SMART_TURN
<1>7. ASSUME NEW c \in Commands, Start(c) \/ Download(c) \/ Smoke(c) \/ Exit(c) \/ Kill(c)
      PROVE  UNCHANGED <<session, loads, thread>>
  BY <1>7 DEF Start, Download, Skip, RequestFails, Open, CopyBlock, CopyFails, Verify, Replace,
              Cleanup, Smoke, Exit, Kill, service
<1>8. CASE BuildVad \/ BuildTurn \/ UNCHANGED vars
  BY <1>1, <1>8 DEF BuildVad, BuildTurn, Build, vars, service
<1> QED
  BY <1>1, <1>3, <1>4, <1>5, <1>6, <1>7, <1>8 DEF Next, Serve, SileroVad, SmartTurn, Detector

(* A detector builds one session, however many threads ask it.              *)
THEOREM BuiltOnce == Spec => []LoadedOnce
<1>1. Init => ServiceTypesOK /\ LoadedOnce
  BY DEF Init, NewService, Resting, ServiceTypesOK, LoadedOnce, Sessions, ThreadTypes,
         MODELS, SILERO, SMART_TURN
<1>2. ServiceTypesOK /\ LoadedOnce /\ [Next]_vars => ServiceTypesOK' /\ LoadedOnce'
  BY StepLoads
<1> QED
  BY <1>1, <1>2, PTL DEF Spec
=============================================================================
