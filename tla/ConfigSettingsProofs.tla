------------------------ MODULE ConfigSettingsProofs ------------------------
(***************************************************************************)
(* Theorems about ConfigSave, for every value of its constants: a setting  *)
(* of a serial master is stored, what is shown is what is stored, each     *)
(* cell of the EEPROM is old or new at every moment, and a boot loads      *)
(* whole images.                                                           *)
(*                                                                         *)
(* The first three speak of a loop of TaskPC in which no other task steps. *)
(* The invariant follows the settings of the last command through it:      *)
(* where TaskPC is tells what has become of them in RAM and in the EEPROM. *)
(***************************************************************************)
EXTENDS ConfigSaveProofs

-----------------------------------------------------------------------------
(* Where the boot and TaskPC can be.                                       *)

\* The transfers of TaskPC, and what follows each.
PcWrites == {<<"cfg", "factoryCheck">>, <<"cfg", "wait">>, <<"msg", "wait">>}
PcReads == {<<"factory", "factoryWait">>, <<"cfg", "tail">>, <<"cfg", "saveMsg">>,
            <<"msg", "sleep">>}
PcStops == {"sleep", "uart1", "uart2", "check", "saveCfg", "saveMsg", "wait", "set", "act",
            "factory", "factoryWait", "factoryCheck", "tail"}
\* TaskPC is at a command.
AtCommand(p) ==
  \/ p.at \in {"set", "act", "factory", "factoryWait", "factoryCheck", "tail"}
  \/ p.at \in {"write", "read"} /\ p.next \in {"factoryWait", "factoryCheck", "tail"}
PcPath(p) ==
  /\ \/ p.at \in PcStops
     \/ p.at = "write" /\ <<p.area, p.next>> \in PcWrites
     \/ p.at = "read" /\ <<p.area, p.next>> \in PcReads
  /\ p.at = "wait" => p.area \in Images
  /\ AtCommand(p) => p.ret \in {"uart2", "check"}

\* While the boot runs TaskPC has not begun.
Paths ==
  /\ BootPath(st["boot"]) /\ PcPath(st["pc"])
  /\ st["boot"].at # "idle" => st["pc"].at = "sleep" /\ took = {}

\* A step that moves one task.
Moves(t) == \A u \in Tasks \ {t} : st'[u] = st[u]

LEMMA OneMoves ==
  ASSUME TypeOK, NEW t \in Tasks,
         \/ \E at \in Labels : Go(t, at)
         \/ \E kind, next \in Labels, area \in Areas : Transfer(t, kind, area, next)
         \/ Advance(t)
         \/ \E s : st' = [st EXCEPT ![t] = s]
  PROVE  Moves(t)
<1>1. st \in [Tasks -> Places]
  BY TypeParts
<1> QED
  BY <1>1 DEF Go, Transfer, Advance, Moves

\* Where Go, Transfer and Advance take TaskPC.
LEMMA PcPlace ==
  ASSUME TypeOK
  PROVE  /\ st \in [Tasks -> Places] /\ "pc" \in Tasks /\ "boot" \in Tasks
         /\ st["pc"] \in Places /\ st["boot"] \in Places
         /\ st["pc"].i \in Nat /\ st["pc"].i \in Cells /\ N \in Nat /\ 0 < N
         /\ st["pc"].area \in Areas /\ 0 \in Cells
<1>1. st \in [Tasks -> Places] /\ "pc" \in Tasks /\ "boot" \in Tasks
  BY TypeParts DEF Tasks
<1>2. st["pc"] \in Places /\ st["boot"] \in Places
  BY <1>1
<1> QED
  BY <1>1, <1>2, ConfigAssumption, ConstantTypes DEF Places, Cells

LEMMA PcGoes ==
  ASSUME TypeOK, NEW at, Go("pc", at)
  PROVE  LET p == st["pc"]
             q == st'["pc"]
         IN  q.at = at /\ q.area = p.area /\ q.i = 0 /\ q.ret = p.ret
  BY PcPlace DEF Go, Arrived, Task

LEMMA PcTransfers ==
  ASSUME TypeOK, NEW kind, NEW area, NEW next, Transfer("pc", kind, area, next)
  PROVE  LET p == st["pc"]
             q == st'["pc"]
         IN  q.at = kind /\ q.area = area /\ q.i = 0 /\ q.next = next /\ q.ret = p.ret
  BY PcPlace DEF Transfer, Places

LEMMA PcAdvances ==
  ASSUME TypeOK, Advance("pc")
  PROVE  LET p == st["pc"]
             q == st'["pc"]
         IN  /\ q.area = p.area /\ q.ret = p.ret
             /\ \/ q.at = p.at /\ q.next = p.next /\ q.i = p.i + 1 /\ p.i < N
                \/ q.at = p.next /\ p.i = N
<1>0. st["pc"].i <= N
  BY PcPlace DEF Cells
<1>1. CASE st["pc"].i < N
  <2>1. st'["pc"] = [st["pc"] EXCEPT !.i = st["pc"].i + 1]
    BY <1>1, PcPlace DEF Advance
  <2> QED
    BY <1>1, <2>1, PcPlace DEF Places
<1>2. CASE ~(st["pc"].i < N)
  <2>1. st'["pc"] = Arrived(st["pc"], st["pc"].next)
    BY <1>2, PcPlace DEF Advance
  <2> QED
    BY <1>0, <1>2, <2>1, PcPlace DEF Arrived, Task
<1> QED
  BY <1>1, <1>2

\* What TaskPC does to its own place, and when.
PcStep == TaskPC \/ EepromStep("pc") \/ ProtocolStep("pc")
OtherStep ==
  \/ ReceiveUdp
  \/ EepromStep("udp") \/ ProtocolStep("udp")
  \/ \E t \in Locals : Local(t)
BootStep == Boot \/ EepromStep("boot")

LEMMA Actors == Next => PcStep \/ OtherStep \/ BootStep \/ PowerLoss
  BY DEF Next, PcStep, OtherStep, BootStep

\* TaskPC runs only when the boot is over, and only TaskPC moves then.
LEMMA PcAlone ==
  ASSUME TypeOK, Paths, PcStep
  PROVE  st["boot"].at = "idle" /\ st'["boot"] = st["boot"]
<1>1. \E at : Runs("pc", at)
  BY DEF PcStep, TaskPC, Wake, Serial, CheckSave, SaveImage, ReadBack, EepromStep, Write,
         WriteFails, Read, ProtocolStep, Set, Act, Factory, Tail
<1>2. st["boot"].at = "idle"
  BY <1>1 DEF Runs, Higher, Paths, BootPath, Delaying
<1>3. Moves("pc")
  <2>1. CASE TaskPC
    <3>1. AfterSave("cfg") \in Labels /\ AfterSave("msg") \in Labels
          /\ AfterSave(st["pc"].area) \in Labels
      BY DEF AfterSave, Labels, Delaying
    <3> QED
      BY <2>1, <3>1, PcPlace, OneMoves
      DEF TaskPC, Wake, Serial, Receive, CheckSave, SaveImage, Saved, ReadBack, Labels, Delaying,
          Areas, Images
  <2>2. CASE EepromStep("pc")
    BY <2>2, PcPlace, OneMoves DEF EepromStep, Write, WriteFails, Read, Places
  <2>3. CASE ProtocolStep("pc")
    BY <2>3, PcPlace, OneMoves
    DEF ProtocolStep, Set, Act, Factory, Tail, Labels, Delaying, Areas, Images
  <2> QED
    BY <2>1, <2>2, <2>3 DEF PcStep
<1> QED
  BY <1>2, <1>3, PcPlace DEF Moves, Tasks

\* The other tasks leave TaskPC and the boot where they are, and disturb.
LEMMA OthersApart ==
  ASSUME TypeOK, Paths, OtherStep
  PROVE  /\ st["boot"].at = "idle" /\ st'["boot"] = st["boot"] /\ st'["pc"] = st["pc"]
         /\ disturbed'
<1>1. PICK t \in Tasks \ {"boot", "pc"} :
        \/ t = "udp" /\ ReceiveUdp
        \/ EepromStep(t) \/ ProtocolStep(t)
        \/ t \in Locals /\ Local(t)
  BY ConfigAssumption DEF OtherStep, Tasks
<1>2. \E at : Runs(t, at)
  BY <1>1 DEF ReceiveUdp, EepromStep, Write, WriteFails, Read, ProtocolStep, Set, Act, Factory,
              Tail, Local
<1>3. st["boot"].at = "idle"
  BY <1>2 DEF Runs, Higher, Tasks, Paths, BootPath, Delaying
<1>4. Moves(t)
  <2>0. st[t] \in Places
    BY PcPlace
  <2>1. CASE ReceiveUdp /\ t = "udp"
    BY <2>1, OneMoves DEF ReceiveUdp, Receive
  <2>2. CASE EepromStep(t)
    BY <2>0, <2>2, OneMoves DEF EepromStep, Write, WriteFails, Read, Places
  <2>3. CASE ProtocolStep(t)
    BY <2>3, OneMoves DEF ProtocolStep, Set, Act, Factory, Tail, Labels, Delaying, Areas, Images
  <2>4. CASE Local(t)
    BY <2>4, OneMoves DEF Local, Labels, Delaying
  <2> QED
    BY <1>1, <2>1, <2>2, <2>3, <2>4
<1>5. disturbed'
  <2>1. t # "pc" /\ t # "boot" /\ t \notin {"boot", "pc"}
    OBVIOUS
  <2>2. CASE ReceiveUdp
    BY <2>2 DEF ReceiveUdp, Receive
  <2>3. CASE EepromStep(t)
    BY <1>3, <2>1, <2>3 DEF EepromStep, Write, WriteFails, Read, Noted
  <2>4. CASE ProtocolStep(t)
    BY <2>1, <2>4 DEF ProtocolStep, Set, Act, Factory, Tail, Noted
  <2>5. CASE Local(t)
    BY <2>1, <2>5 DEF Local, Noted
  <2> QED
    BY <1>1, <2>2, <2>3, <2>4, <2>5
<1> QED
  BY <1>3, <1>4, <1>5, PcPlace DEF Moves

LEMMA PcPathStep ==
  ASSUME TypeOK, Paths, PcStep PROVE PcPath(st'["pc"])
<1> DEFINE p == st["pc"]
           q == st'["pc"]
<1>0. PcPath(p)
  BY DEF Paths
<1>1. CASE Write("pc")
  BY <1>0, <1>1, PcAdvances
  DEF Write, Runs, PcPath, PcWrites, PcStops, AtCommand, Images
<1>2. CASE WriteFails("pc")
  BY <1>0, <1>2, PcGoes
  DEF WriteFails, Runs, PcPath, PcWrites, PcStops, AtCommand, Images
<1>3. CASE Read("pc")
  BY <1>0, <1>3, PcAdvances
  DEF Read, Runs, PcPath, PcReads, PcStops, AtCommand, Images
<1>4. CASE ProtocolStep("pc")
  <2>1. CASE Set("pc") \/ Act("pc")
    BY <1>0, <2>1, PcGoes DEF Set, Act, Runs, PcPath, PcStops, AtCommand
  <2>2. CASE Factory("pc")
    BY <1>0, <2>2, PcTransfers DEF Factory, Runs, PcPath, PcReads, PcWrites, PcStops, AtCommand
  <2>3. CASE Tail("pc")
    <3>1. q = Task(p.ret, "idle") /\ p.ret \in {"uart2", "check"}
      BY <1>0, <2>3, PcPlace DEF Tail, Runs, PcPath, AtCommand
    <3> QED
      BY <3>1 DEF Task, PcPath, PcStops, AtCommand
  <2> QED
    BY <1>4, <2>1, <2>2, <2>3 DEF ProtocolStep
<1>5. CASE Wake \/ CheckSave
  <2>1. q.at \in {"uart1", "saveCfg", "sleep"}
    BY <1>5, PcGoes DEF Wake, CheckSave
  <2> QED
    BY <2>1 DEF PcPath, PcStops, AtCommand
<1>6. ASSUME NEW port, NEW next \in {"uart2", "check"}, Serial(port, next) PROVE PcPath(q)
  <2>1. CASE Go("pc", next)
    BY <2>1, PcGoes DEF PcPath, PcStops, AtCommand
  <2>2. CASE Receive("pc", next)
    <3>1. PICK cmd \in Commands : q = Task(cmd, next)
      BY <2>2, PcPlace DEF Receive
    <3>2. cmd \in {"set", "act", "factory"}
      BY ConfigAssumption
    <3> QED
      BY <3>1, <3>2 DEF Task, PcPath, PcStops, AtCommand
  <2> QED
    BY <1>6, <2>1, <2>2 DEF Serial
<1>7. ASSUME NEW at, NEW img \in Images, SaveImage(at, img) PROVE PcPath(q)
  <2>1. CASE img \in save
    BY <1>7, <2>1, PcTransfers DEF SaveImage, PcPath, PcWrites, PcStops, AtCommand, Images
  <2>2. CASE img \notin save
    <3>1. q = Task(AfterSave(img), "idle")
      BY <1>7, <2>2, PcPlace DEF SaveImage, Saved
    <3> QED
      BY <3>1 DEF Task, AfterSave, PcPath, PcStops, AtCommand
  <2> QED
    BY <2>1, <2>2
<1>8. CASE ReadBack
  <2>1. p.area \in Images
    BY <1>0, <1>8 DEF ReadBack, Runs, PcPath
  <2>2. q.at = "read" /\ q.area = p.area /\ q.next = AfterSave(p.area)
    BY <1>8, PcTransfers DEF ReadBack
  <2>3. <<p.area, AfterSave(p.area)>> \in {<<"cfg", "saveMsg">>, <<"msg", "sleep">>}
    BY <2>1 DEF AfterSave, Images
  <2> QED
    BY <2>2, <2>3 DEF PcPath, PcReads, PcStops, AtCommand
<1> QED
  BY <1>1, <1>2, <1>3, <1>4, <1>5, <1>6, <1>7, <1>8 DEF PcStep, TaskPC, EepromStep, Images

\* During the boot the others rest; its last step is the end of a read.
LEMMA BootMoves ==
  ASSUME TypeOK, Paths, BootStep
  PROVE  /\ BootPath(st'["boot"]) /\ st'["pc"] = st["pc"] /\ st["boot"].at # "idle"
         /\ UNCHANGED <<took, save, fSaveStart>>
         /\ st'["boot"].at = "idle" => settled' = Stored /\ rom' = rom
<1> DEFINE b == st["boot"]
           b1 == st'["boot"]
<1>0. BootPath(b)
  BY DEF Paths
<1>1. ASSUME NEW kind, NEW area, NEW next, Transfer("boot", kind, area, next)
      PROVE  b1.at = kind /\ b1.area = area /\ b1.next = next /\ st'["pc"] = st["pc"]
  BY <1>1, PcPlace DEF Transfer, Places
<1>2. ASSUME NEW at, Go("boot", at) PROVE b1.at = at /\ st'["pc"] = st["pc"]
  BY <1>2, PcPlace DEF Go, Arrived, Task
<1>3. ASSUME Advance("boot")
      PROVE  /\ st'["pc"] = st["pc"]
             /\ \/ b1.at = b.at /\ b1.area = b.area /\ b1.next = b.next
                \/ b1.at = b.next
  BY <1>3, PcPlace, BootGoesOn DEF Advance
<1>4. CASE Boot
  <2>1. CASE Load
    BY <1>1, <1>4, <2>1
    DEF Load, Boot, Runs, BootPath, BootReads, history, flags
  <2>2. ASSUME NEW c \in Checks, CheckImage(c[1], c[2], c[3])
        PROVE  /\ BootPath(b1) /\ st'["pc"] = st["pc"] /\ b.at # "idle" /\ b1.at # "idle"
    <3>0. b.at = c[1] /\ c[1] # "idle"
      BY <2>2 DEF CheckImage, Runs, Checks
    <3>1. CASE rom[c[2]][0] # "icon"
      BY <1>1, <2>2, <3>0, <3>1 DEF CheckImage, Checks, BootPath, BootWrites
    <3>2. CASE rom[c[2]][0] = "icon"
      BY <1>2, <2>2, <3>0, <3>2 DEF CheckImage, Checks, BootPath
    <3> QED
      BY <3>1, <3>2
  <2> QED
    BY <1>4, <2>1, <2>2 DEF Boot, history, flags
<1>5. CASE Write("boot")
  BY <1>0, <1>3, <1>5 DEF Write, Runs, BootPath, BootWrites, Noted, flags
<1>6. CASE WriteFails("boot")
  BY <1>0, <1>2, <1>6 DEF WriteFails, Runs, BootPath, BootWrites, flags
<1>7. CASE Read("boot")
  BY <1>0, <1>3, <1>7 DEF Read, Runs, BootPath, BootReads, Noted, flags
<1> QED
  BY <1>4, <1>5, <1>6, <1>7 DEF BootStep, EepromStep

LEMMA AfterReset ==
  PowerLoss => Paths' /\ took' = {} /\ st'["boot"].at # "idle"
<1> SUFFICES ASSUME PowerLoss PROVE Paths' /\ took' = {} /\ st'["boot"].at # "idle"
  OBVIOUS
<1>1. st'["boot"].at = "bootFactory" /\ st'["pc"].at = "sleep"
  BY DEF PowerLoss, Reset, Task, Tasks
<1>2. took' = {}
  BY DEF PowerLoss
<1> QED
  BY <1>1, <1>2 DEF Paths, BootPath, PcPath, PcStops, AtCommand

LEMMA PathsStep ==
  ASSUME TypeOK, Paths, [Next]_vars PROVE Paths'
<1>1. CASE PcStep
  BY <1>1, PcAlone, PcPathStep DEF Paths
<1>2. CASE OtherStep
  BY <1>2, OthersApart DEF Paths
<1>3. CASE BootStep
  BY <1>3, BootMoves DEF Paths
<1>4. CASE UNCHANGED vars
  BY <1>4 DEF vars, history, Paths
<1> QED
  BY <1>1, <1>2, <1>3, <1>4, Actors, AfterReset

-----------------------------------------------------------------------------
(* A setting on its way.                                                   *)

InRam(s) == ram[s[1]][s[2]] = s[3]
InRom(s) == rom[s[1]][s[2]] = s[3]
Safe(s) == InRam(s) /\ InRom(s)
\* A save of its image has been asked for.
Asked(s) == InRam(s) /\ s[1] \in save

\* The settings a factory reset brings back, and how far it has come.
FactorySettings == {<<"cfg", c, rom["factory"][c]>> : c \in Cells}
AtFactory(p) ==
  \/ p.at \in {"factoryWait", "factoryCheck"}
  \/ p.at \in {"write", "read"} /\ p.next \in {"factoryWait", "factoryCheck", "tail"}
BeforeWrite(p) == p.at = "read" /\ p.next = "factoryWait"
InWrite(p) == p.at = "write" /\ p.next = "factoryCheck"
AfterWrite(p) == p.at = "factoryCheck" \/ (p.at = "read" /\ p.next = "tail")
Restored(p) ==
  /\ \A c \in Cells :
       (AtFactory(p) /\ ~BeforeWrite(p)) \/ (BeforeWrite(p) /\ c < p.i)
         => ram["cfg"][c] = rom["factory"][c]
  /\ \A c \in Cells :
       AfterWrite(p) \/ (InWrite(p) /\ c < p.i) => rom["cfg"][c] = rom["factory"][c]

\* TaskPC has written an image, or had no need to, and reads it back.
Reading(p) == p.at = "wait" \/ (p.at = "read" /\ p.next \in {"saveMsg", "sleep"})

\* What has become of a setting when TaskPC is at p, and every write so far
\* has gone through.
Kept(s, p) ==
  /\ p.at \notin {"uart1", "set", "act", "factory"}
  /\ AtFactory(p) => s \in FactorySettings
  /\ p.at \in {"tail", "saveCfg"} => Safe(s) \/ Asked(s)
  /\ p.at \in {"uart2", "check"} => Safe(s) \/ (Asked(s) /\ fSaveStart)
  /\ p.at = "write" /\ p.next = "wait" =>
       \/ Safe(s)
       \/ InRam(s) /\ s[1] = p.area /\ s[2] >= p.i
       \/ p.area = "cfg" /\ s[1] = "msg" /\ Asked(s)
  /\ p.at = "saveMsg" \/ Reading(p) =>
       Safe(s) \/ ((p.at = "saveMsg" \/ p.area = "cfg") /\ s[1] = "msg" /\ Asked(s))
  /\ p.at = "sleep" => Safe(s)

\* The two images of a structure are the same, in whole or up to cell i.
Same(img) == \A c \in Cells : rom[img][c] = ram[img][c]
SameUpTo(img, i) == \A c \in Cells : c < i => rom[img][c] = ram[img][c]

\* What has become of the image of a setting, writes given up or not.
Shown(s, p) ==
  LET img == s[1] IN
  /\ p.at \notin {"uart1", "set", "act", "factory"}
  /\ AtFactory(p) => img = "cfg"
  /\ p.at = "read" /\ p.next = "tail" => SameUpTo("cfg", p.i)
  /\ p.at \in {"tail", "saveCfg"} => Same(img) \/ img \in save
  /\ p.at \in {"uart2", "check"} => Same(img) \/ (img \in save /\ fSaveStart)
  /\ img = "cfg" =>
       /\ p.at \in {"saveMsg", "sleep"} => Same("cfg")
       /\ p.at \in {"wait", "write"} /\ p.next = "wait" /\ p.area = "msg" => Same("cfg")
       /\ p.at = "wait" /\ p.area = "msg" => Same("cfg")
       /\ p.at = "read" /\ p.next = "saveMsg" => SameUpTo("cfg", p.i)
       /\ p.at = "read" /\ p.next = "sleep" => Same("cfg")
  /\ img = "msg" =>
       /\ p.at = "saveMsg" => Same("msg") \/ img \in save
       /\ p.at = "write" /\ p.next = "wait" /\ p.area = "cfg" => Same("msg") \/ img \in save
       /\ p.at = "wait" /\ p.area = "cfg" => Same("msg") \/ img \in save
       /\ p.at = "read" /\ p.next = "saveMsg" => Same("msg") \/ img \in save
       /\ p.at = "read" /\ p.next = "sleep" => SameUpTo("msg", p.i)
       /\ p.at = "sleep" => Same("msg")

\* Nothing has been stored since the last command came, or TaskPC woke.
Fresh(p) ==
  p.at \in {"set", "factory"} \/ (p.at = "read" /\ p.area = "factory") => Stored = settled

\* The three promises of an undisturbed loop, each with what it rests on.
EveryCell == Undisturbed => Fresh(st["pc"])
EverySetting ==
  Undisturbed /\ ~failed => Restored(st["pc"]) /\ \A s \in took : Kept(s, st["pc"])
EveryImage == Undisturbed => \A s \in took : Shown(s, st["pc"])

\* A loop of TaskPC that is undisturbed after a step was so before it, but for
\* its beginning and the end of the boot.
Loop == EveryCell /\ EverySetting /\ EveryImage /\ OldOrNew
LInv == TypeOK /\ Paths /\ Loop

\* Steps after which nothing is promised, or promised anew.
LEMMA Unpromised ==
  ASSUME TypeOK, Paths, OtherStep \/ BootStep \/ PowerLoss PROVE Loop'
<1>1. CASE OtherStep
  BY <1>1, OthersApart DEF Loop, EveryCell, EverySetting, EveryImage, OldOrNew, Undisturbed
<1>2. CASE PowerLoss
  BY <1>2, AfterReset DEF Loop, EveryCell, EverySetting, EveryImage, OldOrNew, Undisturbed
<1>3. CASE BootStep
  <2>1. CASE st'["boot"].at # "idle"
    BY <2>1 DEF Loop, EveryCell, EverySetting, EveryImage, OldOrNew, Undisturbed
  <2>2. CASE st'["boot"].at = "idle"
    <3>1. took' = {} /\ st'["pc"].at = "sleep" /\ settled' = Stored /\ rom' = rom
      BY <1>3, <2>2, BootMoves DEF Paths
    <3>2. OldOrNew'
      BY <3>1 DEF OldOrNew, Stored
    <3>3. EveryCell' /\ EveryImage'
      BY <3>1 DEF EveryCell, EveryImage, Fresh
    <3>4. Restored(st["pc"])'
      BY <3>1 DEF Restored, AtFactory, BeforeWrite, InWrite, AfterWrite
    <3> QED
      BY <3>1, <3>2, <3>3, <3>4 DEF Loop, EverySetting
  <2> QED
    BY <2>1, <2>2
<1> QED
  BY <1>1, <1>2, <1>3

\* What the steps of TaskPC start from.
LEMMA PcBefore ==
  ASSUME LInv, PcStep, NEW t \in {"pc"}
  PROVE  /\ StoreType /\ PcPath(st[t]) /\ st["boot"].at = "idle"
         /\ st'["boot"] = st["boot"]
         /\ took \subseteq Images \X Cells \X CellValues
  BY PcAlone, TypeParts DEF LInv, Paths, HistoryType

\* TaskPC wakes, or a command comes: a new beginning.
LEMMA Beginning ==
  ASSUME LInv, took' = {}, settled' = Stored, rom' = rom,
         st'["pc"].at \in {"uart1", "set", "act", "factory"}
  PROVE  Loop'
<1>1. OldOrNew'
  BY DEF OldOrNew, Stored
<1>2. Fresh(st["pc"])'
  BY DEF Fresh, Stored
<1>3. Restored(st["pc"])'
  BY DEF Restored, AtFactory, BeforeWrite, InWrite, AfterWrite
<1> QED
  BY <1>1, <1>2, <1>3 DEF Loop, EveryCell, EverySetting, EveryImage

LEMMA WakeLoop == ASSUME LInv, Wake PROVE Loop'
<1>1. st'["pc"].at = "uart1"
  BY PcGoes DEF LInv, Wake
<1> QED
  BY <1>1, Beginning DEF Wake, store

LEMMA ReceiveLoop == ASSUME LInv, NEW ret, Receive("pc", ret) PROVE Loop'
<1>1. PICK cmd \in Commands : st' = [st EXCEPT !["pc"] = Task(cmd, ret)]
  BY DEF Receive
<1>2. st'["pc"].at \in {"set", "act", "factory"}
  BY <1>1, PcPlace, ConfigAssumption DEF LInv, Task
<1> QED
  BY <1>2, Beginning DEF Receive, store

\* A step that goes on without touching RAM or EEPROM.
LEMMA GoesOn ==
  ASSUME LInv, PcStep, UNCHANGED <<store, took, settled>>, disturbed => disturbed',
         failed => failed',
         Undisturbed /\ Fresh(st["pc"]) => Fresh(st["pc"])',
         Undisturbed /\ ~failed' /\ Restored(st["pc"]) => Restored(st["pc"])',
         \A s \in took : Undisturbed /\ ~failed' /\ Kept(s, st["pc"]) => Kept(s, st["pc"])',
         \A s \in took : Undisturbed /\ Shown(s, st["pc"]) => Shown(s, st["pc"])'
  PROVE  Loop'
<1>1. TypeOK /\ Paths /\ EveryCell /\ EverySetting /\ EveryImage /\ OldOrNew
  BY DEF LInv, Loop
<1>2. Undisturbed' => Undisturbed
  <2>1. st'["boot"] = st["boot"]
    BY <1>1, PcAlone
  <2> QED
    BY <2>1 DEF Undisturbed
<1>3. UNCHANGED <<ram, rom, took, settled>>
  BY DEF store
<1>4. EveryCell'
  BY <1>1, <1>2 DEF EveryCell
<1>5. EverySetting'
  BY <1>1, <1>2, <1>3 DEF EverySetting
<1>6. EveryImage'
  BY <1>1, <1>2, <1>3 DEF EveryImage
<1>7. OldOrNew'
  BY <1>1, <1>2, <1>3 DEF OldOrNew
<1> QED
  BY <1>4, <1>5, <1>6, <1>7 DEF Loop

LEMMA PcNoted == ASSUME Noted("pc") PROVE (disturbed => disturbed') /\ (failed => failed')
  BY DEF Noted

LEMMA SerialLoop ==
  ASSUME LInv, Serial("uart1", "uart2") \/ Serial("uart2", "check")
  PROVE  Loop'
<1>1. CASE \E next : Receive("pc", next)
  BY <1>1, ReceiveLoop
<1>2. CASE ~\E next : Receive("pc", next)
  <2>1. /\ \/ st["pc"].at = "uart1" /\ Go("pc", "uart2")
           \/ st["pc"].at = "uart2" /\ Go("pc", "check")
        /\ Noted("pc") /\ UNCHANGED <<store, flags>>
    BY <1>2 DEF Serial, Runs
  <2>2. \/ st["pc"].at = "uart1" /\ st'["pc"].at = "uart2"
        \/ st["pc"].at = "uart2" /\ st'["pc"].at = "check"
    BY <2>1, PcGoes DEF LInv
  <2>3. PcStep /\ UNCHANGED <<took, settled>>
    BY <2>1 DEF PcStep, TaskPC, Noted
  <2>4. Fresh(st["pc"])' /\ Restored(st["pc"])'
    BY <2>2 DEF Fresh, Restored, AtFactory, BeforeWrite, InWrite, AfterWrite
  <2>5. \A s \in took : Kept(s, st["pc"]) => Kept(s, st["pc"])'
    BY <2>1, <2>2
    DEF Kept, AtFactory, Reading, Safe, Asked, InRam, InRom, store, flags
  <2>6. \A s \in took : Shown(s, st["pc"]) => Shown(s, st["pc"])'
    BY <2>1, <2>2 DEF Shown, AtFactory, Same, SameUpTo, store, flags
  <2> QED
    BY <2>1, <2>3, <2>4, <2>5, <2>6, PcNoted, GoesOn
<1> QED
  BY <1>1, <1>2

LEMMA CheckLoop ==
  ASSUME LInv, CheckSave PROVE Loop'
<1>1. /\ st["pc"].at = "check"
      /\ st'["pc"].at = IF fSaveStart THEN "saveCfg" ELSE "sleep"
      /\ UNCHANGED <<ram, rom, save>>
  BY PcGoes DEF LInv, CheckSave, Runs, store
<1>2. PcStep /\ UNCHANGED <<store, took, settled>> /\ Noted("pc")
  BY DEF PcStep, TaskPC, Noted, CheckSave
<1>3. Fresh(st["pc"])' /\ Restored(st["pc"])'
  BY <1>1 DEF Fresh, Restored, AtFactory, BeforeWrite, InWrite, AfterWrite
<1>4. \A s \in took : Kept(s, st["pc"]) => Kept(s, st["pc"])'
  BY <1>1 DEF Kept, AtFactory, Reading, Safe, Asked, InRam, InRom
<1>5. \A s \in took : Shown(s, st["pc"]) => Shown(s, st["pc"])'
  <2> SUFFICES ASSUME NEW s \in took, Shown(s, st["pc"]) PROVE Shown(s, st["pc"])'
    OBVIOUS
  <2>1. Same(s[1]) \/ (s[1] \in save /\ fSaveStart)
    BY <1>1 DEF Shown
  <2>2. Same(s[1])' <=> Same(s[1])
    BY <1>1 DEF Same
  <2> QED
    BY <1>1, <2>1, <2>2 DEF Shown, AtFactory
<1> QED
  BY <1>2, <1>3, <1>4, <1>5, PcNoted, GoesOn

LEMMA ActLoop == ASSUME LInv, Act("pc") PROVE Loop'
<1>1. st["pc"].at = "act" /\ st'["pc"].at = "tail"
  BY PcGoes DEF LInv, Act, Runs
<1>2. PcStep /\ UNCHANGED <<store, took, settled>> /\ Noted("pc")
  BY DEF PcStep, ProtocolStep, Noted, Act
<1>3. Fresh(st["pc"])' /\ Restored(st["pc"])'
  BY <1>1 DEF Fresh, Restored, AtFactory, BeforeWrite, InWrite, AfterWrite
<1>4. \A s \in took : ~Kept(s, st["pc"]) /\ ~Shown(s, st["pc"])
  BY <1>1 DEF Kept, Shown
<1> QED
  BY <1>2, <1>3, <1>4, PcNoted, GoesOn

LEMMA TailLoop == ASSUME LInv, Tail("pc") PROVE Loop'
<1>1. st["pc"].at = "tail" /\ st'["pc"].at \in {"uart2", "check"}
  <2>1. st["pc"].at = "tail" /\ st["pc"].ret \in {"uart2", "check"}
    BY DEF LInv, Paths, PcPath, AtCommand, Tail, Runs
  <2> QED
    BY <2>1, PcPlace DEF LInv, Tail, Task
<1>2. PcStep /\ UNCHANGED <<store, took, settled>> /\ Noted("pc")
  BY DEF PcStep, ProtocolStep, Noted, Tail
<1>3. UNCHANGED <<ram, rom, save>> /\ fSaveStart' = (fSaveStart \/ save # {})
  BY DEF Tail, StartIfAsked, store
<1>4. Fresh(st["pc"])' /\ Restored(st["pc"])'
  BY <1>1 DEF Fresh, Restored, AtFactory, BeforeWrite, InWrite, AfterWrite
<1>5. \A s \in took : Kept(s, st["pc"]) => Kept(s, st["pc"])'
  BY <1>1, <1>3 DEF Kept, AtFactory, Reading, Safe, Asked, InRam, InRom
<1>6. \A s \in took : Shown(s, st["pc"]) => Shown(s, st["pc"])'
  <2> SUFFICES ASSUME NEW s \in took, Shown(s, st["pc"]) PROVE Shown(s, st["pc"])'
    OBVIOUS
  <2>1. Same(s[1]) \/ s[1] \in save
    BY <1>1 DEF Shown
  <2>2. Same(s[1])' <=> Same(s[1])
    BY <1>3 DEF Same
  <2>3. Same(s[1])' \/ (s[1] \in save' /\ fSaveStart')
    BY <1>3, <2>1, <2>2
  <2> QED
    BY <1>1, <2>3 DEF Shown, AtFactory
<1> QED
  BY <1>2, <1>4, <1>5, <1>6, PcNoted, GoesOn

\* What an image is to be saved or not.
LEMMA SaveCfgLoop == ASSUME LInv, SaveImage("saveCfg", "cfg") PROVE Loop'
<1>1. st["pc"].at = "saveCfg" /\ save' = save \ {"cfg"} /\ UNCHANGED <<ram, rom>>
  BY DEF SaveImage, Runs, store
<1>2. PcStep /\ UNCHANGED <<store, took, settled>> /\ Noted("pc")
  BY DEF PcStep, TaskPC, Noted, SaveImage
<1>3. took \subseteq Images \X Cells \X CellValues
  BY TypeParts DEF LInv, HistoryType
<1>4. \/ /\ "cfg" \in save
         /\ st'["pc"].at = "write" /\ st'["pc"].area = "cfg" /\ st'["pc"].i = 0
         /\ st'["pc"].next = "wait"
      \/ "cfg" \notin save /\ st'["pc"].at = "saveMsg"
  BY PcTransfers, PcPlace DEF LInv, SaveImage, Saved, AfterSave, Task
<1>5. Fresh(st["pc"])' /\ Restored(st["pc"])'
  BY <1>4 DEF Fresh, Restored, AtFactory, BeforeWrite, InWrite, AfterWrite
<1>6. \A s \in took : Kept(s, st["pc"]) => Kept(s, st["pc"])'
  <2> SUFFICES ASSUME NEW s \in took, Kept(s, st["pc"]) PROVE Kept(s, st["pc"])'
    OBVIOUS
  <2>1. s[1] \in Images /\ s[2] >= 0
    BY <1>3, ConfigAssumption DEF Cells
  <2>2. Safe(s) \/ Asked(s)
    BY <1>1 DEF Kept
  <2> QED
    BY <1>1, <1>4, <2>1, <2>2
    DEF Kept, AtFactory, Reading, Safe, Asked, InRam, InRom, Images
<1>7. \A s \in took : Shown(s, st["pc"]) => Shown(s, st["pc"])'
  <2> SUFFICES ASSUME NEW s \in took, Shown(s, st["pc"]) PROVE Shown(s, st["pc"])'
    OBVIOUS
  <2>1. s[1] \in Images
    BY <1>3
  <2>2. Same(s[1]) \/ s[1] \in save
    BY <1>1 DEF Shown
  <2>3. Same(s[1])' <=> Same(s[1])
    BY <1>1 DEF Same
  <2> QED
    BY <1>1, <1>4, <2>1, <2>2, <2>3 DEF Shown, AtFactory, Images
<1> QED
  BY <1>2, <1>5, <1>6, <1>7, PcNoted, GoesOn

LEMMA SaveMsgLoop == ASSUME LInv, SaveImage("saveMsg", "msg") PROVE Loop'
<1>1. st["pc"].at = "saveMsg" /\ save' = save \ {"msg"} /\ UNCHANGED <<ram, rom>>
  BY DEF SaveImage, Runs, store
<1>2. PcStep /\ UNCHANGED <<store, took, settled>> /\ Noted("pc")
  BY DEF PcStep, TaskPC, Noted, SaveImage
<1>3. took \subseteq Images \X Cells \X CellValues
  BY TypeParts DEF LInv, HistoryType
<1>4. \/ /\ "msg" \in save
         /\ st'["pc"].at = "write" /\ st'["pc"].area = "msg" /\ st'["pc"].i = 0
         /\ st'["pc"].next = "wait"
      \/ "msg" \notin save /\ st'["pc"].at = "sleep"
  BY PcTransfers, PcPlace DEF LInv, SaveImage, Saved, AfterSave, Task
<1>5. Fresh(st["pc"])' /\ Restored(st["pc"])'
  BY <1>4 DEF Fresh, Restored, AtFactory, BeforeWrite, InWrite, AfterWrite
<1>6. \A s \in took : Kept(s, st["pc"]) => Kept(s, st["pc"])'
  <2> SUFFICES ASSUME NEW s \in took, Kept(s, st["pc"]) PROVE Kept(s, st["pc"])'
    OBVIOUS
  <2>1. s[1] \in Images /\ s[2] >= 0
    BY <1>3, ConfigAssumption DEF Cells
  <2>2. Safe(s) \/ (s[1] = "msg" /\ Asked(s))
    BY <1>1 DEF Kept
  <2> QED
    BY <1>1, <1>4, <2>1, <2>2
    DEF Kept, AtFactory, Reading, Safe, Asked, InRam, InRom, Images
<1>7. \A s \in took : Shown(s, st["pc"]) => Shown(s, st["pc"])'
  <2> SUFFICES ASSUME NEW s \in took, Shown(s, st["pc"]) PROVE Shown(s, st["pc"])'
    OBVIOUS
  <2>1. s[1] \in Images
    BY <1>3
  <2>2. /\ s[1] = "cfg" => Same("cfg")
        /\ s[1] = "msg" => Same("msg") \/ s[1] \in save
    BY <1>1 DEF Shown
  <2>3. (Same("cfg")' <=> Same("cfg")) /\ (Same("msg")' <=> Same("msg"))
    BY <1>1 DEF Same
  <2> QED
    BY <1>1, <1>4, <2>1, <2>2, <2>3 DEF Shown, AtFactory, Images
<1> QED
  BY <1>2, <1>5, <1>6, <1>7, PcNoted, GoesOn

LEMMA ReadBackLoop == ASSUME LInv, ReadBack PROVE Loop'
<1>1. /\ st["pc"].at = "wait" /\ UNCHANGED <<ram, rom, save>>
      /\ st["pc"].area \in Images
  BY DEF LInv, Paths, PcPath, ReadBack, Runs, store, flags
<1>2. PcStep /\ UNCHANGED <<store, took, settled>> /\ Noted("pc")
  BY DEF PcStep, TaskPC, Noted, ReadBack
<1>3. took \subseteq Images \X Cells \X CellValues
  BY TypeParts DEF LInv, HistoryType
<1>4. /\ st'["pc"].at = "read" /\ st'["pc"].area = st["pc"].area /\ st'["pc"].i = 0
      /\ st'["pc"].next = AfterSave(st["pc"].area)
  BY PcTransfers DEF LInv, ReadBack
<1>5. \/ st["pc"].area = "cfg" /\ st'["pc"].area = "cfg" /\ st'["pc"].next = "saveMsg"
      \/ st["pc"].area = "msg" /\ st'["pc"].area = "msg" /\ st'["pc"].next = "sleep"
  BY <1>1, <1>4 DEF AfterSave, Images
<1>6. Fresh(st["pc"])' /\ Restored(st["pc"])'
  BY <1>4, <1>5 DEF Fresh, Restored, AtFactory, BeforeWrite, InWrite, AfterWrite
<1>7. \A s \in took : Kept(s, st["pc"]) => Kept(s, st["pc"])'
  BY <1>1, <1>4, <1>5 DEF Kept, AtFactory, Reading, Safe, Asked, InRam, InRom
<1>8. \A s \in took : Shown(s, st["pc"]) => Shown(s, st["pc"])'
  <2> SUFFICES ASSUME NEW s \in took, Shown(s, st["pc"]) PROVE Shown(s, st["pc"])'
    OBVIOUS
  <2>1. SameUpTo("cfg", 0)' /\ SameUpTo("msg", 0)'
    BY ConfigAssumption DEF SameUpTo, Cells
  <2>2. /\ s[1] = "cfg" /\ st["pc"].area = "msg" => Same("cfg")
        /\ s[1] = "msg" /\ st["pc"].area = "cfg" => Same("msg") \/ s[1] \in save
    BY <1>1 DEF Shown
  <2>3. (Same("cfg")' <=> Same("cfg")) /\ (Same("msg")' <=> Same("msg"))
    BY <1>1 DEF Same
  <2> QED
    BY <1>1, <1>4, <1>5, <2>1, <2>2, <2>3 DEF Shown, AtFactory
<1> QED
  BY <1>2, <1>6, <1>7, <1>8, PcNoted, GoesOn

LEMMA WriteFailsLoop == ASSUME LInv, WriteFails("pc") PROVE Loop'
<1>1. /\ st["pc"].at = "write" /\ UNCHANGED <<ram, rom, save>>
      /\ failed' /\ (disturbed => disturbed')
      /\ <<st["pc"].area, st["pc"].next>> \in PcWrites
  BY DEF LInv, Paths, PcPath, PcStops, WriteFails, Runs, store, flags
<1>2. PcStep /\ UNCHANGED <<store, took, settled>>
  BY DEF PcStep, EepromStep, WriteFails
<1>3. st'["pc"].at = st["pc"].next /\ st'["pc"].area = st["pc"].area
  BY PcGoes DEF LInv, WriteFails
<1>4. \/ st["pc"].area = "cfg" /\ st'["pc"].area = "cfg" /\ st["pc"].next = "factoryCheck"
      \/ st["pc"].area = "cfg" /\ st'["pc"].area = "cfg" /\ st["pc"].next = "wait"
      \/ st["pc"].area = "msg" /\ st'["pc"].area = "msg" /\ st["pc"].next = "wait"
  BY <1>1, <1>3 DEF PcWrites
<1>5. Fresh(st["pc"])'
  BY <1>3, <1>4 DEF Fresh
<1>6. \A s \in took : Shown(s, st["pc"]) => Shown(s, st["pc"])'
  <2> SUFFICES ASSUME NEW s \in took, Shown(s, st["pc"]) PROVE Shown(s, st["pc"])'
    OBVIOUS
  <2>1. (Same("cfg")' <=> Same("cfg")) /\ (Same("msg")' <=> Same("msg"))
    BY <1>1 DEF Same
  <2> QED
    BY <1>1, <1>3, <1>4, <2>1 DEF Shown, AtFactory
<1> QED
  BY <1>1, <1>2, <1>5, <1>6, GoesOn

\* The steps that change RAM, the EEPROM or the settings followed.
LEMMA StillUndisturbed ==
  ASSUME LInv, PcStep, disturbed => disturbed' PROVE Undisturbed' => Undisturbed
<1>1. st'["boot"] = st["boot"]
  BY PcAlone DEF LInv
<1> QED
  BY <1>1 DEF Undisturbed

LEMMA SetLoop == ASSUME LInv, Set("pc") PROVE Loop'
<1>1. PICK a \in Settable, v \in NewValues \union {"default"} :
        /\ ram' = [ram EXCEPT ![a[1]][a[2]] = v]
        /\ save' = save \union {a[1]}
        /\ took' = {<<a[1], a[2], v>>}
  BY DEF Set
<1>2. st["pc"].at = "set" /\ st'["pc"].at = "tail"
  BY PcGoes DEF LInv, Set, Runs
<1>3. Undisturbed' => Undisturbed
  BY StillUndisturbed DEF Set, PcStep, ProtocolStep
<1>4. rom' = rom /\ settled' = settled
  BY DEF Set
<1>5. Fresh(st["pc"])' /\ Restored(st["pc"])'
  BY <1>2 DEF Fresh, Restored, AtFactory, BeforeWrite, InWrite, AfterWrite
<1>6. ram'[a[1]][a[2]] = v
  BY <1>1, TypeParts, ConstantTypes DEF LInv, StoreType, Structures
<1>7. \A s \in took' : s[1] = a[1] /\ s[2] = a[2] /\ s[3] = v
  BY <1>1
<1>8. \A s \in took' : Kept(s, st["pc"])' /\ Shown(s, st["pc"])'
  BY <1>1, <1>2, <1>6, <1>7 DEF Kept, Shown, AtFactory, Reading, Asked, InRam
<1>9. OldOrNew'
  <2>1. Undisturbed => Stored = settled
    BY <1>2 DEF LInv, Loop, EveryCell, Fresh
  <2>2. Undisturbed => \A img \in Images, c \in Cells : rom[img][c] = settled[img][c]
    BY <2>1 DEF Stored
  <2> QED
    BY <1>3, <1>4, <2>2 DEF OldOrNew
<1> QED
  BY <1>5, <1>8, <1>9 DEF Loop, EveryCell, EverySetting, EveryImage

\* The three transfers of a factory reset begin.
LEMMA FactoryLoop == ASSUME LInv, Factory("pc") PROVE Loop'
<1> DEFINE p == st["pc"]
           q == st'["pc"]
<1>1. /\ took' = FactorySettings /\ UNCHANGED <<ram, rom, settled>>
      /\ Undisturbed' => Undisturbed
      /\ ~failed' => ~failed
  BY StillUndisturbed DEF Factory, PcStep, ProtocolStep, FactorySettings, store
<1>2. \/ /\ p.at = "factory" /\ q.at = "read" /\ q.area = "factory" /\ q.i = 0
         /\ q.next = "factoryWait"
      \/ /\ p.at = "factoryWait" /\ q.at = "write" /\ q.area = "cfg" /\ q.i = 0
         /\ q.next = "factoryCheck"
      \/ /\ p.at = "factoryCheck" /\ q.at = "read" /\ q.area = "cfg" /\ q.i = 0
         /\ q.next = "tail"
  BY PcTransfers DEF LInv, Factory, Runs
<1>3. OldOrNew' /\ EveryCell'
  <2>1. Undisturbed /\ p.at = "factory" => Stored = settled
    BY DEF LInv, Loop, EveryCell, Fresh
  <2>2. Stored' = Stored
    BY <1>1 DEF Stored
  <2> QED
    BY <1>1, <1>2, <2>1, <2>2 DEF LInv, Loop, OldOrNew, EveryCell, Fresh
<1>4. ASSUME Undisturbed', ~failed' PROVE Restored(st["pc"])'
  <2>1. \A c \in Cells : ~(c < 0)
    BY ConfigAssumption DEF Cells
  <2>2. Restored(p)
    BY <1>1, <1>4 DEF LInv, Loop, EverySetting
  <2> QED
    BY <1>1, <1>2, <2>1, <2>2 DEF Restored, AtFactory, BeforeWrite, InWrite, AfterWrite
<1>5. \A s \in took' : s[1] = "cfg"
  BY <1>1 DEF FactorySettings
<1>6. FactorySettings' = FactorySettings
  BY <1>1 DEF FactorySettings
<1>7. \A s \in took' : Kept(s, st["pc"])'
  BY <1>1, <1>2, <1>6 DEF Kept, AtFactory, Reading
<1>8. \A s \in took' : Shown(s, st["pc"])'
  <2>1. SameUpTo("cfg", 0)'
    BY ConfigAssumption DEF SameUpTo, Cells
  <2> QED
    BY <1>2, <1>5, <2>1 DEF Shown, AtFactory
<1> QED
  BY <1>3, <1>4, <1>7, <1>8 DEF Loop, EverySetting, EveryImage

\* The cell a transfer is at.
LEMMA WrittenCell ==
  ASSUME LInv, WriteCell("pc"), st["pc"].area \in Images
  PROVE  \A area \in Areas, c \in Cells :
           rom'[area][c] = IF area = st["pc"].area /\ c = st["pc"].i
                           THEN ram[area][c] ELSE rom[area][c]
<1>1. StoreType /\ st["pc"].area \in Areas /\ st["pc"].i \in Cells
      /\ RamOf(st["pc"].area) = st["pc"].area
  BY TypeParts, PcPlace DEF LInv, RamOf, Images
<1> QED
  BY <1>1 DEF WriteCell, StoreType, EepromAreas

LEMMA ReadInCell ==
  ASSUME LInv, ReadCell("pc")
  PROVE  \A img \in Images, c \in Cells :
           ram'[img][c] = IF img = RamOf(st["pc"].area) /\ c = st["pc"].i
                          THEN rom[st["pc"].area][c] ELSE ram[img][c]
<1>1. StoreType /\ st["pc"].i \in Cells /\ RamOf(st["pc"].area) \in Images
  BY TypeParts, PcPlace, RamOfType DEF LInv
<1> QED
  BY <1>1 DEF ReadCell, StoreType, Structures

LEMMA WriteLoop == ASSUME LInv, Write("pc") PROVE Loop'
<1> DEFINE p == st["pc"]
           q == st'["pc"]
<1>1. /\ p.at = "write" /\ UNCHANGED <<ram, save, fSaveStart, took, settled, failed>>
      /\ Undisturbed' => Undisturbed
      /\ <<p.area, p.next>> \in PcWrites
  BY StillUndisturbed
  DEF LInv, Paths, PcPath, PcStops, Write, Runs, flags, Noted, PcStep, EepromStep
<1>2. p.area \in Images /\ p.i \in Nat /\ N \in Nat /\ Cells = 0..N
      /\ took \subseteq Images \X Cells \X CellValues
  BY <1>1, PcPlace, TypeParts DEF LInv, PcWrites, Images, HistoryType, Cells
<1>3. \A area \in Areas, c \in Cells :
        rom'[area][c] = IF area = p.area /\ c = p.i THEN ram[area][c] ELSE rom[area][c]
  BY <1>2, WrittenCell DEF Write
<1>4. /\ q.area = p.area
      /\ \/ q.at = "write" /\ q.next = p.next /\ q.i = p.i + 1 /\ p.i < N
         \/ q.at = p.next /\ p.i = N
  BY <1>1, PcAdvances DEF LInv, Write
<1>5. \A c \in Cells : rom'["factory"][c] = rom["factory"][c]
  BY <1>2, <1>3 DEF Areas, Images
<1>6. OldOrNew'
  BY <1>1, <1>3 DEF LInv, Loop, OldOrNew, Areas
<1>7. Fresh(st["pc"])'
  BY <1>1, <1>4 DEF Fresh, PcWrites
<1>8. ASSUME Undisturbed', ~failed' PROVE Restored(st["pc"])'
  <2>0. Restored(p)
    BY <1>1, <1>8 DEF LInv, Loop, EverySetting
  <2>1. CASE p.next = "factoryCheck"
    <3>1. p.area = "cfg"
      BY <1>1, <2>1 DEF PcWrites
    <3>2. \A c \in Cells : ram["cfg"][c] = rom["factory"][c]
      BY <1>1, <2>0, <2>1 DEF Restored, AtFactory, BeforeWrite
    <3>3. \A c \in Cells : c < p.i => rom["cfg"][c] = rom["factory"][c]
      BY <1>1, <2>0, <2>1 DEF Restored, InWrite
    <3>4. \A c \in Cells : c <= p.i => rom'["cfg"][c] = rom'["factory"][c]
      BY <1>2, <1>3, <1>5, <3>1, <3>2, <3>3 DEF Areas, Images
    <3>5. \A c \in Cells : ram'["cfg"][c] = rom'["factory"][c]
      BY <1>1, <1>5, <3>2
    <3>6. CASE q.at = "write" /\ q.next = "factoryCheck" /\ q.i = p.i + 1
      <4>1. \A c \in Cells : c < q.i => c <= p.i
        BY <1>2, <3>6
      <4> QED
        BY <3>4, <3>5, <3>6, <4>1 DEF Restored, AfterWrite, InWrite
    <3>7. CASE q.at = "factoryCheck" /\ p.i = N
      <4>1. \A c \in Cells : c <= p.i
        BY <1>2, <3>7
      <4> QED
        BY <3>4, <3>5, <3>7, <4>1 DEF Restored, AfterWrite, InWrite
    <3> QED
      BY <1>4, <2>1, <3>6, <3>7
  <2>2. CASE p.next = "wait"
    BY <1>4, <2>2 DEF Restored, AtFactory, BeforeWrite, InWrite, AfterWrite
  <2> QED
    BY <1>1, <2>1, <2>2 DEF PcWrites
<1>9. ASSUME NEW s \in took, Kept(s, p) PROVE Kept(s, st["pc"])'
  <2>1. CASE p.next = "factoryCheck"
    <3>1. s \in FactorySettings
      BY <1>1, <1>9, <2>1 DEF Kept, AtFactory
    <3>2. FactorySettings' = FactorySettings
      BY <1>5 DEF FactorySettings
    <3> QED
      BY <1>4, <2>1, <3>1, <3>2 DEF Kept, AtFactory, Reading
  <2>2. CASE p.next = "wait"
    <3>0. s[1] \in Images /\ s[2] \in Cells
      BY <1>2
    <3>1. \/ Safe(s)
          \/ InRam(s) /\ s[1] = p.area /\ s[2] >= p.i
          \/ p.area = "cfg" /\ s[1] = "msg" /\ Asked(s)
      BY <1>1, <1>9, <2>2 DEF Kept
    <3>2. InRam(s)' <=> InRam(s)
      BY <1>1 DEF InRam
    <3>3. rom'[s[1]][s[2]] = IF s[1] = p.area /\ s[2] = p.i
                             THEN ram[s[1]][s[2]] ELSE rom[s[1]][s[2]]
      BY <1>3, <3>0 DEF Areas
    <3>4. \/ Safe(s)'
          \/ InRam(s)' /\ s[1] = p.area /\ s[2] > p.i
          \/ p.area = "cfg" /\ s[1] = "msg" /\ Asked(s)'
      <4>1. CASE Safe(s)
        BY <3>2, <3>3, <4>1 DEF Safe, InRam, InRom
      <4>2. CASE InRam(s) /\ s[1] = p.area /\ s[2] = p.i
        BY <3>2, <3>3, <4>2 DEF Safe, InRam, InRom
      <4>3. s[2] \in Nat
        BY <1>2, <3>0
      <4> QED
        BY <1>1, <1>2, <3>1, <3>2, <4>1, <4>2, <4>3 DEF Asked
    <3>5. CASE q.at = "write" /\ q.next = "wait" /\ q.i = p.i + 1
      <4>1. s[2] > p.i => s[2] >= q.i
        BY <1>2, <3>0, <3>5
      <4> QED
        BY <1>4, <3>4, <3>5, <4>1 DEF Kept, AtFactory, Reading
    <3>6. CASE q.at = "wait" /\ p.i = N
      <4>1. ~(s[2] > p.i)
        BY <1>2, <3>0, <3>6
      <4> QED
        BY <1>4, <3>4, <3>6, <4>1 DEF Kept, AtFactory, Reading
    <3> QED
      BY <1>4, <2>2, <3>5, <3>6
  <2> QED
    BY <1>1, <2>1, <2>2 DEF PcWrites
<1>10. ASSUME NEW s \in took, Shown(s, p) PROVE Shown(s, st["pc"])'
  <2>1. CASE p.next = "factoryCheck"
    BY <1>1, <1>4, <1>10, <2>1 DEF Shown, AtFactory
  <2>2. CASE p.next = "wait"
    <3>1. p.area = "msg" /\ Same("cfg") => Same("cfg")'
      BY <1>1, <1>3 DEF Same, Areas, Images
    <3>2. p.area = "cfg" /\ Same("msg") => Same("msg")'
      BY <1>1, <1>3 DEF Same, Areas, Images
    <3> QED
      BY <1>1, <1>4, <1>10, <2>2, <3>1, <3>2 DEF Shown, AtFactory, PcWrites
  <2> QED
    BY <1>1, <2>1, <2>2 DEF PcWrites
<1> QED
  BY <1>1, <1>6, <1>7, <1>8, <1>9, <1>10 DEF LInv, Loop, EveryCell, EverySetting, EveryImage

-----------------------------------------------------------------------------
(* What is read: the factory's settings, or what was written.              *)

\* How a read goes on.
LEMMA ReadGoesOn ==
  ASSUME LInv, Read("pc")
  PROVE  LET p == st["pc"]
             q == st'["pc"]
         IN  /\ p.at = "read" /\ UNCHANGED <<rom, save, fSaveStart, took, settled, failed>>
             /\ Undisturbed' => Undisturbed
             /\ <<p.area, p.next>> \in PcReads
             /\ p.i \in Nat /\ N \in Nat /\ Cells = 0..N
             /\ q.area = p.area
             /\ \/ q.at = "read" /\ q.next = p.next /\ q.i = p.i + 1 /\ p.i < N
                \/ q.at = p.next /\ p.i = N
             /\ took \subseteq Images \X Cells \X CellValues
<1>1. /\ st["pc"].at = "read" /\ UNCHANGED <<rom, save, fSaveStart, took, settled, failed>>
      /\ Undisturbed' => Undisturbed
      /\ <<st["pc"].area, st["pc"].next>> \in PcReads
  BY StillUndisturbed
  DEF LInv, Paths, PcPath, PcStops, Read, Runs, flags, Noted, PcStep, EepromStep
<1>2. st["pc"].i \in Nat /\ N \in Nat /\ Cells = 0..N
      /\ took \subseteq Images \X Cells \X CellValues
  BY PcPlace, TypeParts DEF LInv, HistoryType, Cells
<1> QED
  BY <1>1, <1>2, PcAdvances DEF LInv, Read

\* The factory's settings into RAM.
LEMMA FactoryReadLoop ==
  ASSUME LInv, Read("pc"), st["pc"].area = "factory" PROVE Loop'
<1> DEFINE p == st["pc"]
           q == st'["pc"]
<1>1. /\ p.at = "read" /\ p.next = "factoryWait"
      /\ UNCHANGED <<rom, save, fSaveStart, took, settled, failed>>
      /\ Undisturbed' => Undisturbed
      /\ p.i \in Nat /\ N \in Nat /\ Cells = 0..N
      /\ q.area = "factory"
      /\ \/ q.at = "read" /\ q.next = "factoryWait" /\ q.i = p.i + 1 /\ p.i < N
         \/ q.at = "factoryWait" /\ p.i = N
  BY ReadGoesOn DEF PcReads
<1>2. \A img \in Images, c \in Cells :
        ram'[img][c] = IF img = "cfg" /\ c = p.i THEN rom["factory"][c] ELSE ram[img][c]
  BY ReadInCell DEF Read, RamOf
<1>3. Undisturbed => Stored = settled
  BY <1>1 DEF LInv, Loop, EveryCell, Fresh
<1>4. OldOrNew' /\ EveryCell'
  <2>1. Stored' = Stored
    BY <1>1 DEF Stored
  <2>2. Undisturbed => \A img \in Images, c \in Cells : rom[img][c] = settled[img][c]
    BY <1>3 DEF Stored
  <2> QED
    BY <1>1, <1>3, <2>1, <2>2 DEF OldOrNew, EveryCell, Fresh
<1>5. ASSUME Undisturbed', ~failed' PROVE Restored(st["pc"])'
  <2>1. \A c \in Cells : c < p.i => ram["cfg"][c] = rom["factory"][c]
    BY <1>1, <1>5 DEF LInv, Loop, EverySetting, Restored, BeforeWrite
  <2>2. \A c \in Cells : c <= p.i => ram'["cfg"][c] = rom'["factory"][c]
    BY <1>1, <1>2, <2>1 DEF Images
  <2>3. CASE q.at = "read"
    <3>1. \A c \in Cells : c < q.i => c <= p.i
      BY <1>1, <2>3
    <3> QED
      BY <1>1, <2>2, <2>3, <3>1 DEF Restored, AtFactory, BeforeWrite, InWrite, AfterWrite
  <2>4. CASE q.at = "factoryWait"
    <3>1. \A c \in Cells : c <= p.i
      BY <1>1, <2>4
    <3> QED
      BY <1>1, <2>2, <2>4, <3>1 DEF Restored, AtFactory, BeforeWrite, InWrite, AfterWrite
  <2> QED
    BY <1>1, <2>3, <2>4
<1>6. ASSUME NEW s \in took, Kept(s, p) PROVE Kept(s, st["pc"])'
  <2>1. s \in FactorySettings /\ FactorySettings' = FactorySettings
    BY <1>1, <1>6 DEF Kept, AtFactory, FactorySettings
  <2> QED
    BY <1>1, <2>1 DEF Kept, AtFactory, Reading
<1>7. ASSUME NEW s \in took, Shown(s, p) PROVE Shown(s, st["pc"])'
  BY <1>1, <1>7 DEF Shown, AtFactory
<1> QED
  BY <1>1, <1>4, <1>5, <1>6, <1>7 DEF LInv, Loop, EverySetting, EveryImage

\* What is common to the reads of an image: it keeps what was the same.
LEMMA ImageRead ==
  ASSUME LInv, Read("pc"), st["pc"].area \in Images
  PROVE  LET p == st["pc"]
             q == st'["pc"]
             img == p.area
         IN  /\ \A a \in Images, c \in Cells :
                  ram'[a][c] = IF a = img /\ c = p.i THEN rom[a][c] ELSE ram[a][c]
             /\ OldOrNew' /\ EveryCell'
             /\ \A a \in Images : Same(a) => Same(a)'
             /\ SameUpTo(img, p.i) =>
                  /\ q.at = "read" => SameUpTo(img, p.i)'
                  /\ q.at # "read" => Same(img)'
             /\ \A s \in took : Safe(s) => Safe(s)'
             /\ \A s \in took : s[1] # img /\ Asked(s) => Asked(s)'
<1> DEFINE p == st["pc"]
           q == st'["pc"]
           img == p.area
<1>1. \A a \in Images, c \in Cells :
        ram'[a][c] = IF a = img /\ c = p.i THEN rom[a][c] ELSE ram[a][c]
  BY ReadInCell DEF Read, RamOf, Images
<1>2. /\ UNCHANGED <<rom, save, took, settled>> /\ (Undisturbed' => Undisturbed)
      /\ p.i \in Nat /\ N \in Nat /\ Cells = 0..N /\ q.area = img
      /\ \/ q.at = "read" /\ q.i = p.i + 1
         \/ q.at # "read" /\ p.i = N
      /\ q.at # "set" /\ q.at # "factory"
      /\ took \subseteq Images \X Cells \X CellValues
  BY ReadGoesOn DEF PcReads
<1>3. OldOrNew'
  BY <1>1, <1>2 DEF LInv, Loop, OldOrNew
<1>4. EveryCell'
  BY <1>2 DEF EveryCell, Fresh, Images
<1>5. \A a \in Images : Same(a) => Same(a)'
  BY <1>1, <1>2 DEF Same
<1>6. ASSUME SameUpTo(img, p.i)
      PROVE  /\ q.at = "read" => SameUpTo(img, p.i)'
             /\ q.at # "read" => Same(img)'
  <2>1. \A c \in Cells : c <= p.i => rom'[img][c] = ram'[img][c]
    BY <1>1, <1>2, <1>6 DEF SameUpTo
  <2>2. \A c \in Cells : (q.at = "read" /\ c < q.i) \/ q.at # "read" => c <= p.i
    BY <1>2
  <2>3. img' = img
    BY <1>2
  <2> QED
    BY <2>1, <2>2, <2>3 DEF SameUpTo, Same
<1>7. \A s \in took : Safe(s) => Safe(s)'
  BY <1>1, <1>2 DEF Safe, InRam, InRom
<1>8. \A s \in took : s[1] # img /\ Asked(s) => Asked(s)'
  BY <1>1, <1>2 DEF Asked, InRam
<1> QED
  BY <1>1, <1>3, <1>4, <1>5, <1>6, <1>7, <1>8

\* The image a factory reset has written, read again.
LEMMA FactoryCheckLoop ==
  ASSUME LInv, Read("pc"), st["pc"].next = "tail" PROVE Loop'
<1> DEFINE p == st["pc"]
           q == st'["pc"]
<1>1. /\ p.at = "read" /\ p.area = "cfg" /\ q.area = "cfg"
      /\ UNCHANGED <<rom, save, fSaveStart, took, settled, failed>>
      /\ Undisturbed' => Undisturbed
      /\ \/ q.at = "read" /\ q.next = "tail"
         \/ q.at = "tail"
  BY ReadGoesOn DEF PcReads
<1>2. /\ \A a \in Images, c \in Cells :
           ram'[a][c] = IF a = "cfg" /\ c = p.i THEN rom[a][c] ELSE ram[a][c]
      /\ OldOrNew' /\ EveryCell'
      /\ SameUpTo("cfg", p.i) =>
           /\ q.at = "read" => SameUpTo("cfg", p.i)'
           /\ q.at # "read" => Same("cfg")'
  BY <1>1, ImageRead DEF Images
<1>3. ASSUME Undisturbed', ~failed'
      PROVE  \A c \in Cells : /\ ram'["cfg"][c] = rom'["factory"][c]
                              /\ rom'["cfg"][c] = rom'["factory"][c]
  <2>1. Restored(p)
    BY <1>1, <1>3 DEF LInv, Loop, EverySetting
  <2>2. \A c \in Cells : /\ ram["cfg"][c] = rom["factory"][c]
                         /\ rom["cfg"][c] = rom["factory"][c]
    BY <1>1, <2>1 DEF Restored, AtFactory, BeforeWrite, AfterWrite
  <2> QED
    BY <1>1, <1>2, <2>2 DEF Images
<1>4. ASSUME Undisturbed', ~failed' PROVE Restored(st["pc"])'
  BY <1>1, <1>3, <1>4 DEF Restored
<1>5. ASSUME Undisturbed', ~failed', NEW s \in took, Kept(s, p) PROVE Kept(s, st["pc"])'
  <2>1. s \in FactorySettings /\ FactorySettings' = FactorySettings
    BY <1>1, <1>5 DEF Kept, AtFactory, FactorySettings
  <2>2. Safe(s)'
    <3>1. PICK c \in Cells : s = <<"cfg", c, rom["factory"][c]>>
      BY <2>1 DEF FactorySettings
    <3>2. ram'["cfg"][c] = rom["factory"][c] /\ rom'["cfg"][c] = rom["factory"][c]
      BY <1>1, <1>3, <1>5
    <3> QED
      BY <3>1, <3>2 DEF Safe, InRam, InRom
  <2> QED
    BY <1>1, <2>1, <2>2 DEF Kept, AtFactory, Reading
<1>6. ASSUME NEW s \in took, Shown(s, p) PROVE Shown(s, st["pc"])'
  <2>1. s[1] = "cfg" /\ SameUpTo("cfg", p.i)
    BY <1>1, <1>6 DEF Shown, AtFactory
  <2> QED
    BY <1>1, <1>2, <2>1 DEF Shown, AtFactory
<1> QED
  BY <1>1, <1>2, <1>4, <1>5, <1>6 DEF LInv, Loop, EverySetting, EveryImage

\* An image that has been saved, read again.
LEMMA ImageReadLoop ==
  ASSUME LInv, Read("pc"), st["pc"].next \in {"saveMsg", "sleep"} PROVE Loop'
<1> DEFINE p == st["pc"]
           q == st'["pc"]
<1>1. /\ p.at = "read" /\ q.area = p.area
      /\ \/ p.area = "cfg" /\ p.next = "saveMsg"
         \/ p.area = "msg" /\ p.next = "sleep"
      /\ UNCHANGED <<rom, save, fSaveStart, took, settled, failed>>
      /\ Undisturbed' => Undisturbed
      /\ \/ q.at = "read" /\ q.next = p.next
         \/ q.at = p.next
      /\ took \subseteq Images \X Cells \X CellValues
  BY ReadGoesOn DEF PcReads
<1>2. /\ OldOrNew' /\ EveryCell'
      /\ \A a \in Images : Same(a) => Same(a)'
      /\ SameUpTo(p.area, p.i) =>
           /\ q.at = "read" => SameUpTo(p.area, p.i)'
           /\ q.at # "read" => Same(p.area)'
      /\ \A s \in took : Safe(s) => Safe(s)'
      /\ \A s \in took : s[1] # p.area /\ Asked(s) => Asked(s)'
  BY <1>1, ImageRead DEF Images
<1>3. Restored(st["pc"])'
  BY <1>1 DEF Restored, AtFactory, BeforeWrite, InWrite, AfterWrite
<1>4. ASSUME NEW s \in took, Kept(s, p) PROVE Kept(s, st["pc"])'
  <2>1. Safe(s) \/ (p.area = "cfg" /\ s[1] = "msg" /\ Asked(s))
    BY <1>1, <1>4 DEF Kept, Reading
  <2>2. Safe(s)' \/ (p.area = "cfg" /\ s[1] = "msg" /\ Asked(s)')
    BY <1>2, <2>1
  <2> QED
    BY <1>1, <2>2 DEF Kept, AtFactory, Reading
<1>5. ASSUME NEW s \in took, Shown(s, p) PROVE Shown(s, st["pc"])'
  <2>1. s[1] \in Images
    BY <1>1
  <2>2. CASE s[1] = p.area
    <3>1. SameUpTo(p.area, p.i)
      BY <1>1, <1>5, <2>2 DEF Shown
    <3> QED
      BY <1>1, <1>2, <2>2, <3>1 DEF Shown, AtFactory
  <2>3. CASE p.area = "msg" /\ s[1] = "cfg"
    <3>1. Same("cfg")'
      BY <1>1, <1>2, <1>5, <2>3 DEF Shown, Images
    <3> QED
      BY <1>1, <2>3, <3>1 DEF Shown, AtFactory
  <2>4. CASE p.area = "cfg" /\ s[1] = "msg"
    <3>1. Same("msg")' \/ s[1] \in save'
      BY <1>1, <1>2, <1>5, <2>4 DEF Shown, Images
    <3> QED
      BY <1>1, <2>4, <3>1 DEF Shown, AtFactory
  <2> QED
    BY <1>1, <2>1, <2>2, <2>3, <2>4 DEF Images
<1> QED
  BY <1>1, <1>2, <1>3, <1>4, <1>5 DEF LInv, Loop, EverySetting, EveryImage

LEMMA ReadLoop == ASSUME LInv, Read("pc") PROVE Loop'
<1>1. <<st["pc"].area, st["pc"].next>> \in PcReads
  BY ReadGoesOn
<1>2. \/ st["pc"].area = "factory" \/ st["pc"].next = "tail"
      \/ st["pc"].next \in {"saveMsg", "sleep"}
  BY <1>1 DEF PcReads
<1> QED
  BY <1>2, FactoryReadLoop, FactoryCheckLoop, ImageReadLoop

-----------------------------------------------------------------------------
(* The theorems.                                                           *)

LEMMA LoopStep == LInv /\ [Next]_vars => Loop'
<1> SUFFICES ASSUME LInv, [Next]_vars PROVE Loop'
  OBVIOUS
<1>1. CASE PcStep
  <2>1. CASE TaskPC
    BY <2>1, WakeLoop, SerialLoop, CheckLoop, SaveCfgLoop, SaveMsgLoop, ReadBackLoop DEF TaskPC
  <2>2. CASE EepromStep("pc")
    BY <2>2, WriteLoop, WriteFailsLoop, ReadLoop DEF EepromStep
  <2>3. CASE ProtocolStep("pc")
    BY <2>3, SetLoop, ActLoop, FactoryLoop, TailLoop DEF ProtocolStep
  <2> QED
    BY <1>1, <2>1, <2>2, <2>3 DEF PcStep
<1>2. CASE OtherStep \/ BootStep \/ PowerLoss
  BY <1>2, Unpromised DEF LInv
<1>3. CASE UNCHANGED vars
  BY <1>3
  DEF vars, store, flags, history, LInv, Loop, EveryCell, EverySetting, EveryImage, OldOrNew,
      Undisturbed, Fresh, Restored, Kept, Shown, Stored, FactorySettings, Safe, Asked, InRam,
      InRom, Same, SameUpTo
<1> QED
  BY <1>1, <1>2, <1>3, Actors

LEMMA LoopHolds == Spec => []LInv
<1>1. Init => LInv
  <2> SUFFICES ASSUME Init PROVE LInv
    OBVIOUS
  <2>1. st["boot"].at = "bootFactory" /\ st["pc"].at = "sleep" /\ took = {}
    BY DEF Init, Reset, Task, Tasks
  <2>2. Paths
    BY <2>1 DEF Paths, BootPath, PcPath, PcStops, AtCommand
  <2>3. ~Undisturbed
    BY <2>1 DEF Undisturbed
  <2> QED
    BY <2>2, <2>3, InitType
    DEF LInv, Loop, EveryCell, EverySetting, EveryImage, OldOrNew
<1>2. LInv /\ [Next]_vars => LInv'
  BY LoopStep, StepType, PathsStep DEF LInv
<1> QED
  BY <1>1, <1>2, PTL DEF Spec

\* At whatever moment of an undisturbed loop of TaskPC the power fails, each
\* cell of the EEPROM is old or new: whatever the commands, the cells and
\* the writes given up.
THEOREM CellsOldOrNew == Spec => []OldOrNew
<1>1. LInv => OldOrNew
  BY DEF LInv, Loop
<1> QED
  BY <1>1, LoopHolds, PTL

\* A setting of a serial master is in the EEPROM when TaskPC goes back to
\* sleep, whatever was pending when it came, if nobody came between and no
\* write was given up.
THEOREM SettingsSurvive == Spec => []SettingSurvives
<1>1. LInv => SettingSurvives
  <2> SUFFICES ASSUME LInv, st["pc"].at = "sleep", Undisturbed, ~failed, NEW s \in took
               PROVE  rom[s[1]][s[2]] = s[3]
    BY DEF SettingSurvives
  <2>1. Kept(s, st["pc"])
    BY DEF LInv, Loop, EverySetting
  <2> QED
    BY <2>1 DEF Kept, Safe, InRom
<1> QED
  BY <1>1, LoopHolds, PTL

\* What TaskPC leaves in RAM after a save is what is in the EEPROM, also
\* when the chip gave up half way.
THEOREM ShownStored == Spec => []ShownIsStored
<1>1. LInv => ShownIsStored
  <2> SUFFICES ASSUME LInv, st["pc"].at = "sleep", Undisturbed, NEW s \in took
               PROVE  rom[s[1]] = ram[s[1]]
    BY DEF ShownIsStored
  <2>1. Shown(s, st["pc"])
    BY DEF LInv, Loop, EveryImage
  <2>2. StoreType /\ s[1] \in Images /\ s[1] \in Areas
    BY TypeParts DEF LInv, HistoryType, Areas
  <2>3. Same(s[1])
    BY <2>1, <2>2 DEF Shown, Images
  <2>4. rom[s[1]] \in [Cells -> CellValues] /\ ram[s[1]] \in [Cells -> CellValues]
    BY <2>2 DEF StoreType, Structures, EepromAreas
  <2> QED
    BY <2>3, <2>4 DEF Same
<1> QED
  BY <1>1, LoopHolds, PTL

-----------------------------------------------------------------------------
(* The boot loads whole images.                                            *)
(*                                                                         *)
(* A cell that has been written is never blank again.  Before an area is   *)
(* checked its icon vouches for all of it, since no power loss comes in    *)
(* the middle of the boot that writes it.                                  *)

Full(x) == \A c \in Cells : x[c] # "blank"
AllFull == (\A area \in Areas : Full(rom[area])) /\ (\A img \in Images : Full(ram[img]))

\* The areas the boot, at b, does not know to be full.
Lacking(b) ==
  CASE b.at = "bootFactory" -> Areas
    [] b.at = "write" /\ b.area = "factory" -> Areas
    [] b.at = "bootCfg" -> Images
    [] b.at = "write" /\ b.area = "cfg" -> Images
    [] b.at \in {"loadCfg", "bootMsg"} -> {"msg"}
    [] b.at = "read" /\ b.area = "cfg" -> {"msg"}
    [] b.at = "write" /\ b.area = "msg" -> {"msg"}
    [] OTHER -> {}
InHand(b) == IF b.at = "write" THEN {b.area} ELSE {}
CfgLoaded(b) ==
  \/ b.at \in {"bootMsg", "loadMsg"}
  \/ b.at \in {"write", "read"} /\ b.area = "msg"

Filled ==
  LET b == st["boot"] IN
  /\ \A area \in Areas \ Lacking(b) : Full(rom[area])
  /\ \A area \in Lacking(b) \ InHand(b) : rom[area][0] = "icon" => Full(rom[area])
  /\ b.at = "write" =>
       /\ Full(ram[RamOf(b.area)])
       /\ \A c \in Cells : c < b.i => rom[b.area][c] # "blank"
  /\ b.at = "read" => SameUpTo(b.area, b.i)
  /\ CfgLoaded(b) => Same("cfg")
  /\ b.at = "idle" => AllFull

\* Settings are never blank, and whatever is copied then is not.
LEMMA FullStep ==
  ASSUME TypeOK, AllFull, PcStep \/ OtherStep PROVE AllFull'
<1>0. StoreType
  BY TypeParts
<1>1. CASE \E t \in {"udp", "pc"} : EepromStep(t)
  <2>1. PICK t \in {"udp", "pc"} : EepromStep(t)
    BY <1>1
  <2>2. st[t].area \in Areas /\ st[t].i \in Cells /\ RamOf(st[t].area) \in Images
    BY TypeParts, RamOfType DEF Tasks, Places
  <2>3. CASE Write(t)
    BY <1>0, <2>2, <2>3 DEF Write, WriteCell, AllFull, Full, StoreType, EepromAreas
  <2>4. CASE WriteFails(t)
    BY <2>4 DEF WriteFails, store, AllFull, Full
  <2>5. CASE Read(t)
    BY <1>0, <2>2, <2>5 DEF Read, ReadCell, AllFull, Full, StoreType, Structures
  <2> QED
    BY <2>1, <2>3, <2>4, <2>5 DEF EepromStep
<1>2. CASE \E t \in {"udp", "pc"} : ProtocolStep(t)
  <2>1. PICK t \in {"udp", "pc"} : ProtocolStep(t)
    BY <1>2
  <2>2. CASE Set(t)
    <3>1. PICK a \in Settable, v \in NewValues \union {"default"} :
            ram' = [ram EXCEPT ![a[1]][a[2]] = v] /\ rom' = rom
      BY <2>2 DEF Set
    <3>2. v # "blank"
      BY ConfigAssumption
    <3> QED
      BY <1>0, <3>1, <3>2 DEF AllFull, Full, StoreType, Structures
  <2>3. CASE Act(t) \/ Factory(t) \/ Tail(t)
    BY <2>3 DEF Act, Factory, Tail, store, AllFull, Full
  <2> QED
    BY <2>1, <2>2, <2>3 DEF ProtocolStep
<1>3. CASE \E t \in Locals : Local(t)
  <2>1. PICK t \in Locals : Local(t)
    BY <1>3
  <2>2. CASE ram' = ram
    BY <2>1, <2>2 DEF Local, AllFull, Full
  <2>3. CASE \E a \in Settable, v \in NewValues : ram' = [ram EXCEPT !["cfg"][a[2]] = v]
    <3>1. PICK a \in Settable, v \in NewValues : ram' = [ram EXCEPT !["cfg"][a[2]] = v]
      BY <2>3
    <3>2. v # "blank" /\ rom' = rom
      BY <2>1, ConfigAssumption DEF Local
    <3> QED
      BY <1>0, <3>1, <3>2 DEF AllFull, Full, StoreType, Structures
  <2> QED
    BY <2>1, <2>2, <2>3 DEF Local
<1>4. CASE TaskPC \/ ReceiveUdp
  <2>1. UNCHANGED <<ram, rom>>
    BY <1>4
    DEF TaskPC, Wake, Serial, CheckSave, SaveImage, ReadBack, ReceiveUdp, Receive, store
  <2> QED
    BY <2>1 DEF AllFull, Full
<1> QED
  BY <1>1, <1>2, <1>3, <1>4 DEF PcStep, OtherStep

\* The boot is over.
LEMMA OverIsFull ==
  ASSUME Filled, st["boot"].at = "idle" PROVE AllFull
  BY DEF Filled

LEMMA FullIsOver ==
  ASSUME AllFull', st'["boot"].at \in {"idle", "bootFactory"} PROVE Filled'
  BY DEF Filled, AllFull, Lacking, InHand, CfgLoaded, Images

\* The boot finds an image, or fills the structure it will write.
LEMMA CheckFilled ==
  ASSUME TypeOK, Filled, NEW c \in Checks, CheckImage(c[1], c[2], c[3]), rom' = rom
  PROVE  Filled'
<1> DEFINE b == st["boot"]
           b1 == st'["boot"]
<1>0. StoreType /\ 0 \in Cells /\ c[2] \in Areas /\ RamOf(c[2]) \in Images
  BY TypeParts, ConstantTypes, RamOfType DEF Checks, Areas, Images
<1>1. b.at = c[1]
  BY DEF CheckImage, Runs
<1>2. CASE rom[c[2]][0] # "icon"
  <2>1. b1.at = "write" /\ b1.area = c[2] /\ b1.i = 0
    BY <1>2, PcPlace DEF CheckImage, Transfer, Places
  <2>2. ram' = [ram EXCEPT ![RamOf(c[2])] = Defaults]
    BY <1>2 DEF CheckImage
  <2>3. Full(ram'[RamOf(c[2])])
    BY <1>0, <2>2 DEF Defaults, Full, StoreType, Structures
  <2>4. \A i \in Cells : ~(i < 0)
    BY ConfigAssumption DEF Cells
  <2>5. Lacking(b1) = Lacking(b) /\ ~(c[2] \in Areas \ Lacking(b))
    BY <1>1, <2>1 DEF Checks, Lacking, Areas, Images
  <2>6. CfgLoaded(b1) => Same("cfg") /\ ram'["cfg"] = ram["cfg"]
    <3>1. CfgLoaded(b1) => b.at = "bootMsg" /\ RamOf(c[2]) = "msg"
      BY <1>1, <2>1 DEF CfgLoaded, Checks, RamOf
    <3> QED
      BY <1>0, <2>2, <3>1 DEF Filled, CfgLoaded, StoreType, Structures, Images
  <2>7. CfgLoaded(b1) => Same("cfg")'
    BY <2>6 DEF Same
  <2> QED
    BY <2>1, <2>3, <2>4, <2>5, <2>7, <1>1 DEF Filled, InHand, Checks
<1>3. CASE rom[c[2]][0] = "icon"
  <2>1. b1.at = c[3] /\ ram' = ram
    BY <1>3, PcPlace DEF CheckImage, Go, Arrived, Task
  <2>2. /\ Lacking(b1) = Lacking(b) \ {c[2]} /\ InHand(b1) = {} /\ InHand(b) = {}
        /\ c[2] \in Lacking(b)
    BY <1>1, <2>1 DEF Checks, Lacking, InHand, Areas, Images
  <2>3. Full(rom[c[2]])
    BY <1>3, <2>2 DEF Filled
  <2>4. CfgLoaded(b1) => CfgLoaded(b)
    BY <1>1, <2>1 DEF Checks, CfgLoaded
  <2>5. CfgLoaded(b1) => Same("cfg")'
    BY <2>1, <2>4 DEF Filled, Same
  <2>6. b1.at \notin {"write", "read", "idle"}
    BY <2>1 DEF Checks
  <2> QED
    BY <1>0, <2>2, <2>3, <2>5, <2>6 DEF Filled
<1> QED
  BY <1>2, <1>3

LEMMA LoadFilled ==
  ASSUME TypeOK, Filled, Load, rom' = rom PROVE Filled'
<1> DEFINE b == st["boot"]
           b1 == st'["boot"]
<1>1. \/ /\ b.at = "loadCfg" /\ b1.at = "read" /\ b1.area = "cfg" /\ b1.i = 0
      \/ /\ b.at = "loadMsg" /\ b1.at = "read" /\ b1.area = "msg" /\ b1.i = 0
  BY PcPlace DEF Load, Runs, Transfer, Places
<1>2. ram' = ram
  BY DEF Load
<1>3. \A a : SameUpTo(a, 0)'
  BY ConfigAssumption DEF SameUpTo, Cells
<1>4. Lacking(b1) = Lacking(b) /\ InHand(b1) = {} /\ InHand(b) = {}
  BY <1>1 DEF Lacking, InHand
<1>5. CfgLoaded(b1) => CfgLoaded(b)
  BY <1>1 DEF CfgLoaded
<1>6. CfgLoaded(b1) => Same("cfg")'
  BY <1>2, <1>5 DEF Filled, Same
<1> QED
  BY <1>1, <1>3, <1>4, <1>6 DEF Filled

LEMMA WriteFilled ==
  ASSUME TypeOK, Filled, Paths, Write("boot") PROVE Filled'
<1> DEFINE b == st["boot"]
           b1 == st'["boot"]
<1>1. b.at = "write" /\ <<b.area, b.next>> \in BootWrites /\ ram' = ram
  BY DEF Write, Runs, Paths, BootPath
<1>2. /\ StoreType /\ b.area \in Areas /\ b.i \in Cells /\ RamOf(b.area) \in Images
      /\ b.i \in Nat /\ N \in Nat /\ Cells = 0..N
  BY PcPlace, TypeParts, RamOfType, ConfigAssumption DEF Places, Cells
<1>3. \A a \in Areas, c \in Cells :
        rom'[a][c] = IF a = b.area /\ c = b.i THEN ram[RamOf(a)][c] ELSE rom[a][c]
  BY <1>2 DEF Write, WriteCell, StoreType, EepromAreas
<1>4. \A c \in Cells : c <= b.i => rom'[b.area][c] # "blank"
  BY <1>1, <1>2, <1>3 DEF Filled, Full
<1>5. \A a \in Areas \ {b.area} : /\ Full(rom[a]) => Full(rom'[a])
                                  /\ rom'[a][0] = rom[a][0]
  BY <1>2, <1>3 DEF Full
<1>6. CfgLoaded(b) => Same("cfg")'
  BY <1>1, <1>3 DEF Filled, CfgLoaded, Same, Areas, Images
<1>7. Full(ram'[RamOf(b.area)])
  BY <1>1 DEF Filled
<1>8. Lacking(b) \subseteq Areas
  BY DEF Lacking, Areas, Images
<1>9. CASE b.i < N
  <2>1. b1.at = "write" /\ b1.area = b.area /\ b1.i = b.i + 1
    BY <1>1, <1>2, <1>9, PcPlace DEF Write, Advance, Places
  <2>2. \A c \in Cells : c < b1.i => c <= b.i
    BY <1>2, <2>1
  <2>3. /\ Lacking(b1) = Lacking(b) /\ InHand(b1) = InHand(b) /\ InHand(b) = {b.area}
        /\ CfgLoaded(b1) <=> CfgLoaded(b)
        /\ b.area \in Lacking(b)
    BY <1>1, <2>1 DEF Lacking, InHand, CfgLoaded, BootWrites, Areas, Images
  <2> QED
    BY <1>4, <1>5, <1>6, <1>7, <1>8, <2>1, <2>2, <2>3 DEF Filled
<1>10. CASE ~(b.i < N)
  <2>1. b1.at = b.next /\ b.i = N
    BY <1>2, <1>10, PcPlace DEF Write, Advance, Arrived, Task
  <2>2. Full(rom'[b.area])
    BY <1>2, <1>4, <2>1 DEF Full
  <2>3. /\ Lacking(b1) = Lacking(b) \ {b.area} /\ InHand(b1) = {} /\ InHand(b) = {b.area}
        /\ CfgLoaded(b1) => CfgLoaded(b)
        /\ b1.at \notin {"write", "read", "idle"}
    BY <1>1, <2>1 DEF Lacking, InHand, CfgLoaded, BootWrites, Areas, Images
  <2> QED
    BY <1>2, <1>5, <1>6, <1>8, <2>2, <2>3 DEF Filled
<1> QED
  BY <1>9, <1>10

\* The last read of the boot: what BootLoads says.
Loaded == \A img \in Images : ram[img] = rom[img] /\ Full(ram[img])

LEMMA ReadFilled ==
  ASSUME TypeOK, Filled, Paths, Read("boot")
  PROVE  Filled' /\ (st'["boot"].at = "idle" => Loaded')
<1> DEFINE b == st["boot"]
           b1 == st'["boot"]
<1>1. b.at = "read" /\ <<b.area, b.next>> \in BootReads /\ rom' = rom
  BY DEF Read, Runs, Paths, BootPath
<1>2. /\ StoreType /\ b.area \in Images /\ b.i \in Cells /\ RamOf(b.area) = b.area
      /\ b.i \in Nat /\ N \in Nat /\ Cells = 0..N
  BY <1>1, PcPlace, TypeParts, ConfigAssumption DEF BootReads, Images, RamOf, Cells, Places
<1>3. \A a \in Images, c \in Cells :
        ram'[a][c] = IF a = b.area /\ c = b.i THEN rom[a][c] ELSE ram[a][c]
  BY <1>2 DEF Read, ReadCell, StoreType, Structures
<1>4. \A c \in Cells : c <= b.i => rom'[b.area][c] = ram'[b.area][c]
  <2>1. SameUpTo(b.area, b.i)
    BY <1>1 DEF Filled
  <2> QED
    BY <1>1, <1>2, <1>3, <2>1 DEF SameUpTo
<1>5. b.area = "msg" => Same("cfg")'
  BY <1>1, <1>3 DEF Filled, CfgLoaded, Same, Images
<1>6. \A a \in Areas : Full(rom[a]) => Full(rom'[a])
  BY <1>1
<1>7. CASE b.i < N
  <2>1. b1.at = "read" /\ b1.area = b.area /\ b1.i = b.i + 1
    BY <1>1, <1>2, <1>7, PcPlace DEF Read, Advance, Places
  <2>2. \A c \in Cells : c < b1.i => c <= b.i
    BY <1>2, <2>1
  <2>3. /\ Lacking(b1) = Lacking(b) /\ InHand(b1) = {} /\ InHand(b) = {}
        /\ CfgLoaded(b1) => b.area = "msg"
    BY <1>1, <2>1 DEF Lacking, InHand, CfgLoaded
  <2>4. SameUpTo(st["boot"].area, st["boot"].i)'
    BY <1>4, <2>1, <2>2 DEF SameUpTo
  <2> QED
    BY <1>1, <1>5, <1>6, <2>1, <2>3, <2>4 DEF Filled
<1>8. CASE ~(b.i < N)
  <2>1. b1.at = b.next /\ b.i = N
    BY <1>2, <1>8, PcPlace DEF Read, Advance, Arrived, Task
  <2>2. Same(st["boot"].area)'
    <3>1. b1.area = b.area
      BY <1>2, <1>8, PcPlace DEF Read, Advance, Arrived, Task
    <3>2. \A c \in Cells : rom'[b.area][c] = ram'[b.area][c]
      BY <1>2, <1>4, <2>1
    <3> QED
      BY <3>1, <3>2 DEF Same
  <2>3. b1.area = b.area
    BY <1>2, <1>8, PcPlace DEF Read, Advance, Arrived, Task
  <2>4. CASE b.area = "cfg"
    <3>1. b1.at = "bootMsg"
      BY <1>1, <2>1, <2>4 DEF BootReads
    <3>2. Lacking(b1) = Lacking(b) /\ InHand(b1) = {} /\ InHand(b) = {}
      BY <1>1, <2>4, <3>1 DEF Lacking, InHand
    <3>3. Same("cfg")'
      BY <2>2, <2>3, <2>4
    <3> QED
      BY <1>1, <3>1, <3>2, <3>3 DEF Filled
  <2>5. CASE b.area = "msg"
    <3>1. b1.at = "idle"
      BY <1>1, <2>1, <2>5 DEF BootReads
    <3>2. Lacking(b) = {}
      BY <1>1, <2>5 DEF Lacking
    <3>3. Same("cfg")' /\ Same("msg")'
      BY <1>5, <2>2, <2>3, <2>5
    <3>4. \A a \in Areas : Full(rom'[a])
      BY <1>6, <3>2 DEF Filled
    <3>5. TypeOK'
      BY EepromType, PcPlace DEF EepromStep
    <3>6. Loaded'
      <4> SUFFICES ASSUME NEW img \in Images PROVE ram'[img] = rom'[img] /\ Full(ram'[img])
        BY DEF Loaded
      <4>1. \A c \in Cells : rom'[img][c] = ram'[img][c]
        BY <3>3 DEF Same, Images
      <4>2. ram'[img] \in [Cells -> CellValues] /\ rom'[img] \in [Cells -> CellValues]
        BY <3>5 DEF TypeOK, Areas
      <4>3. ram'[img] = rom'[img]
        BY <4>1, <4>2
      <4> QED
        BY <3>4, <4>3 DEF Areas
    <3>7. AllFull'
      BY <3>4, <3>6 DEF AllFull, Loaded
    <3> QED
      BY <3>1, <3>6, <3>7, FullIsOver
  <2> QED
    BY <1>1, <2>4, <2>5 DEF BootReads
<1> QED
  BY <1>7, <1>8

\* Nothing goes wrong while the boot runs.
QuietBoot == ~BootTrouble

LEMMA FilledStep ==
  ASSUME QuietBoot, TypeOK, Paths, Filled, [Next]_vars
  PROVE  /\ Filled'
         /\ st["boot"].at = "read" /\ st'["boot"].at = "idle" => Loaded'
<1>1. CASE PcStep \/ OtherStep
  <2>1. st["boot"].at = "idle" /\ st'["boot"].at = "idle"
    BY <1>1, PcAlone, OthersApart
  <2> QED
    BY <1>1, <2>1, OverIsFull, FullStep, FullIsOver
<1>2. CASE BootStep
  <2>1. CASE Boot
    <3>1. rom' = rom
      BY <2>1 DEF Boot
    <3>2. CASE \E c \in Checks : CheckImage(c[1], c[2], c[3])
      <4>1. PICK c \in Checks : CheckImage(c[1], c[2], c[3])
        BY <3>2
      <4>2. st["boot"].at # "read"
        BY <4>1 DEF CheckImage, Runs, Checks
      <4> QED
        BY <3>1, <4>1, <4>2, CheckFilled
    <3>3. CASE Load
      BY <3>1, <3>3, LoadFilled DEF Load, Runs
    <3> QED
      BY <2>1, <3>2, <3>3 DEF Boot
  <2>2. CASE Write("boot")
    BY <2>2, WriteFilled DEF Write, Runs
  <2>3. CASE WriteFails("boot")
    BY <2>3, QuietBoot DEF WriteFails, QuietBoot
  <2>4. CASE Read("boot")
    BY <2>4, ReadFilled
  <2> QED
    BY <1>2, <2>1, <2>2, <2>3, <2>4 DEF BootStep, EepromStep
<1>3. CASE PowerLoss
  <2>1. st["boot"].at = "idle" /\ st'["boot"].at = "bootFactory" /\ rom' = rom
    BY <1>3, QuietBoot DEF PowerLoss, QuietBoot, Reset, Task, Tasks
  <2>2. \A area \in Areas : Full(rom'[area])
    BY <2>1, OverIsFull DEF AllFull
  <2> QED
    BY <2>1, <2>2 DEF Filled, Lacking, InHand, CfgLoaded
<1>4. CASE UNCHANGED vars
  BY <1>4 DEF vars, store, Filled, AllFull, Same, SameUpTo
<1> QED
  BY <1>1, <1>2, <1>3, <1>4, Actors

\* After a boot both structures are complete and are what the EEPROM holds,
\* whatever happened before, power losses in the middle of a save included,
\* if neither a power loss nor a write given up came during a boot.
THEOREM BootLoadsAll == ASSUME QuietBoot PROVE Spec => BootLoads
<1> DEFINE BInv == TypeOK /\ Paths /\ Filled
<1>1. Init => BInv
  <2> SUFFICES ASSUME Init PROVE BInv
    OBVIOUS
  <2>1. st["boot"].at = "bootFactory" /\ st["pc"].at = "sleep" /\ took = {}
    BY DEF Init, Reset, Task, Tasks
  <2>2. Paths
    BY <2>1 DEF Paths, BootPath, PcPath, PcStops, AtCommand
  <2>3. \A area \in Areas : rom[area][0] = "icon" => Full(rom[area])
    BY ConstantTypes DEF Init, Blank, Defaults, Full
  <2>4. Filled
    BY <2>1, <2>3 DEF Filled, Lacking, InHand, CfgLoaded
  <2> QED
    BY <2>2, <2>4, InitType
<1>2. BInv /\ [Next]_vars => BInv'
  BY QuietBoot, FilledStep, StepType, PathsStep
<1>3. BInv /\ [Next]_vars
        => [st["boot"].at = "read" /\ st'["boot"].at = "idle" =>
              \A img \in Images : ram'[img] = rom'[img]
                                  /\ \A c \in Cells : ram'[img][c] # "blank"]_vars
  BY QuietBoot, FilledStep DEF Loaded, Full
<1> QED
  BY <1>1, <1>2, <1>3, PTL DEF Spec, BootLoads
=============================================================================
