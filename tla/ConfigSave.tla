----------------------------- MODULE ConfigSave -----------------------------
(***************************************************************************)
(* The configuration store: g_DI.Cfg and g_DI.AutoMsgCfg in RAM, their     *)
(* images in the X5323 EEPROM, the flags that ask for a save, and the      *)
(* tasks that touch them (TaskPC.c, X5323_EEPROM.c, BSP_Init and           *)
(* Write_Default in bsp.c, CMD_SetProcess in RS485.c, the menu and         *)
(* Main_Process as writers of settings).                                   *)
(*                                                                         *)
(* No lock protects any of it.  The tasks preempt each other by priority:  *)
(* the UDP server (10) over TaskPC (12) over the menu (13) over the power  *)
(* control (14).  A task gives way to the lower ones only where it delays. *)
(*                                                                         *)
(* An image is a few cells.  Cell 0 is the icon that tells a valid image,  *)
(* the first byte of both structures; the others hold settings.            *)
(***************************************************************************)
EXTENDS Naturals

CONSTANTS
  N,              \* settings per image
  NewValues,      \* values operators set
  CfgCells,       \* settings of "cfg" operators set
  MsgCells,       \* settings of "msg" operators set
  Commands,       \* "set", "act" (a command that stores nothing), "factory"
  Remotes,        \* protocol masters: "uart1", "uart2", "udp"
  Locals,         \* "panel" (the menu) and "paon" (Main_Process)
  WriteMayFail,   \* the chip may stay busy in the middle of a write
  BootTrouble     \* power losses and failed writes may happen during boot

Cells == 0..N
Images == {"cfg", "msg"}
Areas == Images \union {"factory"}
CellValues == {"blank", "icon", "default"} \union NewValues
Tasks == {"boot", "udp", "pc", "panel", "paon"}

ASSUME ConfigAssumption ==
  /\ N \in Nat \ {0}
  /\ NewValues \intersect {"blank", "icon", "default"} = {}
  /\ CfgCells \subseteq 1..N /\ MsgCells \subseteq 1..N
  /\ Commands \subseteq {"set", "act", "factory"}
  /\ Remotes \subseteq {"uart1", "uart2", "udp"}
  /\ Locals \subseteq {"panel", "paon"}
  /\ WriteMayFail \in BOOLEAN /\ BootTrouble \in BOOLEAN

VARIABLES
  ram,         \* the two structures in RAM
  rom,         \* the three areas of the EEPROM (addresses 10, 1300, 2000)
  save,        \* images whose flag fSave / fAutoMsgSave is set
  fSaveStart,
  st,          \* per task: where it is, and the transfer it is in
  took,        \* the settings of the last command of this loop of TaskPC
  disturbed,   \* another task has run since TaskPC woke
  failed,      \* a write has failed since TaskPC woke
  settled      \* the images when TaskPC woke or took its last command

store == <<ram, rom>>
flags == <<save, fSaveStart>>
history == <<took, disturbed, failed, settled>>
vars == <<store, flags, st, history>>

Settable == ({"cfg"} \X CfgCells) \union ({"msg"} \X MsgCells)

Blank == [c \in Cells |-> "blank"]
Defaults == [c \in Cells |-> IF c = 0 THEN "icon" ELSE "default"]
Stored == [img \in Images |-> rom[img]]
\* The structure in RAM an area of the EEPROM is written from or read into.
RamOf(area) == IF area = "factory" THEN "cfg" ELSE area

\* A task at label "at": of the transfer of "area", at cell "i", with
\* "next" to follow it and "ret" to follow the command it belongs to.
Task(at, ret) == [at |-> at, area |-> "cfg", i |-> 0, next |-> "idle", ret |-> ret]
Arrived(s, at) == [Task(at, s.ret) EXCEPT !.area = s.area]
Go(t, at) == st' = [st EXCEPT ![t] = Arrived(@, at)]
Transfer(t, kind, area, next) ==
  st' = [st EXCEPT ![t].at = kind, ![t].area = area, ![t].i = 0, ![t].next = next]

Delaying == {"idle", "sleep", "wait", "factoryWait", "factoryCheck"}
Higher(t) ==
  CASE t = "boot"  -> {}
    [] t = "udp"   -> {"boot"}
    [] t = "pc"    -> {"boot", "udp"}
    [] t = "panel" -> {"boot", "udp", "pc"}
    [] t = "paon"  -> {"boot", "udp", "pc", "panel"}

\* Task t is at label "at" and no task of a higher priority wants to run.
Runs(t, at) ==
  /\ st[t].at = at
  /\ \A u \in Higher(t) : st[u].at \in Delaying

\* What a step of t does to the history, when nothing more is said.
Noted(t) ==
  /\ disturbed' = (disturbed \/ t \notin {"boot", "pc"})
  /\ UNCHANGED <<took, failed, settled>>

-----------------------------------------------------------------------------
(* WritebufToX5323 and ReadbufFromX5323, cell by cell.                     *)

\* Mistake: the address runs one ahead of the data.
WriteCellShifted(t) ==
  LET s == st[t]
  IN rom' = [rom EXCEPT ![s.area] =
               [c \in Cells |-> IF c = s.i /\ c > 0 THEN ram[RamOf(s.area)][c - 1] ELSE @[c]]]

WriteCell(t) ==
  LET s == st[t] IN rom' = [rom EXCEPT ![s.area][s.i] = ram[RamOf(s.area)][s.i]]

ReadCell(t) ==
  LET s == st[t] IN ram' = [ram EXCEPT ![RamOf(s.area)][s.i] = rom[s.area][s.i]]

\* Mistake: one byte too many.
AdvanceOnePast(t) ==
  st' = IF st[t].i < N + 1 THEN [st EXCEPT ![t].i = @ + 1]
        ELSE [st EXCEPT ![t] = Arrived(@, @.next)]

Advance(t) ==
  st' = IF st[t].i < N THEN [st EXCEPT ![t].i = @ + 1]
        ELSE [st EXCEPT ![t] = Arrived(@, @.next)]

Write(t) ==
  /\ Runs(t, "write")
  /\ WriteCell(t)
  /\ Advance(t)
  /\ Noted(t)
  /\ UNCHANGED <<ram, flags>>

\* The chip stays busy: the rest of the write is given up, and no caller
\* looks at the result.
WriteFails(t) ==
  /\ WriteMayFail /\ (t = "boot" => BootTrouble)
  /\ Runs(t, "write")
  /\ Go(t, st[t].next)
  /\ failed' = TRUE
  /\ disturbed' = (disturbed \/ t \notin {"boot", "pc"})
  /\ UNCHANGED <<store, flags, took, settled>>

Read(t) ==
  /\ Runs(t, "read")
  /\ ReadCell(t)
  /\ Advance(t)
  /\ IF t = "boot" /\ st'[t].at = "idle"
     THEN settled' = Stored /\ UNCHANGED <<took, disturbed, failed>>
     ELSE Noted(t)
  /\ UNCHANGED <<rom, flags>>

EepromStep(t) == Write(t) \/ WriteFails(t) \/ Read(t)

-----------------------------------------------------------------------------
(* CMD_SetProcess, run by TaskPC and by the UDP server.                    *)

\* A command arrives: pending saves are forgotten first of all.
Receive(t, ret) ==
  /\ \E cmd \in Commands :
       st' = [st EXCEPT ![t] = Task(cmd, ret)]
  /\ save' = {} /\ fSaveStart' = FALSE
  /\ took' = IF t = "pc" THEN {} ELSE took
  /\ disturbed' = (disturbed \/ t # "pc")
  /\ settled' = IF t = "pc" THEN Stored ELSE settled
  /\ UNCHANGED <<store, failed>>

ReceiveUdp == /\ "udp" \in Remotes
              /\ Runs("udp", "idle")
              /\ Receive("udp", "idle")

\* A register that is kept in the EEPROM is written.
Set(t) ==
  /\ Runs(t, "set")
  /\ \E a \in Settable, v \in NewValues \union {"default"} :
       /\ ram' = [ram EXCEPT ![a[1]][a[2]] = v]
       /\ save' = save \union {a[1]}
       /\ took' = IF t = "pc" THEN {<<a[1], a[2], v>>} ELSE took
  /\ Go(t, "tail")
  /\ disturbed' = (disturbed \/ t # "pc")
  /\ UNCHANGED <<rom, fSaveStart, failed, settled>>

Act(t) ==
  /\ Runs(t, "act")
  /\ Go(t, "tail")
  /\ Noted(t)
  /\ UNCHANGED <<store, flags>>

\* INFO_MACH_RSTFACTORYDATA: the factory area into RAM, RAM into the
\* settings' area, and back, with delays in between.
Factory(t) ==
  /\ \/ Runs(t, "factory")      /\ Transfer(t, "read", "factory", "factoryWait")
     \/ Runs(t, "factoryWait")  /\ Transfer(t, "write", "cfg", "factoryCheck")
     \/ Runs(t, "factoryCheck") /\ Transfer(t, "read", "cfg", "tail")
  /\ took' = IF t = "pc" THEN {<<"cfg", c, rom["factory"][c]>> : c \in Cells} ELSE took
  /\ disturbed' = (disturbed \/ t # "pc")
  /\ UNCHANGED <<store, flags, failed, settled>>

\* Mistake: the save is not started.
StartIfAskedNever == UNCHANGED fSaveStart

StartIfAsked == fSaveStart' = (fSaveStart \/ save # {})

Tail(t) ==
  /\ Runs(t, "tail")
  /\ StartIfAsked
  /\ st' = [st EXCEPT ![t] = Task(@.ret, "idle")]
  /\ Noted(t)
  /\ UNCHANGED <<store, save>>

ProtocolStep(t) == Set(t) \/ Act(t) \/ Factory(t) \/ Tail(t)

-----------------------------------------------------------------------------
(* The menu and Main_Process: the setting, then fSaveStart, then fSave.    *)

Local(t) ==
  /\ \/ /\ Runs(t, "idle")
        /\ \E a \in Settable, v \in NewValues :
             a[1] = "cfg" /\ ram' = [ram EXCEPT !["cfg"][a[2]] = v]
        /\ Go(t, "start")
        /\ UNCHANGED flags
     \/ /\ Runs(t, "start")
        /\ fSaveStart' = TRUE
        /\ Go(t, "save")
        /\ UNCHANGED <<ram, save>>
     \/ /\ Runs(t, "save")
        /\ save' = save \union {"cfg"}
        /\ Go(t, "idle")
        /\ UNCHANGED <<ram, fSaveStart>>
  /\ Noted(t)
  /\ UNCHANGED rom

-----------------------------------------------------------------------------
(* TaskPC's loop: two serial ports, then the saves, then 50 ms of sleep.   *)

Wake ==
  /\ Runs("pc", "sleep")
  /\ Go("pc", "uart1")
  /\ took' = {}
  /\ disturbed' = (\E t \in Tasks \ {"pc"} : st[t].at # "idle")
  /\ failed' = FALSE
  /\ settled' = Stored
  /\ UNCHANGED <<store, flags>>

Serial(port, next) ==
  /\ Runs("pc", port)
  /\ \/ port \in Remotes /\ Receive("pc", next)
     \/ Go("pc", next) /\ Noted("pc") /\ UNCHANGED <<store, flags>>

\* fSaveStart is consumed for both images.
CheckSave ==
  /\ Runs("pc", "check")
  /\ fSaveStart' = FALSE
  /\ Go("pc", IF fSaveStart THEN "saveCfg" ELSE "sleep")
  /\ Noted("pc")
  /\ UNCHANGED <<store, save>>

AfterSave(img) == IF img = "cfg" THEN "saveMsg" ELSE "sleep"
Saved(img) == st' = [st EXCEPT !["pc"] = Task(AfterSave(img), "idle")]

SaveImage(at, img) ==
  /\ Runs("pc", at)
  /\ IF img \in save THEN Transfer("pc", "write", img, "wait")
     ELSE Saved(img)
  /\ save' = save \ {img}
  /\ Noted("pc")
  /\ UNCHANGED <<store, fSaveStart>>

\* Mistake: what was written is not read back.
ReadBackSkipped ==
  /\ Runs("pc", "wait")
  /\ Saved(st["pc"].area)
  /\ Noted("pc")
  /\ UNCHANGED <<store, flags>>

\* 100 ms later what was written is read back over the structure.
ReadBack ==
  /\ Runs("pc", "wait")
  /\ LET img == st["pc"].area IN Transfer("pc", "read", img, AfterSave(img))
  /\ Noted("pc")
  /\ UNCHANGED <<store, flags>>

TaskPC ==
  \/ Wake \/ Serial("uart1", "uart2") \/ Serial("uart2", "check")
  \/ CheckSave \/ SaveImage("saveCfg", "cfg") \/ SaveImage("saveMsg", "msg") \/ ReadBack

-----------------------------------------------------------------------------
(* BSP_Init: missing images are written with defaults, then both loaded.   *)

Checks == {<<"bootFactory", "factory", "bootCfg">>, <<"bootCfg", "cfg", "loadCfg">>,
           <<"bootMsg", "msg", "loadMsg">>}

\* Mistake: the factory image is not looked at.
CheckImageButFactory(at, area, next) ==
  /\ Runs("boot", at)
  /\ IF rom[area][0] # "icon" /\ area # "factory"
     THEN /\ ram' = [ram EXCEPT ![RamOf(area)] = Defaults]
          /\ Transfer("boot", "write", area, next)
     ELSE Go("boot", next) /\ UNCHANGED ram

\* Mistake: the defaults are not written.
CheckImageUnwritten(at, area, next) ==
  /\ Runs("boot", at)
  /\ ram' = IF rom[area][0] # "icon" THEN [ram EXCEPT ![RamOf(area)] = Defaults] ELSE ram
  /\ Go("boot", next)

CheckImage(at, area, next) ==
  /\ Runs("boot", at)
  /\ IF rom[area][0] # "icon"
     THEN /\ ram' = [ram EXCEPT ![RamOf(area)] = Defaults]
          /\ Transfer("boot", "write", area, next)
     ELSE Go("boot", next) /\ UNCHANGED ram

Load ==
  /\ \/ Runs("boot", "loadCfg") /\ Transfer("boot", "read", "cfg", "bootMsg")
     \/ Runs("boot", "loadMsg") /\ Transfer("boot", "read", "msg", "idle")
  /\ UNCHANGED ram

Boot ==
  /\ \/ \E c \in Checks : CheckImage(c[1], c[2], c[3])
     \/ Load
  /\ UNCHANGED <<rom, flags, history>>

Reset ==
  [t \in Tasks |-> Task(CASE t = "boot" -> "bootFactory" [] t = "pc" -> "sleep"
                          [] OTHER -> "idle", "idle")]

\* The power fails at any moment, and comes back.
PowerLoss ==
  /\ st["boot"].at = "idle" \/ BootTrouble
  /\ st' = Reset
  /\ ram' = [img \in Images |-> Blank]
  /\ save' = {} /\ fSaveStart' = FALSE
  /\ took' = {} /\ disturbed' = FALSE /\ failed' = FALSE
  /\ UNCHANGED <<rom, settled>>

-----------------------------------------------------------------------------
Init ==
  /\ st = Reset
  /\ ram = [img \in Images |-> Blank]
  /\ rom \in {[a \in Areas |-> Blank], [a \in Areas |-> Defaults]}
  /\ save = {} /\ fSaveStart = FALSE
  /\ took = {} /\ disturbed = FALSE /\ failed = FALSE
  /\ settled = Stored

Next ==
  \/ Boot \/ ReceiveUdp \/ TaskPC \/ PowerLoss
  \/ \E t \in {"boot", "udp", "pc"} : EepromStep(t)
  \/ \E t \in {"udp", "pc"} : ProtocolStep(t)
  \/ \E t \in Locals : Local(t)

Spec == Init /\ [][Next]_vars

-----------------------------------------------------------------------------
(* Properties.                                                             *)

Labels == Delaying \union
  {"write", "read", "set", "act", "factory", "tail", "start", "save", "uart1",
   "uart2", "check", "saveCfg", "saveMsg", "bootFactory", "bootCfg", "loadCfg",
   "bootMsg", "loadMsg"}

\* Every variable keeps its type; the transfers stay inside the areas.
TypeOK ==
  /\ ram \in [Images -> [Cells -> CellValues]]
  /\ rom \in [Areas -> [Cells -> CellValues]]
  /\ save \subseteq Images /\ fSaveStart \in BOOLEAN
  /\ st \in [Tasks -> [at : Labels, area : Areas, i : Cells, next : Labels, ret : Labels]]
  /\ took \subseteq Images \X Cells \X CellValues
  /\ disturbed \in BOOLEAN /\ failed \in BOOLEAN
  /\ settled \in [Images -> [Cells -> CellValues]]

Undisturbed == st["boot"].at = "idle" /\ ~disturbed

\* A setting taken from a serial port is in the EEPROM when TaskPC goes back
\* to sleep, if no other task came between and the chip took every byte,
\* whatever flags and half-done commands the loop began with.
SettingSurvives ==
  st["pc"].at = "sleep" /\ Undisturbed /\ ~failed
    => \A s \in took : rom[s[1]][s[2]] = s[3]

\* With nobody in between, the whole structure TaskPC leaves in RAM after a
\* save is what is in the EEPROM, also when the chip gave up half way, and
\* with it the settings whose own save was lost before: the settings shown to
\* the operators are the ones a power loss would leave.
ShownIsStored ==
  st["pc"].at = "sleep" /\ Undisturbed => \A s \in took : rom[s[1]] = ram[s[1]]

\* At whatever moment of an undisturbed loop of TaskPC the power fails, each
\* cell of the EEPROM is either the one stored before or the one in force.
OldOrNew ==
  Undisturbed =>
    \A img \in Images, c \in Cells :
      rom[img][c] \in {settled[img][c], ram[img][c]}

\* After a boot that nothing interrupts both structures are complete and are
\* what the EEPROM holds, whether it held images before or not.
BootLoads ==
  [][st["boot"].at = "read" /\ st'["boot"].at = "idle" =>
       \A img \in Images : ram'[img] = rom'[img]
                           /\ \A c \in Cells : ram'[img][c] # "blank"]_vars

\* An image once valid stays valid: no command, failed write or power loss
\* takes its icon away, which would bring back the defaults at the next boot.
ImageStaysValid ==
  [][\A area \in Areas : rom[area][0] = "icon" => rom'[area][0] = "icon"]_vars

-----------------------------------------------------------------------------
(* What a comment says, and the code does not do.                          *)

\* TaskPC.c:248 "after the write has succeeded, read the data out again to
\* make sure it is correct": with a chip that works, reading back changes
\* nothing in RAM.
ReadBackIsHarmless == [][st["pc"].at = "read" /\ st'["pc"] # st["pc"] => ram' = ram]_vars
=============================================================================
