-------------------------- MODULE ConfigSaveProofs --------------------------
(***************************************************************************)
(* Theorems about ConfigSave, for every value of its constants: the type   *)
(* invariant, and the images of the EEPROM that stay valid.                *)
(***************************************************************************)
EXTENDS ConfigSave, TLAPS

Places == [at : Labels, area : Areas, i : Cells, next : Labels, ret : Labels]
Structures == [Images -> [Cells -> CellValues]]
EepromAreas == [Areas -> [Cells -> CellValues]]

-----------------------------------------------------------------------------
(* Types.                                                                  *)

LEMMA ConstantTypes ==
  /\ 0 \in Cells /\ N \in Cells
  /\ {"set", "act", "factory"} \subseteq Labels /\ Commands \subseteq Labels
  /\ Settable \subseteq Images \X Cells
  /\ \A c \in Cells : c < N => c + 1 \in Cells
<1>1. 0 \in Cells /\ N \in Cells /\ \A c \in Cells : c < N => c + 1 \in Cells
  BY ConfigAssumption DEF Cells
<1>2. {"set", "act", "factory"} \subseteq Labels
  BY DEF Labels
<1>3. CfgCells \subseteq Cells /\ MsgCells \subseteq Cells
  BY ConfigAssumption DEF Cells
<1>4. Settable \subseteq Images \X Cells
  BY <1>3 DEF Settable, Images
<1> QED
  BY <1>1, <1>2, <1>4, ConfigAssumption

LEMMA RamOfType == \A area \in Areas : RamOf(area) \in Images
  BY DEF Areas, Images, RamOf

\* The places a task goes to.
LEMMA TaskType ==
  \A at, ret \in Labels : Task(at, ret) \in Places
  BY ConstantTypes DEF Task, Places, Labels, Delaying, Areas, Images

LEMMA GoType ==
  ASSUME st \in [Tasks -> Places], NEW t \in Tasks, NEW at \in Labels, Go(t, at)
  PROVE  st' \in [Tasks -> Places]
<1>1. st[t] \in Places
  OBVIOUS
<1>2. Task(at, st[t].ret) \in Places
  BY <1>1, TaskType DEF Places
<1>3. Arrived(st[t], at) \in Places
  BY <1>1, <1>2 DEF Arrived, Places
<1> QED
  BY <1>3 DEF Go

LEMMA TransferType ==
  ASSUME st \in [Tasks -> Places], NEW t \in Tasks, NEW kind \in {"read", "write"},
         NEW area \in Areas, NEW next \in Labels, Transfer(t, kind, area, next)
  PROVE  st' \in [Tasks -> Places]
<1>1. kind \in Labels /\ 0 \in Cells
  BY ConstantTypes DEF Labels
<1> QED
  BY <1>1 DEF Transfer, Places

LEMMA AdvanceType ==
  ASSUME st \in [Tasks -> Places], NEW t \in Tasks, Advance(t)
  PROVE  st' \in [Tasks -> Places]
<1>1. st[t] \in Places /\ st[t].i \in Cells /\ st[t].next \in Labels /\ st[t].ret \in Labels
  BY DEF Places
<1>2. CASE st[t].i < N
  <2>1. st[t].i + 1 \in Cells
    BY <1>1, <1>2, ConstantTypes
  <2> QED
    BY <1>2, <2>1 DEF Advance, Places
<1>3. CASE ~(st[t].i < N)
  <2>1. Task(st[t].next, st[t].ret) \in Places
    BY <1>1, TaskType
  <2>2. Arrived(st[t], st[t].next) \in Places
    BY <1>1, <2>1 DEF Arrived, Places
  <2> QED
    BY <1>3, <2>2 DEF Advance
<1> QED
  BY <1>2, <1>3

\* The history and the flags are of their types, however they change.
StoreType == ram \in Structures /\ rom \in EepromAreas
FlagsType == save \subseteq Images /\ fSaveStart \in BOOLEAN
HistoryType ==
  /\ took \subseteq Images \X Cells \X CellValues
  /\ disturbed \in BOOLEAN /\ failed \in BOOLEAN
  /\ settled \in Structures

LEMMA TypeParts == TypeOK <=> StoreType /\ FlagsType /\ HistoryType /\ st \in [Tasks -> Places]
  BY DEF TypeOK, StoreType, FlagsType, HistoryType, Structures, EepromAreas, Places

\* The same of the next state.
LEMMA TypePartsNext ==
  StoreType' /\ FlagsType' /\ HistoryType' /\ st' \in [Tasks -> Places] => TypeOK'
  BY DEF TypeOK, StoreType, FlagsType, HistoryType, Structures, EepromAreas, Places

LEMMA StoredType == rom \in EepromAreas => Stored \in Structures
  BY DEF EepromAreas, Structures, Stored, Areas, Images

LEMMA NotedType == ASSUME HistoryType, NEW t, Noted(t) PROVE HistoryType'
  BY DEF HistoryType, Noted

LEMMA EepromType ==
  ASSUME TypeOK, NEW t \in Tasks, EepromStep(t) PROVE TypeOK'
<1>0. StoreType /\ FlagsType /\ HistoryType /\ st \in [Tasks -> Places] /\ st[t] \in Places
  BY TypeParts
<1>1. st[t].area \in Areas /\ st[t].i \in Cells /\ st[t].next \in Labels
      /\ RamOf(st[t].area) \in Images
  BY <1>0, RamOfType DEF Places
<1>2. CASE Write(t)
  <2>1. st' \in [Tasks -> Places]
    BY <1>0, <1>2, AdvanceType DEF Write
  <2>2. StoreType'
    BY <1>0, <1>1, <1>2 DEF Write, WriteCell, StoreType, Structures, EepromAreas
  <2>3. HistoryType' /\ FlagsType'
    BY <1>0, <1>2, NotedType DEF Write, flags, FlagsType
  <2> QED
    BY <2>1, <2>2, <2>3, TypePartsNext
<1>3. CASE WriteFails(t)
  <2>1. st' \in [Tasks -> Places]
    BY <1>0, <1>1, <1>3, GoType DEF WriteFails
  <2>2. StoreType' /\ FlagsType' /\ HistoryType'
    BY <1>0, <1>3 DEF WriteFails, store, flags, StoreType, FlagsType, HistoryType
  <2> QED
    BY <2>1, <2>2, TypePartsNext
<1>4. CASE Read(t)
  <2>1. st' \in [Tasks -> Places]
    BY <1>0, <1>4, AdvanceType DEF Read
  <2>2. StoreType' /\ FlagsType'
    BY <1>0, <1>1, <1>4 DEF Read, ReadCell, flags, StoreType, FlagsType, Structures, EepromAreas
  <2>3. HistoryType'
    BY <1>0, <1>4, StoredType, NotedType DEF Read, HistoryType, StoreType
  <2> QED
    BY <2>1, <2>2, <2>3, TypePartsNext
<1> QED
  BY <1>2, <1>3, <1>4 DEF EepromStep

LEMMA ReceiveType ==
  ASSUME TypeOK, NEW t \in Tasks, NEW ret \in Labels, Receive(t, ret) PROVE TypeOK'
<1>0. StoreType /\ FlagsType /\ HistoryType /\ st \in [Tasks -> Places]
  BY TypeParts
<1>1. st' \in [Tasks -> Places]
  BY <1>0, TaskType, ConstantTypes DEF Receive
<1>2. StoreType' /\ FlagsType' /\ HistoryType'
  BY <1>0, StoredType DEF Receive, store, StoreType, FlagsType, HistoryType
<1> QED
  BY <1>1, <1>2, TypePartsNext

LEMMA ProtocolType ==
  ASSUME TypeOK, NEW t \in {"udp", "pc"}, ProtocolStep(t) PROVE TypeOK'
<1>0. /\ StoreType /\ FlagsType /\ HistoryType /\ st \in [Tasks -> Places] /\ t \in Tasks
      /\ st[t].ret \in Labels
  BY TypeParts DEF Tasks, Places
<1>1. CASE Set(t)
  <2>1. PICK a \in Settable, v \in NewValues \union {"default"} :
          /\ ram' = [ram EXCEPT ![a[1]][a[2]] = v]
          /\ save' = save \union {a[1]}
          /\ took' = IF t = "pc" THEN {<<a[1], a[2], v>>} ELSE took
    BY <1>1 DEF Set
  <2>2. a[1] \in Images /\ a[2] \in Cells /\ v \in CellValues
    BY ConstantTypes DEF CellValues
  <2>3. st' \in [Tasks -> Places]
    BY <1>0, <1>1, GoType DEF Set, Labels
  <2>4. StoreType' /\ FlagsType'
    BY <1>0, <1>1, <2>1, <2>2 DEF Set, StoreType, FlagsType, Structures
  <2>5. took' \subseteq Images \X Cells \X CellValues
    BY <1>0, <2>1, <2>2 DEF HistoryType
  <2>6. HistoryType'
    BY <1>0, <1>1, <2>5 DEF Set, HistoryType
  <2> QED
    BY <2>3, <2>4, <2>6, TypePartsNext
<1>2. CASE Act(t)
  <2>1. st' \in [Tasks -> Places]
    BY <1>0, <1>2, GoType DEF Act, Labels
  <2>2. StoreType' /\ FlagsType' /\ HistoryType'
    BY <1>0, <1>2, NotedType DEF Act, store, flags, StoreType, FlagsType
  <2> QED
    BY <2>1, <2>2, TypePartsNext
<1>3. CASE Factory(t)
  <2>1. st' \in [Tasks -> Places]
    BY <1>0, <1>3, TransferType DEF Factory, Labels, Delaying, Areas, Images
  <2>2. StoreType' /\ FlagsType'
    BY <1>0, <1>3 DEF Factory, store, flags, StoreType, FlagsType
  <2>3. {<<"cfg", c, rom["factory"][c]>> : c \in Cells} \subseteq Images \X Cells \X CellValues
    BY <1>0 DEF StoreType, EepromAreas, Areas, Images
  <2>4. HistoryType'
    BY <1>0, <1>3, <2>3 DEF Factory, HistoryType
  <2> QED
    BY <2>1, <2>2, <2>4, TypePartsNext
<1>4. CASE Tail(t)
  <2>1. st' \in [Tasks -> Places]
    BY <1>0, <1>4, TaskType DEF Tail, Labels, Delaying
  <2>2. StoreType' /\ FlagsType' /\ HistoryType'
    BY <1>0, <1>4, NotedType DEF Tail, StartIfAsked, store, StoreType, FlagsType
  <2> QED
    BY <2>1, <2>2, TypePartsNext
<1> QED
  BY <1>1, <1>2, <1>3, <1>4 DEF ProtocolStep

LEMMA LocalType ==
  ASSUME TypeOK, NEW t \in Locals, Local(t) PROVE TypeOK'
<1>0. StoreType /\ FlagsType /\ HistoryType /\ st \in [Tasks -> Places] /\ t \in Tasks
  BY TypeParts, ConfigAssumption DEF Tasks
<1>1. st' \in [Tasks -> Places]
  BY <1>0, GoType DEF Local, Labels, Delaying
<1>2. ram' \in Structures
  BY <1>0, ConstantTypes DEF Local, StoreType, Structures, CellValues, Images
<1>3. StoreType' /\ FlagsType' /\ HistoryType'
  BY <1>0, <1>2, NotedType DEF Local, flags, StoreType, FlagsType, Images
<1> QED
  BY <1>1, <1>3, TypePartsNext

LEMMA TaskPCType ==
  ASSUME TypeOK, TaskPC PROVE TypeOK'
<1>0. /\ StoreType /\ FlagsType /\ HistoryType /\ st \in [Tasks -> Places] /\ "pc" \in Tasks
      /\ st["pc"].area \in Areas
  BY TypeParts DEF Tasks, Places
<1>1. CASE Wake
  <2>1. st' \in [Tasks -> Places]
    BY <1>0, <1>1, GoType DEF Wake, Labels
  <2>2. StoreType' /\ FlagsType' /\ HistoryType'
    BY <1>0, <1>1, StoredType DEF Wake, store, flags, StoreType, FlagsType, HistoryType
  <2> QED
    BY <2>1, <2>2, TypePartsNext
<1>2. ASSUME NEW port, NEW next \in {"uart2", "check"}, Serial(port, next) PROVE TypeOK'
  <2>0. next \in Labels
    BY DEF Labels
  <2>1. CASE Receive("pc", next)
    BY <1>0, <2>0, <2>1, ReceiveType
  <2>2. CASE Go("pc", next) /\ Noted("pc") /\ UNCHANGED <<store, flags>>
    <3>1. st' \in [Tasks -> Places]
      BY <1>0, <2>0, <2>2, GoType
    <3>2. StoreType' /\ FlagsType' /\ HistoryType'
      BY <1>0, <2>2, NotedType DEF store, flags, StoreType, FlagsType
    <3> QED
      BY <3>1, <3>2, TypePartsNext
  <2> QED
    BY <1>2, <2>1, <2>2 DEF Serial
<1>3. CASE CheckSave
  <2>1. st' \in [Tasks -> Places]
    BY <1>0, <1>3, GoType DEF CheckSave, Labels, Delaying
  <2>2. StoreType' /\ FlagsType' /\ HistoryType'
    BY <1>0, <1>3, NotedType DEF CheckSave, store, StoreType, FlagsType
  <2> QED
    BY <2>1, <2>2, TypePartsNext
<1>4. ASSUME NEW at, NEW img \in Images, SaveImage(at, img) PROVE TypeOK'
  <2>0. AfterSave(img) \in Labels /\ "wait" \in Labels /\ "idle" \in Labels /\ img \in Areas
    BY DEF AfterSave, Labels, Delaying, Areas
  <2>1. st' \in [Tasks -> Places]
    BY <1>0, <1>4, <2>0, TransferType, TaskType DEF SaveImage, Saved
  <2>2. StoreType' /\ FlagsType' /\ HistoryType'
    BY <1>0, <1>4, NotedType DEF SaveImage, store, StoreType, FlagsType
  <2> QED
    BY <2>1, <2>2, TypePartsNext
<1>5. CASE ReadBack
  <2>0. AfterSave(st["pc"].area) \in Labels
    BY DEF AfterSave, Labels, Delaying
  <2>1. st' \in [Tasks -> Places]
    BY <1>0, <1>5, <2>0, TransferType DEF ReadBack
  <2>2. StoreType' /\ FlagsType' /\ HistoryType'
    BY <1>0, <1>5, NotedType DEF ReadBack, store, flags, StoreType, FlagsType
  <2> QED
    BY <2>1, <2>2, TypePartsNext
<1> QED
  BY <1>1, <1>2, <1>3, <1>4, <1>5 DEF TaskPC, Images

LEMMA BlankType == [img \in Images |-> Blank] \in Structures /\ Defaults \in [Cells -> CellValues]
  BY DEF Blank, Defaults, Structures, CellValues

LEMMA ResetType == Reset \in [Tasks -> Places]
<1>1. /\ "bootFactory" \in Labels /\ "sleep" \in Labels /\ "idle" \in Labels
  BY DEF Labels, Delaying
<1> QED
  BY <1>1, TaskType DEF Reset

LEMMA BootType ==
  ASSUME TypeOK, Boot \/ PowerLoss PROVE TypeOK'
<1>0. StoreType /\ FlagsType /\ HistoryType /\ st \in [Tasks -> Places] /\ "boot" \in Tasks
  BY TypeParts DEF Tasks
<1>1. CASE Boot
  <2>1. ASSUME NEW at, NEW area \in Areas, NEW next \in {"bootCfg", "loadCfg", "loadMsg"},
               CheckImage(at, area, next)
        PROVE  st' \in [Tasks -> Places] /\ ram' \in Structures
    <3>0. next \in Labels /\ RamOf(area) \in Images
      BY RamOfType DEF Labels
    <3>1. st' \in [Tasks -> Places]
      BY <1>0, <2>1, <3>0, TransferType, GoType DEF CheckImage
    <3>2. ram' \in Structures
      BY <1>0, <2>1, <3>0, BlankType DEF CheckImage, StoreType, Structures
    <3> QED
      BY <3>1, <3>2
  <2>2. CASE \E c \in Checks : CheckImage(c[1], c[2], c[3])
    <3>1. \/ CheckImage("bootFactory", "factory", "bootCfg")
          \/ CheckImage("bootCfg", "cfg", "loadCfg")
          \/ CheckImage("bootMsg", "msg", "loadMsg")
      BY <2>2 DEF Checks
    <3> QED
      BY <1>0, <1>1, <2>1, <3>1, TypePartsNext
      DEF Boot, Areas, Images, flags, history, StoreType, FlagsType, HistoryType
  <2>3. CASE Load
    <3>1. st' \in [Tasks -> Places] /\ ram' = ram
      BY <1>0, <2>3, TransferType DEF Load, Labels, Delaying, Areas, Images
    <3> QED
      BY <1>0, <1>1, <3>1, TypePartsNext
      DEF Boot, flags, history, StoreType, FlagsType, HistoryType
  <2> QED
    BY <1>1, <2>2, <2>3 DEF Boot
<1>2. CASE PowerLoss
  <2>1. st' \in [Tasks -> Places]
    BY <1>2, ResetType DEF PowerLoss
  <2>2. StoreType' /\ FlagsType' /\ HistoryType'
    BY <1>0, <1>2, BlankType DEF PowerLoss, StoreType, FlagsType, HistoryType
  <2> QED
    BY <2>1, <2>2, TypePartsNext
<1> QED
  BY <1>1, <1>2

LEMMA InitType == Init => TypeOK
<1> SUFFICES ASSUME Init PROVE TypeOK
  OBVIOUS
<1>1. st \in [Tasks -> Places]
  BY ResetType DEF Init
<1>2. rom \in EepromAreas
  BY DEF Init, EepromAreas, Blank, Defaults, CellValues
<1>3. StoreType /\ FlagsType /\ HistoryType
  BY <1>2, BlankType, StoredType DEF Init, StoreType, FlagsType, HistoryType
<1> QED
  BY <1>1, <1>3, TypeParts

LEMMA StepType == TypeOK /\ [Next]_vars => TypeOK'
<1> SUFFICES ASSUME TypeOK, [Next]_vars PROVE TypeOK'
  OBVIOUS
<1>1. CASE ReceiveUdp
  BY <1>1, ReceiveType DEF ReceiveUdp, Tasks, Labels, Delaying
<1>2. CASE UNCHANGED vars
  BY <1>2 DEF vars, store, flags, history, TypeOK
<1>3. ASSUME NEW t \in {"boot", "udp", "pc"}, EepromStep(t) PROVE TypeOK'
  BY <1>3, EepromType DEF Tasks
<1> QED
  BY <1>1, <1>2, <1>3, BootType, TaskPCType, ProtocolType, LocalType DEF Next

\* Every variable keeps its type, for any number of settings and any tasks:
\* in particular no transfer leaves its area.
THEOREM StoreTypes == Spec => []TypeOK
<1> QED
  BY InitType, StepType, PTL DEF Spec

-----------------------------------------------------------------------------
(* Valid images stay valid.                                                *)
(*                                                                         *)
(* Once the boot is over every area begins with the icon, and so do both   *)
(* structures in RAM: whatever is written or read then, in whatever order  *)
(* and to whatever end, carries an icon to an icon.  During the boot the   *)
(* areas get their icons one after the other.                              *)

\* The transfers of the boot, and what follows each.
BootWrites == {<<"factory", "bootCfg">>, <<"cfg", "loadCfg">>, <<"msg", "loadMsg">>}
BootReads == {<<"cfg", "bootMsg">>, <<"msg", "idle">>}
BootPath(b) ==
  \/ b.at \in {"bootFactory", "bootCfg", "loadCfg", "bootMsg", "loadMsg", "idle"}
  \/ b.at = "write" /\ <<b.area, b.next>> \in BootWrites
  \/ b.at = "read" /\ <<b.area, b.next>> \in BootReads

\* The areas the boot, at b, has not yet seen to begin with the icon.
Unchecked(b) ==
  CASE b.at = "bootFactory" -> Areas
    [] b.at = "bootCfg" -> {"cfg", "msg"}
    [] b.at \in {"loadCfg", "bootMsg"} -> {"msg"}
    [] b.at = "write" -> IF b.area = "factory" THEN IF b.i = 0 THEN Areas ELSE {"cfg", "msg"}
                         ELSE IF b.area = "cfg" THEN IF b.i = 0 THEN {"cfg", "msg"} ELSE {"msg"}
                         ELSE IF b.i = 0 THEN {"msg"} ELSE {}
    [] b.at = "read" /\ b.area = "cfg" -> {"msg"}
    [] OTHER -> {}

\* The structures in RAM that begin with the icon while the boot is at b.
IconInRam(b) ==
  CASE b.at = "idle" -> Images
    [] b.at = "write" -> {RamOf(b.area)} \union (IF b.area = "msg" THEN {"cfg"} ELSE {})
    [] b.at = "read" -> IF b.area = "msg" THEN IF b.i = 0 THEN {"cfg"} ELSE Images
                        ELSE IF b.i = 0 THEN {} ELSE {"cfg"}
    [] b.at \in {"bootMsg", "loadMsg"} -> {"cfg"}
    [] OTHER -> {}

Icons ==
  /\ BootPath(st["boot"])
  /\ \A area \in Areas : area \notin Unchecked(st["boot"]) => rom[area][0] = "icon"
  /\ \A img \in IconInRam(st["boot"]) : ram[img][0] = "icon"

IInv == TypeOK /\ Icons

\* No write of the boot is given up: writes do not fail, or not then.
BootHolds == ~(WriteMayFail /\ BootTrouble)

\* What a step may never do to the areas.
KeepsIcons == \A area \in Areas : rom[area][0] = "icon" => rom'[area][0] = "icon"

\* The other tasks run only when the boot is over.
LEMMA BootOver ==
  ASSUME Icons, NEW t \in Tasks \ {"boot"}, NEW at, Runs(t, at)
  PROVE  /\ st["boot"].at = "idle"
         /\ \A area \in Areas : rom[area][0] = "icon"
         /\ \A img \in Images : ram[img][0] = "icon"
<1>1. "boot" \in Higher(t)
  BY DEF Higher, Tasks
<1>2. st["boot"].at \in Delaying
  BY <1>1 DEF Runs
<1>3. st["boot"].at = "idle"
  BY <1>2 DEF Icons, BootPath, Delaying
<1>4. Unchecked(st["boot"]) = {} /\ IconInRam(st["boot"]) = Images
  BY <1>3 DEF Unchecked, IconInRam
<1> QED
  BY <1>3, <1>4 DEF Icons

\* A step that leaves the boot over and every icon where it is.
LEMMA StaysOver ==
  ASSUME st["boot"].at = "idle", st'["boot"] = st["boot"],
         \A area \in Areas : rom'[area][0] = "icon",
         \A img \in Images : ram'[img][0] = "icon"
  PROVE  Icons' /\ KeepsIcons
<1>1. st'["boot"].at = "idle"
  OBVIOUS
<1>2. IconInRam(st'["boot"]) = Images /\ BootPath(st'["boot"])
  BY <1>1 DEF IconInRam, BootPath
<1> QED
  BY <1>2 DEF Icons, KeepsIcons

LEMMA MovesItself ==
  ASSUME TypeOK, NEW t \in Tasks \ {"boot"},
         \/ \E at \in Labels : Go(t, at)
         \/ \E kind, next \in Labels, area \in Areas : Transfer(t, kind, area, next)
         \/ Advance(t)
         \/ \E s : st' = [st EXCEPT ![t] = s]
  PROVE  st'["boot"] = st["boot"]
<1>1. st \in [Tasks -> Places] /\ "boot" \in Tasks /\ t # "boot"
  BY TypeParts DEF Tasks
<1> QED
  BY <1>1 DEF Go, Transfer, Advance

\* Whatever a task other than the boot writes or reads, icon follows icon.
LEMMA LaterTransfers ==
  ASSUME TypeOK, Icons, NEW t \in Tasks \ {"boot"}, EepromStep(t)
  PROVE  Icons' /\ KeepsIcons
<1>0. /\ StoreType /\ st[t].area \in Areas /\ st[t].i \in Cells /\ st[t].next \in Labels
      /\ RamOf(st[t].area) \in Images /\ 0 \in Cells
  BY TypeParts, RamOfType, ConstantTypes DEF Places
<1>1. /\ st["boot"].at = "idle"
      /\ \A area \in Areas : rom[area][0] = "icon"
      /\ \A img \in Images : ram[img][0] = "icon"
  BY BootOver DEF EepromStep, Write, WriteFails, Read
<1>2. st'["boot"] = st["boot"]
  BY <1>0, MovesItself DEF EepromStep, Write, WriteFails, Read
<1>3. \A area \in Areas : rom'[area][0] = "icon"
  <2>1. CASE Write(t)
    BY <1>0, <1>1, <2>1 DEF Write, WriteCell, StoreType, EepromAreas
  <2>2. CASE WriteFails(t) \/ Read(t)
    BY <1>1, <2>2 DEF WriteFails, Read, store
  <2> QED
    BY <2>1, <2>2 DEF EepromStep
<1>4. \A img \in Images : ram'[img][0] = "icon"
  <2>1. CASE Read(t)
    BY <1>0, <1>1, <2>1 DEF Read, ReadCell, StoreType, Structures
  <2>2. CASE WriteFails(t) \/ Write(t)
    BY <1>1, <2>2 DEF WriteFails, Write, store
  <2> QED
    BY <2>1, <2>2 DEF EepromStep
<1> QED
  BY <1>1, <1>2, <1>3, <1>4, StaysOver

\* Settings are not kept in the icon's cell.
LEMMA LaterCommands ==
  ASSUME TypeOK, Icons, NEW t \in {"udp", "pc"}, ProtocolStep(t)
  PROVE  Icons' /\ KeepsIcons
<1>0. StoreType /\ t \in Tasks \ {"boot"}
  BY TypeParts DEF Tasks
<1>1. /\ st["boot"].at = "idle"
      /\ \A area \in Areas : rom[area][0] = "icon"
      /\ \A img \in Images : ram[img][0] = "icon"
  BY <1>0, BootOver DEF ProtocolStep, Set, Act, Factory, Tail
<1>2. st'["boot"] = st["boot"]
  BY <1>0, MovesItself DEF ProtocolStep, Set, Act, Factory, Tail, Labels, Delaying, Areas, Images
<1>3. rom' = rom
  BY DEF ProtocolStep, Set, Act, Factory, Tail, store
<1>4. \A img \in Images : ram'[img][0] = "icon"
  <2>1. CASE Set(t)
    <3>1. PICK a \in Settable, v \in NewValues \union {"default"} :
            ram' = [ram EXCEPT ![a[1]][a[2]] = v]
      BY <2>1 DEF Set
    <3>2. a[2] # 0
      BY ConfigAssumption DEF Settable
    <3> QED
      BY <1>0, <1>1, <3>1, <3>2 DEF StoreType, Structures
  <2>2. CASE Act(t) \/ Factory(t) \/ Tail(t)
    BY <1>1, <2>2 DEF Act, Factory, Tail, store
  <2> QED
    BY <2>1, <2>2 DEF ProtocolStep
<1> QED
  BY <1>1, <1>2, <1>3, <1>4, StaysOver

LEMMA LaterLocals ==
  ASSUME TypeOK, Icons, NEW t \in Locals, Local(t)
  PROVE  Icons' /\ KeepsIcons
<1>0. StoreType /\ t \in Tasks \ {"boot"}
  BY TypeParts, ConfigAssumption DEF Tasks
<1>1. /\ st["boot"].at = "idle"
      /\ \A area \in Areas : rom[area][0] = "icon"
      /\ \A img \in Images : ram[img][0] = "icon"
  BY <1>0, BootOver DEF Local
<1>2. st'["boot"] = st["boot"] /\ rom' = rom
  BY <1>0, MovesItself DEF Local, Labels, Delaying
<1>3. \A img \in Images : ram'[img][0] = "icon"
  <2>1. CASE ram' = ram
    BY <1>1, <2>1
  <2>2. CASE \E a \in Settable, v \in NewValues : ram' = [ram EXCEPT !["cfg"][a[2]] = v]
    <3>1. PICK a \in Settable, v \in NewValues : ram' = [ram EXCEPT !["cfg"][a[2]] = v]
      BY <2>2
    <3>2. a[2] # 0
      BY ConfigAssumption DEF Settable
    <3> QED
      BY <1>0, <1>1, <3>1, <3>2 DEF StoreType, Structures
  <2> QED
    BY <2>1, <2>2 DEF Local
<1> QED
  BY <1>1, <1>2, <1>3, StaysOver

LEMMA LaterTaskPC ==
  ASSUME TypeOK, Icons, TaskPC \/ ReceiveUdp
  PROVE  Icons' /\ KeepsIcons
<1>0. "pc" \in Tasks \ {"boot"} /\ "udp" \in Tasks \ {"boot"} /\ st["pc"].area \in Areas
  BY TypeParts DEF Tasks, Places
<1>1. /\ st["boot"].at = "idle"
      /\ \A area \in Areas : rom[area][0] = "icon"
      /\ \A img \in Images : ram[img][0] = "icon"
  BY <1>0, BootOver
  DEF TaskPC, Wake, Serial, CheckSave, SaveImage, ReadBack, ReceiveUdp
<1>2. ram' = ram /\ rom' = rom
  BY DEF TaskPC, Wake, Serial, CheckSave, SaveImage, ReadBack, ReceiveUdp, Receive, store
<1>3. CASE ReceiveUdp
  BY <1>0, <1>1, <1>2, <1>3, MovesItself, StaysOver DEF ReceiveUdp, Receive
<1>4. CASE Wake \/ CheckSave \/ ReadBack
  <2>1. st'["boot"] = st["boot"]
    BY <1>0, <1>4, MovesItself
    DEF Wake, CheckSave, ReadBack, AfterSave, Labels, Delaying
  <2> QED
    BY <1>1, <1>2, <2>1, StaysOver
<1>5. ASSUME NEW port, NEW next \in {"uart2", "check"}, Serial(port, next)
      PROVE  Icons' /\ KeepsIcons
  <2>1. st'["boot"] = st["boot"]
    BY <1>0, <1>5, MovesItself DEF Serial, Receive, Labels
  <2> QED
    BY <1>1, <1>2, <2>1, StaysOver
<1>6. ASSUME NEW at, NEW img \in Images, SaveImage(at, img)
      PROVE  Icons' /\ KeepsIcons
  <2>1. st'["boot"] = st["boot"]
    BY <1>0, <1>6, MovesItself DEF SaveImage, Saved, Areas, Labels, Delaying
  <2> QED
    BY <1>1, <1>2, <2>1, StaysOver
<1> QED
  BY <1>3, <1>4, <1>5, <1>6 DEF TaskPC, Images

\* Where a transfer of the boot goes on: cell 0 is not the last.
LEMMA BootGoesOn ==
  ASSUME TypeOK, Advance("boot")
  PROVE  LET b == st["boot"]
             b1 == st'["boot"]
         IN  \/ b1.at = b.at /\ b1.area = b.area /\ b1.next = b.next /\ b1.i # 0
             \/ b1.at = b.next /\ b1.i = 0 /\ b.i # 0
<1>0. st \in [Tasks -> Places] /\ "boot" \in Tasks /\ st["boot"] \in Places
  BY TypeParts DEF Tasks
<1>1. st["boot"].i \in Nat /\ N \in Nat /\ 0 < N
  BY <1>0, ConfigAssumption DEF Places, Cells
<1>2. CASE st["boot"].i < N
  <2>1. st'["boot"] = [st["boot"] EXCEPT !.i = st["boot"].i + 1]
    BY <1>0, <1>2 DEF Advance
  <2> QED
    BY <1>0, <1>1, <2>1 DEF Places
<1>3. CASE ~(st["boot"].i < N)
  <2>1. st'["boot"] = Arrived(st["boot"], st["boot"].next)
    BY <1>0, <1>3 DEF Advance
  <2> QED
    BY <1>1, <1>3, <2>1 DEF Arrived, Task
<1> QED
  BY <1>2, <1>3

LEMMA BootTransfers ==
  ASSUME TypeOK, Icons, BootHolds, EepromStep("boot")
  PROVE  Icons' /\ KeepsIcons
<1> DEFINE b == st["boot"]
           b1 == st'["boot"]
<1>0. StoreType /\ b.i \in Cells /\ b.area \in Areas /\ RamOf(b.area) \in Images /\ 0 \in Cells
  BY TypeParts, ConstantTypes, RamOfType DEF Tasks, Places
<1>1. CASE Write("boot")
  <2>0. b.at = "write" /\ <<b.area, b.next>> \in BootWrites
    BY <1>1 DEF Write, Runs, Icons, BootPath
  <2>1. \/ b1.at = b.at /\ b1.area = b.area /\ b1.next = b.next /\ b1.i # 0
        \/ b1.at = b.next /\ b1.i = 0 /\ b.i # 0
    BY <1>1, BootGoesOn DEF Write
  <2>2. /\ BootPath(b1) /\ IconInRam(b1) \subseteq IconInRam(b)
        /\ Unchecked(b1) = Unchecked(b) \ {b.area}
    <3>1. CASE b.area = "factory" /\ b.next = "bootCfg"
      BY <2>0, <2>1, <3>1
      DEF BootPath, BootWrites, IconInRam, Unchecked, RamOf, Areas, Images
    <3>2. CASE b.area = "cfg" /\ b.next = "loadCfg"
      BY <2>0, <2>1, <3>2
      DEF BootPath, BootWrites, IconInRam, Unchecked, RamOf, Areas, Images
    <3>3. CASE b.area = "msg" /\ b.next = "loadMsg"
      BY <2>0, <2>1, <3>3
      DEF BootPath, BootWrites, IconInRam, Unchecked, RamOf, Areas, Images
    <3> QED
      BY <2>0, <3>1, <3>2, <3>3 DEF BootWrites
  <2>3. ram' = ram /\ ram[RamOf(b.area)][0] = "icon"
    BY <1>1, <2>0 DEF Write, Icons, IconInRam
  <2>4. /\ \A area \in Areas \ {b.area} : rom'[area] = rom[area]
        /\ b.i = 0 => rom'[b.area][0] = ram[RamOf(b.area)][0]
        /\ b.i # 0 => rom'[b.area][0] = rom[b.area][0]
    BY <1>0, <1>1 DEF Write, WriteCell, StoreType, EepromAreas
  <2>5. b.i # 0 => b.area \notin Unchecked(b)
    BY <2>0 DEF BootWrites, Unchecked
  <2>6. rom'[b.area][0] = "icon"
    BY <1>0, <2>3, <2>4, <2>5 DEF Icons
  <2> QED
    BY <2>2, <2>3, <2>4, <2>6 DEF Icons, KeepsIcons
<1>2. CASE Read("boot")
  <2>0. b.at = "read" /\ <<b.area, b.next>> \in BootReads
    BY <1>2 DEF Read, Runs, Icons, BootPath
  <2>1. \/ b1.at = b.at /\ b1.area = b.area /\ b1.next = b.next /\ b1.i # 0
        \/ b1.at = b.next /\ b1.i = 0 /\ b.i # 0
    BY <1>2, BootGoesOn DEF Read
  <2>2. /\ BootPath(b1) /\ IconInRam(b1) \subseteq IconInRam(b) \union {b.area}
        /\ Unchecked(b1) = Unchecked(b) /\ b.area \notin Unchecked(b)
        /\ RamOf(b.area) = b.area
        /\ b.i # 0 => b.area \in IconInRam(b)
    <3>1. CASE b.area = "cfg" /\ b.next = "bootMsg"
      BY <2>0, <2>1, <3>1
      DEF BootPath, BootReads, IconInRam, Unchecked, RamOf, Areas, Images
    <3>2. CASE b.area = "msg" /\ b.next = "idle"
      BY <2>0, <2>1, <3>2
      DEF BootPath, BootReads, IconInRam, Unchecked, RamOf, Areas, Images
    <3> QED
      BY <2>0, <3>1, <3>2 DEF BootReads
  <2>3. rom' = rom /\ rom[b.area][0] = "icon"
    BY <1>0, <1>2, <2>2 DEF Read, Icons
  <2>4. /\ \A img \in Images \ {b.area} : ram'[img] = ram[img]
        /\ b.i = 0 => ram'[b.area][0] = rom[b.area][0]
        /\ b.i # 0 => ram'[b.area][0] = ram[b.area][0]
    BY <1>0, <1>2, <2>2 DEF Read, ReadCell, StoreType, Structures
  <2>5. ram'[b.area][0] = "icon"
    BY <2>2, <2>3, <2>4 DEF Icons
  <2>6. \A img \in IconInRam(b1) : ram'[img][0] = "icon"
    <3>1. IconInRam(b) \subseteq Images
      BY <1>0 DEF IconInRam, Images
    <3> QED
      BY <2>2, <2>4, <2>5, <3>1 DEF Icons
  <2> QED
    BY <2>2, <2>3, <2>6 DEF Icons, KeepsIcons
<1> QED
  BY <1>1, <1>2 DEF EepromStep, WriteFails, BootHolds

LEMMA BootSteps ==
  ASSUME TypeOK, Icons, Boot
  PROVE  Icons' /\ KeepsIcons
<1> DEFINE b == st["boot"]
           b1 == st'["boot"]
<1>0. st \in [Tasks -> Places] /\ "boot" \in Tasks /\ StoreType /\ 0 \in Cells /\ rom' = rom
      /\ b \in Places
  BY TypeParts, ConstantTypes DEF Boot, Tasks
<1>1. ASSUME NEW kind, NEW area, NEW next, Transfer("boot", kind, area, next)
      PROVE  b1.at = kind /\ b1.area = area /\ b1.i = 0 /\ b1.next = next
  BY <1>0, <1>1 DEF Transfer, Places
<1>2. ASSUME NEW at, Go("boot", at) PROVE b1.at = at
  BY <1>0, <1>2 DEF Go, Arrived, Task
<1>3. CASE Load
  <2>1. CASE Runs("boot", "loadCfg") /\ Transfer("boot", "read", "cfg", "bootMsg")
    BY <1>0, <1>1, <1>3, <2>1
    DEF Load, Runs, Icons, KeepsIcons, BootPath, BootReads, Unchecked, IconInRam
  <2>2. CASE Runs("boot", "loadMsg") /\ Transfer("boot", "read", "msg", "idle")
    BY <1>0, <1>1, <1>3, <2>2
    DEF Load, Runs, Icons, KeepsIcons, BootPath, BootReads, Unchecked, IconInRam
  <2> QED
    BY <1>3, <2>1, <2>2 DEF Load
<1>4. ASSUME NEW c \in Checks, CheckImage(c[1], c[2], c[3])
      PROVE  Icons' /\ KeepsIcons
  <2>0. b.at = c[1]
    BY <1>4 DEF CheckImage, Runs
  <2>1. CASE rom[c[2]][0] # "icon"
    <3>1. b1.at = "write" /\ b1.area = c[2] /\ b1.i = 0 /\ b1.next = c[3]
      BY <1>1, <1>4, <2>1 DEF CheckImage
    <3>2. ram' = [ram EXCEPT ![RamOf(c[2])] = Defaults] /\ Defaults[0] = "icon"
      BY <1>0, <1>4, <2>1 DEF CheckImage, Defaults
    <3>3. BootPath(b1) /\ Unchecked(b1) = Unchecked(b)
      BY <2>0, <3>1 DEF Checks, BootPath, BootWrites, Unchecked
    <3>4. IconInRam(b1) \subseteq IconInRam(b) \union {RamOf(c[2])}
      BY <2>0, <3>1 DEF Checks, IconInRam, RamOf
    <3>5. IconInRam(b1) \subseteq Images
      BY <3>1 DEF Checks, IconInRam, RamOf, Images
    <3>6. \A img \in IconInRam(b1) : ram'[img][0] = "icon"
      BY <1>0, <3>2, <3>4, <3>5 DEF Icons, StoreType, Structures
    <3> QED
      BY <1>0, <3>3, <3>6 DEF Icons, KeepsIcons
  <2>2. CASE rom[c[2]][0] = "icon"
    <3>1. b1.at = c[3] /\ ram' = ram
      BY <1>2, <1>4, <2>2 DEF CheckImage
    <3>2. BootPath(b1) /\ Unchecked(b) \subseteq Unchecked(b1) \union {c[2]}
      BY <2>0, <3>1 DEF Checks, BootPath, Unchecked, Areas, Images
    <3>3. IconInRam(b1) \subseteq IconInRam(b)
      BY <2>0, <3>1 DEF Checks, IconInRam
    <3> QED
      BY <1>0, <2>2, <3>1, <3>2, <3>3 DEF Icons, KeepsIcons
  <2> QED
    BY <2>1, <2>2
<1> QED
  BY <1>3, <1>4 DEF Boot

LEMMA AfterPowerLoss ==
  ASSUME PowerLoss PROVE Icons' /\ KeepsIcons
<1>1. st'["boot"].at = "bootFactory" /\ rom' = rom
  BY DEF PowerLoss, Reset, Task, Tasks
<1>2. Unchecked(st'["boot"]) = Areas /\ IconInRam(st'["boot"]) = {}
  BY <1>1 DEF Unchecked, IconInRam
<1> QED
  BY <1>1, <1>2 DEF Icons, KeepsIcons, BootPath

LEMMA IconStep ==
  ASSUME IInv, BootHolds, [Next]_vars
  PROVE  Icons' /\ KeepsIcons
<1>0. TypeOK /\ Icons
  BY DEF IInv
<1>1. ASSUME NEW t \in {"boot", "udp", "pc"}, EepromStep(t) PROVE Icons' /\ KeepsIcons
  BY <1>0, <1>1, BootTransfers, LaterTransfers DEF Tasks
<1>2. CASE UNCHANGED vars
  BY <1>0, <1>2 DEF vars, store, Icons, KeepsIcons
<1> QED
  BY <1>0, <1>1, <1>2, BootSteps, AfterPowerLoss, LaterTaskPC, LaterCommands, LaterLocals
  DEF Next

\* An image once valid stays valid, whatever the number of its cells, the
\* commands, the preemptions and the power losses, those during the boot
\* included, as long as the boot's own writes are not given up.
THEOREM ValidForEver == ASSUME BootHolds PROVE Spec => ImageStaysValid
<1>1. Init => IInv
  <2> SUFFICES ASSUME Init PROVE Icons
    BY InitType DEF IInv
  <2>1. st["boot"].at = "bootFactory"
    BY DEF Init, Reset, Task, Tasks
  <2>2. Unchecked(st["boot"]) = Areas /\ IconInRam(st["boot"]) = {}
    BY <2>1 DEF Unchecked, IconInRam
  <2> QED
    BY <2>1, <2>2 DEF Icons, BootPath
<1>2. IInv /\ [Next]_vars => IInv'
  BY BootHolds, IconStep, StepType DEF IInv
<1>3. IInv /\ [Next]_vars => [KeepsIcons]_vars
  BY BootHolds, IconStep
<1> QED
  BY <1>1, <1>2, <1>3, PTL DEF Spec, ImageStaysValid, KeepsIcons
=============================================================================
