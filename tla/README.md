# FM power amplifier controller: TLA+ models and proofs

The repository is the firmware of the monitoring board of a 30 W FM broadcast
amplifier (STM32F103, uC/OS-II, lwIP, an ENC28J60 for the network). The board
switches the amplifier's gate voltage, sets a digital attenuator so that the
forward power meets its target, protects the amplifier against current, heat,
reflected power and supply over-voltage, keeps its configuration in an EEPROM,
talks to the exciter over a serial port and takes commands from two serial
ports, UDP, web pages and a menu with a key pad. The repository has no tests.
Source comments are GB18030 Chinese; line numbers here and in `PROJECT.json`
are those of the files as they are.

## Parts of the system

Tasks and their priorities (a lower number preempts a higher one): lwIP's
tcpip thread 5, UDP server 10, TaskRTU 11, TaskPC 12, menu (TaskOLED) 13,
TaskPAON 14, App_TaskStart 15. The SysTick, UART and DMA interrupts preempt
them all. There are no mutexes around shared data, only one semaphore per
external serial port.

| Part | Code | State | Operations | Interacts with |
|---|---|---|---|---|
| Power protection and control | `Private/Power_Control_App.c`, run by TaskPAON (`USER/main.c` 335-385) | debounce counters and status of four channels, gate, `Protect_Shutdown_Cause`, restart timer and count, `P_DownOffset`, `RES_Front`, `RES_Rear`, `P_Res_Front_Target`, `POWERAUTOTIMER` | one pass every 70 ms: sample, debounce, protect, reduce, regulate, restart | commands change its state between its stages; App_TaskStart ticks its timers; it asks for saves |
| Timers and time base | `USER/main.c` 195-273, `SYSTEM/delay/delay.c` | `User_Timer[3]`, dividers, `Sys_Flag` | tick of 10 ms, of a second | power control arms and reads the timers |
| Operator commands | `Private/RS485.c` (`CMD_SetProcess`, `CMD_ReadProcess`), `APP/TaskPC.c`, `udp_demo.c` | the configuration, save flags, reply buffer | set and read registers | power control, configuration store, exciter bus |
| Menu | `Private/lcd_menu.c`, `ledkey_sm1668.c` | page, edited values | keys | the same as commands |
| Configuration store | `APP/TaskPC.c` 236-274, `Private/X5323_EEPROM.c`, `APP/bsp.c` | `g_DI.Cfg`, `g_DI.AutoMsgCfg`, EEPROM, `fSave`, `fAutoMsgSave`, `fSaveStart` | save, read back, factory reset, boot | every writer of a setting |
| Exciter bus | `APP/TaskRTU.c`, `RS485.c` 2594-2826 | `JLQRS232SEM`, `fEitRTU`, `UART3_RBuf`, address and link state | poll, status report, command, pass-through | TaskRTU, TaskPC, UDP server, menu |
| UART reception | `Driver/uart.c`, `USER/stm32f10x_it.c` | receive buffers, `Len`, `fEnd` | interrupts, consumption by TaskPC | TaskPC, exciter bus |
| UDP server | `udp_demo.c`, `lwip_comm.c` | two sockets, reconnect flags | open, receive, reopen | commands |
| Attenuator | `Private/Digital_ATT.c` | shift register, latch, `RES_Rear` | six bits and a latch pulse | power control and every command task |
| Web pages, sensors, display, boot, memory pool | `httpd_cgi_ssi.c`, `adc.c`, `ds18b20.c`, `lm16032_drive.c`, `iap.c`, `malloc.c` | - | formatting, conversion, set-up | - |

What is hard here: a long sequential routine with state in some twenty globals
that preempting tasks change between its stages; timers counted by the
lowest-priority task; flags that stay set longer than the pass they are meant
for; byte arithmetic at the end of a range; a store without locks, with power
losses at any moment. What makes each part correct: the amplifier is off
whenever a protection says so and comes back only after its cool-down, a
limited number of times, from full attenuation; a reduction reduces and is
given back; regulation stays within its range and comes to rest; a setting that
was acknowledged is in force and survives a power loss; an image read at boot is
complete; no task waits for ever.

## Modules

| Module | What it models |
|---|---|
| `PaChannels` | debouncing of current, temperature, supply and reflected power into a status, and the trigger and release masks (operators only) |
| `PowerControl` | TaskPAON's pass over `Main_Process`, the timers, the operator commands that touch power control |
| `PowerControlHistory` | `PowerControl` with history variables, for properties about earlier states; implements `Protection` |
| `Protection` | abstract specification: the amplifier's switch, a latch, a restart timer (`Countdown`) and a budget of restarts |
| `Countdown` | abstract specification: a timer that runs the delay it is armed with and waits to be taken |
| `ConfigSave` | RAM and EEPROM images of the configuration, the save flags, TaskPC's loop, the boot, and the tasks that change settings |
| `OsSem` | a semaphore of uC/OS-II: `OSSemCreate`, `OSSemPend`, `OSSemPost` |
| `ExclusivePort` | abstract specification: a port with one owner, given on to the most urgent waiter |
| `ExciterBus` | TaskRTU, the masters and the panel on the exciter's port, the reception of UART3, and an exciter that is slow, silent or exchanged; an instance of `OsSem`, implements `ExclusivePort` |
| `TimeBase` | the tick and second flags of SysTick in `Sys_Flag`, App_TaskStart's tick cut at its reads and writes, and the tasks that write the word and the timers; implements `Countdown` |
| `UdpServer` | the UDP server's two sockets in lwIP's table, and the way of a new address from the masters to the interface |
| `MasterPorts` | the two serial ports of masters, their interrupts, TaskPC's answers and the UDP task's use of the same reply buffer |
| `PowerControlProofs`, `PowerControlHistoryProofs`, `ConfigSaveProofs`, `ExciterBusProofs`, `TimeBaseProofs`, `UdpServerProofs`, `MasterPortsProofs` | the theorems about the module they are named after |
| `ConfigSettingsProofs` | more theorems about `ConfigSave`: the settings of a loop of TaskPC, and the boot |

The modules are cut where the code's tasks share data. They meet in TaskPC, whose
loop appears three times, each time with the part of it that matters: the ports
in `MasterPorts`, the saves in `ConfigSave`, the network in `UdpServer`
(`Rest` in `MasterPorts` stands for the other two). The timers appear twice, ticked in
one step in `PowerControl` and in the program's reads and writes in `TimeBase`,
which shows what `PowerControl` takes for granted: the restart timer is a `Countdown`
(unless it is armed in the instructions that count it) and expires. `Protection` is
built on the same `Countdown`, so the two components meet in one abstract timer, which
each of them is proved to implement.

### PowerControl and the code

A pass is cut into the stages of `Main_Process` by `pc`: `Sample` (TaskPAON's
readings and, every `TempPeriod` passes, `Temp_CheckProcess`), `Sense` (115-262),
`CheckGate` (267), `Protect` (270-322), `ReduceTemp` (324-432), `ReduceCurrent`
(436-544), `ReduceInterval` (546-660), `Regulate` (664-852), `Restart`
(854-1066). The commands run in tasks of a higher priority, so each of them may
come between any two stages; a stage itself is one step. App_TaskStart has the
lowest priority and ticks only between passes (`pc = "idle"`).

Variables have the names of the code or short ones, each with its global in a
comment: `rt`, `dt` and `at` are the three entries of `User_Timer`, `cause` is
the set of bits of `Protect_Shutdown_Cause`, `offset` and `resFront` are the
reduction of the automatic mode (W off the target) and of the manual mode
(attenuator steps). `PowerControlHistory` adds the seconds since the last trip,
the restarts since an operator's start, the last word of the operators, and
whether the last restart followed a trip of the supply alone (`supplyStart`).

`KeepsProtection` maps `Protection` on it: `on` is `gate`, `latched` says that `cause` is
not empty, the timer's state is what `rt.en` and `rt.to` say, its elapsed time is
`sinceTrip`. Every stage, tick and command is then a `Trip`, a `Wait`, a `Restart`, a
`SwitchOn`, a `SwitchOff` or a stutter. `RestartBudget` and `CoolDown` say two parts of
it as properties of the states and of the steps.

Abstracted: analog readings to the comparisons made with them (`Levels`,
`VccReadings`, `RfReadings`, `PowerErrorClasses`), the forward power to its
distance from the target. The attenuator code keeps its byte arithmetic
(`AttSend`). A failed temperature reading keeps the old value, as `DS18B20`
handling does. Settings of delays, limits and counts are constants of the model,
as they are between two configuration commands. The thresholds are ordered as
the defaults are (fan < reduction < shutdown).

Left out: the fan (893-922), the words of alarm bits shown to masters
(1017-1066) except the power-down bits, and the transfer of the attenuator's bits.

### ConfigSave and the code

An image is an icon cell (the first byte of both structures) and `N` settings.
`st[t]` is where task `t` is: `boot` (BSP_Init, before the others exist), `udp`,
`pc`, `panel`, `paon`. `Runs(t, at)` is the scheduler: a task steps only when no
task of a higher priority wants the processor, and it lets lower ones run only
where the code delays (`Delaying`). `Write` and `Read` are one cell of
`WritebufToX5323` and `ReadbufFromX5323`; `WriteFails` is their give-up after 250
polls, whose result every caller ignores. `Receive` / `Set` / `Act` / `Factory` /
`Tail` are `CMD_SetProcess` (clear the flags, handle a register, start the save),
run by TaskPC and by the UDP server. `Local` is the order of the menu and of
`Main_Process`: setting, `fSaveStart`, `fSave`. `PowerLoss` restarts at the boot.
`took`, `disturbed`, `failed` and `settled` are history.

Left out: a preemption inside the SPI transaction of one byte, failed reads
(the chip would have to stay busy for another 100 ms), lost bit-field updates of
`Sys_Flag`, and the network restart flag (`UdpServer`).

### ExciterBus and the code

`st[t]` is where each user of the port is between `OSSemPend` and `OSSemPost`:
TaskRTU in `ExciterDevPoll` (three tries, `MarkLink` at the end) and `PADevPoll`
(the status report, which is not answered), TaskPC and the UDP task in
`CMD_SetProcess` 1795-1824, the menu in `SetJLQFRQhandle`. `Accept`, `LookAgain`
and `GiveUp` are the rounds of `EXCIT_Wait_RxEnd`, 30 ms apart; `Process` is
`ExcitData_Process`, with the search for an exciter's address. The buffer `rx` is
filled by `USART3_IRQHandler` (`Received`) and closed by the time-out of
`SysTick_Handler` (`FrameTimeOut`), which goes on when a task resets the buffer.
The exciter is external: it answers in order, and while `trouble` lasts it loses
replies, is late, is exchanged for one with another address, or dies.
Frequencies stand for all settings; a reply is two halves, so that a reset may
cut it. The panel's `Confirm` looks at `g_TMTLink[0]`, as the code does.

Left out: the pass-through of UDP packets to the exciter and the settings of the
web pages, which use the port in the pattern of `Command`; the amplifier's own
bus on UART5, which nothing polls (`PADevCheckPoll` is never called).

### TimeBase and the code

`app.at` names the next access of App_TaskStart (196-273) to `Sys_Flag` or to a
timer; `app.word` and `app.count` are its registers. `Load` and `Store` are the
two halves of any other task's write of a bit of the word. `Protect`, `Restart`,
`Reduce`, `Regulate` are what `Main_Process` does to the timers. With
`Runs`, App_TaskStart moves only while no other task is between load and store:
its priority is the lowest. `Compare` takes the count from memory or from the
register it was stored from, since the variable is not volatile and the compiler
may do either. `fresh`, `whole` and `waited` are history. `TimerIsCountdown` maps `Countdown` on
the restart timer: its elapsed time is `waited`, and its state "spoilt" is a timer that was
armed while it was being counted (`~whole`), for which the code promises nothing. A setting
has a width (`CurRstDelay` has 16 bits, `RS485.c`:1640), so the assumption asks for a
longest delay.

Left out: lost updates of the other bits of the word, the minute, hour and day
chain, and the millisecond counters of the network (read by one task).

### UdpServer and the code

`eth` follows `thread_udp_broadcast_server` call by call, since each socket call
waits for lwIP's thread. `sockets` is lwIP's table: the lowest free index is
handed out, a port that is taken is refused, `close` takes any index. The code
takes index 0 for an error (`if (udpsockfd > 0)`), closes both descriptors
whether they are open or not, and does not close a socket whose `bind` fails; all
of it is kept. `TaskPC` is 276-284: test and clear `fNetRecom`, give the
interface its address, ask for new sockets. A master sets the address over UDP
(`Serve`), on a serial line or on the web pages.

Left out: the contents of requests, the discovery broadcasts, the mask and the
gateway.

### MasterPorts and the code

`rbuf` are `UART1_RBuf` (filled by the idle interrupt from the DMA's buffer) and
`UART2_RBuf` (byte by byte, ended by the time-out); `pc.at` follows TaskPC from
the test of `fEnd` over `CMD_...Process`, which may sleep, and `UART1Write` to
`fEnd = FALSE` and `Len = 0`, which are two steps. `g_UART_TBuf` keeps whose reply
it holds. A request is two parts; `Request` is what `PC_Protocol` makes of a
buffer, also of one with several or cut requests in it.

Left out: the DMA's registers, overruns of the USARTs (ORE), UART5.

## Runs

| Run | Question | Bounds |
|---|---|---|
| `protection` | is the abstract protection implemented (restarts limited and delayed, trips latched), are restarts soft, and is heat looked at, whatever the operator does? | current, temperature and supply normal or over, one restart, delays of 1 s, commands on, off, attenuator code and panel frequency, both modes |
| `commands` | do all commands, at any stage, in both modes, keep the type, the manual ceiling and the reset of the manual reduction? | temperature reduction, power very low, right or high, codes 0 and 4 of 0..5 |
| `recovery` | does a reduction keep its timer, and do restarts, recovered power and rest come? (safety and liveness) | both modes, over-temperature, supply over and in its dead band, reduction |
| `saves` | are settings stored, shown as stored, torn at most byte-wise, and loaded? | 1 icon and 1 setting per image, all five tasks, all commands, failed writes, power losses |
| `port` | one user at a time, no flag left behind, the abstract lock, no false loss | two masters and the panel, 2 commands, 2 tries, 2 looks, replies lost |
| `recovers` | do requests and replies match again, is the exciter found and its end noticed, do commands end? (liveness) | one master, exciters with 2 addresses, exchange and death |
| `ticks` | is the restart timer a countdown, are ticks taken once, and do timers expire? (safety and liveness) | delays of 1 and 2, a second of 2 ticks, one other writer |
| `network` | who holds the ports, how many sockets are lost and is one left to open, is every address applied, do the servers come back? | 4 sockets, 2 addresses, one failed call |
| `masters` | are requests carried out whole and once, are UDP replies their own, is a master answered? | buffers of 3 parts, requests of 2, time-out of 2 ticks, 2 requests at a bad moment |
| `panel_off`, `read_back`, `wrap` | one disagreement of the code with a comment each (findings below) | the smallest that shows it |

Why the bounds are enough:

- Power control. The debounce needs K consecutive readings, so K = 1 shows a
  single and a repeated one, and the temperature's period of 2 (`commands`) a pass with
  and without a reading; timers compare a
  count with a delay, so delays of 1 and intervals of 2 show "first" and "later"
  ticks; the restart count needs one value below and one at its limit; attenuator
  steps are 1, 2 and 3, so codes up to 5 reach both ends of the range within a few
  steps; the wrap at zero is kept by the modulus of 256. The reading sets of a run
  hold the levels its question needs. Reflected power is debounced and latched like
  current and is not in a passing run's readings, neither are "high" reflected power
  and the current's reduction band; the theorems cover every reading.
- `saves`. Cells are independent of each other, so one setting beside the icon
  shows every order of a write, a loss and a reader. Failed writes and power losses
  during the boot itself are left out of it (`BootTrouble = FALSE`); `ValidForEver`
  covers them as far as it holds.
- `port`, `recovers`. Two tries show a try that is not the last; two looks a
  reply that comes late but in time; a buffer of four halves holds a reply and
  the rest of another; one request kept by the exciter is enough for a reply to the
  request before. An exchange needs a second address. Commands and an exchange are
  not combined (`Apart`), since each is a disturbance of its own and both together
  only multiply the states.
- `ticks`. A second of two ticks has ticks with and without the second's flag.
- `network`. The first socket (index 0, taken for an error) is lost for good, each
  failure may lose another, and two are in use: with `Failures = 1` four sockets
  are just enough. With two failures the stack runs out of sockets for good;
  that is why the assumption `SocketsAssumption` asks for `Failures + 3`.
- `masters`. Two parts let a request be cut, a buffer of three lets a request
  follow the rest of another and fill the buffer. Frames longer than the
  buffer come about only as merged requests.

No run turns deadlock checking off.

### Fairness

- `PowerControl.FairSpec`: weak fairness of TaskPAON's steps (its pass never
  blocks and it wakes every 70 ms) and strong fairness of the two ticks:
  App_TaskStart has the lowest priority but runs whenever all others sleep, which
  they do in each of their rounds; a tick is enabled again and again, not
  continuously, because passes come between. None of commands or sensors. The
  liveness properties assume that the condition has gone for good (the
  temperature and current stay normal, the mode and the amplifier are left alone).
- `ExciterBus`: strong fairness of each task's steps (a task may be preempted, but
  those above it sleep far longer than they run), weak fairness of the end of a
  frame and of the exciter's replies. `Resync` and `Recovers` assume that the trouble ends.
- `TimeBase`: strong fairness of App_TaskStart and of the stores, and infinitely
  many seconds that are raised between no load and its store. This last is an
  assumption on timing the code cannot give: a second raised exactly inside such
  a window, of a few instructions in 15 ms, is lost.
- `UdpServer`: weak fairness of both tasks, which sleep 50 ms in each turn.
  `Served` assumes that masters leave the address alone in the end.
- `MasterPorts`: strong fairness of TaskPC, since the UDP task sleeps again and
  again; weak fairness of the UDP task and of the interrupts; a master that gets
  no answer sends again (strong, and when the port is free after a few bad
  moments). `Answered` leaves out a UDP task that replaces the reply every time.

## Findings

`PROJECT.json` quotes the lines.

- `panel_off`: OFF does not stop the restart timer of a protection; the amplifier
  comes back on.
- `read_back`: the read-back of a save undoes a setting made meanwhile.
- `wrap`: a regulation step down from code 0 or 1 wraps to the largest code (PAC:813,
  817; 717 in manual mode). With 15 W taken off and a target below 9 W, no power at
  all counts as too much, so the steps get there.

Other disagreements met while modelling, kept in the models, without a run of their
own (PAC is `Private/Power_Control_App.c`):

- An over-voltage that begins while the amplifier is off for another cause is never
  acted upon (PAC:270): triggers are looked at once, and only with the gate on.
- For the same reason an amplifier that heats up while it is off for its supply runs hot
  afterwards: the restart after a supply trip does not look at the temperature
  (PAC:879-881). It is the exception `supplyStart` in `OverTempOff`.
- In manual mode a restart is not soft: the restart sends the operator's code
  (PAC:864-870), and a temperature that passes from the reduction band to shutdown
  counts as released and sends it with the amplifier off (PAC:403). `main.c`:182 speaks of
  a soft start. `SoftStart` is about the automatic mode.
- The temperature's trigger lasts 21 passes, so a reduction meant once per interval
  (`structure.h`:161) steps in every pass (PAC:324).
- In manual mode a reduction below code 0 wraps to the largest code (PAC:344).
- A change from automatic to manual mode and back leaves `P_DownOffset` in place
  (PAC:651, `RS485.c`:1483, 1710).
- First boot: the icon is written first, so a power loss later in the first write
  leaves an image that counts as valid and is not (`bsp.c`:105, 124). A first write
  of the factory area that fails lets a later factory reset wipe a valid image:
  `ValidForEver` needs `BootHolds`.
- The menu and the web pages send settings to the exciter only if `g_TMTLink[0]` is
  set, which only the uncalled `PADevCheckPoll` does (`TaskRTU.c`:148, `lcd_menu.c`:1000
  and 1008, `httpd_cgi_ssi.c`:460).
- `fSec` comes every 505 ms: `ms_cnt++ >= 100` with 200 ticks a second
  (`delay.c`:97-100; `structure.h`:401 says one second).
- A restart timer armed while App_TaskStart counts it may time out at once
  (`main.c`:228), the state "spoilt" of `Countdown` and the premise `whole` of `FullDelay`.
- A serial reply may be replaced by a UDP reply in `g_UART_TBuf` (`TaskPC.c`:218-220),
  and a serial request that ends between `fEnd = FALSE` and `Len = 0` is lost (221).
- `Reset_lwipnetif` sets only the address, not the mask and the gateway
  (`lwip_comm.c`:289-290).

## Proofs

All theorems hold for every value of the constants that satisfies the module's
assumption. Each module of proofs states its helpers' lemmas first, then one lemma
per action or group of actions, then the theorem.

`PowerControlProofs`:

- `TypeCorrect`: `TypeOK` is inductive. It is one conjunct per group of variables,
  and each group has its lemma per action. The restart count stays in its range because
  `MayRestart` compares it first; the offsets stay on their steps because each branch
  tests before it steps.
- `LatchTimer`: `CauseHasTimer`, inductive relative to `TypeOK`. The latch and the
  timer change together in `Protect` and `Restart`; `Ticked` turns "running" into
  "expired"; the head of `Main_Process` (`Sense`) would break it, and is ruled out by
  the invariant itself. So the restart at lines 248-262, which counts nothing and looks at
  no temperature, cannot be reached.
- `NoReductionLeftBehind`: `ReductionLeftBehind` is inductive with `TypeOK`: every
  command that leaves manual mode resets the reduction, and only manual mode takes steps of it.
- `ManualUnderCeiling`: every branch of the manual loop that steps up compares with
  the target first.
- `TakenOffIsTimed`: `ReductionHasTimer`. Inductive with `TypeOK`, `ReductionLeftBehind` and
  `ManualOffset` (where no command changes to manual mode, there is no offset in manual
  mode), together `TimedInv`: each branch that takes power off arms the timer, and each
  that stops it gives everything back or clears the reduction of its own mode. The part
  about `P_DownOffset` is restricted as it is because of a disagreement above: a change
  to manual mode and back leaves the offset without a timer.

`PowerControlHistoryProofs`. The history restricts nothing (`HSpec => Spec`), so the
theorems above carry over; `Base` is their conjunction. On top of it: `Counted`
(restarts since the operator's start are at most the count, for `RestartBudget`),
`Cooling` (a running timer's count, and an expired one's delay, are at most the
seconds since the trip, for `CoolDown`), `Muted` (an amplifier that is off in automatic
mode, with no code chosen since, is at code 0, for `SoftStart`) and `Watched` (an
amplifier that is hot and on for no operator's or supply's sake is on its way to the
protection that will see a fresh trigger, for `OverTempOff`). `LatchedMeansOff` is inductive
relative to `Base`. `ProtectionRefines` is the refinement `KeepsProtection`: under
`PromiseInv` (`Base`, `Counted`, `Cooling`, and `Delayed`, which bounds the time since the
trip by the delay) a pass that neither trips nor restarts changes nothing that is mapped
(`QuietPass`), a trip is `Trip` (`TripKeeps`), `Main_Process`'s end is `Restart` (`RestartKeeps`; the budget
is `Counted`, the whole delay `Cooling`), a second is `Wait` (`TickKeeps`), and each command is
`SwitchOn`, `SwitchOff` or a stutter (`PromiseStep`). It implies `RestartsWithinBudget` and
`CoolDownPasses`, which are kept as theorems and have no run of their own.

`ConfigSaveProofs`: `StoreTypes` (no transfer leaves its area, for any number of
settings). `ValidForEver`: once the boot is over, all areas and both structures begin
with the icon, and everything that is written or read then carries an icon to
an icon; during the boot, `Icons` says which areas are checked and which structures hold
an icon at each step. It needs that the boot's own writes are not given up
(`BootHolds`); power losses during the boot are allowed.

`ConfigSettingsProofs`. `SettingsSurvive`, `ShownStored` and `CellsOldOrNew` speak of TaskPC
at rest, or of two structures, and are not inductive: what is in the EEPROM at the end
of a loop depends on what is in RAM, in the save flags and half written on the way. `LInv`
adds for each place TaskPC can be in what has become of the settings of the last command:
`Kept` (stored, or in RAM and asked for, or written up to the byte in hand), `Shown` (the
same of the whole structure, with the flags of an earlier loop), `Restored` (how far
the factory setting has been copied) and `Fresh` (nothing is stored before a
command). Every step of another task ends the promise and every loop makes it anew, so
only TaskPC's own steps need work. `BootLoadsAll` needs that neither a power loss nor a
failed write hits the boot (`QuietBoot`); `Filled` says which areas the boot knows to be
complete at each step: the icon is written first, so an area that begins with it is
complete only if no write was cut short.

`ExciterBusProofs`: `IInv` ties the semaphore's count and wait list to where the
tasks are (`SemOK`: the count is 0 exactly if somebody holds the port, waiters wait
only then). From it `PortHasOneUser`, and the refinement `PortRefines`: `Pend` is
`Take` or `Wait`, `Post` is `Leave`, all else stutters. `FlagNotLeftBehind` is
inductive with the types of `st`; `LossIsNoAccident` from `MissesOK`, which ties the code's
capped count to the polls that heard nothing. `BusTypes` from `TInv`: the buffer has room
as long as it takes bytes (`fEnd` is set with the last one), and a request that sets the frequency
has one. `PortNotKept` is the part of `CommandEnds` that needs no fairness: `Remaining` counts down
with each step of the port's owner from at most `2 * TIMEOUT + 4`, and no other step
touches it (`OwnerProceeds`, `OthersLeaveOwner`).

`TimeBaseProofs`: `NoTickTakenTwice` from `CopiesFresh` (every copy of the word, in
memory or in a register, holds only fresh ticks: a store by App_TaskStart is not overtaken,
since nobody it preempts is between load and store); `DelayIsFull` from `Waiting`, which follows the
count between memory and register. `TimesInRange` (`TypeOK`) needs that a timer never counts past the
delay it was armed with, which a tick that is preempted between its read and its write
could break: `InBounds` says for each place of App_TaskStart what count is in memory and
what in the register, and `Bounded` that all three timers are so. `TimerRefines` is the
refinement `TimerIsCountdown`: `Settled` (a timer that is being stopped is still on, and one
that has timed out is not being stopped) tells the mapped state at each place; then the
store of the count is `Second`, the store of the timeout `Expire`, every re-arm of
`Main_Process` `Arm` or `Spoil`, the restart `Take` (`AppCountdown`, `OthersCountdown`).

`UdpServerProofs`: `IInv` is `TypeOK`, `PortHolder`, each port is bound to at most its server's
socket, the descriptors are different where both count, and the sockets astray are
bounded by the failures. `SocketsBounded` counts: the sockets astray, index 0 and the one in use are
fewer than `Failures + 3`, so one is left to open (`OneIsLeft`). `NoAddressLost` is inductive by itself.

`MasterPortsProofs`: `IInv` is `TypeOK`, `Bounded` (a buffer holds more than its room
only between the two resets), `Held` (the request a command works on stays in the buffer while it
sleeps) and `NotStale` (what ends a buffer has not been carried out). It gives
`RequestsCarriedOnce`; `UdpRepliesAreOwn` rests on the priorities.

Only model-checked: liveness under fairness (`recovery`, `recovers`, `TimerExpires`,
`Served`, `Answered`), which is out of the prover's reach. Every invariant and every other
action property of the passing runs is a theorem, and so are the three refinements.
`RestartBudget`, `CoolDown`, `FullDelay` and `PortIsGivenUp` are theorems without a run: the
first three follow from refinements that are run.

## Not modelled, and why

Most of the repository is not the board's own program: lwIP, uC/OS-II, the STM32
library and the generated web pages (`fsdata.c`, `makefsdata`) are more than nine
tenths of its lines. Of them the semaphore, the choice of the most urgent task and
the table of sockets are modelled, as the program uses them. Of the program itself:

- Web pages: formatting; their settings reach the same variables as the protocol's.
  Only the change of the address is modelled (`UdpServer`).
- Menu: pages, drawing and keys; its commands are in `PowerControl`, `ConfigSave` and
  `ExciterBus`.
- The attenuator's transfer bit by bit (`Digital_ATT.c`): a command that preempts one
  mixes its bits in. `PowerControl` sends a code in one step.
- The fan, the alarm words, the reading commands' contents and the registers that only
  store a value of their own.
- Sensor conversion (arithmetic on analog values; the models allow every sequence of
  readings), display drawing, register set-up, the jump of the boot loader.
- SPI transactions inside a byte of the EEPROM, failed reads, the older flash storage
  (`Driver/flash.c`).

`APP/app.c` and `APP/stm32f10x_it.c` are old copies outside the build. Hazards that no
property covers are listed in `PROJECT.json` with the reason.
