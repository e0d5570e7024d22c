# gnd_v1: a verification project for the ground controller

`gnd_v1` is the firmware of the ground controller of a loop sorter: an STM32F107
without an operating system that counts the cars passing its photo eyes, controls the
line's speed through frequency inverters, positions the line for repairs and reports
everything to the warehouse control system (WCS) over UDP. This directory holds TLA+
models of it, the configurations TLC checks them with, and proofs checked by TLAPS.
File names without a path are in `src/gnd_ctrl/Project/src`; `etharp.c` and `ethernetif.c`
are in `src/gnd_ctrl/Utilities/lwip-1.3.1` (`src/netif`, `port`), `stm32_eth.c` in
`src/gnd_ctrl/Libraries/STM32_ETH_Driver/src`.

## 1. Inventory

### Execution model

One main loop (`main.c` `main`) that never blocks and calls everything in a fixed order,
and interrupts. `NVIC_Configuration` and `System_Setup` (`stm32f107.c`) give every
enabled interrupt preemption priority 0 (the SysTick priority 2 is a sub-priority in
priority group 2), so interrupts never nest: **an interrupt handler is atomic, the main
loop can be preempted between any two memory accesses**. Nothing in the application masks
interrupts. All shared state is plain globals.

### Components

| Component | State | Operations | What makes it correct |
|---|---|---|---|
| Report queues (`fun.c`) | `gndstatequeue`, `gnd2WcsIntervalQueue`: rings of 20 nodes | `AddTo...Queue` (photo-eye interrupt), `pxGetMsgFrom...Queue` (main loop; returns a pointer into the ring) | FIFO, whole nodes, pointer never overwritten while it is read |
| Token queues (`fun.c`, `carfun*.c`) | `msgSendQueue` (100), `carSendQueue`, `carthreeSendQueue` (50) | `enQueue` (main loop **and** interrupts), `outQueue` (main loop) | no token lost, full means full |
| WCS protocol (`fun.c`) | frame buffer and `tcp_send_en` of client 0, `heart_dely` | `recv_msg_process`, `send_message_to_sever`, `fun_gnd2wcs_state_msg` | every report sent, once, in order; never silent |
| Mirror clients (`carfun.c`, `carfuntwo.c`, `carfunthree.c`) | `carfunint`, `GndThreemsg`, their clients' buffers | `car...send_message_to_sever` | client 1 gets current intervals, client 3 every state report |
| UDP client (`TCPclient.c` 552-801) | `tcp_client_list` | create, connect, send, receive callback | one frame in flight, none lost on connection set-up |
| Photo-eye timing (`timExti.c`, TIM2) | `timUpdates`, `timExtiHandler`, counter | `TIM_EXTI_Process`, `TIM2_IRQHandler` | the measured time is the time elapsed |
| Line control (`timExti.c`, `main.c` `sec_process`, `stm32f10x_it.c`) | stage counters, `servo_start`, `fwInitHz`, repair flag and target, `carNo` | parameter and repair commands, stage counting, `repairLocationCtrl`, proximity switch | start-up ends; a repair ends, and near its target, missed pulses included |
| Speed controller (`speed_ctrl.c`) | `fwErr`, `fwErrI`, `fwHz`, gains and target | `fwInitServo` (main loop), `fwPIDctrl` (photo-eye interrupt) | no wind-up, no stall, no dead band; the target is reached |
| Serial link (`usart.c`) | send buffers, DMA channels, `servo_hz` | `RS485_OUT`, `ServoFreqSet`, CRC | an inverter obeys only what was asked for, and what was asked for last unless calls overlapped; a start-up heals that |
| Periodic network work (`netconf.c`) | `ARPTimer`, `TCPTimer` | `LwIP_Pkt_Handle`, `LwIP_Periodic_Handle` | every frame taken, every timer served |
| ARP (`etharp.c`) | `arp_table`, cached index, pool of queue elements | `find_entry`, `update_arp_entry`, `etharp_query`, `etharp_tmr` | a host once in the table, packets to the right host in order, no element lost, none waits for ever |
| Ethernet port (`ethernetif.c`, `stm32_eth.c`) | two descriptor rings, shared with the DMA | `low_level_output`, `low_level_input` | rings in step with the DMA, frames whole |
| Board set-up, delays | registers | initialisation | - |
| Other vendor code (ST libraries, the rest of lwIP, efsl) | - | - | taken as given |

Interactions: EXTI4 (photo eye 1) adds one node to each report queue and two tokens to
`msgSendQueue`, then does timing, stage counting and positioning. The main loop takes one
token a pass, builds the frame in client 0's buffer, copies a state report to
`GndThreemsg` and an interval report to `carfunint` and queues tokens for clients 3 and 1;
the next pass's `udp_client_process` hands the buffers to lwIP, where ARP finds the
hardware address or lets the packet wait, and the port puts the frame into a descriptor of
the DMA. SysTick repeats client 1's token 30 ms after an interval report and raises
`sec_flag` once a second for the heartbeat and the re-send of `fwInitHz`. WCS datagrams change the parameters and the repair target
that the interrupts read. Photo eyes, `sec_process` and the repair command all end in
`RS485_OUT`, and its frames go to both inverters.

What is hard: interrupts inside unlocked read-modify-write sequences of the main loop
(`enQueue`, `RS485_OUT`, `fwInitServo`, `repair_car_para_init`), tokens and nodes that no
longer correspond once a queue was full, a counter overflow whose interrupt is overtaken,
state machines spread over handlers, buffers that DMA reads while they are written, tables
and rings at their limits, a control loop with limits and rounding in it. `PROJECT.json`
lists each hazard at its line.

## 2. The modules

| Module | Models | Notes |
|---|---|---|
| `Ring` | the circular buffer as pure operators | every queue of the program is a copy of it |
| `BoundedFifo` | abstract specification: drop-when-full FIFO | nodes are taken whole |
| `ReportChannel` | abstract specification: one kind of report, from the car to UDP | a car is accepted unless the queue is full; accepted reports leave in order, each once |
| `RingQueue` | a report queue: interrupt producer, main-loop consumer with its pointer | `Get` cut into test, advance, one load per word |
| `SendQueue` | a token queue with two producers | the main loop's `enQueue` cut into test, computation, store of `rear`, load of the index, write |
| `GroundReport` | the reporting path as a whole | composes the queues with the main loop, EXTI4 and SysTick |
| `PhotoTimer` | counter, overflow interrupt and measurement | counter and latency in ticks |
| `LineControl` | start-up stages, commands, repair positioning, `sec_process` | with the moving line as the environment |
| `SpeedCtrl` | PID law, `fwInitServo` cut in two by an interrupt, and the line | whole numbers of 1/1000 m/s and 1/100 Hz |
| `ServoLink` | `RS485_OUT`, `ServoFreqSet` and the DMA, byte by byte, and the inverters | the CRC is a constant function |
| `ModbusCrc` | the CRC of `usart.c` | gives `ServoLink`'s constant its value |
| `Etharp` | the ARP table as operators on an ARP state | `Queued` counts the queue elements in use |
| `Network` | composes `Etharp` with the descriptor rings, the DMA, the receive callback and the main loop | |
| `MCRingQueue`, `MCSendQueue`, `MCSpeedCtrl`, `MCServoLink`, `MCNetwork` | constants for TLC | |
| `RingQueueProofs`, `SendQueueProofs`, `GroundReportProofs`, `PhotoTimerProofs`, `LineControlProofs`, `SpeedCtrlProofs`, `ServoLinkProofs`, `NetworkProofs` | theorems | see section 5 |

How state and code correspond:

* A ring is `[front, rear, slot]`; `slot` is indexed as the C array. The report queues in
  `GroundReport` are sequences (`stateQ`, `intervalQ`): `RingQueue` refines exactly that
  FIFO, so the composition uses the abstraction. The token rings stay concrete there,
  because a race makes them behave unlike any FIFO.
* `enQueue` names `q->rear` three times; the shipped image loads it for the test, for the
  new value and again as the store's index. These are the steps `EnTest`, `EnCompute`,
  `EnStoreRear`, `EnLoadIndex`, `EnWrite`. `outQueue` is one step: only the main loop writes
  `front`, and `RingQueue` shows that an interrupt changes neither its test nor its slot.
* In `GroundReport` each call of the main loop's body is one step (`pc` names the next
  call), except for the `enQueue` calls inside, which are cut. A car passage is a number;
  nodes, registers and frames carry it. Frames are `[kind, car]`; layout and checksum are
  left out.
* `GroundReport!Clients` is `udp_client_process` for the four clients. The hand-over to
  `udp_send_process` is the point at which a report counts as sent.
* `PhotoTimer!Tick` is one count of TIM2. It raises `pending` when the counter wraps and is
  stopped from running on for more than `Latency` ticks while the interrupt is pending: that
  is how the hardware's prompt but not immediate service is expressed.
* In `LineControl` the parameter command is the sequence `Para`, `StageFlag`, `FirstCnt`,
  `SecondCnt`, `StageHz`, `InitHz`, `ServoStart`, the repair command `RepairFlag`,
  `RepairTarget`, `RepairTest`, `RepairOut`, `ServoFreqSet`; `RS485_OUT` is two steps, the
  store of `servo_hz` and the frame. `Eye1` and `Eye2` are the whole interrupts as far as
  line control goes. The PID law is a free choice from `PidHz`. The plant: a car passes only
  while the line moves or coasts (`Coast` cars at most), and the marked car passes the
  proximity switch once in `Tot` cars; the switch's pulse may be too short for its debouncing
  (`CarNoMissed`), and `carNo` then runs past the total. `U16` is the modulus of the distances.
* `SpeedCtrl` takes the value of `pe_distance / pe_time` as the measured speed. `NoTime` stands
  for a `pe_time` of 0. `Command` to `ServoStart` are the assignments of `fwInitServo` in the
  groups the interrupt can tell apart; `LineSpeed` is the straight line through the two
  measured points of `speed_ctrl.c:5-9`, and the line follows a frequency after a delay of up
  to `MaxLag` measurements. Every `fwPIDctrl` step has a whole number of 1/10000 Hz to round, so
  the cut-off of the conversion to int is exact in the model.
* `ServoLink!Copy` is one store of the copy loop: byte `i` of line 2, then of line 4. The
  header bytes of a frame never change and are left out; the CRC covers them in `MCServoLink`.
  `SecTest` and `SecOut` are `sec_process`: its test of `servo_start` and `repair_flag`, and its
  call. `Repair`, `RepairOut` and `RepairNear` are the repair command, `Para` and `ParaEnd` the
  parameter command, `Stage` the last car of a stage; an interrupt sends only in repair mode or
  with the PID controller on. Which car that is, and whether the target is near, is left open
  here: `LineControl` counts.
  A byte takes far longer than a call, so at most one byte leaves a line during a call. An
  inverter takes what it gets between two pauses for a frame.
* An ARP state in `Network` is a record, so that a handler of the main loop is one change of
  it followed by the frames in `out`, which `Copy` and `HandOver` put into the ring one after
  the other while `Transmit` may run in between. Frames and packets are records; a hardware
  address is the name of its host. The ARP timer may be due
  in any pass of the main loop.

Mutants (plausible bugs of single operations) stand before the operations they change, so
that each property can be shown to detect one.

## 3. The runs

| Run | Bounds | Result |
|---|---|---|
| `ring_queue` | 4 slots, nodes of 2 words of 2 values | passes: `PointerGood`, refinement of `BoundedFifo` |
| `send_queue` | 5 slots, one token per producer | passes: tokens already waiting survive the race unless interrupts used up the free slots during the call; the main loop's own token is queued |
| `ground_report` | 3 cars, 1 datagram, rings of 5 and 3 tokens, report queues of 2, heartbeat delay 1 | passes: no accepted report lost, client 3 mirrors, order kept |
| `ground_report_live` | 2 cars, 1 datagram, rings of 4 and 3 tokens | passes: state reports get out, client 1 becomes current, never silent |
| `interval_lost` | 2 cars, a ring of 8 tokens | violated: interval report stuck after a lost token |
| `photo_timer` | 4 ticks a turn, limit 3 turns, latency 1 | passes: clock agreement; exact when served; otherwise wrong by one turn only; successive eyes unless in repair mode |
| `line_control` | 6 cars, stages of 2 cars, 2 commands, distances modulo 32 | passes: a repairing line moves, never passes its target, stops near it; repairs and start-ups end |
| `repair_target` | as `line_control` | violated: repair ends at the previous target |
| `speed_ctrl` | 3 parameter sets, 2 extreme starts, 1 lagging and 1 wrong measurement, 1 command | passes: no wind-up, no stall, no dead band, target reached |
| `servo_link` | 3 frequencies, inverter types 2 and 5, 1 interrupt, 1 command (2 parameter sets, 1 `standard_hz` of repairs) | passes: no phantom frequency, obeyed unless spoilt, in a start-up healed by `sec_process` |
| `network` | 3 hosts for 2 table entries, 2 queue elements, 2 + 2 descriptors, 2 packets, 2 frames | passes: table, pool, rings and order sound; queues empty, frames taken |
| `arp_flush` | as `network`, 3 queue elements, 3 packets, 1 frame, the wire faster than the main loop | violated: a frame that counts as sent was not |

Why the bounds are enough. The rings: all their conditions compare `front` and `rear`
modulo the size; four or five slots allow empty, partly filled, full and wrapped rings
while the other side is in the middle of an operation, and the ring theorems hold for every
size. `ground_report`: three cars overfill report queues of two, so that tokens without
nodes arise; a token ring of five can be filled by two cars and a pass's own tokens. In
`ground_report_live` the ring of four is full after two cars that pass before the link is up,
so that a state node waits without a token until `fun_gnd2wcs_state_msg` queues one. In
`interval_lost` the ring of eight is larger than all tokens that can be queued: what it shows
does not need a full token ring. `photo_timer`: with four ticks a
turn every alignment of eyes, wrap and interrupt occurs; the theorems hold for every period.
`line_control`: six cars are enough for each band of `repairLocationCtrl` (scaled to 4, 3
and 2), for targets on either side of the reset, and for a second command during the first;
stages of two cars let an interrupt end a stage in the middle of `fwInitServo`; a modulus
of 32 is beyond every sum of distances but lets a subtraction below zero wrap.
`speed_ctrl`: the constants of the law are the program's own, and the two starts lie on either
side of the target, outside the integration zone and inside it on the way; one wrong
measurement and one lag are what it takes to turn the error's sign between two measurements.
`servo_link`: 0, which the inverters get before the first command, and two frequencies that
differ from it and from each other in both bytes make every mixture of what a buffer held, what
the main loop stores and what the interrupt stores; one command is enough for a repair that an
interrupt ends in the middle, and for a parameter command right after the PID controller has
sent; type 5 is one for which `ServoFreqSet` sends nothing. `network`: three hosts crowd a table of two,
so every kind of entry is recycled; two packets fill pool and descriptor ring; the lengths 64
and 300 lie on either side of the callback's 8-bit index.

Fairness. `GroundReport!FairSpec`: weak fairness of the main loop (it has no blocking call;
`Delay` is not used), of the 30 ms countdown and of the second tick (SysTick is periodic). Photo
eyes and datagrams get none. `LineControl!FairSpec`: weak fairness of the main loop's steps,
of the next car and of the marked car, both enabled only while the line moves; none for
commands, missed pulses and PID outputs. `SpeedCtrl!FairSpec`: the main loop, the next
measurement and the next cars of the start-up while the line moves, and the line following its
frequency; none for commands and wrong measurements, which are bounded. `ServoLink!FairSpec`:
the main loop (whose `sec_process` comes round), and the hardware that sends bytes and makes
pauses; none for interrupts, commands and the cars that end a stage, so `SecHeals` is stated
under the condition that the line stays in a start-up. `Network!FairSpec`: the main loop and the transmit
DMA, and strong fairness of the pass in which the ARP timer is due: SysTick is periodic, so
that there is always another; none for frames, replies included.

Deadlock checking is on in every run.

## 4. Where code and documents disagree

Three runs end in a violation, and that is what they are for:

1. `interval_lost`: `fun.c:37-46` is not safe with two producers. The common outcome is a lost
   or a repeated token; if interrupts fill the ring between the test and the store, the full
   ring turns empty, which is what the condition of `TokensKept` excludes. State reports
   recover, because `fun_gnd2wcs_state_msg` queues a token on every pass while a node waits
   (`StateEventuallySent`); client 1 recovers through the 30 ms repetition or the next token
   (`CarEventuallyFresh`). Interval reports do not recover: from then on each is sent when the
   next car comes. Two things strand an interval report and, by the theorem `IntervalHasToken`,
   no third: an EXTI4 inside the main loop's `enQueue`, and an EXTI4 that finds the ring full.
2. `repair_target`: `timExti.c:77-86` publishes the repair mode before its target, and a photo
   eye in between ends the repair at the previous one. That is the only way
   (`EndsAtTargetOutsideTheGap`).
3. `arp_flush`: `low_level_output` writes into the buffer of the next descriptor before it is
   known to be free, and answers `ERR_OK` whether or not the frame was accepted. An ARP message
   from a host for which packets wait makes a burst longer than the ring. The report that is
   written over is lost; nothing in the protocol repeats it. Until a frame has been copied into
   a buffer of the DMA, the answer is true (`OkMeansSentUnlessOver`).

Others are bounded by properties that hold:

* A token without its node sends the buffer again (`fun.c:306`, `fun.c:530`): `InOrder` shows that
  what goes out then is the newest frame handed over, never an older one.
* `timExti.c:194` trusts `timUpdates` while an overflow is pending, though `speed_ctrl.c:112` and
  `speed_ctrl.c:182` take the value for the time between the eyes: `ErrorIsOneTurn` shows that
  such a measurement is wrong by exactly one turn of the counter.
* `timExti.c:137` leaves a running measurement in place in repair mode, though `timExti.c:189`
  says the two eyes must be in succession: `InSuccession` shows that nothing else separates them.
* `RS485_OUT` can be interrupted by itself, so that a frame of mixed bytes is sent or `servo_hz`
  tells of an older frequency: `NoPhantom` and `ObeyedUnlessSpoilt` show that the inverters reject
  the mixture and keep the frequency they had. For how long depends on the mode. In a start-up
  `sec_process` sends `fwInitHz` again every second, and `SecHeals` shows that both inverters and
  `servo_hz` come to agree with it. With `servo_start` or `repair_flag` set it sends nothing
  (`main.c:109`), and the frame is made up only by the next call that nothing hits: the next
  measurement of the PID controller, or the next car in repair mode.
* `speed_ctrl.c:18` gives the inverter's range as 0 to 5000 and the code limits `first_stage_hz`
  and the PID output to it, but not `standard_hz`, a u16 that is taken from the datagram as it is
  (`fun.c:199`, `speed_ctrl.c:96`, `timExti.c:152`). `SpeedCtrl!TypeOK` says just that: a
  frequency above the limit is the `standard_hz` of a command. `speed_ctrl` runs with one of
  60 Hz, and the controller still brings the line back to its target.
* A datagram of 256 to 1500 bytes keeps the copy loop of `udp_receive_callback` from ending, and
  a frame longer than a receive buffer stops reception: `FramesTaken` holds up to either, and
  `Blocked` names the two states.
* A `pe_time` of 0 makes the PID law send 0 Hz, after which no measurement comes (`zero` in
  `NeverStalls` and `SpeedReached`); the next parameter command starts the line again.

`timExti.c:57` announces the shortest distance, but `cal_distance_to_real_locate` takes the
difference of the car numbers without the way across the reset. The effect is confined to a
repair command for a target a car or two away across the reset: the line goes round instead
of staying, and `NeverPastTarget` shows that it still stops there.

Not a finding, because no document states the opposite: when a repair stops the line with
`servo_start = 1`, a car that coasts past both eyes starts the PID controller, which moves
the line again; with `servo_start = 0`, `sec_process` sends `fwInitHz` within a second.

## 5. Proofs

All theorems hold for every value of the constants that the modules' assumptions allow.

* `RingQueueProofs`. `InvHolds`: `TypeOK`, `PointerGood` and `CheckStillHolds` together are
  inductive. The key lemma is `EnQueueSparesFront`: the producer never writes slot `front`,
  because it stops one short of it; so the slot the main loop's pointer refers to is out of
  the interrupt's reach until the next `Get`. `RingIsFifo`: the ring implements
  `BoundedFifo`, from lemmas on `Contents` under adding and removing (`ContentsAdd`,
  `ContentsOut`), which do the modular arithmetic by cases on the lap.
* `SendQueueProofs`. `NoWaitingTokenLost` is `TokensKept` for every ring of two or more slots and
  all tokens. `TokensKept` speaks of the last step of `enQueue` only; the invariant `SendInv`
  follows the whole call. It counts slots from `front`, which stands still during an
  `enQueue`: the tokens that waited are at the distances 1 to `Len(before)` (`PrefixKept`), and
  the three copies of `rear` (the ring's, the new value in a register, the index of the store)
  are all beyond them (`RearInStep`). Both hold while the interrupts offered fewer tokens than
  there were free slots (`hits < Free`); with more, an interrupt's own `enQueue` reaches the
  ring's full state that the main loop's test excluded, and the store of an older `rear`
  makes the ring look empty.
* `GroundReportProofs`. `NoReportIsLost`, `MirrorIsComplete`, `ReportsInOrder` and `TypesHold` from
  one inductive invariant, `GInv`. `ControlInv` says where the main loop is: an `enQueue` for
  client 1 belongs to an interval report (`Calls`), and the clients go through their states
  together (`Lockstep`). `ReportInv` adds to `NoReportLost` what the buffer of client 0 holds
  (`BufferKnown`): a report on its way, or one that was handed over, so that a token without its
  node sends nothing that is not accounted for. `MirrorInv` ties the register `GndThreemsg` and
  the buffer of client 3 to client 0's buffer from the pass that builds a state report to the
  `udp_client_process` that hands both over; without it `MirrorComplete` would not survive that
  step. `OrderInv`: what waits is increasing and newer than what is in a buffer, what is in a
  buffer is not older than what left. None of it depends on the contents of the token rings,
  which is why the race on them costs no report. The queue sizes, the heartbeat delay and the
  numbers of cars and datagrams are arbitrary.
  `ChannelsImplemented`: the path implements `ReportChannel` twice, for state and for interval
  reports. What a channel has to hand over is mapped to the report in client 0's buffer, if it
  was not sent before, followed by the queue (`Transit`); taking a report from the queue into the
  buffer and sending a frame again are then stutters, which `OrderInv` and `BufferKnown` give.
  `IntervalHasToken` is about the tokens: assuming that EXTI4 neither preempts the main loop
  between the test and the end of `enQueue` on `msgSendQueue` nor finds it full (`Undisturbed`),
  no interval report waits without a token. `TokenInv` makes it inductive: there are at least as
  many INTERVAL tokens as nodes, where the slot that `enQueue` has taken but not yet written is
  not counted, since it still holds an old token. TLC finds a stranded report as soon as either
  half of `Undisturbed` is dropped.
* `PhotoTimerProofs`. `ClockTheorem`: `timCnt + elapsed = counter + M * wraps`, where a wrap
  pending at eye 1 counts against and one pending now counts for. It needs the type
  invariant, and that at most one overflow is pending, which the latency bound gives.
  `ExactTheorem` and `ErrorTheorem` derive what an accepted measurement is worth from it by
  u32 arithmetic; `SuccessionTheorem` is inductive by itself.
* `LineControlProofs`. `RepairMovesHolds`: in repair mode the line moves. `RepairMoves` alone
  is not inductive, because it says nothing while the main loop is inside a command;
  `ModeAtPc` adds that during `fwInitServo` and `sec_process`'s call the repair mode is off, and
  that a frame on its way in repair mode carries `standard_hz`. `NeverPastTargetHolds`: as long
  as no pulse of the switch was missed, the distance falls by one with every car. That fails
  only if the line stands exactly at the target in repair mode (the distance would jump to a
  whole lap), which `TargetAhead` excludes: a photo-eye interrupt has already ended the repair
  2 + `adjust_para` cars before, `RepairTest` refuses a target that near, and the reset to car
  0 cannot hit it because a target is at least 1 (`TargetKnown`). `TypesHold` needs
  `CarNoBehind`: the car number never runs ahead of the cars since the marked one and the laps
  missed. `StopsAtTargetHolds`: `repairHz` is 0
  only near the target (`RepairHzZero`), and after a missed pulse the program's distance is
  either the true one or, having wrapped, too large to stop at; that needs `U16` to exceed
  twice the line and the farthest band, which 65536 does for every line in use.
  `EndsAtTargetOutsideTheGap`: a repair that no parameter command ends, ends near the target last
  asked for, unless a photo eye comes between the two assignments of `repair_car_para_init`
  (`pc = "target"`). `TargetStored` carries it: outside that gap the target in use is the one
  asked for.
* `SpeedCtrlProofs`. `TypesHold`: what the controller and `first_stage_hz` compute is within the
  limits for all gains and measurements, and the only other frequencies are the `standard_hz` of
  commands, any u16 (`ParaAssumption`). `NoWindUp`: the
  sign of the sum follows the sign of the error, because the sum is cleared at a change of
  sign, limited otherwise, and cleared with the error by `fwInitServo`; the one moment between
  those two assignments is the exception the property names. `NoDeadBandHolds`: given that, every
  term of the law goes with the step or against it together (`PidTerms`), so the quotient is off
  `fwHz` by at least one before the limits (`PidMoves`). Its hypothesis, that every command has
  `kp > 0`, is needed: with a proportional gain of 0 and a sum just cleared, an excess of speed
  gives a change of 0. `GainsKept` carries it through a `fwInitServo` that is cut in two.
* `ServoLinkProofs`. `NoPhantomHolds` from `IInvHolds`. The inductive invariant says that every
  byte in a send buffer (`BuffInv`) and on the wire (`WireInv`) is the byte at its place of some
  frame that was asked for. The steps that only change the mode (`ModeNext`) leave the lines alone
  (`ModeFrame`).
  An accepted frame is then a mixture of frames byte by byte, and `ValidIsFrame` concludes from
  `CrcAssumption` that its frequency is one that was asked for. `CrcAssumption` is the one thing
  taken from the CRC; TLC evaluates it with the real CRC for the frequencies of the run. It
  holds for any number of interrupts and commands. `ObeyedHolds`: `CleanInv` describes a call that
  nothing has spoilt, from its first store on. What is copied so far is the new frame
  (`BuffClean`); a line is idle until it is started, then has the first bytes of the frame on the
  wire and the rest still to send, and after the pause runs at the frequency asked for
  (`LinesClean`). `FrameValid` is the only fact about the CRC it uses.
* `NetworkProofs`. The inductive invariant `NetInv` is `ArpInv`, a predicate on the ARP state,
  together with the types and the rings. Each operator of `Etharp` has a lemma that it preserves
  `ArpInv`, so a handler of the main loop is a chain of lemmas. `Known` says that
  a stable entry has the address of its own host; `PoolKept` counts the
  elements in use as a set of pairs of entry and place, so that flushing, expiring and recycling
  are each the removal of a known number. From it follow `TableIsSound`, `NoElementLeaks`,
  `PacketsReachTheirHost` and `TypesHold`, the latter with the age limit of each state. The rings
  are described by distances: a descriptor belongs to the DMA (or holds a frame) exactly if it is
  less than `n` after the older pointer, where the younger one is `n` after it (`InStep`);
  `RingGrows` and `RingShrinks` are the two steps, and `RingsStayInStep` turns the distances back
  into `RingsInStep`. `PacketsInOrder` needs a second invariant, `OrderInv`: as long as no frame
  was copied into a buffer of the DMA, each packet's path is a row of lanes (wire, ring, the
  handler's frames, the queue of an entry), each in order and each behind the one before it for
  the same host. Its part about the frame just copied also gives `OkMeansSentUnlessOver`. The
  sizes of table, pool and rings, the ages, the hosts and the numbers of packets and frames are
  arbitrary.

TLC checked `SendInv`, `GInv`, `CleanInv`, `NetInv` and `OrderInv` as invariants of the runs'
instances before they were proved, `TokenInv` with the photo eye restricted to `Undisturbed`, and
the two channels as properties of `ground_report`'s instance.

Only model-checked: `NeverStalls`, which depends on the numbers of the law (for large enough gains
one measurement takes the frequency to 0); liveness throughout (`StateEventuallySent`,
`CarEventuallyFresh`, `NeverSilent`, `RepairEnds`, `StartUpEnds`, `SpeedReached`, `SecHeals`,
`QueueEmpties`, `FramesTaken`), since TLAPS proves no statements under fairness; and the CRC itself,
which `ModbusCrc` computes by recursion.

## 6. Not modelled

* Frame layout and checksum of the WCS protocol; `recv_msg_check` rejecting a datagram is the
  datagram `OTHER`. The other bytes of received datagrams.
* Single-precision rounding of the PID law: the model's numbers are exact.
* Failure of `udp_new`, `udp_connect` (6 control blocks for 4 clients) and `pbuf_alloc`.
* The BOOT command (a reset: every module is in its Init again, and nothing but the boot flag
  is persisted).
* Records of the serial lines: their tokens are commented out (`usart.c:107`, `usart.c:160`);
  `uart5_send` is not called.
* Client 2, whose queue nothing fills; the compiled-out TCP client; `delay.c`.
* In `LineControl` the `standard_hz` of a repair command is not 0: with 0 the line would stand in
  repair mode, where nothing but a command moves it again. `ServoLink` takes any.
* A photo eye that misses a car, a spurious pulse, and the car number's wrap after 65536 cars
  without a reset.
* Receive descriptors with an error summary: they act as the parts of a long frame do.
* The vendor code apart from `etharp.c`, `ethernetif.c` and the ring functions of `stm32_eth.c`.
  It makes up most of the repository's lines, but little of the program: PPP, SNMP, TCP, DNS,
  the socket layers and the file system are never called, register definitions and peripheral
  drivers keep no state of their own, and IP and UDP output are pass-through for four
  connected control blocks. What the firmware depends on below UDP is in `Network`.

## 7. Plan

Done: every module with its runs, proofs of every invariant and action property the passing
runs check, `NeverStalls` excepted, and for each violation a theorem on where it comes from. To
do, in this order:

1. `NeverStalls` under a condition on gains and starting frequencies: how far the measurements
   between two movements of the line can take the frequency down.
2. `GroundReport` uses sequences for the report queues on the strength of `RingIsFifo`; the same
   for the register `GndThreemsg` as a queue of one, as a refinement.
3. `StartUp`: interrupts enabled before the queues are initialised.
4. `FrameCheck`: the checksum of the builders against `recv_msg_check`, over small frames.
