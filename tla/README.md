# A verification project for the enhanced PS/2 controller, keyboard and SmartTouchPad drivers

The repository holds three macOS kernel drivers that talk to one Intel 8042
controller: `ApplePS2Controller` owns the hardware, the work loop and the
request queue; `ApplePS2Keyboard` turns scan codes into key events;
`ApplePS2SmartTouchPad` identifies a touchpad (ALPS, ELAN, Synaptics,
FocalTech, Sentelic ...), assembles its packets and turns them into pointer,
scroll and gesture events. This directory models the parts where order,
interleaving, failure and power changes matter, checks the models with TLC and
proves the central facts with TLAPS.

## 1. Inventory

### 1.1 The parts, their state, their operations

| Part | Source | State | Operations |
|---|---|---|---|
| Input path | `ApplePS2Controller.cpp` 80-160, 795-882, 1037-1340, 1494-1547 | the 8042 output buffer, the 32-place `_keyboardQueue`, the two interrupt event sources, a read's put-aside bytes and time limit | `interruptHandlerKeyboard`, `interruptHandlerMouse`, `interruptOccurred`, `readDataPort` (two versions), `dispatchDriverInterrupt` |
| Request engine | same file, 707-790, 886-1035 | `_requestQueue`, the local queue of `processRequestQueue`, the request being processed, `_hardwareOffline` | `submitRequest`, `submitRequestAndBlock(Gated)`, `processRequestQueue`, `processRequest` |
| Power control | 1552-1757 | `_currentPowerState`, `_hardwareOffline`, the thread call, the retain count | `setPowerState`, `setPowerStateCallout`, `setPowerStateGated`, `dispatchDriverPowerControl`, `resetPS2Controller` |
| Handler tables | 629-703, 1759-1886 | installed flag, target and action of the interrupt, power and notification handlers of each device | `install*`, `uninstall*`, `dispatchPS2Notification`, `message` |
| Bring-up, multiplexing | 167-620 | resources, `_controllerUsesMuxMode`, `_muxModeRoutePrefix` | `init`, `start`, `stop`, `free`, `detectMuxModeSupport`, `setMuxMode` |
| Debugger escape | 1391-1492 | modifier bits | `doEscape`; unreachable, `_debuggingEnabled` is never set (247-249) |
| Nubs | `ApplePS2KeyboardDevice.cpp`, `ApplePS2MouseDevice.cpp`, `AppleACPIPS2Nub.cpp` | none of their own | delegate every call to the controller; map interrupt numbers |
| Request helpers | `PS2Interface.cpp` | a request structure and who owns it | command helpers with retries; `setCommandByte`'s test-and-set loop |
| Keyboard driver | `ApplePS2Keyboard.cpp` | `_extendCount`, key bit vector, modifier state, LEDs, feature toggles, key repeat of the numeric pad, touchpad state | `interruptOccurred`, `dispatchKeyboardEventWithScancode`, `setLEDs`, `setKeyboardEnable`, `setCommandByte`, `setDevicePowerState`, `receiveTouchpadNotifications` |
| Touchpad driver | `ApplePS2SmartTouchPad.cpp` | `_packetBuffer`/`_packetByteCount`, vendor and mode, finger and button state, drag and inertia timers, reconnect counters | `probe`/`start`/`stop`, `interruptOccurred`, `Detect_`/`Reconnect_`/`Enable_touchpad`, packet decoders, finger and button state machines, timers, notifications |

### 1.2 How they interact

* Devices put bytes into the one-byte output buffer. The keyboard interrupt
  handler moves keyboard bytes to the software queue at interrupt time; mouse
  bytes stay in the port until the work loop takes them.
* The work loop is single-threaded; the command gate lets other threads in, one
  at a time, and is recursive: code that already runs on the work loop can
  enter again. `submitRequestAndBlock` runs the request on the caller's thread
  inside the gate.
* A read inside a request dispatches bytes of the other stream straight to the
  other driver's interrupt routine, so a driver routine may run in the middle
  of a request of the other driver.
* The touchpad's interrupt routine re-initialises the device when it sees a
  reset announcement (AA 00), with blocking requests, from inside that routine.
* Power management calls `setPowerState` on its own thread; a thread call
  carries it to the work loop, which tells the drivers, then freezes or thaws
  the request engine.
* Keyboard and touchpad exchange notifications through the controller
  (`dispatchPS2Notification`), as direct calls.

### 1.3 What is hard

Interrupt time against work loop on the port and the queue; bytes put aside and
dispatched later; requests nested into requests through interrupt routines;
asynchronous requests that meet a frozen engine; a power change that is
requested again before the first was carried out; a stale software queue at
wake-up; a command byte changed by two drivers with read and compare only;
request structures freed twice or used after they were freed on error paths;
packet assembly that re-enters itself; a set-up conversation that may fail at
any request; clicks and drags that a timer has to end while new touches cancel
it; key state that must survive chords, remapping, sleep and a second driver's
idea of it. `PROJECT.json` lists each with its line.

### 1.4 What makes each part correct

* Input path: every byte is delivered once, to the right driver, in order, or
  returned once to a reader; nobody sleeps on an unread byte; reads return.
* Request engine: a request's commands are not interleaved with another's;
  requests complete once, in order of submission, and none is forgotten.
* Power control: every change is acknowledged; drivers see disable and enable
  alternate; nothing of before sleep is taken for data or answers after it.
* Command byte: no driver's change is lost to the other's.
* Request helpers: every request is freed exactly once and not used after.
* Keyboard: key events come in down/up pairs; modifiers follow the keys.
* Touchpad: packets are assembled in step with the device and re-synchronised;
  buttons that go down come up; timers do not fire into a stopped driver.

## 2. Plan

In the order of what the system cannot do without; all of it is done, except
the last three:

1. The input path (`PS2DataPort`), the request engine (`RequestQueue`, against
   the abstract `AtomicRequests`), power control (`PowerControl`), the command
   byte (`CommandByte`), request lifetimes (`RequestLifetime`), each with proofs.
2. The touchpad's set-up and reconnection (`TouchpadSetup`) and the assembly of
   packets with reconnections inside it (`PacketAssembly`), both with proofs.
3. What the touchpad makes of fingers, buttons and timers (`TouchpadGestures`),
   fed by the vendors' decoders (`TouchpadDecoders`, which composes the two),
   with proofs.
4. The keyboard's keys and its notifications to and from the touchpad
   (`KeyboardKeys`, with proofs).
5. Left: the controller's handler tables and life cycle; active multiplexing;
   the decoders of ELAN v1, ALPS and Sentelic. See 7.

Theorems still worth proving: `ReleasesAtRest` of `TouchpadDecoders` on clickpads
and Synaptics touchpads, under conditions that exclude the cases of section 6;
`TouchpadLetGo` for the keyboards with control, alt and command on which it holds,
and `KeysComeUp` with function keys in use.

## 3. The modules

| Module | Models | Proofs | Instances |
|---|---|---|---|
| `PS2DataPort` | input path | `PS2DataPort_proofs` | `MCPS2DataPort` |
| `AtomicRequests` | what drivers are promised of the engine (abstract) | | |
| `RequestQueue` | request engine; implements `AtomicRequests` | `RequestQueue_proofs` | `MCRequestQueue` |
| `PowerControl` | power changes and wake-up | `PowerControl_proofs` | `MCPowerControl` |
| `CommandByte` | the read, compare and write loop of two drivers | `RequestHelpers_proofs` | `MCCommandByte` |
| `RequestLifetime` | ownership of request memory | `RequestHelpers_proofs` | `MCRequestLifetime` |
| `TouchpadSetup` | detection, set-up and reconnection as a conversation that may fail | `TouchpadSetup_proofs` | `MCTouchpadSetup` |
| `PacketAssembly` | bytes to packets, staying in step with the device | `PacketAssembly_proofs` | `MCPacketAssembly` |
| `TouchpadGestures` | fingers, buttons, taps, drags, presses, scrolls, their timers | `TouchpadDecoders_proofs` | |
| `TouchpadDecoders` | the packets of ELAN v2, v3, v4, FocalTech and Synaptics; extends `TouchpadGestures` | `TouchpadDecoders_proofs` | `MCTouchpadDecoders` |
| `KeyboardKeys` | keys, modifiers, function keys, notifications to the touchpad | `KeyboardKeys_proofs` | `MCKeyboardKeys` |

Definitions called `Mutant...` are the same steps with a plausible mistake in
them (a dropped guard, a missing reset, a swapped order). No specification uses
them: each shows that a property fails if the code had that mistake.

### 3.1 PS2DataPort

State: `port` is the 8042 output buffer with its status bit (`dev`); `irq` the
latched interrupt lines; `keyboardQueue` and `signalled` the software queue and
the event sources; `pc` and `call` the work loop's position and its local
variables. A byte is a record with its stream, its position in the stream (only
the properties look at it) and its value.

Each locked section of the code is one action; where the lock is dropped between
two looks at the port there are two. `interruptOccurred` drops it after it saw a
mouse byte (`SeeMouseByte`, `DispatchMouseByte`), and in the DEBUGGER_SUPPORT
build, the one shipped, a read that polls keeps it (`LockHeld`).
`InterruptHandlerMouse` and `InterruptHandlerKeyboard` are the two primary
interrupt handlers; `DispatchQueued`, `SeeMouseByte` ... `LeaveInterrupt` the
loops of `interruptOccurred`; `ReadDataPort` enters a read of either version
(with and without an expected byte, `AnyByte`), `ReadFromQueue`, `PollEmpty`,
`PollReads`, `PollDispatchesOther` and `PollTimesOut` are its ways on, and
`Accept...` what it decides about a byte of its own stream: match, put aside, or
a fourth mismatch. The devices are external: they may send any byte at any time,
which covers answers that come late, early or never.

Assumed: powered on, both drivers installed, driver routines that issue no
request of their own (those are `RequestQueue`'s subject).

### 3.2 RequestQueue and AtomicRequests

`AtomicRequests` says what `ApplePS2Device.h` promises: requests wait in the
order of their submission, run one at a time and are answered once.

`RequestQueue` describes how. `stack` holds the frames of the code inside the
command gate, innermost first: the drain loop with its local queue, a caller of
`submitRequestAndBlock` that waits for that loop, `processRequest` at one of its
commands, a driver routine. `SubmitRequest` and `SignalQueue` are the two halves
of `submitRequest` (enqueue under the lock, signal after it); `ServeQueue`,
`TakeQueue`, `ProcessNext` and `QueueProcessed` are `processRequestQueue`;
`BlockFromThread`, `BlockFromRoutine` and `ProcessBlocked` are
`submitRequestAndBlock`; `FailOffline`, `ExecuteCommand`, `CommandFails` and
`RequestDone` are `processRequest`. `PreemptRequest` is a read of a request that
dispatches a byte of the other stream, `CallRoutine` a dispatch from
`interruptOccurred`; the routine runs on top of what it found. `Nesting` says
whether routines that preempt a request block on another, which the header
forbids and the touchpad driver does.

`ImplementsServer` maps `Waiting` to `waiting`: the local queue of the drain loop,
then the blocked caller's own request, then `_requestQueue`; `Current`, the
request of the running frame, to `current`; and the outcomes to `answered`. It is
stated for engines whose routines do not block (`~Nesting`), so the stack has at
most one frame of each of these kinds, and `FrameOf` names it.

### 3.3 PowerControl

`SetPowerState` takes the reference and makes the thread call (a second change
before the call has run replaces its parameter); `CallThread` is the callout,
which then waits for the gate; `EnterGate` may pick any waiting call, since the
gate does not promise an order. One action per stage of `setPowerStateGated`:
`DisableKeyboard`, `DisableMouse`, `Freeze` towards sleep; `ClearInput`,
`ResetInterrupts`, `ResetDevices`, `EnablePort`, `Thaw`, `EnableKeyboard`,
`EnableMouse` towards waking; `Acknowledge`. Between them the user strikes keys
(`Stroke`) and the interrupt handler fills the software queue; `DispatchKey` and
`ServeQueue` are the work loop's other duties. `mouseInstalled` is chosen at the
start: a machine without a supported touchpad has no touchpad driver.
`AcknowledgementTimesOut` is the power manager giving up on a change. `Executed`
is what the keyboard's queued commands come to: each enables or disables
whatever was before, so the last one decides.

Abstracted: the touchpad's own reconnect is one step, multiplexing is off, the
hardware keeps its state in sleep (a controller that loses power is not
modelled), and a key press is one byte in the software queue or in the port.

### 3.4 CommandByte

The loop of `setCommandByte`, identical in `PS2Interface.cpp` and in the keyboard
driver: `ReadCommandByte` is the first request, `TestAndSet` the second (read,
compare, write), `Retry` what happens after a failure. Requests are atomic, the
pair is not; the reads take the next byte of the keyboard's stream, and
`StrayArrives` puts scan codes into it. `Freeze` and `Thaw` are the engine going
offline, which fails requests. With `Silent` the controller may also fail to
answer, so that a read returns the fake zero.

### 3.5 RequestLifetime

Each helper of `PS2Interface` and of the keyboard driver is one of six shapes:
allocate, submit, look, free (`once`); the same in a loop (`loop`); freeing on
the error path and again at the end (`errors`); freeing once per try (`retries`);
asynchronous and left alone (`forget`); asynchronous and looked at afterwards
(`peek`). A cell may be reused as soon as it is free, so a request is a cell and
the allocation its holder means. Faults are recorded, not prevented. Two of them
happen (section 6), and what the memory does after one is nobody's promise; so
the properties are about the first: `FirstFreedTwice` and `FirstUsedAfterFree`
say which two places of the code it can come from, with requests that fail
anywhere, `NothingLeaks` what the memory is until then (`Sound`). `DanglingFree`
and `DanglingRetry` are those two places, just before the fault.
The specification's names begin with `Lifetime`, since its proofs stand beside
those of `CommandByte` in `RequestHelpers_proofs`.

### 3.6 TouchpadSetup

All callers of these methods are behind the work loop's gate, so a method is the
set of its outcomes `[ok, s]`: its result and the state of device and driver it
leaves. `Then`, `OrElse`, `Always`, `Retry3` and `Retry5` (the counts of tries the
code has), `InTurn3` and `InTurn4` put methods together the way the code calls them. `Fault` is a request that goes wrong: it may fail
before or after the device took the command, and data that never came reads as
zero (`GetMouseInformation`). `Probe`, `Start`, `Stop`, `PowerUp`, `Announcement` and
`UnknownPacket` are the driver's entry points; `DeviceResets` is external.
`pad.keeps` tells devices apart whose SetDefaults leaves the absolute mode alone.
Of the devices the module assumes what the driver's tables say: ELAN touchpads
are of versions 1 to 4 or of one it does not know, only version 3 may be the
legacy one that refuses register 0x10, and the other brands have one version. Misread capabilities are refused by old
Synaptics firmware only (3576), so `SynapticsIdentify` allows for both.

### 3.7 PacketAssembly

`buffer` is `_packetBuffer` up to `_packetByteCount`, by each byte's position in
the device's packet; `calls` the invocations of `Reconnect_touchpad` that are in
progress, with the place they were called from. `InterruptOccurred` is one
byte: dropped, kept, an announcement, a packet that is taken, corrected or
unknown. The phases of a reconnection (`DeviceStops`, `ClearBuffer`,
`Reconnected`, `ReconnectionFails`) let bytes come in between, because reads of
the requests hand bytes of the device on; how many come is not limited, which is more
than the reads of one request let through. `torn` records why device and driver
may be out of step.

What a packet says is left out; whether it is known is a choice, except that
the device's own packet, whole and in its own mode, is known.

### 3.8 TouchpadGestures and TouchpadDecoders

`TouchpadGestures` has the methods from `Process_fingers_change` and
`Process_Physical_Buttons` to `Process_touch_end`, the release, feature and scroll
timers and the keyboard's notifications, as functions from a state to the states
they may leave. What a method decides by coordinates, pressure or time is a
choice, what it decides by its own variables is not. Modes whose treatment is the
same are one. `TouchpadDecoders` has the packets: what each decoder keeps between
them and which methods it calls in which order, then the actions of the system.
`sent` is the last button state that was dispatched, `state` and `data` are
`_button.state` and `_button.data`, `rotate` is `_rotate.isRotateGesture`, which
outlives the mode.

Of the devices it assumes that an ELAN v2 or v3 pad that nobody touches says so in
its last packet and reports no pressure (4886, 4907), so that a packet without
fingers ends the touch. The log of pressures is taken as hidden: while the
keyboard has it shown, touches do not end (see 6), and `KeyboardKeys` says when
that is.

What a touchpad may report (`Reports`): fingers and buttons in any order, a
clickpad's button with a finger, ELAN v2 and v3 up to three fingers. With
`Overlaps = FALSE` no button is pressed while a tap's click is still to be
released, and a button beside the pad is held with at most one finger on it; press
drags need two packets. The touchpads of the instance avoid taps of several
fingers while a button is held, presses that switch applications, dragging
switched off, press drags on ELAN v4, and a track point together with edges or
press drags: section 6 says what the code does there. `Rest` leaves out what the
driver was not told (`missed`), Synaptics touches that ended before their fingers
lifted, and clickpads whose button was let go unseen. `TouchpadDecoders_proofs`
says on which touchpads in general drags, command and buttons end: `Drags`,
`Commands` and `Plain` are conditions on `pad`, which never changes; a left-over
packet's button ends on all. `Plain` touchpads are those of ELAN v2 and v3 that
drag, with users slower than the timers (`Overlaps = FALSE`); that they have no
clickpad is what the driver says of them (line 4366 asks for a later hardware
version). Eight of the instance's fourteen are `Plain`.

### 3.9 KeyboardKeys

`s.bits` is `_keyBitVector`, `s.sys` the keys that are down for the system; the
record also has what the touchpad driver keeps of the keyboard's notifications.
One key event is one function of the state: `Swallowed` and `Combination` are the
keys that never get to `HandleKey`, which is the rest of
`dispatchKeyboardEventWithScancode`; `ProcessFnKeys`, `ProcessExtendedFunctions`
and `MapGermanTurkishKeyboardLayout` are methods of their own. `Press`, `Repeat`
and `LetGo` are the user, `Sleep` and `Wake` the power changes, `AppSwitch` and `Gesture`
the touchpad's notifications.

The instance's keyboards have the last key let go first, except with two of
control, alt and command. Sleep falls between key events, and right-hand twins are
kept apart from what presses the left ones: section 6 has the code's behaviour.
`again` remembers that a key of the feature toggle mode was pressed again in it,
which switches the touchpad's log over once more: the log is then the other way
round, and `LogFollowsMode` says exactly when. `KeyboardKeys_proofs`
says of which keyboards in general the properties are true: `FewModifiers`,
`Untangled` and `Steady` are conditions on `kb`, which never changes. `lost` holds the keys that
were down when the machine or the display fell asleep, the toggle mode began or
(keypad) NumLock changed.

## 4. The runs

| Run | Shows |
|---|---|
| `data_port` | two keyboard and four mouse bytes, reads of either stream, a one-place queue: each byte goes to its own driver or to one reader (`RightDriver`), is somewhere exactly once or was counted as lost (`ExactlyOnce`), only a read that gives up forgets bytes, at most two (`LossBounded`), nobody sleeps on an unread byte (`NoLostWakeup`), the mouse stream stays in order (`MouseInOrder`) |
| `data_port_live` | every byte is taken up (`AllTakenUp`) and every read returns (`ReadsReturn`) |
| `request_queue` | two asynchronous and two blocking requests: no queue without a signal or a drain (`NoForgottenRequest`), commands not interleaved (`Atomic`), order of submission (`InSubmissionOrder`), refinement of `AtomicRequests` (`ImplementsServer`: no request is taken twice, dropped, or answered twice) |
| `request_queue_nested` | routines that block from inside a request: every request is answered (`EveryRequestAnswered`) |
| `power_control` | five changes, two of them given up on: references balance (`ReferencePerCall`), what is acknowledged was done (`AcknowledgedIsDone`), the engine is frozen exactly in sleep (`FrozenInSleep`), the keyboard is silent while frozen when a touchpad driver finishes the shutdown (`SilentWhenFrozen`), drivers hear disable and enable in turn (`ToldInTurn`), changes are acknowledged (`EveryChangeAcknowledged`), the keyboard comes back (`KeyboardComesBack`) |
| `power_stale` | violation of `CommandByteKept`: a stale scan code becomes the command byte at wake-up |
| `command_byte` | two drivers and three scan codes up to twice each: no change is lost before a scan code came (`AppliedWhenAlone`), nor while none came twice, none reads like a command byte and nothing was frozen (`AppliedWhenAwake`); both loops end (`EveryUpdateEnds`) |
| `request_lifetime` | all six helpers on two threads, commands that fail, memory that is reused at once: the first double free comes from the exit of two helpers after a failed command (`FirstFreedTwice`), the first use after a free from a third one's retry (`FirstUsedAfterFree`); until then nothing leaks and nothing has two holders (`NothingLeaks`) |
| `touchpad_setup` | every touchpad the driver tells apart, six faults, two events: reports are only on in the mode that the decoder expects (`ReportsAbsolute`), one brand is never taken for another (`DetectsNoOther`), an unattended device is silent (`SilentUnattended`), a reconnection whose requests are answered repairs what earlier ones left (`AnsweredReconnectRepairs`) |
| `packet_assembly` | four decoders: the buffer never fills up and holds what the device has sent of its packet (`PacketsInStep`), unknown packets start at most three reconnections (`AttemptsBounded`) |
| `touchpad_gestures` | fourteen touchpads: at rest no button (`ReleasesAtRest`), drag (`DragsEndAtRest`), left-over packet's button (`NoPhantomButton`) or command key (`CommandReleased`) without a timer that ends it, and the timer does (`HoldsEnd`) |
| `keyboard_keys` | twelve keyboards: when all keys are up none is down for the driver or the system (`KeysComeUp`), the touchpad believes control up and scrolls neither fast nor in reverse (`TouchpadLetGo`), its log follows the toggle mode and further presses in it (`LogFollowsMode`), the drivers agree on whether the touchpad is on (`TouchpadAgrees`); keys down at a sleep are excepted, and releases that are swallowed do not occur on these keyboards |

Bounds and why they are enough:

* `data_port`: four bytes of one stream fill the three put-aside slots and
  mismatch once more; two keyboard bytes fill and overflow a queue of one place.
  `PollLimit` 1 gives a read one empty look and a time-out; `MaxGiveUps` 1 lets
  one read fail and later ones meet its late answer. Two byte values are all a
  compare can tell (the one expected and another), and they are symmetric.
  `data_port_live` needs fewer bytes, as liveness is about interleaving, not
  about full slots.
* `request_queue`: two requests of each kind give every pair of kinds in either
  order; two commands each let something come in between; two driver routines
  give a routine on top of a routine. The nested run needs one asynchronous
  request fewer, since the stack gets deeper.
* `power_control`: five changes allow sleep, wake, sleep and two changes
  that overtake; one key is enough to be pressed, held through sleep and
  released (three strokes).
* `command_byte`: three scan codes differ in the bits that matter (one that
  clears the system flag, one that keeps it); twice each is what a false
  confirmation needs. `AppliedWhenAwake` claims nothing for more than three.
* `request_lifetime`: two threads and two cells give reuse by the other thread;
  four calls give each thread two helpers.
* `touchpad_setup`: six faults are enough to fail a command that is tried three
  times, twice over; two events are a reset and a power change in either order.
* `packet_assembly`: three events give a reset, a power change and a
  reconnection from elsewhere; one lost byte moves the packets by one, and every
  further position is reached by resets in the middle; a depth of two is one
  reconnection inside another; five attempts are two more than the driver means
  to make.
* `touchpad_gestures`: no bound but the configurations; `_packetsCount` is
  abstracted to none, one, more, with a wrap to none where the code has no limit,
  and finger counts to five.
* `keyboard_keys`: three keys down at once are the longest chord the driver
  looks for; one sleep.

Deadlock is checked where the models have no end of their own (`touchpad_gestures`
and `keyboard_keys`). In the other runs `CHECK_DEADLOCK` is off, because the
model ends when its bounds are used up or the device has gone silent. A deadlock
of the program shows there as a liveness property that fails.

Fairness, and why the code justifies it:

* Input path: strong fairness for `InterruptHandlerKeyboard` and
  `InterruptOccurred`. A latched interrupt is taken when interrupts are enabled
  again, even if the lock is taken and released for ever; the work loop serves a
  signalled event source although requests keep it busy in between. Weak
  fairness for the rest: code that runs goes on. The devices promise nothing.
* Request engine: a submitter that has enqueued goes on to signal
  (`SignalQueue`), the thread in the gate goes on (`InGate`), the work loop
  serves a signalled queue (`ServeQueue`). Nobody is obliged to submit.
* Power control: thread calls run, a waiting call gets the gate, gated code
  goes on, the work loop serves its queue. The user and the power manager
  promise nothing.
* Command byte: the drivers' loops go on and a frozen machine wakes up.
* Touchpad gestures: weak fairness of the three timers, so a timer that stays
  set fires. The user promises nothing.

## 5. The proofs

TLAPS proves the following for every value of the constants that satisfies the
named assumptions of the modules: any queue size, any time limit, any set of
requests, keys, drivers, threads or pieces of memory, and any bound.

| Theorem | Property | Inductive invariant and why it is needed |
|---|---|---|
| `PS2DataPort_proofs!TypeCorrect` | `TypeOK` | itself |
| `PS2DataPort_proofs!BytesReachTheirDriver` | `RightDriver` | `Sorted`: the queue holds keyboard bytes only, a read holds bytes of its own stream only, and the byte seen before the lock was dropped is still there |
| `PS2DataPort_proofs!WakeupsAreKept` | `NoLostWakeup` | `Noticed`: an unread byte has its interrupt latched, its source signalled, or a loop in progress that will look again |
| `PS2DataPort_proofs!MouseBytesInOrder` | `MouseInOrder` | `MouseLine`: what the mouse driver got, what a read holds and what it passes on make one ascending line (`Stream`), up to the last byte the port has passed on (`PassedOn`) |
| `PS2DataPort_proofs!BytesServedOnce`, `LossOnlyByGivingUp` | `ExactlyOnce`, `LossBounded` | `Once`: the seven places a byte may be in (`Where`) have no byte in common and hold none twice; a step moves bytes from one place to another, so that counting the places counts the bytes; the one step that empties a place without filling another is a read's giving up, with at most two |
| `RequestQueue_proofs!TypeCorrect` | `TypeOK` | `Typed` and `StackOK`, frame by frame, with lemmas about pushing and popping |
| `RequestQueue_proofs!NoRequestForgotten` | `NoForgottenRequest` | a request on the queue has a submitter about to signal, a signal, or a drain that has not looked yet |
| `RequestQueue_proofs!RequestsAreAtomic`, `RequestsInOrder` | `Atomic`, `InSubmissionOrder` | under `~Nesting`, `EngineInv`: the shapes the stack may have (`Shape`), and that the requests submitted are those started followed by those waiting, the one in execution is the one started last and sends the last commands (`OrderInv`) |
| `RequestQueue_proofs!EngineImplementsServer` | `ImplementsServer` | the same invariant; each step submits, begins or answers a request of the server or leaves `Waiting`, `Current` and the outcomes alone (`ServerStep`) |
| `PowerControl_proofs!EngineFrozenInSleep`, `DriversToldInTurn` | `FrozenInSleep`, `ToldInTurn` | `InStep`: what each stage of `setPowerStateGated` may assume about the engine and what the drivers were told |
| `PowerControl_proofs!ReferencesBalance` | `ReferencePerCall` | `Calls`: one reference for every call pending, waiting or inside the gate |
| `PowerControl_proofs!AcknowledgedChangesAreDone` | `AcknowledgedIsDone` | `Outstanding`: the one change that is not acknowledged is pending, waiting for the gate or inside it, and asks for the state requested last; with `InStep` |
| `PowerControl_proofs!KeyboardSilentWhenFrozen` | `SilentWhenFrozen` | `Quiet`: when the touchpad driver's blocking request drains the queue, the keyboard's disable command is the last one on it, and no later command is executed until the engine thaws |
| `RequestHelpers_proofs!UpdatesAreNotLost` | `AppliedWhenAlone` | while no scan code came the stream is empty between requests, so both reads see the command byte itself; a driver that is done has added its own bits, which are nobody else's |
| `RequestHelpers_proofs!UpdatesSurviveScanCodes` | `AppliedWhenAwake` | `Orderly`: the stream holds no more bytes than scan codes came, so that the second read looks at all of them; a scan code that a driver took for the command byte is not on it again; an old answer is there only while a driver is misled in this way, and then nobody is done and the answer is still right. For two drivers: with three an old answer can meet a third driver's change |
| `TouchpadSetup_proofs!ReportsInAbsoluteMode`, `NoBrandForAnother`, `NoReportsUnattended` | `ReportsAbsolute`, `DetectsNoOther`, `SilentUnattended` | `SetupInv`: what the driver knows of the device at each stage of its life (`Known`), silence while nobody attends (`Unattended`), and, on touchpads that keep the mode, reports only in the absolute one (`Ready`). A lemma for each method says what all its outcomes leave, with a fault at any request |
| `TouchpadSetup_proofs!AnsweredReconnectionsRepair` | `AnsweredReconnectRepairs` | `SetupInv`, and lemmas that follow the count of faults through the methods (`Counted`): a reconnection that ends with the count it began with had every request answered, and so went the one way that sets the mode and enables the device |
| `PacketAssembly_proofs!ReconnectionsAreBounded` | `AttemptsBounded` | `Counting`: a try is given up for each attempt, before it or when it returns; `Outstanding` says that one is still to be given up, and then there is one left. Once attempts nest, only decoders that count before keep the balance |
| `PacketAssembly_proofs!DriverStaysInStep` | `PacketsInStep` | `Sync`: as long as nothing tore the streams, a device that reports is `Reporting`, that is, aligned with the buffer and met by at most one reconnection, which has yet to silence it and was not announced; when `Enable_touchpad` is reached all is `Silenced` |
| `KeyboardKeys_proofs!DriversAgreeOnTouchpad` | `TouchpadAgrees` | the property with "a sleeping machine has slept"; a key event is composed of the driver's methods, so there is a lemma for each that it keeps `Agreed` |
| `KeyboardKeys_proofs!LogTurnsWithTheMode` | `LogFollowsMode` | `Followed`: the log is on in the toggle mode, turned round by every press of one of the mode's keys in it; one of the mode's bits is set in the mode, the bits belong to keys the user holds, and a held key that repeats has its bit set, so that neither the mode's end is missed nor does a repeat count as a press; until one of the two is down at a sleep |
| `KeyboardKeys_proofs!ModifiersLetGo`, `SpeedAndHoldEnd` | `TouchpadLetGo` | under `FewModifiers` (not all of control, alt and command on the keyboard), the second without a condition. `BelievedInv`: between events the touchpad believes what the bit vector says of modifiers, and a modifier's bit has a key that the user holds or that was lost. One piece of news with each modifier event is enough when two modifiers can change; with three, `mods` can be late by one |
| `KeyboardKeys_proofs!VectorEmptyAtRest` | `VectorClears`, the first half of `KeysComeUp` | under `Untangled` (the last key is let go first, or no key meets the modifier that swallows its release). `VectorInv`: each bit has a held key (`Backed`), and a modifier that would swallow a key's release is held above it, so that it goes first (`Layered`) |
| `KeyboardKeys_proofs!SteadyKeysComeUp` | `KeysComeUp` | under `Steady` (`Untangled`, no function keys in use, no twin of what the combination with TAB presses again). `SystemInv`: every key down for the system is `Accounted` for: lost, held down by a gesture, or held by the user and sent as that key; lemmas say of each method that it is `Quiet` (lets keys come up only) or what it sends |
| `TouchpadDecoders_proofs!NoButtonLeft` | `NoPhantomButton` | on every touchpad, overlaps included. `Held`: a drag is one of a tap, a held button or a press, which is what the release timer looks for; `ButtonEnds`: when the driver knows of no finger and no button, `data` is empty or the timer runs and has something to end. On Synaptics clickpads `Rest` says half of it |
| `TouchpadDecoders_proofs!DragsEnd` | `DragsEndAtRest` | under `Drags` (press drags not on ELAN v4, and not with the stick of v3), overlaps included. `DragEnds` beside `Held`; a Synaptics touch that was ended has no fingers left to account for (`Lifted`) |
| `TouchpadDecoders_proofs!CommandLetGo` | `CommandReleased` | under `Commands` (ELAN v2, v3 and Synaptics, applications not switched by presses, nor by a v3 stick from the edges), overlaps included. `Held`: who has command pressed notes it; `CommandEnds`: the note has its timer |
| `TouchpadDecoders_proofs!ButtonsReleased` | `ReleasesAtRest` | under `Plain`. A button that is down for the system or in the driver (`Shown`) is `Noted`: the release timer or a drag knows of it. One that is not noted is pressed, and the driver sees it let go only by comparing the packet's buttons with `state`; two and three finger taps clear `state` while `sent` keeps the button, so `Held` also says that a button that is not noted is in `state` and that no such tap is under way. `SentEnds`: when all is let go, whatever is shown has its timer |
| `RequestHelpers_proofs!FreedTwiceOnErrorPathOnly`, `UsedFreedByRetryOnly` | `FirstFreedTwice`, `FirstUsedAfterFree` | `Types`, `Placed`, and, up to the first fault, `Owned`: everyone who will touch or free a request holds a live one that nobody else holds, except a helper that freed its own on an error path and is about to free or fill it in again, whose request is never live again. Commands that fail are part of it |
| `RequestHelpers_proofs!RequestsNeverLeak` | `NothingLeaks` | with these, `Accounted`, up to the first fault: a cell that is not free is held by a caller or is on the queue; holders then count the cells |

The two `TypeCorrect` theorems state the modules' type invariants, which no run
lists: they are part of every other invariant there. Three theorems about
`RequestQueue` assume `~Nesting`, what `ApplePS2Device.h` asks of drivers: with
routines that block inside a request the properties are false (section 6). The
theorems about `CommandByte` assume a controller that answers (`Answers`, that is
`~Silent`), and, with the module's assumption, drivers that change different
bits.

Model-checked only:

* `ReleasesAtRest` of `TouchpadDecoders` on the touchpads of the instance that are
  not `Plain`, that is, those of ELAN v4 and Synaptics. It is not true of all such
  touchpads: with other configurations TLC found it violated on both, and on ELAN
  v2 and v3 with dragging switched off (the cases of section 6).
* `DragsEndAtRest` and `CommandReleased` on the touchpads of the instance that do
  not meet `Drags` or `Commands`: all of them meet `Drags`, those of ELAN v4 do not
  meet `Commands`. Neither is true of all touchpads without its condition.
* `KeysComeUp` on the keyboards of the instance that are not steady (function keys
  in use, Fn, the German Q with ALT), and `TouchpadLetGo` on those that have
  control, alt and command. Neither is true of all such keyboards: see section 6.
* The liveness properties (`AllTakenUp`, `ReadsReturn`, `EveryRequestAnswered`,
  `EveryChangeAcknowledged`, `KeyboardComesBack`, `EveryUpdateEnds`, `HoldsEnd`):
  liveness under fairness is outside what the prover can do.
* `CommandByteKept`, which is violated.

No module here uses a recursive operator, and none of the definitions that the
proofs are about is a fold: the refinement mapping, `Executed` and the retries
of `TouchpadSetup` are stated without one, since the provers do no induction
over data.

## 6. Where the code and its words disagree

A violation run shows one:

* `power_stale`: data received in sleep is not tossed. `interruptOccurred`
  returns without emptying the software queue, and the reset at wake-up reads a
  stale scan code as the command byte (`ApplePS2Controller.cpp` 805, against 807
  and 1637).

TLC shows the following too, in less than a second each, when a constant or the
formula it checks is changed as described:

* A read of the mouse stream takes a keyboard byte from the port past earlier
  ones on the software queue (`ApplePS2Controller.cpp` 1126, against the comment
  at 821 and the test at 1061, which keyboard reads only make): in `data_port`
  `InOrder(delivered["Keyboard"])` is violated.
* A request submitted from a routine that preempts a request runs at once, and
  its commands interleave (772, against `ApplePS2Device.h` 224); it also overtakes
  the asynchronous requests that the interrupted drain loop holds (1020, against
  765): with `Nesting = TRUE` `Atomic` and `InSubmissionOrder` are violated.
* `setCommandByte` is not atomic when a key repeats: a scan code that comes twice
  is confirmed as the command byte (`PS2Interface.cpp` 242, against 215):
  `AppliedAtomically` is violated, with `MaxSleeps = 0` too. Nor is it with four
  different scan codes in between, which push the second read's own answer out
  of the four bytes it looks at, so that it is left for a later read, nor with
  one that reads like the command byte.
* When a command fails, `sendElantechCmd` and `sendSlicedPS2Cmd` free the request
  twice (`PS2Interface.cpp` 81 and 87, 197 and 201, against `ApplePS2Device.h` 212),
  and `sendElactechPS2Cmd` goes on with a request that it freed (114 and 105): in
  `request_lifetime` `FreedOnce` and `UsedWhileAllocated` are violated as
  invariants. The properties of that run allow for these two faults and no other.
* A tap followed by a physical click within the release time, on ELAN v4 and
  FocalTech pads with buttons beside them: a status packet of no fingers that only
  reports a button cancels the timer that will release the tap's click (6521 of
  `ApplePS2SmartTouchPad.cpp`, against the comment at 6517),
  `Process_Physical_Buttons` returns at 6747, and letting the button go does
  nothing: the click stays down. With `Overlaps = TRUE` and the pad
  `[V4 EXCEPT !.fingers = 1]` `ReleasesAtRest` is violated. A button held over the
  end of a press drag and let go within the release time leaves the drag in the
  same way. On the other vendors' pads the timer releases a button that is still
  held (12868).
* Left shift or caps lock pressed again in the feature toggle mode sends the notice
  that begins it once more (`ApplePS2Keyboard.cpp` 2066-2073, 2109-2114), and the
  touchpad switches its log over each time (12261): the log is on after the mode,
  against the comments at 2072 and 2320, and with the log on touches do not end
  (5327, 4849, 6212 of the touchpad). `s.log => s.toggle` is violated as soon as a
  keyboard has both keys; `LogFollowsMode` says what is true, with `again`. A sleep
  in the mode leaves the log on in the same way, and scrolling in reverse.
* The touchpad is never told that the alternate function ended (2403 of
  `ApplePS2Keyboard.cpp`): `AtRest => "AF" \notin s.mods` is violated with the keys
  alt and win. It hears of one modifier's news per modifier event: control, alt and
  command pressed and let go in the same order leave it believing that control is
  down (2403-2440, against the comment at 2427): `AtRest => ~s.ctrl` is violated
  with these three keys and `nested |-> FALSE`. So may a toggle mode that begins
  while news are late.
* Keys down at a sleep are never released: the vector is cleared before the loop
  that looks for them (4051, against 4053), which would also take the scan code
  for a key code. `AtRest => s.sys = {}` is violated with one key and one sleep.

Seen on the way, most of them with TLC when an assumption of a model was left
out:

Controller and request helpers:

* A compare read that gives up hands on the first byte it put aside and
  forgets the second and third; `LossBounded` counts them.
* Requests that meet a frozen engine fail; the header says they are queued
  until the controller is available again.
* The disable request of the keyboard driver is asynchronous: without a
  touchpad driver, whose blocking request drains the queue, it meets the frozen
  engine and is lost, hence the condition in `SilentWhenFrozen`.
* `resetPS2Controller` leaves the keyboard interrupt on while it reads answers,
  so the interrupt handler may take them.
* `setKeyboardEnable` looks at a request that it gave away without a completion
  routine, hence the separate fault `lateLook`.

Touchpad, packets (`ApplePS2SmartTouchPad.cpp`):

* An announcement AA 00 in the middle of a packet is not recognised (2389); the
  driver then sees unknown packets, or packets that look well and are not.
* Tries that are counted after the reconnection (2627, 2945) go below zero, to
  255, when an attempt ends in unknown packets that start another one inside it;
  then more than three follow. `AttemptsBounded` leaves that case out for them.
* The count is reset once more after an announced reconnection (2411). When a
  reconnection inside it had enabled the device, packets are then out of step;
  so they are when the device resets itself during a reconnection and its
  announcement is cut in two by that reset.
* The correction of ELAN v4 status packets (2895-2914) cannot be reached without
  checksums: such a packet fails the sanity check first.

Touchpad, buttons and gestures:

* ELAN v4 status packets with an invalid mask leave the raw mask in `_cFingers`
  without a change of fingers (5304-5372).
* With dragging switched off, a second touch within the tap time that does not
  move clears the state without dispatching it (7551-7558). A physical button held
  during a custom tap of several fingers is lost in the same way (11674).
* A Synaptics clickpad's button is let go only in a packet with a finger (6083), and
  not in packets that return early for a palm or for typing (5195); the data left
  over keeps the touch from ending (6269). A quick tap that ended early and is
  followed by more packets starts a drag that the lift does not end.
* After seconds without movement the pointer's and the scroll's timers reconnect
  and end the touch although fingers remain (13051-13062).
* Presses and pinches that switch applications hold command without noting that
  they do (10854-10862, 10585), so the release timer never releases it. On ELAN v4
  clickpads with press drags a change of fingers cancels the timer for good.
* Four taps and more never reset `_tap.count`; `_packetsCount` counts the lift
  without a limit (4823, 5317) and may go below zero (5724, 6426).
* Packets dropped while typing or switched off may hide a release (2512), hence
  `missed`.
* Smaller ones: `x1x2Diff` uses `x1` twice (8953); `_skipSample` may be 10, the
  length of the array it indexes (9860-9902, 10092); a notification centre opened
  outside full screen leaves `isNCDone` set (12607); a drag's time-out overrides
  that of a click when applications are switched (12030); a misread range of zero
  is accepted, and so are misread capabilities by all but old Synaptics firmware
  (3576); `start` initialises the mouse a second time after the absolute mode
  was set (998).

Keyboard (`ApplePS2Keyboard.cpp`):

* Functions and combinations let go and press again the left key of a pair, whichever is held: right
  shift with F1 leaves the left shift down (3403), right control likewise in
  alt and tab (1563-1580) and in the German layout (3566).
* A swallowed release: P, TAB or F4 pressed first, then CMD or ALT, then let go:
  the key stays down in the vector and for the system, and its next press is
  dropped (1894, against the comment at 1901). A media key pressed with alt stays
  down if alt comes up first.
* Display sleep leaves Fn and shift down; a keypad key held over a change of
  NumLock stays down; so do keys pressed between the two that begin the toggle mode.
* The notification with the system's version is also handled as a gesture
  (4100-4156); `goingDown` is read before it is set (1895); wake-up switches the
  touchpad on without telling `isTPadEnabled`, and display sleep toggles it even if
  the user had switched the touchpad off.

## 7. Not modelled

* The controller's handler tables, `start`, `stop` and bring-up, and the
  touchpad's `free`: which threads they run on and what else may run then is
  decided by the I/O Kit, outside `src/`; a model would assume what it is to show.
* Active multiplexing: a conversation with the hardware at start that leaves one
  flag and a routing prefix; nothing else depends on its course.
* The decoders of ELAN v1, ALPS, Sentelic and plain mice, the touchpad's pointer
  acceleration and its timer: they compute coordinates and keep no state that
  outlives a touch other than what the modelled decoders keep.
* Keyboard: LEDs, backlight, scroll lock, pause, the configured function key
  combinations, run-time toggles of modes, the generator of ADB codes from a
  number, and a prefix that is left over from before sleep. Caps lock's state in
  the system is not followed.
* Feature toggles that change the touchpad's configuration while it runs: a
  configuration never changes in the model.
* The debugger escape: unreachable, the flag that arms it is never set.
* The nubs: they delegate every call and keep no state.
* Preferences: read once at the start; they are the configurations of the models.
* The bytes the helpers send to a device, and device time: an answer may come
  at any time or never, whatever was asked.
* A controller that loses power in sleep.
