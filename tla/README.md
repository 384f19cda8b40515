# A TLA+ model of host-arduino-core

host-arduino-core runs Arduino (ESP32) sketches as processes of a desktop
operating system: `setup()` and `loop()` on the main thread, `Serial` over a TCP
socket, FreeRTOS tasks and `esp_timer` on `std::thread`, and hooks in place of the
hardware. This directory holds TLA+ specifications of its concurrent core, of its ports
and of the libraries over them, the TLC configurations that check them on small
instances, and TLAPS proofs of safety properties for every value of the constants.

`PROJECT.json` holds the index: components, runs, the source lines each definition
stands for, seeded bugs each property detects, hazards, findings and theorems.

To check one run or one proof module, in this directory:

    tlc -config HostQueue.cfg HostQueue.tla
    tlapm HostQueueProofs.tla

## The system

All paths are below `src/`; `cores/host/` is the core.

| Part | Source | State | Operations | Modelled in |
|---|---|---|---|---|
| FreeRTOS queues | `freertos/FreeRTOS.h` 237-365 | a deque under a mutex, two condition variables | send (front, back), receive, peek, reset, counters; each with a time to wait | `HostQueue`, abstractly `BoundedQueue` |
| FreeRTOS semaphores | `freertos/FreeRTOS.h` 369-471 | count, owner, recursion under a mutex, one condition variable | create (4 kinds), take, give | `HostSemaphore` |
| FreeRTOS tasks | `freertos/FreeRTOS.h` 92-233 | `TaskControl` per task: exit flag, notification counter | create, delete, notify give, notify take | `HostTask` |
| FreeRTOS delays, critical sections | `freertos/FreeRTOS.h` 150-177, 475-480 | none; one global recursive mutex | delay, delay until, enter, exit | - |
| esp_timer | `esp_timer.h` | atomics, a mutex and a thread per timer | start once, start periodic, stop, delete | `EspTimer` |
| TCP Serial runtime | `HostRuntime.cpp`, `main.cpp` | stop and connection flags, client socket, bounded output buffer, input buffer, info file | launch, accept, flush, receive, write, read, stop | `SerialRuntime` |
| Lifecycle hooks | `HostLifecycle.cpp`, `main.cpp` | one hook, loop count | announce | `SerialRuntime` (main), `HostUart` (the hook points) |
| Clock, stream reads | `HostClock.cpp`, `Stream.h` | hooks, a timeout | now, wait, timedRead, find, findUntil, readBytes, parseInt | `StreamReads` |
| UART | `HostUart.cpp`, `.h` | two bounded queues, overflow flags, totals, a hook | begin, end, write, read, flush, limits; driver's push, take, clear | `HostUart` |
| Interrupts | `HostInterrupt.cpp` | a slot per pin with depth and fires | attach, detach, trigger, reset | `HostInterrupt` |
| GPIO, analog | `HostBus.cpp`, `.h` | pin table, LEDC slots, tone pin | pinMode, digitalWrite, ledc*, analogWrite, dac*, tone | `HostBus` |
| Wire | `libraries/Wire` | transmission and request buffers, hooks | begin, begin/end transmission, write, request, read, flush | `TwoWire` |
| SPI | `libraries/SPI` | settings, transaction flag, hooks | begin/end transaction, transfers | `SpiBus` |
| TCP sockets | `WiFiClient.h`, `WiFiServer.h` | shared socket with a look-ahead byte; listening socket | connect, read, peek, available, write, stop; begin, available | `TcpClient`, abstractly `ByteStream` |
| HTTP | `HTTPClient.h` | connection, settings, response head | begin, requests, redirects, bodies, end | `HttpClient` |
| Preferences | `Preferences.h` | one store, handles with namespace and mode | begin, end, put, get, remove, clear | `Preferences` |
| File systems | `FS.h` | File objects over stdio streams, with cached size and position | open, copy, move, read, write, seek, flush, close, remove, rename | `FileHandles` |
| UDP, TLS | `WiFiUdp.h`, `WiFiClientSecure.h` | kernel and OpenSSL objects | - | no |
| Strings, printing, random, logging macros | `WString.h`, `Print.h`, ... | - | - | no |

How they interact:

- `main` calls `runtimeStart`. Without the internal argument the process is the
  *launcher*: it forks a child and polls for the child's info file. The child's
  main thread opens the server and starts the *server thread*; the two share
  `g_stop`, `g_connected_once` and, under `g_serial_mutex`, the buffers.
- A sketch's *tasks* and *timer threads* run beside `loop()`. They meet in queues,
  semaphores, notifications and in `Serial`.
- A *driver* (test code in the same process) hooks into the lifecycle, the clock,
  the buses and the UARTs; its callbacks run on the sketch's threads.

What is hard about it: notifications sent after the unlock, so other threads run in
between; a destructor that notifies with no lock at all; timeouts that race with
notifications; a callback that calls back into the object that runs it; two
deadlines for one connection; bytes that are buffered, truncated, flushed and sent
by different threads; a process that must end whatever its client does. A read that looks,
waits and looks again while others fill and clear the stream; caches (a look-ahead byte, a
position, a channel's frequency) beside the state they copy. There is
no recovery: a run that crashes is started anew, and only
the info file survives it.

What makes each part correct:

- *Queues*: every call takes effect at one instant, in FIFO order, and fails only if
  the queue was full or empty at its deadline; nobody sleeps beside work.
- *Semaphores*: counts in range, mutual exclusion, exact ownership, no lost give.
- *Tasks*: a give reaches its task and is counted until taken.
- *Timers*: a start is followed by its callback, when it is due and not before; a timer
  that was stopped or deleted calls back at most the once it had already made up its mind;
  delete returns.
- *Serial runtime*: bytes in order, none lost or repeated, within the documented
  bound; a sketch runs only with a client; the process ends without one.
- *UART*: bounded queues whose sticky flags tell of every byte lost and of no other; a
  hook that hears of each byte once, and of each thread's bytes in order, although it is
  called after the unlock.
- *Interrupts, GPIO, analog*: a depth that is the nesting, whatever handlers do;
  channels shared only where asked for, and free again after a tone.
- *Wire, SPI*: a device hears whole transmissions at one address, and words in one
  byte order; the sketch reads the last answer.
- *Streams, TCP*: calls that wait end, unless they are fed for ever; a look-ahead byte
  that does not show.
- *HTTP*: an answer is that of its own request, its body ends where its framing
  says, redirects end and do not take a user's headers along; a request ends, unless the
  server never takes it.
- *Preferences, files*: a read returns the last write by the same kind of call in the same
  namespace, and the default if the last was of another kind; a read-only handle changes nothing; a
  File's position is its stream's.

## Modules

`HostQueue`, `HostSemaphore`, `HostTask`, `EspTimer` and `SerialRuntime` each model one part
in full; `XxxProofs` holds the theorems about `Xxx`. `Kernel` sets `HostSemaphore`, `HostTask`
and `EspTimer` beside each other, `Ports` does the same for `HostUart`, `HostBus`,
`HostInterrupt`, `TwoWire` and `SpiBus` (proofs in `PortProofs`) and
`Services` for `StreamReads`, `TcpClient`,
`HttpClient`, `Preferences` and `FileHandles` (`ServicesProofs`). `Powers` is what a shift multiplies by;
`NumberFacts` holds the lemmas about numbers that both proof modules use. The constants are
values of the program (a capacity, a retry limit), sets of threads, or bounds whose
names begin with `Max`.

**Granularity.** A critical section under one `std::mutex` is one step, because nothing
else sees the state it protects in between. What the code does after the unlock is a step of its
own. A condition variable is a wait set: `notify_one` signals an arbitrary member,
`notify_all` all of them, and any member may wake for no reason. A signalled thread
needs the mutex again; its predicate is evaluated in that step. A `wait_for` may reach
its deadline at any time after it began and then returns its predicate. Only where
code acts on a condition variable *without* the mutex, in `~Timer`, do the windows inside a
critical section matter; `EspTimer` has them (between the predicate and the sleep, and between the
tests and the unlock).

**HostQueue** (`xQueue*`). `items` is `Queue::items`; a thread is `idle`, `waiting`,
`signalled` or owes a `notify_one`. `SendBody`, `ReceiveBody` and `PeekBody` are the ends of the
three calls, which are reached at once (`CallNow`), after a wait (`WakeReady`) or at the deadline
(`TimeoutReady`). `BoundedQueue` states what this promises: calls that block,
succeed or fail atomically on a sequence. `Linearizable` is its specification under the
mapping of `items` to the sequence and of the blocked calls to pending ones.

**HostSemaphore** (`xSemaphore*`). `count`, `owner` and `recursion` are the struct's. `held`
and `abused` are history: how many takes each thread has not given back, and whether somebody gave a
mutex he did not hold, which the code accepts. Properties about ownership speak of
behaviours without such a give.

**HostTask** (`xTask*`, `ulTaskNotifyTake`). `Create` starts the thread and `StoreHandle` stores the
handle, in this order. `notify_value` wraps at `Modulus`; `given` and `taken` are history.

**EspTimer**. `loop_pc` is where `run_loop` is. The test of the flags, that of the deadline, the
unlock (`esp_timer.h:128`) and the callback (129) are steps of their own: the destructor may come
between any two of them, a stop or a start between the last two. `LateStarts` says where between
that unlock and the next lock the program starts the timer. Deadlines are kept as the time left, so
that states repeat as time passes. Three variables are history: `owed`, a start or a periodic
re-arm that has not fired yet; `overtaken`, a call came after `run_loop` had made up its mind to call back and
before the callback; `quiet`, what callbacks are still to be expected since the last stop or
delete. The relation to the code's absolute times is that `left` is `next_fire_us - now`, and 0 if
that is negative; `left # target` is `next_fire_us != target`. (The two differ in one
corner: a deadline replaced by one that has passed as well looks unchanged to the model,
which then fires at once, as does the code after one more turn of its loop.)

**Kernel.** A semaphore, tasks and a timer share no variable and none of the three calls another. A
behaviour moves one of them, its `focus`, and each has the fairness of its own module.

**SerialRuntime**. One variable per global of `HostRuntime.cpp` plus the program counters of the
launcher, the main thread and the server thread. Bytes are numbered in the order in which they are
written, so that "in order, without gap or repetition" is `Consecutive`. `g_serial_mutex` is
held while a writer is in `sendToClient` (`sender`) or the server flushes; `SendStep` is
the body of `sendToClient` for either. `raced` is history: a write was sent directly between
the accept and the flush. The main thread may leave `waitForClient` by the connection, by `g_stop` or by
its own deadline. The client connects, sends and disconnects as it likes. The test of `g_stop` and
the `send` that follows
it are one step. The unsynchronised read and write of `g_client_socket` is taken as atomic: every build
target writes an aligned word.

**Ports.** The five ports have no variable in common and no port calls another, so an
interleaving of them shows nothing that each does not show alone, and their product
would only hide it behind the size of the state space. A behaviour of `Ports` moves one
port, its `focus`; every property speaks of one port.

- *HostUart* (`Serial1`, `Serial2`). A call changes the queues under the lock, owes
  the activity hook an `event`, calls it unlocked (`CallHook`) and returns
  (`HookReturns`); tasks write in between. The driver has no thread: it runs at the
  hook points of `main` (`phase`), in the clock port's wait and in the activity hook,
  where a reply is pushed. Bytes are numbered in the order in which they are offered; `wire` and
  `taken` are those that got through, `tx_excused` and `rx_excused` those that were
  cleared on purpose or whose loss was acknowledged with `clearOverflow`, and `writer` who
  offered which.
- *HostInterrupt*. The triggers in progress are a `stack`; every call of the port is
  made by whatever is on top of it (hook, handler) or by the sketch. `counted` is
  history: it tells the frames that a reset has not forgotten.
- *HostBus*. `pin_value` and `pin_mode` are the pin tables, `analog` the slots.
  `toned`, `asked` and `retuned` are history for the properties about tone and shared channels.
- *TwoWire*. `tx_buffer`, `rx_buffer` and their flags are the fields of the class; the
  device answers, or is absent. `heard` pairs what the device was given with what the
  sketch meant.
- *SpiBus*. A transfer is a step per byte, because the device hook runs between
  them and may change the settings or end the transaction.

**Services.** The same composition for the libraries: none of them shares state with another.

- *StreamReads*. A reading call looks, takes and waits by turns; `left` is the time
  to its deadline. Characters arrive, without end if they like, and are discarded between
  any two steps. `targetIndex` is the state of `findUntil`, `Matched` its next value.
- *TcpClient* is a client over a non-blocking socket with `peek_byte` beside it.
  The kernel (`kernel`, `peer`) is external. `ByteStream` is what a `Client` promises:
  the peer's bytes as one sequence. `TcpImplementsStream` maps the look-ahead and the kernel's
  bytes to that sequence.
- *HttpClient* runs over a connection as `ByteStream` describes it. A response is a sequence of
  lines and body bytes (`OnTheWire`) of which the server sends as much as it likes, then
  stalls, closes or resets. The request is written in a step of its own (`WriteEnds`,
  `WriteFails`), which may never come: `write` tries again for as long as the server takes nothing.
  `late` and `cut` are history: a wait timed out, or the
  server went early.
- *Preferences*. `store` is the process's, a handle is namespace, mode and started
  flag. `TypeOf` is the tag a call stores or looks for, `Packed` the entry a put
  makes and `PrefGet` the answer, with what `putBool` and `getBool` make of a number. `written` and
  `session` are what the sketch did and asked for, from which the
  property derives what a read must find.
- *FileHandles*. An object is its stream (external: file, mode, offset, buffered
  bytes) and the caches `size` and `position`. Files are removed, renamed and written by
  others under it. `alone` is history: nobody else has touched the object's file.

## Runs

| Run | Instance | Shows |
|---|---|---|
| `queue` | 3 threads, 2 items, capacity 2, peeks that do not wait | `TypeOK`, `NoLostWakeup`, `Linearizable`, `SleepersServed` |
| `queue_peek` | as above with one item, capacity 1, peeks that wait | `SleepersServed` fails (finding 1) |
| `kernel` | 3 threads on a semaphore of each kind, counting up to 2, nesting up to 3; 2 tasks and the loop thread, counter modulo 3, 4 gives to each task; a timer with 4 starts, delays 0 to 2, stop and delete at any time | `KernelTypeOK`; `OwnerAccurate`, `MutualExclusion`, `SemaphoreNoLostWakeup`, `SleepersServed`; `NoGiveLost`, `TaskNoLostWakeup`, `NotifiedTaskWakes`; `IdleMeansIdle`, `FiresOnlyWhenDue`, `StoppedStaysQuiet`, `StartFires` |
| `timer_restart` | 2 starts, also while a callback is under way | `StartFires` fails (finding 2) |
| `timer_delete` | 1 start, delete | `DeleteReturns` fails (finding 3) |
| `serial` | launcher, child, one task, one client; 3 bytes out, 2 in, buffer of 2, 1 retry | `TypeOK`, `ReportsOwnPort`, `SketchNeedsClient`, `OutputInOrder`, `OutputComplete`, `InputInOrder`, `EndsWithoutClient` |
| `serial_race` | the same | `EachByteOnce` fails (finding 4) |
| `ports` | UART: 2 threads, limits of 1 and 2, 2 bytes out, 3 in; 2 pins, 1 channel; 2 interrupt pins, 3 deep; 2 I2C addresses, buffer of 2; words of up to 5 binary digits | `PortsTypeOK`, `UartBytesAccounted`, `UartTraceFaithful`, `BusSharing`, `BusToneGivesBack`, `InterruptDepthTells`, `WireTransactionsWhole`, `SpiWordsAndTransactions` |
| `services` | reads of 2 characters, target of 2, 2 characters held at a time; 3 bytes from a peer, 2 to it; 2 handles, 2 namespaces, 2 keys, 4 kinds, 2 writes; 2 File objects, 2 paths, 6 calls; bodies of 2 bytes whole or in 2 chunks, 1 redirect | `HttpOwnAnswer`, `PrefsLastWriteWins`, `FileTellsItself`, `WaitingCallsEnd`, `TcpImplementsStream`; and, by evaluation, `FindStopsAtTarget` |
| `http_reuse` | 2 requests on one object | `HttpFreshConnection` fails (finding 5) |
| `prefs_types` | one handle, key and write; `putFloat`, `putUInt` and their gets | `PrefsOtherKindDefaults` fails (finding 6) |
| `uart_order` | 2 threads that write, 2 bytes | `UartTxInOrder` fails (finding 7) |

**Why the bounds are enough.** Three threads are the fewest with a notifier, a sleeper that is
signalled and one that is not, or a third party that comes first. Capacity 2 with two senders
lets a queue be full, partly full and empty with sleepers. A counter modulo 3 wraps
within 4 gives. Four starts allow a start, a replaced deadline, a stop and a restart in each
position of `run_loop`; a stop and a delete may also come
between the unlock and the callback. Three bytes into a buffer of two force truncation, and
writes of one and two bytes cover both branches of `appendOutputLocked`. One retry reaches the failure
that 1000 would. No symmetry is used, because most of these runs check liveness as well.
In `ports`, a limit of 1 and a write of 2 make the queue drop, a limit lowered from 2 to 1
does so from the other side, and 3 pushes refill a queue after a clear of the flag. One
channel for two pins is the least with a conflict and with none left. Three
nested triggers on two pins give a pin within itself with another between. A resolution
above `MaxResolution` and a frequency of 0 reach the refusals, and a request of 4 bytes
wraps at `ByteModulus`. Words with more digits than a transfer carries reach the truncation.
In `services`, a stream that holds two characters at a time may still be filled without end.
Three bytes from a peer leave one in the look-ahead, one in the
kernel and one to come; two writes and two handles make every pair of
put, remove and clear, with a read by either handle; six file calls allow open, write, copy,
rename, write and read. Two body bytes, in one part or in two chunks, reach each state of the
decoder, and a redirect limit of 1 both sides of the limit.
The safety properties that are proved do not depend on any of these bounds.

**Fairness.** A thread that can go on is scheduled by the operating system sooner or later:
weak fairness of the steps that finish a call already begun (`NotifyOne`, a signalled thread's
return to its predicate, `RunLoop`, the steps of a start, stop or delete after its first, the threads of
`SerialRuntime`), and time passes (`Tick`). No fairness is assumed of
calls that a sketch or a client may or may not make, of spurious wake-ups or of timeouts of
calls. A callback of a timer is assumed to return and `loop()` to come back to `runtimeShouldStop`.
`std::mutex` is not fair; within the bounds on what is written and started a thread is not
passed over for ever, which is what the assumption amounts to. The two deadline loops of
`SerialRuntime` (launcher, main thread) have strong fairness of their
deadline: a loop that looks at its clock again and again finds it passed.
`Services` has weak fairness of `StreamRuns` and `HttpRuns`: the thread inside a waiting
call runs, and its wait of a slice returns. Nothing is assumed of the peer, the server or
whoever fills or clears the stream, so `WaitingCallsEnd` names what these can do to a call: a read
that takes a new deadline with each character (all but `readBytes`, `readBytesUntil` and `delay`) may last as
long as it is fed, and a request may stay in its write. A response is of finite length, so what keeps a
body coming for ever is outside. `Ports` states safety only and needs no fairness.

**Deadlock** is checked in the runs of `HostQueue`. Elsewhere something really may stop: a timer that was
deleted, a process that ended, a `main` that returned, or an instance whose bound is used
up. What waits there has a liveness property instead.

## Findings

1. `xQueuePeek` (`FreeRTOS.h:345`) swallows notifications: it waits on `not_empty`, and if the
   one notification of a send reaches it, it returns and leaves the item, and whoever waits
   beside it, a receiver or (as in the trace) another peeker, sleeps on.
2. A timer started again while its callback runs, the usual way to re-arm a one-shot timer, is
   switched off when the callback returns (`esp_timer.h:134`); a periodic one is re-armed with the period it
   had before (`esp_timer.h:132`).
3. `esp_timer_delete` may hang: the destructor sets its flags and notifies without the mutex
   (`esp_timer.h:66-71`), so `run_loop` may go to sleep after the notification.
4. Output written between the accept and the flush of the output buffer reaches the client twice
   (`HostRuntime.cpp:499`, `:527`). With the default start delay only a task, or a
   timer, can write then, since `setup()` has not started.
5. A second request on an `HTTPClient` goes out on the connection of the first as long as the server
   leaves it open (`HTTPClient.h:235`), although `HTTPClient.h:20-21` says that every
   request opens a fresh one. In the trace the first has timed out waiting for its status line; what still
   comes of its answer is there to be read as the head of the second.
6. A key stored with another type is to answer with the default (`README.md:122`), but calls of several kinds
   share a type tag: `getUInt` answers the bits of what `putFloat` stored, `getUChar` a `putBool`, and so on
   (`Preferences.h:136`).
7. The activity hook is to hear what happened "in the order the sketch caused it" (`HostUart.h:124`), but
   `write` calls it after the unlock (`HostUart.cpp:106`): of two threads that write, the one whose
   bytes come second may
   report first.

The passing runs leave these cases out explicitly, by a constant (`PeekTicks`, `LateStarts`, `MaxCarried`),
a history variable (`raced`) or in the property itself (the kinds of `Lumped`; the order of each writer's bytes), so
that the rest of the behaviour is checked without them.

## Proofs

The theorems assume only the named assumptions of the modules (`QueueAssumption`,
`SemaphoreAssumption`, `TaskAssumption`, `TimerAssumption`, `SerialAssumption`,
`UartAssumption`, `BusAssumption`, `InterruptAssumption`, `WireAssumption`,
`SpiAssumption`, `TcpAssumption`, `HttpAssumption`, `PrefAssumption`, `EntryAssumption`, `FileAssumption`), which say
what kind of value a constant is, that a default or a missing value is not a member of a set, and that nesting stays
below the range of the 8-bit depth; one more is stated where it is needed. With them every safety invariant
and every action property of the passing runs is a theorem.

- *HostQueueProofs*: `TypeCorrect`; `NoWakeupIsLost` under `PeekTicks \subseteq {"zero"}`;
  `Refinement` (`Spec => Linearizable`). `TypeOK` is inductive. `NoLostWakeup` counts: a send
  adds one item and one obliged thread; a receive by a signalled thread removes one of
  each; `notify_one` trades a notifier for a signalled thread, or finds nobody asleep. It
  relies on `TypeOK` for what a blocked thread's call is. A peek would remove an obliged thread
  and no item, which is where the assumption is used. For the refinement each
  `*Body` step is `Succeed`, each `GiveUp` is `Fail`, blocking is `Block` and the rest stutters.
- *HostSemaphoreProofs*: `TypeCorrect`, `OwnerIsAccurate`, `MutexExcludes` (it follows from
  `OwnerAccurate`), `NoWakeupIsLost` by the same counting.
- *HostTaskProofs*: `TypeCorrect`, `GivesAreKept`, `NoWakeupIsLost`. `KernelTypeOK` is the types of
  these two and of `EspTimer`, each
  proved in its own module.
- *EspTimerProofs*: `TimerTypeCorrect`; `TimerInv`, from which follow `IdleTimersAreIdle` and the action
  properties `CallbacksAreDue` and `StoppedTimersAreQuiet`. It says that an armed timer is owed a callback
  (`ArmedIsOwed`), that from its last look at the flags to the callback the timer stays armed and due unless it is
  overtaken (`StaysDue`), and that a timer that was stopped is off, so that `run_loop` does not make up its mind a
  second time (`SilencedIsOff`). They hold with late starts as well, which the run leaves out.
- *SerialRuntimeProofs*: `TypeCorrect`, `LauncherReportsItsChild`, `SketchWaitsForClient`,
  `InputIsInOrder`, `OutputIsInOrder`. The last needs a strengthening that relates the buffer,
  what is still to be sent and what was received to the number of bytes written: the buffer
  is the newest run of bytes written, and while no write has raced with the
  flush, received and unsent bytes join up to a run that ends with the last byte written.
  `OutputIsComplete` needs less and holds with racing writes too: from the flush on, what a connected client
  has and what is under way to it end with the newest byte (`Served`), which the flush finds in the buffer
  whenever its limit is not 0 (`Filled`).
- *NumberFacts*: the library's induction and recursion theorems take an operator as parameter, which
  the provers cannot instantiate. `Induction` says the same of a set, and rests on the least element of a set of
  naturals (`LeastNumber`, from well-foundedness); `Recursion` shows of a recursive function, given by its
  step table, that one exists and is unique, so that its equations hold (`PowerDef`). With these,
  `TwoDivisions` takes a number apart digit by digit.
- *PortProofs*: `PortsStep` takes a step of `Ports` to a step of each port, so that a
  port's invariant is proved of its own actions. `WireTransactions` rests on `WireSends` (the
  buffer is what was meant, unless it overflowed or was flushed) and `WireReads`.
  `InterruptDepth` needs `CountedInnermost`: the triggers that a reset has forgotten are
  all below those that it has not, so that unwinding from the top first removes what `depth`
  still counts and then finds 0. `ChannelSharing` and `ToneChannel` share the slot table's invariant
  `AnalogInv`; that an attach finds the least free channel is a pigeonhole argument
  on finite sets.
  For the UART, `Told` says of one direction that what passed and what is queued are increasing
  numbers out of those offered, none of them excused, and that the flag is set exactly
  when a number is missing without excuse. Growing, cutting, clearing and forgiving preserve it (`ToldGrows`,
  `ToldShrinks`, `ToldCleared`, `ToldForgiven`), which gives `BytesAccounted`. `TraceFaithful` needs
  `TraceInv`: what threads are about to say and what was reported are pairwise disjoint
  sets whose union has `_txTotal` members, and only the main thread owes a report of reading; and `TraceOrder`: of
  each thread's bytes, what was reported is in order and comes before what the thread is about to report.
  `SpiWords` compares two recursive values, the number that a sequence of bytes stands for and the power of the base.
  `SpiDigits` says after each byte that what was sent is worth the word's lowest digits (least significant byte
  first) or its highest (most significant first), and the result what was answered, shifted to where
  it belongs. A byte
  takes one digit more (`TwoDivisions`), and after the last one these are all the digits a transfer carries.
  `PortsTypes` joins the ports' types; UART's needs the invariants above, because its queues are typed by
  what they hold.
- *ServicesProofs*: `LastWriteWins` relates each entry of the store to the last relevant element of
  `written`; that two kinds of call agree on a tag only within `Lumped` is a lemma about `TypeOf`.
  `FilesTellThemselves` takes one invariant per object (`Tells(o)`) through each call,
  for the object that calls and for those beside it. `ClientIsAStream` maps each step of the client to
  one of `ByteStream` or a stutter (`ClientStep`), under an invariant on the look-ahead and the numbers of bytes.
  `OwnAnswer` rests on `HttpInv`: types, what a connection is in each state (`Connection`), the limit and
  the headers of a redirect (`Hops`), and `OnTrack`. The last says where the client is in its
  response: on a connection of
  its own, and while no wait has timed out, what has arrived joined to what the server has yet to send
  is exactly what is left of the response from the place the client has reached
  (`FromStatus`, `FromLocation`, `FromFraming`, `FromBlank`, `Body`, and `FromSize`, `FromData`, `FromBreak` inside
  chunks), or the beginning of that if the server goes early (`Part`); or all is read; or no more will come. What was
  read and what is left then make the body. `ChunksExist` shows by `Induction` that the chunked
  encoding is defined for every length, `LineRead` and `BytesMoveOn` are the two ways to move on,
  and each action has a
  lemma of its own. The invariant was model-checked first, on the instance of `services`.

Only model-checked: the liveness properties (`SleepersServed`, `NotifiedTaskWakes`,
`StartFires`, `EndsWithoutClient`, `WaitingCallsEnd`), which need fairness, and `FindStopsAtTarget`, which TLC
evaluates for every text up to a length.

## Oddities

What translating the code brought up beside the findings. The properties are stated so as to allow it,
and no run refutes anything here.

- UART: two tasks that each ask `availableForWrite` can overflow the queue all the same
  (`HostUart.h:170`).
- Streams: a reply that comes during the last wait before the deadline is not read
  (`Stream.h:28-40`); `readToken` may take a -1 as a character if another thread clears the stream
  between its peek and its read; `findUntil` misses "aab" in "aaab".
- Analog: `ledcDetach` or `dacWrite` on the pin of a tone makes later `tone` calls for it silent until
  `noTone`; a narrower resolution, or LEDC after DAC, leaves a duty beyond the range; retuning
  one pin of a shared channel leaves the others.
- Wire: a request or a slave's `begin` inside a transmission changes its address; the int overloads of
  `requestFrom` cut the size to 8 bits; `flush` leaves the overflow flag; a write hook that begins a transmission
  loses its bytes (`Wire.cpp:83`). SPI: `end()` leaves a transaction without telling the hook.
- Interrupts: two threads that trigger one pin race on its depth; the model has one thread.
- Preferences: a failed `begin("")` leaves the last session open.
- Files: a File opened to append has position 0; a seek from the end never goes back;
  a copy after a rename opens another file or none, misses what is buffered, and lists nothing if it is a directory.
- TCP: `client = server.available()` with nothing pending drops the last connection; `write`
  spins for as long as the peer does not read (`WiFiClient.h:116`).
- HTTP: `HTTPClient.h:18-19` says that redirects are not followed, yet `sendRequest` follows them when asked to;
  a header line that times out ends the head as if it were complete; `end()` leaves `chunked_`;
  `appendBytes` loses what follows a NUL (`HTTPClient.h:470-485`); the 32-bit deadline wraps (`HTTPClient.h:599`).

## Not modelled

- *Delays and critical sections*: `vTaskDelayUntil` and `xTaskGetTickCount` count from epochs of their own
  (`FreeRTOS.h:164`); a delay is the wait of `StreamReads`. A critical section is one recursive mutex
  and nothing else.
- *Undefined behaviour that the API leaves to the sketch*: deleting a queue or semaphore in
  use (`FreeRTOS.h:257`), deleting a timer from its own callback (`esp_timer.h:187`) or using it
  after, leaving a critical section entered
  by nobody. A thread that takes a plain mutex it holds waits for ever (`FreeRTOS.h:426`), as it does on the device.
- *Serial*: descriptor numbers, hence the reuse of one that was closed while another thread
  was sending; the exit code of a process that ends without a client; the length
  of `g_input_buffer`, which has no limit (`HostRuntime.cpp:547`).
- *UART, buses*: `availableForWrite` and other answers that change nothing, recorded scalars (baud
  rate, pins, clock, mode), counts that are only read back,
  registration of hooks, injected ADC and touch values, the lifecycle hook of the buses, Wire hooks
  that call back into the bus.
- *Libraries*: host names, header texts, URLs, authorisation and payloads; the numbers `parseInt` and
  `parseFloat` make; directories, path resolution and file contents.
- *UDP and TLS* are thin wrappers over the kernel and OpenSSL, whose behaviour is theirs. The SDL display build,
  formatting, strings, logging, build and packaging have no protocol to check.
