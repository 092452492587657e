# TLA+ verification of RMM 2023

This directory holds TLA+ models of the robot's control program in `src/`, the
TLC configurations that check them on small instances, and proofs for TLAPS.
`PROJECT.json` is the machine-readable index: components, runs, the source lines
behind every definition, the hazards the properties are for, and the theorems.

Contents: [1 The system](#1-the-system) · [2 Modules](#2-modules-and-how-they-correspond-to-the-code) ·
[3 Runs](#3-runs) · [4 Fairness](#4-fairness) · [5 Proofs](#5-proofs) ·
[6 A finding](#6-a-finding) · [7 Not modelled](#7-what-is-not-modelled) · [8 Plan](#8-plan)

## 1 The system

The program runs on a Linux host in a robot. It speaks CAN through up to four
UDP gateways (`pkg/can_smbus`), drives RoboMaster motors through gateways of
their own (`pkg/robomas`), and takes orders from game pads over UDP
(`pkg/controller_client`). `lib/std_api` wraps threads, locks, memory, logging
and a ring buffer; `lib/process_comm` looks up services with mDNS;
`lib/object_parser` serialises objects. There are no tests; the comments in the
headers are the only documentation.

| component | state it keeps | operations | who touches it concurrently |
|---|---|---|---|
| SAQueue (`sa_queue.c`) | `next_write`, `next_read`, `count`, `ring_buffer` | add, addFront, addRaw, addFrontRaw, get, getRaw, readonly, clear | its owner's mutex protects it |
| CSTx (`cs_tx.c`) | per gateway: three transmit queues by priority, a skip queue, mutex, condition | sendBrc, sendReg(Ack), sendReq(Ack); send thread | any thread sends; one send thread per gateway |
| CSIo (`cs_io.c`) | per gateway: send sequence byte, table of the last 4 received bytes | send, read, connectionWait | send threads and the receive thread |
| CSRx (`cs_rx.c`) | `devs[gateway][driver][device]` with callback lists, broadcast lists, mutex | bind…, close…; receive thread | any thread binds and closes, the receive thread calls |
| CSType (`cs_type.h/.c`) | none | encoding of ids and register bytes | - |
| CSSendAck, CSRequest | hash and condition of a pending acknowledgement | create, send, close; callback | caller against receive thread |
| CSRegShare, CSRegSignal | double buffer; queue with condition | get, wait; callback | readers against receive thread |
| CSSystem (`cs_system.c`) | `is_enable_safety` | safetyOn/Off, allReboot; safety thread (200 ms) | callers against safety thread |
| Controller (`cc_controller.cpp`) | packet double buffer, button counter and flags | callback, get_sensor | receiver thread against application |
| controller daemon (`cc_daemon.cpp`) | list of controllers, timeout, sender's edge memory | append, setters; receiver and sender threads | three threads, one mutex |
| RMM3508 (`rm_m3508.c`) | static address buffer, safety flag, sensor table | init, setCoef, setAdvancedCoef, set…, get…, safetyOn/Off; two threads | callers against both threads |
| device drivers (`encoder.cpp`, `gyro.cpp`, `servo.cpp`, …) | handles of sends, acknowledged sends, readers | constructors bind, `init` asks for periodic registers; setters and getters | application against receive thread |
| SABuffer (`sa_buffer.c`) | array of blocks, element count | add, insert, replace, remove, clear, pointer to an element | its owner's mutex, but pointers outlive it |
| PCTable, PCDnssd (`pc_table.c`, `pc_dnssd.c`) | services, each with addresses and their activity | regist, browse, resolve, getAddrInfo; set, loockUp, getIp | browse thread against main loop |
| object_parser | a dumper's text or packed bytes; a loader's tokens or tree and arena | start, element, end, dumpRead; load, accessors | none: an object belongs to one thread |
| SAMem, SAThread, SALog, SATime, CSArp | tables under one mutex each | insert, remove, search | - |

How they interact. A device object (servo, encoder, …) calls CSSend, CSSendAck,
CSRequest or binds a CSReg reader. Sending ends in `CSTx_sendFrame`, which puts
a frame into a SAQueue; the gateway's send thread packs frames into a datagram
and hands it to `CSIo_send`. `CSIo_read` filters repeated datagrams; CSRx's
receive thread decodes each frame with CSType and runs the callbacks bound to
it, holding CSRx's mutex. Game-pad packets reach `Controller::callback` through
the daemon's receiver; the daemon's sender turns the emergency buttons, or 300 ms
of silence, into `safetyOn`/`safetyOff` of CSSystem, whose broadcasts go out
through CSTx with High priority.

What is hard here, and what correctness means:

* *Condition variables used without loops.* CSTx and CSRegSignal wait once and
  signal after unlocking. Correct: nobody sleeps on data.
* *Bounded queues that discard silently.* Correct: nothing vanishes otherwise,
  the order is kept, and what is put aside fits back.
* *Two kinds of mutex.* Callbacks run under CSRx's mutex and take their object's;
  senders hold their object's and bind and close take CSRx's. Correct: no circle,
  and no callback after close.
* *An unreliable network.* Repeated, late and lost datagrams meet one-byte
  sequence numbers and one-byte additive hashes. Correct: no datagram is handed
  on twice, an acknowledgement means the device got the data.
* *The safety chain.* A flag is written under a lock and broadcast outside of it
  by several threads. Correct: a lasting emergency, and its end, reach the bus
  for good, and there is no emergency without a cause.
* *Lock-free double buffers* (CSRegShare, Controller). Correct: readers that are
  not overtaken see one packet.
* *Pointers into arrays that grow* (PCTable's instances, the JSON loader's
  tokens). Correct: whoever holds one still reads the element it asked for.
* *Keys compared over the length of the wanted one* (PCTable, dictionaries).
  Correct: the entry found belongs to the key.
* *Encodings that pick a width at a boundary* (msgpack's integers, lengths and
  containers; jsmn's tokens). Correct: what a loader reads is what was dumped, and
  a document that was cut off is refused.
* *Counters of 8 bits* that wrap (button counter, packet flag, sequence bytes,
  table index).

`PROJECT.json` lists each of these hazards at its line with the properties that
would catch it going wrong.

## 2 Modules and how they correspond to the code

```
BoundedDeque ── SADeque ──(refinement)── SAQueue ── SAQueueProofs
      ├──────── CSTx ── CSTxProofs      FrameService ──(refinement)── CSTx
      └──────── CSReg ── CSRegProofs
CSType ────────── CSRx ──┬── CSRxProofs       CSIo ── CSIoProofs
   │               │     │
   │  CSCallbackList ── CSAck
   └── CSDevice ── MCCSRx  (CSRx with the clients the drivers make)
CSSystem ── CCDaemon ──┬── CCProofs    (CCDaemon EXTENDS CSSystem and conjoins
CCController ──────────┘                its actions)
RMM3508 ── RMM3508Proofs
SABuffer ──(instances)─┬─ PCTable ──┬── StorageProofs
                       └─ OPTokens ─┤
                        MsgPackZone ┘
OPTokens, MsgPackZone ─┬─ ObjectParser
MsgPack ── OPMsgpack ──┤
Jsmn ───── OPJson ─────┘
```

A proof module speaks of one component, or of two that belong together: CSRxProofs
of CSRx and CSAck, which share the lists of callbacks (CSCallbackList); CCProofs
of the safety chain; StorageProofs of the libraries' containers.

Each module `M` has a module `MCM` with the constants TLC needs. The variables of
a module carry the names of the code's fields; the ones marked *history* in the
declarations do not exist in the program and only serve the properties.
Definitions named as mutants are faulty variants of one definition; they are
not part of any specification and show that a property is able to fail.

**BoundedDeque, SADeque, SAQueue.** BoundedDeque defines insertion into a full
queue as SAQueue does it: the *front* element is given up, at whichever end one
inserts. SADeque is the abstract promise as a state machine. SAQueue is the ring
buffer with its `size_t` arithmetic modulo `WordMod`: one action per function;
the caller's store through the pointer of `addRaw` is `fill`, because the slot
counts before it is filled. `readonly` ignores the position it computes, as the
code does. The users of SAQueue are written with BoundedDeque, which the
refinement justifies.

**CSTx.** One gateway (the four share nothing). `sendFrame` is the critical
section of every send function, `signal` the `pthread_cond_signal` after the
unlock. The send thread is cut into `sendThreadLock` (test and wait),
`sendThreadWake` (no loop around the wait), `packFrame`, `packDone`,
`restoreFrame`, `nextPriority` and `sendPack`; it holds the mutex in the control
states `pack` and `restore`. Priority Low exists as a queue, and, as in the code,
the loop never serves it.

**FrameService.** What all of that promises a caller, with one set of pending
frames instead of three queues, a skip queue and a pack: `Accept`, `PutAside`,
`Transmit`. A frame is lost only in a crowd of its priority (of `QueueMax` when a
caller's frame comes, of `SkipMax + 1` when one is put aside); a datagram has one
frame per id, High ones first, of each id and priority the first in line. Frames
stand in line by age, but one that is put aside may change places (`turned`) with
others of its id, as long as one more of them is pending. `CSTx` maps `pending` to
what is queued, put aside or packed.
The state machine says nothing of how often datagrams leave (an empty one is a
step that changes nothing); that is `EveryFrameServed`.

**CSIo.** `send` numbers datagrams, `read` is the filter. The gateway starts with
any byte (it keeps running when the host restarts) and its last `Horizon`
datagrams may arrive repeatedly, in any order, or never.

**CSType, CSRx.** CSType gives the encoders and decoders as arithmetic on bytes
and ids. CSRx's clients are (callback, args) pairs; `bind`, `close`, `bindBrc`
and `closeBrc` hold the mutex throughout and are one step each. A frame is made
with the encoders (`DeviceFrame`, and `OtherFrames` which are meant for nobody),
decoded by `Route` in `dispatch`, and the callbacks run one by one in `callNext`.
CSCallbackList is the list of callbacks itself, shared with CSAck.

**CSDevice.** One operator per driver's constructor: its CAN id, the registers it
writes with and without acknowledgement and those it reads, and from them the
lists of CSRx it is bound to (`Bindings`). The assumption `LayoutAssumption`, which
TLC evaluates for all ids, says that CSRx accepts them and that two ports of a
board never write the same register. MCCSRx takes its clients from the drivers,
so that `BoundAreCalled` is about what the robot really binds.

**CSAck.** The protocol that CSSendAck and CSRequest share: bind, send up to
`Tries` times with a timed wait each, close. `callback` is run by the receive
thread under CSRx's mutex and needs the object's. Device and network are
external: frames are lost, acknowledgements repeated and late. `arg` starts with
any value because CSRequest binds before it initialises it.

**CSReg.** The receive thread fills the unused half of the share (`shareLen`,
`shareBuff`, `shareFlip`) and then queues the frame for the signal
(`signalCallback`). `CSRegShare_get` is a `memcpy` of the whole structure: its
fields are copied one at a time in *any* order, since the language leaves the
order open.

**CSSystem, CCDaemon.** The flag is assigned in one step; each broadcast that
follows is a step of its own. CCDaemon extends CSSystem: its sender is CSSystem's
caller, its loop is cut at every unlock and broadcast. `is_safety` of a new entry
is arbitrary because `append` does not set it. Time is counted in ticks and
saturates.

`CSSystem_allReboot` keeps no state (four broadcasts) and is left to CSTx.

**CCController.** Copies of a packet take two steps on either side, so that the
callback and `get_sensor` interleave within them.

**RMM3508.** Start of both threads (formatting addresses into one static buffer
under the lock), the rounds of the safety thread, filing of sensor packets,
configuration calls with timeouts and echoes, and the setters. Powers are in rpm
or tenths of an ampere; conversion to an integer truncates towards zero.

**SABuffer, PCTable.** A buffer is a record of its data, its blocks and `moves`,
a history count of the reallocations that moved it; a pointer remembers the count
it was taken at. PCTable has a network of servers that come and go, the browse
thread (`serviceBrowse`, `serviceResolve`, `serviceGetAddrInfo`, each of which can
fail and drop its event), the application's `set`, and the main loop's `loockUp`
and `getIp`. Names are sequences of characters, because the splitting of
`name(type)` and the comparison of prefixes are what could go wrong; a dead
pointer reads anything.

**MsgPack, MsgPackZone, OPMsgpack.** MsgPack is the packer (`pack_template.h`) byte
by byte, with 64-bit values as words of eight bytes and floats opaque, and the
unpacker (`unpack_template.h`, `unpack.c`) as an automaton with the code's stack of
open containers. MsgPackZone is the arena: chunks, cursor, remainder, alignment.
OPMsgpack is the dumper with its own choice of integer widths before the packer's,
and the loader with its accessors.

**Jsmn, OPJson.** A text is a sequence of characters in which a printed number is one
symbol. OPJson's dumper writes it, compact or indented; Jsmn is the tokenizer with
its parent links and the queries of `jsmn_interface.c`; OPJson's loader walks the
tokens.

**ObjectParser.** The client of both back ends: start and end of containers,
elements, asking for the length (`peek`), `dumpRead` into a buffer that may be too
short, `load`, taking tokens, accessors. The client is a legal one: it writes as
many items as it announced, a key before each item of a dictionary, one root.
The JSON loader's buffer of tokens is a module of its own, OPTokens, with the two
steps a loader makes of it (`HandOut`, `ClearTokens`); ObjectParser takes them as
part of its actions.

## 3 Runs

All passing runs finish within five minutes with two workers. Deadlock is
checked everywhere but in `cs_ack`, where every object may have been closed with
nothing left on the way, and in `object_parser` and `pc_table`, whose clients stop
at the bounds of the instance.

| run | instance | distinct states | shows |
|---|---|---|---|
| `sa_queue` | capacity 4 of a 16-value word, 3 values | 6 156 | `RingInv`; `ImplementsDeque`: the ring buffer implements SADeque |
| `cs_tx` | 2 producers, 2 ids, queue 3, skip 2, pack 2, 5 frames | 1.06 M | `RoundInv`, `NoLostWakeup`, `FramesConserved`, `SentInOrder`, `HighBeforeNormal`, `EveryFrameServed`; `ImplementsService`: the transmit side implements FrameService |
| `cs_io` | table 4, sequence and index of 8 values, horizon 2, 10 datagrams | 881 k | `TableInv`, `NoDuplicate`, `MissedOnlyByAlias` |
| `cs_rx` | 8 clients made by drivers, registers 1, 2 and 15 | 67.3 k | `RegistryInv`, `NoCallAfterClose`, `BoundAreCalled` |
| `cs_rx_brc` | the same | - | violation, see section 6 |
| `cs_ack` | 2 objects on one register, 3 values of which 2 collide, 2 tries | 145 k | `AckInv`, `HitMeansReceived`, `AckNeverMissed`, `CallReturns` |
| `cs_reg` | 2 waiters, queue 2, 4 frames; symmetric in waiters | 1.35 M | `RegInv`, `GetNotTorn`, `EachTakenOnce` |
| `cc_controller` | threshold 2, counter of 5 values, flag of 4, 10 packets | 31.5 k | `PadInv`, `NoTornRead` |
| `cc_daemon` | 2 controllers, 2 feedbacks, timeout 1 tick | 635 k | `EdgeInv`, `UnsafeNeedsCause`, `DangerReachesBus`, `FeedbackRestored` |
| `rm_m3508` | 2 gateways, 1 caller with 2 calls, 4 powers | 429 k | `MotorInv`, `CoefReport`, `PowerFaithful`, `SafetyReachesGateways`, `CoefReturns` |
| `object_parser` | both back ends, 5 items, depth 3 against a stack of 2, containers of up to 16, two loads, token blocks of 2, keys cut at 2 bytes | 1.43 M | `RoundTrip`, `CutIsRefused`, `AccessorsRight`, `TokensLive`, `ZoneInv` |
| `pc_table` | 5 servers, 2 keys looked up, blocks of 2 services and 1 address, 4 events | 3.11 M | `ServicesInv`, `AnswerFaithful` |

Why the bounds are enough.

* Capacities shrink but keep their order. In `cs_tx` the skip queue is smaller
  than a transmit queue, as 16 is than 32, and five frames overflow the transmit
  queue, the skip queue (three Normal frames of an id that a High one has packed),
  and a queue that is refilled while frames are put aside, if it were not locked.
  Two Normal frames behind a third of their id are put aside together, and again
  when a High one of that id has come. In `cs_reg` four frames overflow a queue of
  two.
* Counters shrink but still wrap: ten datagrams pass a sequence byte of eight
  values from any start, ten packets pass a button counter of five values twice.
* `cs_tx` has two producers because the interesting race is one producer's late
  signal against another's insertion. The theorems of section 5 cover any number.
* `cs_ack` makes one call per object; the second object, on the same register,
  provides the acknowledgements of an earlier call that a later one meets.
* `cs_rx` gives two clients one list, puts others in each kind of list of the
  same device, one on a device whose dial differs only in its top bit, and one
  on an id that the argument check refuses. Registers 1, 2 and 15 have a bit at
  either end of the four.
* `object_parser` dumps the integers at both sides of every width, containers of
  0, 1, 2 and 16 elements (16 leaves the one-byte headers), one more level than
  the unpacker's stack has, strings and binaries at the lengths where the header
  changes, buffers 0, 1 or 2 bytes too short, and a key as long as what a client
  has room for (`KeyOutMax`, 128 in the code), which msgpack's loader cuts. The chunk of
  the arena (64 bytes) is overrun by the second container.
* `pc_table` has two servers of one name, a name that begins another one, a name
  with a parenthesis in it and one that the application enters itself; the third
  service outgrows the first block, the second address of a service its own.
* Symmetry is used in `cs_reg` only, which has no temporal property.

Some statements are weaker than one would first write, and the difference says
something about the code:

* `SentInOrder` does not say first in, first out. A round restores what it put aside
  one by one to the front, which *reverses* frames of one id, so two later writes to
  one register of a device are swapped when three are queued at once. The property
  says exactly when: two frames of one id and priority leave in the reverse order if
  and only if an odd number of rounds put both aside (history variable `turned`).
* `FramesConserved` counts frames discarded by a full queue as lost. The skip
  queue can overflow as well; its frames are lost without a report.
* `NoDuplicate` needs copies to arrive at most so late that fewer than four other
  datagrams were accepted in between. `MissedOnlyByAlias` admits that a fresh
  datagram with byte 255 is refused until the table has been filled.
* `GetNotTorn` holds when `is_revers` is loaded first and at most one frame begins
  during the copy, or no callback runs meanwhile. `memcpy` promises no order, and
  two frames during one copy mix. `NoTornRead` is the same for game pads.
* `HitMeansReceived` speaks of data with the same hash, since different data may
  collide, and excludes spurious wakeups, which the code takes for an
  acknowledgement.
* `StaleBounded`, a part of `EdgeInv`, admits that a broadcast contradicting the flag follows its
  assignment, at most one per gateway and other process.
* `AnswerFaithful` is about tables of any size, but says nothing of an answer when
  the table outgrew a block (four services) after the look-up: that moves the array
  under the pointer that `PCTable_loockUp` returned. And the address may be that of
  a server with another name than was asked for, if an entry hides both: the table
  takes `M` for `Mt`. It says exactly when: the table was told of a server whose
  name and type begin with both.
* `TokensLive` says which tokens a client may still use: those of the last block,
  and no others. With the 65th token the first 64 are dead.
* `AccessorsRight` says what the accessors do, not what one would like. Msgpack's
  `dictionary_get` compares as many bytes as the wanted key has, so it returns the
  first key that *begins* with the wanted one, or an earlier, shorter one that the
  bytes behind it happen to complete. JSON's `string_get` loses the last character
  where there is room to spare, and its length wraps around for an empty string;
  both wrap for a buffer of no bytes. Msgpack's `binary_getRaw` tests for a
  *string*; no property asks binaries of it.
* `RoundTrip` compares what is loaded with what the dumper can express: in JSON a
  null, binary data and infinities come back as the integer 0, reals keep six
  decimals, strings with quotes or stray backslashes are excluded because the
  dumper escapes nothing, and a dumper asked for its length before the first item
  writes a NUL in front of everything, which loads as a document without root.

## 4 Fairness

Liveness is checked under weak fairness of loops that the code runs forever and
of calls that were begun; nobody is obliged to make a call.

| specification | fairness | justification |
|---|---|---|
| `CSTx!FairSpec` | WF of the send thread, WF of each pending signal | threads of the host are scheduled; no spurious wakeup is assumed |
| `CCDaemon!FairSpec` | WF of sender, of CSSystem's thread, and of time | both loops run forever (the safety thread sleeps 200 ms, `CSTx_sendFrame` does not block for long); packets and application calls may stop |
| `CSAck!AckFairSpec` | WF of each sender, of each timeout, of the receive thread | `pthread_cond_timedwait` ends by itself; no acknowledgement need ever come |
| `RMM3508!FairSpec` | WF of the threads and of begun calls; SF of the arrival of a safety datagram at each gateway | the safety datagram is repeated forever without acknowledgement: nothing can be promised unless some of them get through |

## 5 Proofs

`tlapm` checks the eight modules `*Proofs.tla`, for all values of the constants
that satisfy the named assumptions. Every safety property of the runs is a theorem
but three of the object parser's (`RoundTrip`, `CutIsRefused`, `AccessorsRight`); `PROJECT.json` lists which theorem states which.

| module | theorems | of |
|---|---|---|
| SAQueueProofs | `RingCorrect`, `RingImplementsDeque` | SAQueue, SADeque |
| CSTxProofs | `TxRoundInv`, `TxNoLostWakeup`, `TxPackIdsDistinct`, `TxHighBeforeNormal`, `TxFramesConserved`, `TxSentInOrder`, `TxImplementsService` | CSTx, FrameService |
| CSIoProofs | `TableCorrect`, `NeverTwice`, `RefusedOnlyByAlias` | CSIo |
| CSRxProofs | `RegistryCorrect`, `NeverCalledAfterClose`, `FrameReachesBound`; `AckCorrect`, `HitIsAnswered`, `AckWakesSender` | CSRx with CSType; CSAck |
| CSRegProofs | `RegCorrect`, `ShareNotTorn`, `TakenExactlyOnce` | CSReg |
| CCProofs | `EdgeCorrect`, `NoUnsafeWithoutCause`; `PadCorrect`, `ReadNotTorn` | CCDaemon with CSSystem; CCController |
| RMM3508Proofs | `MotorCorrect`, `MotorCoefReport`, `MotorPowerFaithful` | RMM3508 |
| StorageProofs | `ZoneCorrect`; `BuffersFit`; `ServicesCorrect`, `AnswersFaithful`; `TokensAlive` | MsgPackZone; SABuffer; PCTable; OPTokens |

Each theorem has the shape `Spec => []P` (or `Spec => [][A]_vars`, or `Spec =>`
the abstract specification) and follows from an inductive invariant `I` by
`Init => I`, `I /\ [Next]_vars => I'` with one step per action, and `I => P`. What
follows says which `I`, and why `P` alone is not inductive.

**SAQueueProofs** - assumptions: `CapacityAssumption` (the capacity is positive
and divides the word, twice the capacity is less than the word) and
`DataAssumption`. `RingInv` is inductive as it stands: besides the ranges it says
that the write cursor is `count` slots ahead of the read cursor, which is what
makes each function's partial update right, and that a reserved slot is an end.
Lemmas state the remainders of the cursors' sums; `DecSlot` is where the
divisibility is needed: `(0 - 1) % 2^64` must be the last slot. The program's
capacities 8, 16 and 32 satisfy it. `RingImplementsDeque` uses `RingInv` in every
step: the contents of the ring are a window of the array that begins at the read
cursor, and each function maps to the action of SADeque of its name. `CSTx` and
`CSReg` may therefore be written with the bounded deque.

**CSTxProofs** - assumption: `TxAssumption` (positive capacities, priorities in
range). Any number of producers, ids, frames; any capacities.

* The inductive invariant for the first three theorems is `TxInv == RoundInv /\
  NoLostWakeup`, where `RoundInv` contains `PackIdsDistinct`. `RestoreFits` (queue and skip queue together
  within the capacity while the mutex is held) is what shows that restoring never
  discards; `BetweenRounds` is what makes it true when a round begins, and what
  makes an empty pack the start of `PackIdsDistinct`. `NoLostWakeup` is inductive
  because an insertion leaves its producer in state `signal`, and the send thread
  begins to wait only when all queues are empty.
* `HighBeforeNormal` is not inductive: while High frames are restored one must
  know that each of them shares its id with the pack. `OrderInv` adds this for
  the skip queue and for the High queue at the end of its turn; it is proved
  relative to `TxInv`.
* `FramesConserved` counts over a concatenation. `Conservation` says the same of a
  function `At` from six places (three queues, skip queue, pack, sent) to sequences:
  each number up to `made` is at one position of one place or among the lost, and
  the lengths add up. Every action is then one of three operations on it (a frame
  moves from the front of one place to an end of another, a new one is inserted
  into a queue with or without losing the front, one place is emptied into
  another), each of which is a lemma. That restoring loses nothing needs
  `RestoreFits` again.
* `SentInOrder` orders what has left only; `Ordered(At, turned)` says it of every
  place and between places: what is further on its way comes first (`Before`: the
  older one, or the newer one of a pair in `turned`). The skip queue is counted from
  its back (`Ahead`), because that is the order in which restoring brings its frames
  to the front of the queue; so restoring keeps the order, and putting a frame aside,
  at the wrong end of the skip queue, is what turns it around with each frame of its
  id that is there already (`ToggleBefore`) and with no other. Needed besides: the
  frames put aside have the priority of the round (`AsideOwn`), a queue holds its own
  priority (`OwnQueue`), and no frame is in `turned` before it is queued
  (`TurnedMade`).
* `TxImplementsService` rests on all of these. Pending are the frames at the places
  `0 .. 4` of `At` (`PendingIs`), and by `Conservation` no frame is at two positions
  (`Apart`); taking a frame from one place and inserting it into another therefore
  changes the set by what the insertion discards (`TakePending`, `PushPending`).
  Restoring and packing are stutters, the first because `RestoreFits` rules a
  discard out. That a discarded frame stands in a crowd is a count: a full queue
  holds as many frames as its capacity, all of its priority (`OwnQueue`), and a full
  skip queue together with the frame put aside is one more. `FirstInLine` is
  `Ordered` between the pack and the places behind it; `OnePerId` needs, besides
  `PackIdsDistinct`, one more invariant: `PackSorted`, the pack is sorted by
  priority and holds nothing below the current one.

**CSIoProofs** - assumption: `IoAssumption` (positive sizes; the wrapping index
counts to a multiple of the table, as 256 is of 4). `IoInv` adds to `TableInv` and
the two properties `LateBounded` (what is accepted late is at most `Horizon - 1`
older than what was accepted before) and `SlotsExplained` (each slot holds the
byte of an accepted datagram or its initial 255). `NoDuplicate` needs that the table
holds the *last* bytes accepted; `MissedOnlyByAlias` that it holds nothing else.

**CSRxProofs** - assumptions: `RxAssumption` (registers of 4 bits, ids of 11) and
`AckAssumption`.

* `RxInv` adds to the types and `AllocatedIffBound`: `ListsOk` (a device's list
  holds exactly the clients bound to it, each once), `FrameOk` (the list a frame is
  decoded to is the one its sender meant, or none) and `RunOk` (the mutex is held
  from dispatch to the last callback, and the callbacks that ran are a beginning
  of the list). `AllocatedIffBound` alone cannot survive `close`, which frees a
  device when its *lists* are empty. `FrameOk` is arithmetic on the encoders and
  decoders of CSType and holds for every legal id, register and channel: the
  lemmas about them are what the run tries for a few ids.
* `AckStrong` adds to the types: `BoundLive` (the list of callbacks holds the
  objects that live), `AckOk` (an acknowledgement on its way was caused by data the
  device received) and `CallOk` (while a call runs, `arg` is the hash of what it
  sends, and a hit was answered). Only with `AckOk` can one say that an
  acknowledgement of an *earlier* call on the same register means anything.

**CSRegProofs** - assumption: `RegAssumption` (positive capacity, finitely many
waiters). `RegStrong` adds to `RegInv`: `WriterOk` (what the receive thread has
filled of the unused half), `ReaderOk` and `FlagFirst` (what a reader has copied
equals what is shared, as long as the half it was pointed at has not been written),
and `TakenOk` (taken before queued before still to come, and the discarded ones
apart). `NoSleepOnData` counts: no more frames are queued than threads are awake
to take them while anybody sleeps, which is what lets a wait without a loop take
exactly one.

**CCProofs** - assumptions: `SystemAssumption`, `DaemonAssumption` (the sender is
CSSystem's only other caller), `ControllerAssumption` (the counter counts past the
threshold; the packet flag wraps at an even number).

* `DaemonInv` describes what each of the two threads still has to broadcast:
  `SenderOk` and `ThreadOk`. The safety thread may have read the flag before it
  changed; `StaleBounded` follows because such a broadcast is the first against
  the flag on its gateway. `CauseOk` carries the cause from the connected
  controller or the timeout through `alarm` and the flag to the bus.
* `PadStrong`: up to the threshold `m_safety_count` is the number of packets, beyond
  it nothing is said of the counter and only `m_safety_changed` is relied on, so
  that it may wrap and pass the threshold again. `HalvesOk` and `ReaderOk` are
  the double buffer's.

**RMM3508Proofs** - assumption: `MotorAssumption` (one to four gateways, integer
powers and motor numbers, `Nobody` and `Stranger` are no addresses).

* `MotorCorrect` is `Spec => []MotorInv`. `BufferOwned` is what makes it
  inductive: a thread between formatting and `inet_addr` holds the lock, so the
  buffer still holds what it wrote. The bound on the datagrams of a call needs
  `CoefInv` (one `CoefOk` per caller) besides: at each point of the loop the number of datagrams follows
  from the number of errors, which the retry limit bounds.
* `MotorCoefReport` follows from the same invariant.
* `MotorPowerFaithful` holds for *every* integer power, where the run tries four.
  `PowerInv` says that the last setter's frame is that of its arguments; the rest
  is arithmetic: `TruncScaled` bounds a clamped, scaled and truncated power.

**StorageProofs** - assumptions: `ZoneAssumption` (positive chunk size, natural
sizes, and a limit on doubling) and `TableAssumption` (positive block sizes, that of
services above one, for a buffer with blocks of one element grows by two at a time; names
and types are texts over some characters, the parentheses among them; servers
have different addresses; what the application enters itself contains no
parenthesis that would split it elsewhere) and `TokenAssumption` (a block of more than one token).

* `ZoneCorrect` holds for any requests in any order; the run drives the same
  operators through the unpacker. `ZoneOk` adds only types to `ZoneInv`: that blocks
  of the head chunk end behind the cursor is what keeps the next one apart. There
  is one lemma per branch of `zone_malloc`. `DoubledCovers` shows that a new chunk is
  large enough, also when doubling would wrap; it needs a least element of a set,
  which `LeastNat` takes from the well-foundedness of the natural numbers.
* Of SABuffer, `BlocksHold` and `AddedOk` say for any block size that the blocks
  chosen hold the elements. `TightKept` says that, as long as elements are only
  appended, there is no block more than needed, so that a block is added exactly
  when the last one is full.
  `BuffersFit` is about every operation, for any index and count: the elements stay
  within the blocks allocated for them.
* `TableInv` is the invariant behind `ServicesCorrect`. `Tracks` is `TracksEvents` of
  any table; the entries of a table never move nor change their names (`KeysKept`),
  so that a search that found an entry finds it again although a new entry may
  match the key as well (`SearchKept`): entries are only appended and the first
  match wins. Appending an entry, appending an address and switching an
  address are one lemma each, which show that the change concerns one server
  only (`Touches`); `TracksStep` does the rest.
* `AnswersFaithful` needs `HandleOk`: the pointer the main loop holds is that of the
  entry its key finds *now*, and has seen as many moves as there were blocks after
  the first. As the blocks are `Tight`, the moves of a table are the block of its
  last entry (`MovesAre`): the pointer is alive as long as that is still the same. That
  a server answered in place of another is hidden by one the table was told of is
  `Known`: every entry bears the name and type of such a server.
* `TokensAlive` is about OPTokens, for any tokens handed out in any order between any
  loads; the run drives the same operators through the loader. It needs `TokensInv`: while there are tokens,
  the buffer has no block more than they need, and the pointers that have seen its last
  move are those behind the blocks before the last.
  Without the first part nothing can be said after a new load: it clears the
  buffer but keeps its blocks, and the first token then gives the surplus blocks
  back, which moves the array. That happens before a pointer is handed out, so
  the client does not notice.

Only model-checked:

* Liveness: `EveryFrameServed`, `CallReturns`, `DangerReachesBus`,
  `FeedbackRestored`, `SafetyReachesGateways`, `CoefReturns`. They rest on fairness,
  which this prover does not handle.
* `RoundTrip`, `CutIsRefused` and `AccessorsRight` of ObjectParser:
  the encoders, the tokenizer and the loaders are recursive over documents, and
  induction over data is beyond the installed provers.

## 6 A finding

`cs_rx_brc` (expected violation of `CallbackWillBeCalled`): `cs_rx.h` says "If it
receive a data that is the same id and reg, the callback will be called".
`CSRx_bindBrc` passes id 0x201 to the argument check; its driver id 0x20 is above
the permitted 0x1F, so the call is reported and nothing is bound. A broadcast
callback, CSArp's is the only one, is never called. All other kinds of callback
are (`BoundAreCalled`).

## 7 What is not modelled

* `CSIo_connectionWait`, sockets, files, and the byte layout of datagrams: I/O
  without state of interest.
* Device drivers beyond what they bind and request: scaling of powers and angles,
  getters, CSData's byte order. Two slips met while reading them are of no model's
  concern but should be looked at: `hp_motor.cpp:65` hands the handle made by
  `CSSend_createUser` to `CSSendAck_send` and the other way round, and
  `lp_motor_current.cpp:12` drops its gateway argument.
* CSInitializer, and what CSManager and `main` do besides starting the parts.
* CSArp's list, SAMem, SAThread, SALog, SATime: tables under one mutex, logging,
  clocks. CSArp's callback is never bound (section 6), so its list stays empty.
  Timeouts may pass at any time in the models, which covers a clock set forward.
* msgpack-c's streaming unpacker, extension types and finalizers, which the object
  parser does not use; the bytes of a float and the digits of a printed number,
  which are one symbol each.
* PCMdns's sockets and DNS-SD itself (external). `pc_dnssd.c` is the build for
  Apple's library; with Avahi, `pc_avahi.c` is commented out and only
  `PCTable_set` fills the table. The over-length branch of `pc_table.c` assigns
  `service_len` where `name_len` is meant; no DNS label is long enough to get
  there.
* cc_emergency, PCServer, PCClient, PCAvahi, odom_driver: empty or commented out.
* Memory ordering below the level of single loads and stores: the models of the
  lock-free buffers interleave them sequentially consistently.

## 8 Plan

Done, in this order: the queue and the transmit path (SAQueue, CSTx) with their
proofs, the network filter (CSIo), the safety chain (CSSystem, CCDaemon,
CCController), the receive path (CSType, CSRx, CSAck, CSReg), the motors
(RMM3508), the drivers' bindings (CSDevice), the growing array (SABuffer) and its
users: the table of services (PCTable) and the object parser with both back ends.

The safety properties of all of them are proved, three of the object parser's
excepted, and two abstract specifications (SADeque, FrameService) are proved to be
implemented.

Next: CSSystem composed with CSTx (a safety broadcast from the call to the
datagram), scaling in the drivers with CSData, SATime with a clock that is set
back, CSArp's list.
