# Verification of woo-xl320

TLA+ models, TLC runs and TLAPS proofs for the XL-320 servo drivers of this
repository. Paths are relative to the root of the repository.

## The system

`README.md` of the repository names three uses: the Arduino library XL320, the
XLCMD commander sketch, and the host library that talks through a serial bridge.

| component | source | state | operations | talks to |
|---|---|---|---|---|
| command and order engine | `src/lib/Service.cxx` | `mCommandQueue`, `mCommandCurrent`, `mOrderCurrent`, `mCommandInProcess`, `mOrderInProcess`, `mOrderTimeout` | `registerCommand`, `sendPing`, `commandStateMachine`, `endOrder` | user threads (mutex, posts to `mIos`), serial port (`write_some`), slots of `commandEnded` |
| reception and dispatch | `src/lib/Service.cxx` | `mReadBuffer`, `mParseBuffer`, `mPortErrors`, `mPingResult` | `prepareAsyncRead`, `readReceivedData`, `parsePacket`, `processPacket*` | serial port (asynchronous reads), engine (`endOrder`), slots of `newPingIdReceived` |
| life cycle | `src/lib/Service.cxx` | `mPort`, `mIosThread`, stop flag of `mIos` | `start`, `stop`, destructor | all of the above survive a stop |
| packets and CRC | `src/lib/Packet.cxx`, `Order.cxx` | none | `Build`, `UpdateCRC`, getters, `buildBuffer` | engine, parser |
| orders and commands | `src/include/woo/xl320/Order.h`, `Command.h` | queue of raw `Order*` | `operator<<`, `extract`, `isOver` | engine |
| servo image | `src/lib/Servo.cxx` | `mData`, `mRequestedPush` | `get`, `set`, `pull`, `push`, `update` | `registerCommand` |
| Arduino controller | `src/arduino/libraries/XL320/controller.cpp`, `packet.cpp` | receive buffer, selection | `ping`, `pull`, `push`, `receiveData`, `getNextPacket` | servo line (blocking) |
| XLCMD machine | `src/arduino/libraries/XLCMD/Machine.cpp` | command buffer | `loop`, `parse*`, `getNextArg` | controller, command stream |
| serial bridge | `src/arduino/examples/55.Woo/serial-bridge` | one shared buffer | `loop` | host port, servo port |
| locks and signals | `src/lib/Service.cxx` | `mCommandMutex`, `mPingMutex`, `mServosMutex` | every scope that locks one, `commandEnded`, `newPingIdReceived` | user threads, the io thread, slots |
| test application | `src/app/test-01/main.cxx` | `state`, `asioService`, `actionTimer` | `testMachineState`, `goPing`, `onCommandFinish` | service, from two threads |
| sketches, log, build | `.ino`, `src/lib/Log.cxx` | - | - | not modelled |

What is hard here: one io thread runs a FIFO queue of handlers that user
threads, the timer and the port all append to; a wait that is cancelled still
queues its handler; answers are matched to orders by nothing but timing; state
outlives a stop; errors are thrown on a thread nobody joins in time; slots run in
the middle of a handler, under its lock; copies of a command share their orders;
and on the Arduino side everything is fixed buffers and eight bit counters, and
an answer that comes late is taken for one of the next call.

What makes each part correct: the engine serves commands in order, each order
once, and never stops serving (`ImplementsCommandStream`, `NoLostWakeup`,
`EveryCommandEnds`); an order is ended by its own answer or its own timeout
(`AnswerEndsOnlyItsOrder`, `TimerEndsOnlyItsOrder`); reception never goes deaf and
never reads twice at a time (`ReadLoopAlive`, `SingleReadLoop`); start and stop
may be repeated (`ReadLoopPerStart`, `Backlog`, `ThreadHasPort`).
A packet is read back as the servo reads it, with the right CRC (`OrderArrives`,
`CrcOfPolynomial`); how the line is cut into reads changes nothing but time
(`CutDoesNotMatter`, `PromptWhenClean`). The members behind a mutex are shared without
a race; the port, which is behind none, has one place where it is raced, and the
mutexes can deadlock in one way (`NoDataRace`, `HoldersGoOn`);
an order is not used after it is deleted, unless its command was registered twice
(`OrderIsAlive`); the bridge carries every byte (`BridgeForwards`); the main thread of
`test-01` is told that its ping is over (`TestEnds`). A call of the Arduino
controller ends (`FittingCallEnds`), tells the truth about who answered and with
what (`PingTellsWho`, `PullTellsTruth`), and reads what it has received
(`OverrunNeedsCutHeader`); the terminal answers each line as its user means it
(`KeepsPromise`, `EveryLineAnswered`) inside of its arrays (`OverrunsHaveACause`).

## Modules

| module | models | extends or instances |
|---|---|---|
| `CommandStream` | abstract: what a user of `registerCommand` is promised | - |
| `Service` | `Service.cxx`: engine, timer, reception, life cycle | `CommandStream` (refinement) |
| `MCService` | commands and stale answers for TLC | `Service` |
| `ServiceProofs` | types, no lost wakeup, never deaf, read loops; `Service` implements `CommandStream`; orders meet their own timers and answers | `Service`, `SuffixLemmas` |
| `Suffix`, `SuffixLemmas` | what is left of a sequence, and facts about it | - |
| `PacketFrame` | layout of a packet, what the parser looks at | - |
| `Packet` | building packets and their CRC, host and Arduino | `PacketFrame` |
| `PacketExchange`, `MCPacketExchange` | one packet to the servos, perhaps damaged | `Packet` |
| `PacketExchangeProofs` | what is built is read back as it was meant, and its CRC shows damage | `PacketExchange` |
| `PacketParser`, `MCPacketParser` | `parsePacket` on bytes | `PacketFrame`, `Suffix` (and `Packet`, to build the lines) |
| `PacketParserProofs` | no byte is lost, cuts do not show, packets in time and in order | `PacketParser`, `SuffixLemmas` |
| `Controller`, `MCController` | `controller.cpp` and the getters of `packet.cpp`: one call after the other on the receive buffer | `PacketFrame` |
| `Session` | abstract: what a user of the XLCMD terminal is promised | - |
| `Machine`, `MCMachine` | `Machine.cpp`: the terminal | `Controller`; `Session` (refinement) |
| `ArduinoProofs` | controller and terminal: types, where the pointers and the ids can be, what a ping and a pull tell on a quiet line, why an array is overrun | `Machine`, `SuffixLemmas` |
| `Sharing` | the service down to the single access: mutexes, slots, ownership of orders | `CommandStream` (refinement) |
| `SharingProofs` | no data race, no deadlock, one servo, orders alive; `Sharing` implements `CommandStream` | `Sharing`, `SuffixLemmas` |
| `Bridge` | `serial-bridge.ino` | - |
| `BridgeProofs` | the bridge forwards | `Bridge` |
| `Host`, `MCHost` | process, bridge and servos together; `test-01` | `Sharing`, `Bridge` (instance) |
| `HostProofs` | what is proved of the parts holds of the whole; `test-01` is settled | `Host`, `SharingProofs`, `BridgeProofs` (instance) |

### Service and the code

Variables that begin with `m` are the members of the same name. `mIos` is the
queue of handlers of the `io_service`, `mIosStopped` its stop flag, `reads` the
asynchronous reads that are requested and not complete; `mCommandMutex` is held by
`readReceivedData` between two packets, the only place where holding it is
visible. `registered`, `ended`, `wire` and `lastCall` are history: no guard that
models code reads them.

| code | actions |
|---|---|
| `registerCommand`, `sendPing`, `Servo::pull`/`push` | `UserCommand`, `SendPing`, `ServoPull` |
| `commandStateMachine` | `NoCommand`, `NextCommand`, `OrderRunning`, `CommandOver`, `SendOrder`, `WriteFails`: one for each way through it |
| `endOrder` as a handler | `RunEndOrder` |
| `readReceivedData`, `parsePacket`, `processPacket*` | `ReadFailed`, `ReadReceivedData`, then `ParsePacket` for each packet, `ParseEnds` or `ParseWithoutOrder` |
| `start`, `stop`, destructor | `StartAlreadyOpened`, `StartOpens` and then `StartReads`, `StartFails`; `StopReturns`, `StopThrows`; `Destroy` |
| boost, the line, the servos | `Expire`, `Receive`, `ReadError`, `Garble` |

A handler runs to its end in one action, with one exception: the parse is one
action per packet, for user threads that do not need `mCommandMutex` run beside
it. `start` is two actions: between the creation of the thread and the first read
the io thread already runs handlers left from before a stop, or posted meanwhile.
`Written` has the short write: an order that is cut, at the cost of a fault, is
answered by no servo and leaves its echo, if there is one, as noise. Cancelling or restarting the timer queues the handler of the pending wait:
`endOrder` is bound without the error code, so it runs like any other
(`Cancelled`). An answer carries the serial number of its order, for the properties
only. A packet is one item of the line; noise is one item that a parse throws
away. `PacketParser` has the bytes, and shows what `Service` takes for granted.

### The packet modules and the code

`Packet` has the CRC table, both register tables and one operator for each
function that builds a packet. `PacketExchange` picks an order (`HostOrders`) or a
broadcast (`Broadcasts`), encodes it and may damage one byte. `WrittenBy` and
`ReadBy` say what a servo makes of a packet: the protocol of the XL-320, which is
outside of the code. `PacketParser` has one `Read` for each completed read and
one action for each way through `parsePacket`: `DropHeader` (erase and return),
`Wait` (return), `Deliver` (process, erase, call again).

### Controller and the code

`mRxBuffer`, `mRxBufferSize`, `mSelectIds`, `mSelectSize` are the members; `mRxPtr` is the
distance of the pointer from the start of the buffer. The buffer keeps the bytes of
earlier calls, as in the code, and what the memory behind it holds is a choice
(`Beyond`): the pointer can get there.

| code | actions |
|---|---|
| `ping`, `pull`, `push`, `reset`, `reboot` up to `receiveData` | `Call` (with `Send`, `dropRxData`) |
| `receiveData` | `ReceiveRound`, once for each turn of the inner loop; `ReceiveEnds` |
| `getNextPacket` | `SkipBytes`, `TakePacket`, `Return`: the ways through it; `ParseElsewhere` once the pointer has left the buffer |
| the loops of `ping` and `pull` | `TakeStatus`, as part of `TakePacket` |
| `selectServo`, `setXlBaudRate` | `selectServo`, `setXlBaudRate` |

`SizeAt` has the eight bits of `size`, `Left` the sixteen of `left`, `UpSizeSum` the int in
which `size + plus` is computed (`ShortInt`: sixteen bits on an AVR). The line is
outside of the code: servos answer in the order of the chain, each or not, bytes
arrive in any portions and as late as they like, also during the next call.

### Machine and the code

A cell of `mCmdBuffer` holds a token where the code has characters: a name, a
number, or one of the characters the parser looks for. What the parser does with
them is kept: the buffer is parsed in place with what lines before have left in it,
the zero goes in if there is room, `parse_command` overwrites the end of the name.
`ReadChar` is one character of `loop`; `NoCommand`, `Refuse`, `GetXBaud` ... `SetReg` are the
ways through `parse`; `SetXBaud` takes any number for a speed, and one of `Bauds` when the
argument is missing; `CallController` waits for a call of `Controller`, `ReplyToCall` goes
on. `ParsePast` and `PingPast` overrun an array: nothing is known after that, and
`mode` is `lost`. `Session` is what the user is promised; `selection` and `log` of it are
`mSelectIds` up to `mSelectSize` and the replies.

### Sharing, Bridge, Host and the code

`Service` takes a handler or a call as one step. `Sharing` takes them apart: `frame` says
for each thread which call or handler it is in and where. The io thread has two
lanes, the handler and what the handler calls, so a slot runs inside of the
handler that emits the signal and under its lock. `Lock` is the start of a scope
with a `lock_guard`, `Leave` its end. `start` and `stop` are calls of one thread (`Owner`)
and lock nothing: `StartOpens` creates the thread, `StartReads` requests the first read,
`StopsIos`, `StopJoins` and `StopCloses` are `mIos.stop`, the join, and what is left of
`stop`, which leaves the aborted reads and all other handlers in the queue. A
program (`Programs`) says what its threads call, what it connects to the two signals and
which commands it registers. `registerCommand` is `PushCommand` then
`PostCommand`; `getServo` is `FindServo` then `CreateServo`; `commandStateMachine` is
`NoMoreCommand`, `NextCommand`, `OrderRunning`, `CommandOver` and `CommandEnded` around the
slot, `ExtractOrder`, `ClearPing` and `SendOrder`; `readReceivedData` is `ProcessPacket`,
`PushPing`, `NewPingIdReceived`, `NoPacket`, `PrepareAsyncRead`. `Touches` says which shared
member the next step of a call reads or writes; `mPort` stands for the port object and the
buffer of its reads. A command object points at orders
(`OrdersOf`) that its copies share; extracting an order deletes the one before
(`freed`), and nothing is known once a deleted one is used (`Corrupt`). All orders are
pings; answers never end them, the timer does (`Expire`), and the ways in which
they are ended are what `Service` is about.

`Bridge` is `loop` of `serial-bridge.ino` with its one buffer for both directions. `Host`
puts `Sharing`, `Bridge` and the servos together: `SendOrder` writes what `PcReceives`
gets, `WritePc` is what the port hears. `test01` says that the program is
`Test01`: its main thread starts the service (`StartService`), and then runs `TestMachineState` and `GoPing` from `asioService`, its slot
`OnCommandFinish` runs on the io thread in two steps (count, then post).

## Runs

| run | asks | states |
|---|---|---|
| `closed_loop` | a user who waits for `commandEnded`, as `app/test-01` does: are orders ended only by their own timer and answer, and are ping results fresh? | 952,000 |
| `open_loop` | commands at any time, late answers, noise, failed reads, writes that fail or are cut short: is anything lost, done twice or never done? | 372,000 |
| `restart` | stop, start and destroy anywhere, failed opens and reads, a packet on the line from before | 2,070,000 |
| `packet_exchange` | does what is built say what was meant, and does damage show? | 52,000 |
| `packet_parser` | do packets come out of the bytes whole, in order and in time? | 150,000 |
| `controller` | an echo, noise, silence, late answers, a full buffer: whom does `ping` name, what does `pull` say of whom, where does the pointer go, does a call end? | 847,000 |
| `machine` | lines that are right, wrong, too long or have too many arguments: does the terminal keep the promise of `Session`, and where are its arrays overrun? | 232,000 |
| `host` | `test-01`, or threads and slots that call, or a service that is stopped and started again, with bridge and servo: races, deadlocks, deleted orders, lost bytes, and is `test-01` told that its ping is over? | 572,000 |

The runs `timer_race`, `stuck_answer`, `six_restarts` and `built_is_valid` end in a
counterexample: what a comment says and the code does not do (see Findings).

Bounds, and why they are enough:

- `MaxCommands` 2 to 4. One command in process and one behind it are the least
  that has a queue; the third makes a stale handler meet an order that is not the
  next one. Commands have no order, one or two.
- `Servos` one or two: two are needed for a ping with two answers and for the
  answers to a broadcast.
- `MaxFaults` 1: the runs ask what one fault does at every point. `MaxStarts` 2, in
  `six_restarts` 8, with the real limit of 20 errors.
- `MaxChunk` 2 items of a read in `Service`: a read that ends inside the answers of
  an order, and one that brings more than one. 12 bytes in `PacketParser`: from
  one byte to more than a packet.
- `MaxPortErrors` 2 or 3 instead of 20, where reaching the limit is not the question.
- `packet_exchange` has every register that an order can name, ids at both ends,
  and values that put FF, FD and 00 in the parameters. `packet_parser` has every
  line of up to three pieces out of three packets and six kinds of noise, and
  every line of eight bytes out of FF, FD and 00 that starts with FF.
- `controller`: two calls, for everything that crosses from one call to another
  (late answers, the bytes left in the buffer, the selection) crosses to the next.
  Three servos, of which two are selected, in an order other than that of the
  chain, or one of them twice; a register of one byte and one of two, with a value
  that looks like the mark 0xFFFF. The buffer has 40 bytes: an echo and two answers
  to a ping leave two bytes free, as nine answers do in the 128 of the code. In
  front of and behind the answers: nothing, an echo, a byte FF, a packet whose
  length wraps a short int. `Chunks` and the arrival of all that is left give reads
  that end inside a packet and between calls.
- `machine`: three lines, so that one can leave something in the buffer, one can be
  parsed over it, and one can come after both; 12 cells, which the longest lines
  fill to the last one, and exceed; two selected servos, so that three arguments
  are too many; answers as late as the next line. `MaxCalls` 9 is never reached.
- `host`: four programs: `test-01`; two whose slots do each of the calls under the lock of a
  handler; one that starts and stops in every order while the other thread registers.
  Two threads, a command of two orders and two of one, registered in every
  order and also twice. `MaxCalls` 3 counts commands and starts together: two starts and a
  command are what the race at the port and the handlers left behind need, one start and
  two commands what a stale handler or a deleted order does. A buffer
  of the bridge of two bytes, so that it is both full and not.

Deadlock is checked in every run. The system may rest where `Finished` says (every
command ended within the bounds, or the process gone), `Silence` (nothing on the
line), `Arrive` (the packet is there), `Rest` and `Lost` (no more lines are typed, or an
array was overrun) and `Stands` (nothing is left to do, an order was used after its
end, or a slot waits for the lock of its own handler: the deadlock that
`HoldersGoOn` names).

Fairness (`FairSpec`): the io thread executes what is queued, which is what `run()`
does, and a deadline timer expires. Nothing obliges a servo to answer, a user to
call or the port to complete a read: `EveryCommandEnds` rests on the timeout alone.
It is asked only of executions in which the service runs from some time on.
`FairSpec` of `Controller`: the sketch goes on while a call is under way, and a second
passes; the line owes nothing. `MachineFairSpec`: the Arduino calls `loop` for ever, and
a call of the controller is a part of it. `HostFairSpec`, for `test-01` only: its two
threads run, boost delivers what has expired or arrived, and the Arduino of the
bridge loops; servos need not answer.

## Proofs

Proved with TLAPS for every set of servos, commands and lines and for every bound,
from the ASSUMEs of the modules alone. `BridgeInv` states its one assumption, that
the buffer has at least a byte, as a hypothesis, the three theorems marked with
(closed) those that the findings show to be needed (the two about answers also that no
cut order leaves an echo: `FaultKinds` without `"write"`, or no `Echo`), the two of `PingOnPacketLine`
that the line carries packets, and `PromiseKept` what its row says:

| theorem | says |
|---|---|
| `TypeCorrect` | types, and a completed read never claims more than the buffer holds |
| `WakeupKept` (with `OrderAlwaysEnds`, `CommandAlwaysRuns`) | no wakeup is lost |
| `ThreadKeepsPort`, `NeverDeaf` | the io thread has a port, and a read under way |
| `LoopPerStart`, `OneLoopUntilRestart` | never more read loops than starts; with one start, exactly one |
| `BacklogKept` | the engine holds what was registered and not sent, in order |
| `ServiceImplementsStream` | `Spec => CS!Spec`: first come first served, each order once |
| `CrashOnlyBeforeOrders` | a packet meets a null `mOrderCurrent` only before the first order |
| `TimerOfItsOrder` (closed) | a timer ends the order it was started for |
| `AnswerToItsOrder` (closed) | a status ends the order it answers |
| `PingIsFresh` (closed) | `getPingResult` has ids of answers to the last ping only |
| `OrdersAreOnePacket`, `OrdersSurviveTheWire` | every order and broadcast is one packet that reads and writes what was meant |
| `CrcIsPolynomial` | behind every packet is the CRC of the polynomial 8005 over all of it |
| `DamageAlwaysShows` | one damaged byte, whatever happened to it, always shows in the CRC |
| `ParserTypeCorrect`, `NoByteLost` | the parser loses, repeats and moves no byte |
| `CutIsHidden` | whatever is on the line, how it is cut into reads changes no packet |
| `CleanIsPrompt` | on a clean line a packet is delivered by the read that completes it |
| `NoiseTakesNoPacket` | noise without a header byte takes no packet and makes none up |
| `ControllerTypes` | what the controller counts, selects and receives stays inside its arrays and its eight bits |
| `OnlyCutHeaders` | the pointer leaves what was received only behind a cut FF FF |
| `IdsAreBounded` | `ping` stores at most one id for each eight bytes received |
| `PingOnQuietLine`, `PullOnQuietLine` | of a call that begins with nothing on its way, on a line that carries packets only: `ping` names servos that answered, each once and in order, and all of them if all was received; `pull` gives each selected servo its own value or the mark of silence |
| `PingOnPacketLine`, `PullOnPacketLine` | so `PingTellsWho` and `PullTellsTruth` hold where `Fronts` are packets and `Backs` nothing |
| `TerminalTellsTruth` | what the terminal shows after such a call: ids of servos that answered, each once, or each servo's own value or silence, whatever was typed before |
| `PromiseKept` | the terminal implements `Session`, so one reply for each line, in order, and the right one for the servos that SEL chose last; under three conditions: the names of registers are none of the other commands, the lines parsed say what they mean and fit (`IsMeant`), and calls return from a quiet line (`ReturnsQuietly`) |
| `MachineTypes` | the pointer of the terminal stays in its buffer, a line is answered at most once |
| `TerminalKeepsController` | what is proved of the controller holds under the terminal |
| `NoOverrunWithoutCause` | the terminal overruns an array only for one of the causes of `OverrunsHaveACause` |
| `SharingInv`, `RaceFree` | each mutex has one holder, and no member behind one is used by two threads at once; the port only by `start` and a handler, where `start` requests the first read, and only if a command was registered before or the service is started again |
| `NoDeadlock` | who holds a mutex goes on, except in the one state where `registerCommand`, called by a slot, is at the mutex that the handler of the slot has locked |
| `OneServo` | one servo for each id, whoever asks when |
| `OrdersAlive` | no order is used after its end, if every command object is registered once |
| `SharingServesStream` | the single accesses of `Sharing` implement `CommandStream` |
| `BridgeInv` | the bridge forwards, for every size of its buffer |
| `HostIsSharing`, `HostKeepsPromises` | the composition implements `Sharing` and through it `CommandStream`; the theorems on `Sharing` hold of it |
| `HostIsSafe`, `HostForwards` | its types and locks; nothing is lost between the process and the servos |
| `TestIsSettled` | the main thread of `test-01` reads `state` only when the slot is done with it |

The argument. `TypeOK` is not inductive: `readReceivedData` takes as many bytes as
its handler says, so the invariant is `TypeInv == TypeOK /\ ReadsFit`, where every
queued read claims no more than `mReadBuffer` holds. `NoLostWakeup` is inductive
with it as the conjunction of its two parts: an order that ends has to find the
state machine queued, and a handler that returns early has to leave an order that
will end. `ReadLoopAlive` needs `ThreadHasPort`. The refinement needs `Backlog`
with `ended <= Len(registered)` (`BacklogInv`), for the abstract position in a
command is computed from what is left of it; each concrete action is a step
`Register`, `Send` or `Finish` or a stutter.

`ReadLoopPerStart` is not inductive, for the death of the process loses loops: while
it lives there are as many as starts (`LoopsInv`), counted as requested reads, queued
handlers and the one that holds `mCommandMutex`. The queued ones are a set of places
in the queue, so the proof follows its cardinality through every append and
removal (`NumReads`). `OneLoopUntilRestart` follows with `ReadLoopAlive`, and its
hypothesis is what `closed_loop` has: one start. `OrderInv` says that
`mOrderCurrent` is the last order written.

The theorems marked (closed) are about a user who waits for `commandEnded`
(`~OpenLoop`) and servos that answer before the timer of the next order
(`~LateAnswers`); those about answers also about a line without noise, also of the kind that a cut order echoes. `timer_race`
and `stuck_answer` are the counterexamples without them. `ClosedInv` has the reason
why timers are safe: while an order runs, no handler that wakes the engine stands
behind one that ends it, and between two orders none that ends one stands behind
one that wakes the engine, so the handler of a wait, also of a cancelled one, is
spent before the next order goes out. `ItemsInv` has it for answers: what is on the line, in a
completed read or in `mParseBuffer` is of the last order, and a parse that ends
leaves nothing, which is what noise breaks.

For the parser, `BytesConserved` is inductive with the types; its proof is about
suffixes of sequences (`SuffixLemmas`). `WholeLine` parses the line from its end
to its front with a recursive function: `CutInv` says that the bytes not yet parsed
begin at a place from which that function finds just the packets not delivered
yet. `DropHeader`, `Wait` and `Deliver` each move the place as the function does, and
what arrives later never changes what was found before. `PieceInv` says the same in
terms of what was sent: the rest of the line is a piece without a header, then whole
pieces. It needs that a piece which counts as a packet is one (`IsPiece`: a header
and the length it claims).

For `OrdersAreOnePacket` and `OrdersSurviveTheWire` there is nothing to induct on: the state is one packet. The
work is in the operators. `FrameReads` reads any `Body` with two more bytes back
to its id, instruction and parameters as long as the length fits its word; the two
bytes are any, so the CRC table plays no part there. The parameters of a broadcast are
a flattened sequence of blocks of one size; `FlattenIs` finds byte j of block e at its
place by the least counterexample, as no induction is available, and the byte counts
are eight bits wide, so `IdsAssumption` bounds the selection: `14 + 3 * Len(ids) < 256`,
where the code allows five ids (`XL320.h:165`).

The CRC is about all bytes, so `CrcIsPolynomial` and `DamageAlwaysShows` stand on what
`Xor` and `Shift` do to every word. `XorHalves` takes the lowest bit off, and `ByHalves` is
the induction that follows: what holds of the halves of three words holds of them. It
gives that `Xor` is associative (`XorAssociative`), hides no difference (`XorCancels`) and
joins words that share no bit (`SplitsAt`); so a shift, and eight of them, is linear
(`ShiftedLinear`) and takes no two words to the same one (`ShiftedCancels`). The table follows
from 128 pairs of its entries, evaluated one by one (`TableDoubles`): entry `2i` is one shift of
entry `i`, and entry `2i + 1` has the polynomial added (`TableIs`). `UpdateIsShifted` has
a step of `UpdateCRC`, `CrcsOf` the function over all bytes of a packet, and `MadeIsWhole`
that both builders take the CRC of just the bytes before it: for a broadcast that needs
the size its caller computed in eight bits, hence `IdsAssumption` again. A damaged byte
changes the CRC at its place, no byte behind it can undo that, and the one that was sent is the
same; a damaged byte of the CRC itself changes only that (`OneByteShows`). `DamageInv` says that
what is on the line differs in one byte from what was built.

For the controller, `RxInv` adds to the properties that a call that receives has
parsed nothing yet. The step that matters is `SkipBytes`: if the pointer passes the
end, the byte looked at is the one after the last, so the bytes before it were
those of a header, and the last of them is FF. While the pointer is inside, `Left`
does not wrap and a complete packet lies inside, however its length was garbled:
its size in eight bits is never more than what was compared with `Left`. That the
line carries bytes needs the type of `FlattenSeq`, a recursive function: `Smallest`
replaces the induction that the provers cannot instantiate. `TerminalInv` has the
terminal: a line is read whole before it is parsed, and each line but the one under
way has been answered; what the terminal stores never leaves its buffer, even
when a command runs past it in the parse (`lost`).

What a call tells needs to know where it is. `QuietInv` says that on a quiet line
there is a script: the packets that come for the call, one after the other, each with
the servo that it is an answer of, or with none if it is an echo (`Turn`). What the
buffer holds from its start, what the port has and what is on its way are together the
bytes of that script (`Received`), whatever portions they come in; the pointer is at the
start of a turn, and what is told so far are the servos of the turns before
(`AtTurn`). So `getNextPacket` finds a whole packet in front of it and takes just that
(`WholeIsTaken`), or the bytes end inside of it and the call returns or leaves the buffer
(`CutIsNotTaken`). `IsWhole` and `QuietAssumption` say what the packets of others are:
a length field that fits, and no status. `LineAssumption` has the ids of the chain
different and below 253, as the broadcast address is not one of a servo; that every
answer fits in the eight bits of `number` follows from it. A script of a late call is
none, which is why `fresh` is a condition of the properties.

For `OverrunsHaveACause`, `LineInv` says what the buffer of the terminal holds of a line that
fits: its first tokens while it is read, all of them and a zero when it is parsed.
Then the parser finds an end of the name, an end of the arguments and no more
arguments than commas and one (`ArgsAreFew`), whatever lines before have left in the
cells behind. A ping that overruns `servoIds` is the second part of `QuietInv`: on a quiet line
there are no more ids than servos on the chain. Each step of the controller under the
terminal is one of the steps for which `QuietInv` is proved (`MachineQuiet`). So what a call
returns on a quiet line is true, and `ReturnInv` keeps it until it is shown: no line is
parsed between the return and the reply.

`PromiseKept` maps each step of the terminal to a step of `Session` or a stutter (`NextKept`).
What is typed goes through the buffer and comes back as what was meant: `LineInv` has the tokens
in their cells, `ParsedIs` and `CommandRead` the name and the mark behind it, and `ArgsComeBack`
that `ArgTokens` undoes `Comma`, for a list of any length (`Separable`: no argument is a
delimiter and the first is not empty). That is an induction over the list, done as a least
counterexample (`ListedAll`): an argument more is a comma more behind the others, and `Marks`
says where the commas are. So a line is answered with OK, an error, or values just when the user
means one of those (`LineRead`), and a setter gets the numbers that were typed. Between the
line and the reply stands the call: `AskInv` has that the call under way is the one the line
asks for, that pull has a value for each selected servo and push what was typed, and that who
answers is on the chain. `ReturnInv` has what it returns. Three of the lines of the run `machine` are
not such lines (two are too long, and a number is too wide); the others are.

For `Sharing`, `LockInv` says that a lane is inside of a scope exactly when it holds
its mutex, `OpsInv` which calls can be in which lane, `ServoInv` that while a thread is
between the search and the creation the id is not there, and `OrdersInv`
where each order of the current command is, so that the one in use is not among the
deleted ones as long as no object has been registered twice. None of the properties
is inductive without them. For the port, `ThreadInv` says that a handler
is under way only while the io thread is not joined, that this thread has an open port, and
that `stop` is past its join only when there is none, so neither `stop` nor the opening of the
port meets a handler; `QuietInv` of `SharingProofs` says that no handler is queued during a first start
before which no command was registered. `StreamInv` is the backlog of `Sharing`, where an order can
also be extracted and not sent yet: it maps each step to a step of `CommandStream`. For `Bridge`, the buffer holds what was taken from one side and
not yet given to the other (`Forwards` itself, with the types). `HostProofs` maps each
step of `Host` to a step of `Sharing` or a stutter, where `LineInv` says that what the
bridge carries to the host are ids. `TestInv` with `CountInv` says that `test-01` has
one thing under way at a time, a task, the timer, a call, a command or a run of the
slot, and that the slot has counted the commands that ended; `StateIsSettled`
follows from that count.

Only model-checked:

- liveness (`EveryCommandEnds`, `FittingCallEnds`, `EveryLineAnswered`, `TestEnds`):
  fairness and ENABLED are out of the reach of the prover;
- `PingTellsWho` and `PullTellsTruth` where there is noise on the line: what a header in the
  noise hides or takes with it depends on every byte of it; the run `controller` has an
  FF, an echo and a length that wraps before and behind the answers;
- `KeepsPromise` where answers come late, and for lines that do not fit in the buffer or have
  an argument that is no word: the run `machine` has both, and an answer shown for a later
  call as one of the values of its servo. Answers that arrive in pieces to two calls could show
  as anything, so no such theorem holds of every `Chunks`.

## Findings

- `timer_race`: `endOrder` runs for a wait that was cancelled; when `registerCommand`
  posted a handler in between, it ends the next order at once (`Service.cxx:286`).
  With the discipline of `closed_loop` this does not happen.
- `stuck_answer`: a byte of noise makes the parse return and leaves a complete answer
  in `mParseBuffer` until the next read; it then ends a later order (`Service.cxx:412`).
- `six_restarts`: every restart counts the aborted reads as errors and restarts them
  beside the new one; the sixth terminates the process (`Service.cxx:344`).
- `built_is_valid`: `Packet::isValid` of the Arduino returns -1, true, for a wrong CRC
  and 0, false, for a right one (`packet.cpp:155`).

What follows from reading the source alone has no run: `mPort` stays set when the
open fails, so the next start returns at once (`Service.cxx:66`, `:84`); the second stop
joins a thread that is joined (`Service.cxx:115`); the Arduino has the LED with two
bytes in `RegInfoTable` (`controller.cpp:29`) and the host with one (`Packet.cxx:30`), so a
push writes the byte behind it; `get` of a register of size 5 has no return
(`Servo.cxx:205`).

The properties of the other runs hold, and their wording says where the code has
a limit that its documents do not name:

- Nine answers to a ping fill 126 of the 128 bytes of the receive buffer; two bytes
  FF of the tenth make a cut header, and the pointer leaves the buffer
  (`OverrunNeedsCutHeader`, `controller.cpp:495`).
- One byte more than the buffer holds, and `receiveData` reads nothing for ever
  (`FittingCallEnds`, `controller.cpp:438`). Three pings at the terminal whose answers
  come late are enough for a buffer of 64 bytes (`EveryLineAnswered`).
- Where an int has 16 bits, the length 65529 makes a packet of no bytes, which is
  taken again and again (`ZeroPacket` in `FittingCallEnds`, `controller.cpp:483`).
- `dropRxData` forgets what was received and not what is under way: a late answer
  counts for the next call. `PingTellsWho` and `PullTellsTruth` are about calls that
  begin on a quiet line (`fresh`).
- `pull` gives 100 for an answer with neither one nor two bytes of value
  (`OddAnswer`), which can be an answer to an earlier ping.
- `start` requests the first read without a lock on the thread of the user, while the io
  thread that it has just created may write to the same port or request a read of its own:
  for a handler left from before a stop, or a command registered before `start` was over
  (`NoDataRace`, `Service.cxx:99` against `:282` and `:351`). A program that starts once and
  registers later has no race.
- A slot that registers a command waits for the mutex of its own handler for ever
  (`HoldersGoOn`, `Service.cxx:255`); registering one `Command` twice uses orders that
  are deleted (`OrderIsAlive`, `Command.h:37`).

## Not modelled

Log output, the build files, `toString`, and the commented code of `test-01` and
`Servo.cxx`. The example sketches call the controller one call after the other,
which `Sketch` has in every order. Types of the library are taken as documented: the
`io_service` is a FIFO queue for one thread, `post` and the completion of a timer
or a read append to it. Allocation failures and a slot that throws are left out.

The servo image is modelled in part. `pull`, `pullAll` and `push` register commands
without orders, and `Service` has those; `update` is called by nothing, so `mData` stays
all zero, and nothing takes from `mRequestedPush`: there is no behaviour of the image
beyond single calls on one thread.

Two hazards have no property. A second stop (`Service.cxx:115`) fails on the call
itself, and a status with a wrong CRC (`Service.cxx:455`) is used by design:
`DamageAlwaysShows` has that the CRC would tell. That `mPort` stays set after a failed open is in
`StartFails` and `StartAlreadyOpened`, and no property says that it does not happen. A short
write must still be ended (`OrderWillEnd`, `EveryCommandEnds`); nothing promises that the rest of
it is sent, and `ImplementsCommandStream` takes an order as sent that was given to `write_some`.

## What is left

All modules of the plan are written: `Service` and the packet modules first, then
`Controller`, `Machine`, and `Sharing` with `Bridge` and `Host`. Worth doing next: a proof
of `PingTellsWho` for noise without a header byte, as `NoiseTakesNoPacket` is one for the
host; of `KeepsPromise` with answers that come late and whole; the servo image once
`update` is used.
