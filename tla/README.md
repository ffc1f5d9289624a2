# st_proto_bridge in TLA+

Specifications, model-checking runs and proofs for the ROS package
`st_proto_bridge` (`src/src/st_proto_bridge`), which connects a charging robot
to a cloud server over TCP and to its vehicle control unit (VCU) over CAN.

`tlc -config X.cfg M` runs a configuration of the table below on its module;
`tlapm M_proofs.tla` checks the proofs. `PROJECT.json` maps every definition to
the source lines it models and lists runs, mutants, findings, hazards and
theorems.

## 1. Inventory

| Part | State it keeps | Operations | Interacts with |
| --- | --- | --- | --- |
| `TcpClient` | `sockFd_`, `state_`, `running_`, `sendQueue_` + `sendMutex_`, `recvBuf_` | `ioLoop` (own thread), `tryConnect`, `receiveAndParse`, `parseFrame`, `send`, `start`, `stop`, `notifyState` | two callbacks into the node, from whichever thread runs it; the kernel |
| `ProtocolParsingNode` (session) | `loggedIn_`, `loginTime_`, `lastHbSent_`, `lastHbRecv_`, heartbeat interval | state callback (login), frame callback (login answer, heartbeats), `processTimers`, `spin`, destructor | `TcpClient`, both threads |
| `ProtocolParsingNode` (business) | `currentTaskId_`, `msgIdCounter_` | dispatch on `cmd`, publish, acknowledge; five topics upwards | ROS topics, `TcpClient::send` |
| `ProtocolCodec` | key and IV | pack/unpack frames, checksum, AES, login bodies | called by the node and the parser |
| `CanBridgeNode` | last decoded frames, caches of reported faults, task flags, command registers, VCU time stamps | frame handlers, timers, topic handlers | SocketCAN; topics to and from `ProtocolParsingNode` |
| `CanCodec` | none | encode and decode CAN frames | `CanBridgeNode` |
| `PathBridge` | the path last forwarded | `onPath` | meant to feed `onLocalPath`; the topics' names differ |
| `ChargerCover` | transaction counter | `onCoverCmd`: one blocking Modbus request, result published | the cover's controller |
| `JsonHelper` | none | JSON to records and back | called by both nodes |

What is hard here:

* **Two threads without a common lock.** `sockFd_` is a plain `int` that both
  threads close and set to -1; `state_`, `loggedIn_` and the time stamps are
  separate variables that the callbacks of one thread set in some order while
  `processTimers` of the other reads them. `sendMutex_` protects only the queue
  and is held during a callback into the node.
* **A byte stream.** Short writes, `EAGAIN`, reconnections with chunks still
  queued; received frames cut anywhere.
* **Time-outs and retries.** Login time-out, heartbeat time-out, reconnection
  pause, each racing the event that makes it moot; a heartbeat interval that
  the other side chooses and the code multiplies in an `int`.
* **Reports by difference.** The CAN bridge reports faults, and the path bridge
  forwards paths, only when they change. Each keeps a cache of what it said
  last, in front of a session that may drop it.
* **Commands from several topics into shared registers**, sent by timers, with
  an offset and 16-bit words in between; bounded queues that lose the oldest
  message; a task number that two nodes keep.
* **A blocking callback.** The cover's node handles one command at a time, for
  up to ten seconds, while others wait in a queue; the controller may act on a
  request after the node has given it up.

What makes each part correct:

* `TcpClient`: the lock is held exactly in its section; a frame once begun on a
  connection is completed before anything else; what could not be written stays
  queued; `stop()` returns and leaves nothing running; every way of cutting the
  received stream gives the same frames.
* session: a connection is logged in, or is dropped; a silent server is
  noticed, a live one is kept; time-outs fire only when their time is over;
  `loggedIn_` speaks of the present connection; login comes first. (The code
  does not keep all of this: section 3.)
* codecs: a message is read as it was packed, for every length of its text; the
  words and bits on the bus are those of the last command.
* `CanBridgeNode`: each change of the faults is reported once; a lasting fault
  is reported; the task state says what is the case; an emergency stop gets
  onto the bus.
* `ChargerCover`: a success means that the cover was moved; no failure leaks a
  descriptor; the newest command is answered.
* the nodes together: in a session that lasts, the server ends up with the
  faults there are; what the path bridge passes on does not fall behind the
  planner; both nodes mean the same task; a stop that was published reaches the
  bus.

## 2. Modules

| Module | Models | Notes |
| --- | --- | --- |
| `TcpClient` | `tcp_client.cpp`, and the kernel's side of a connection | actions parameterised by the thread; no `Next` of its own, its owner composes it |
| `ProtocolParsingNode` | the session part of `protocol_parsing_node.cpp`, extends `TcpClient` | `Init`, `Next`, `Spec`, `FairSpec`, properties of both |
| `Heartbeat` | `processTimers` and the login answer with a clock | `Spec`; the same code as in `ProtocolParsingNode`, with times and numbers instead of threads in the client |
| `FrameCodec` | frame layout of `protocol_codec.cpp` and `types.h` | bytes below `Base` |
| `FrameChannel` | abstract: every frame sent is delivered, once, in order | what the receiving side promises |
| `FrameParser` | `parseFrame`, `receiveAndParse` byte by byte | refines `FrameChannel` |
| `MessageCodec` | what is in the frames: login, padding, encryption, `onFrameReceived` | extends `FrameParser`: messages in, messages out |
| `CanCodec` | fault codes, the frames 0x200 and 0x201 | no state |
| `CanBridgeNode` | handlers and timers of `can_bridge_node.cpp` | `Init`, `Next`, `Spec`, `FairSpec` |
| `PathBridge` | `path_bridge_node.cpp` | `PathSpec` |
| `BusinessRouting` | commands and reports of `protocol_parsing_node.cpp`, the topics between the nodes, JSON numbers | composes `CanBridgeNode`, `PathBridge` and an abstract session |
| `ChargerCover` | `charger_cover_node.cpp` and the controller | stands alone, as the node does |
| `MC...` | small constants for TLC | |
| `..._proofs` | theorems | |

### TcpClient and ProtocolParsingNode

The two threads are `"io"` (started by `start()`) and `"main"` (spin, topic
callbacks, timers, `stop()`). Each has a label `pc[t]` and, because `send` and
`notifyState` are called from several places, a record `local[t]` with the
argument and the return label of each. **A step is the code between two
accesses to something the other thread may touch**: `close(sockFd_)` and
`sockFd_ = -1` are two steps (`SendClose`, `SendUnset`; `IoClose`, `IoUnset`),
as are the test in line 92 of `send` and the `::send` of line 100, and
`loggedIn_ = true` and the time stamps after it (`HandleLoginOk`,
`LoginTimes`). In `StopClose` the two are one step, because the io thread has
been joined then.

`conn[f]` is the kernel's and the server's view of descriptor `f`: the TCP
state, where the written byte stream stops (`pos`), what the server made of
the login (`srv`), the frames to be read (`rx`). `socket()` returns the lowest
free descriptor, so that a late `close` may hit a new connection. Writing to a
connection closed by the peer's FIN succeeds; to one that was reset it fails;
both may happen at any time. A connect may fail at once, after `select()`
(`ConnectLateError`: the code does not read `SO_ERROR`, so it goes on as if
connected), or time out. The library calls and the server are marked external
in the map.

A queued chunk is its kind and whether it is whole or the rest of a frame; the
bytes of frames are the subject of `FrameParser`, so that here a receive buffer
holds whole frames, plus `"corrupt"` ones, which end the parse loop.

Time: `loginTime_` and `lastHbRecv_` are "recent" or "old" with respect to their
limit; a stamp never taken is `ros::Time(0)`, so "old". `LoginTimeElapses` and
`HbTimeoutElapses` may happen at any time at which their test can matter (this
saves states that no test could tell apart). Whether a heartbeat is due is left
open at every tick.

### Heartbeat

The other half of the same code: the client is reduced to what a tick sees of
it, and time stamps become ages. `heartbeatMs_` is the server's unsigned number
converted to an `int` of `2 * Half` values, `Timeout` is three times that in the
same width, `heartbeatInterval_` is the copy that is set only by a login answer.
The io thread may stand between any two assignments of `handleLoginResponse`
while `ProcessTimers` runs. A live server answers a heartbeat within `Delay`,
and `processTimers` runs at least every `Period`; `Elapse` keeps these
deadlines. `silence` is a history variable: the time since anything was heard.
A `SendHeartbeat` that finds a dead connection is one that the kernel takes
without an error.

### FrameParser and MessageCodec

A behaviour begins with one stream of frames and stray bytes and receives it in
pieces of any size up to `MaxRead`; `ParseFrame` is the function of
`tcp_client.cpp:209-244` on sequences of bytes, the 32-bit length arithmetic
included (`TotalLen`, modulo `Base^4`). The refinement maps `FrameChannel`'s
`queue` to the frames of the stream not delivered yet.

`MessageCodec` says what those frames are: `Body` and `MsgType` pack a message,
`Read` is what `onFrameReceived` (or the server, of a login request) makes of
the frame that the parser delivers: type bits, the encryption bit, deciphering,
padding, big-endian numbers, and what is dropped. The cipher is a pair of
constants, assumed inverse on the padded texts and to keep the length. `Message`
says what there is to be sent: 32-bit numbers, and a unique name of at most 255
bytes, because `packLoginRequest` refuses a longer one.

### CanBridgeNode

One thread runs all callbacks and then the received frames, so each handler is
one action. Decoded frames are kept as what handlers read of them: all bits of
the flag frame, of which any change triggers a report (line 233), while
`CanCodec` says which are faults and with which code; charge state, gun and
alarm of the BMS frame; the motor bitmaps; of the five status frames only that
they came, because the status is held back until all have. `silent` holds the
frames whose time stamp is older than their time-out; `CheckVcuTimeout` sets
`vcuOnline_` from it, which nothing reads.

The light number of a command is any integer; `LightBytes` is what its cast to a
byte (line 544) can give. Outside a byte the cast of a `double` is undefined, and
the model allows what x86 and ARM make of it.

The registers `currentCtrlCmd_` and `currentMotionCmd_` are written by topic
handlers and sent by `SendControlFrame` (byte 0 of 0x200) and `SendMotionFrame`
(speed words and heartbeat of 0x201). `sampled` (what the last look at the
faults found) and `intent` (what the last movement command asked for) are
history variables for the properties.

A `world`, chosen in `Init` and never changed, selects the inputs of a
behaviour: which frames the VCU sends and which kinds of command come. The
handlers fall into groups that touch different variables, and one run with
several small worlds covers them without the product of all.

### PathBridge, BusinessRouting

`BusinessRouting` extends both bridges and adds what lies between them and the
server. `topics[t]` is the queue of a topic between two nodes; a full one loses
its oldest message. `handleJsonBusiness` is three steps of the io thread,
`ReceiveCommand` (which sets `currentTaskId_` of the node, `nodeTaskId`),
`PublishCommand` and `AnswerCommand`, because the CAN bridge runs in a process
of its own meanwhile. `Deliver...` are that node's callbacks: they call the
actions of `CanBridgeNode`, as `CanStep` does, and `Uplink` publishes what came
of it. `ToInt` is what the JSON library makes of a task number where the code
reads it as an `int`; the CAN bridge keeps all 64 bits.

The session is reduced to `loggedIn` (`loggedIn_`) and `linkUp` (the server has
accepted the login and gets what is sent). Logging in, a connection that dies
unnoticed and an end of the session are single steps here; a login that the
server accepts while `loggedIn_` is still set from before is allowed, since
`session_logged_in` below shows that it happens. `told` is a history variable:
the topics whose last message was published in the session that still lasts.
`stopAsked` is another: the last emergency command published was a stop, and it
has not been pushed out of the queue by commands of other kinds.

The path bridge publishes on `~output_path`, the node hears `local_path`, and
nothing in the repository connects the two. So `PathStep` puts its path into no
queue, and what the node hears comes from outside the package
(`LocalPathArrives`). The paths of the path bridge itself come from outside as
well (`Planned`).

### ChargerCover

`phase` is the blocking call in which `setCover` stands; each of `socket`,
`connect`, `send` and `recv` may fail, on a path of its own to `close` and
`publishResult`. The controller (`Gateway`) carries out or refuses a request in
its own time, also after the node has given up; its answer only reaches a
connection that is still open, and may be short (an exception, or two
segments).

## 3. Runs

Properties are stated, with what they mean in the code, next to their
definitions.

| Run | Shows | Bounds |
| --- | --- | --- |
| `session_safety` | `TypeOK`, `MutexSafe`, `FramesContiguous`, `LoginNotLost`, `LoginAnswerIsOurs`, `StopQuiesces` | two descriptors: one can be leaked or re-used while the other lives; every kind of frame; a login answer may come in one `recv()` behind a damaged frame and stay in `recvBuf_`; faults while at most one chunk is queued |
| `session_liveness` | `StopReturns`, `LoginWaitEnds`, `SilenceNoticed` | one descriptor; short writes, `EAGAIN` and failures while at most one chunk is queued |
| `heartbeat` | `TypeOK`, `SilenceBounded`, `LiveSessionKept` | ints of -16..15; intervals 0 and 2 (too short), 3 (the shortest sane one), 4, 6 (overflows when tripled), 20 (negative as an int) |
| `parser` | `ImplementsChannel`, `AllDelivered`, `NoFrameLeftBehind`, `MessagesIntact` | bytes below 32; all streams of two frames with stray bytes, and of three without; bodies and checksums that contain the preamble; texts of a whole block and texts that look padded |
| `can` | `TypeOK`, `ServerKnowsFaults`, `ReportsExactlyChanges`, `FaultEventuallyReported`, `StatusFlows`, `FinishedReported`, `SentIsAsked`, `HeartbeatCounts`, `ControlBitsAsked`, `EmergencyStopSent` | five worlds: faults (a flag, a motor code, an alarm: the code treats codes of one source alike), tasks (flag and BMS frames with every value the task state reads), motion (rest, driving, the largest speed that fits with the offset, the one above it, and speeds past 16 bits on both sides), control (light numbers inside two bits, inside a byte and outside it), status |
| `business` | `SystemTypeOK`, `FaultsReachServer`, `TaskNumbersAgree`, `NoDrift`, `StopReachesBus` | queues of two; eight worlds: emergency stops, revocations and light commands that push them out of the queue, the other control commands, driving, tasks (one number fits the int, one does not, one is missing), task control, faults, paths (a line moved in steps below the threshold), paths on `local_path` |
| `cover` | `CoverTypeOK`, `SuccessMeansActed`, `NoSocketLeft`, `NoCommandLost`, `NewestIsAnswered` | four commands for a queue of two, with and without `dry_run` |

`MaxQueue` does not cut the queue off: it only bounds when the *network* may
fail and when the node has something new to send; a step the program owes is
never withheld. With one chunk left over from a
broken connection and the login behind it, every relation between two
neighbouring chunks occurs; more of them repeat it. `Bursts` are the sequences
of frames that may wait unread on a connection. In `heartbeat`, ages stop at
`Oldest`, beyond every time-out. In `business` a queue of two overflows, keeps a message and loses one,
which is all that the size can do to what is stated; the proofs hold for any
size. `TidModulus` lets the transaction number of the cover wrap.

Every property of a passing run has a mutant in `PROJECT.json`: a plausible
mistake in one definition, defined beside it under a comment "Fault: ...",
with which TLC finds the property violated.

### Statements of the sources that the code does not keep

These runs end in a counterexample; the finding quotes the statement.

| Run | The trace |
| --- | --- |
| `session_first_bytes` | the login request is written in part, the server closes the connection, and the rest of that request is the first thing on the next one, before its own login |
| `session_logged_in` | `send()` of the main thread sets `sockFd_ = -1`; the io thread reconnects; only then does the main thread publish DISCONNECTED. From then on `state_` is wrong, the next loss of the connection is no change of it, and `loggedIn_` outlives it |
| `session_login_timeout` | a tick falls between `state_ = CONNECTED` and `loginTime_ = now` |
| `parser_damaged` | a checksum failure ends the parse loop with an intact frame behind the damaged one |
| `can_offline` | one flag frame, a timed frame overdue, `vcuOnline_` false: reported as "idle" |

Some properties of the passing runs hold only as far as they say:

* `LoginWaitEnds` speaks of `state_`: while it is CONNECTED without a login, the
  time-out is at work, also with a login stuck in the queue. Of the connection
  itself the code gives no such promise. The late DISCONNECTED of
  `session_logged_in` may come while the io thread is in its CONNECTED callback:
  the connection lives, its login goes out, and if that is not answered,
  `processTimers` finds `state_` DISCONNECTED at every tick and never times it
  out.
* `SentIsAsked` holds up to 27767 milli-units on each axis. `toRaw` lets 32767
  through, and 27768 goes out as the word 32768, which reads as -37768.

More were met on the way and are noted under "hazards", because reading
the lines shows them as well as a run would. Among them: the same window as in
`session_login_timeout` between `loggedIn_ = true` and `lastHbRecv_ = now`; no
pause before `socket()` after a connection was lost, or refused behind
`select()`; "navigating" with task 0 after a resume without a task; reports by
difference that a later session never gets; the path bridge, whose paths are
published on a topic that no node subscribes to (section 6).

## 4. Fairness

* `WF(IoStep)`, `WF(MainStep)`: both threads are scheduled. All their calls
  return: sockets are non-blocking, `select` and sleeps have time-outs.
* `SF(SpinOnceReturns)`: `ros::spinOnce()` calls the callbacks queued when it
  began and returns; without it the model could publish reports for ever
  inside one `spinOnce`.
* `WF` on the two passages of time: clocks advance.
* `std::mutex` is not fair, and no fairness is assumed of it: under a flood of
  commands the acknowledgements of the io thread can keep the main thread
  waiting. `session_liveness` therefore has frames that are answered by nothing
  (login and heartbeat answers); a run with commands finds the starvation.
* Nothing is assumed of the network or the server: they may never answer.
  `SendError`, `SendWouldBlock` and the rest are choices within `IoStep` or
  `MainStep`.
* CAN bridge: `WF` on each `ros::Timer`, since the node spins; frames and
  commands owe nothing.
* `BusinessRouting`: `WF` on the steps by which the io thread finishes a
  command it has begun, on each topic callback of the spinning nodes, and on
  the control timer. Sessions and commands owe nothing: `StopReachesBus` holds
  although the connection may be lost for ever once the command has come. It is
  owed for each stop anew. A stop may be revoked, or be pushed out by commands of
  other kinds; a stop that pushes out an older one takes its place, and that can
  only go on while emergency commands fall out of the queue again and again, the
  one behaviour the property excepts (`[]<><<EmergencyLost>>_systemVars`).
* `ChargerCover`: `WF(NodeStep)`: `connect`, `send` and `recv` have time-outs
  (`SO_SNDTIMEO`, `SO_RCVTIMEO`), so the callback ends whatever the controller
  does; of the controller nothing is assumed.
* Parser: the io thread goes on polling and what was sent arrives.
* `Heartbeat` has no liveness: its deadlines are guards of `Elapse`, and "is
  noticed" becomes a bound on `silence`.

Deadlock is checked in all runs but those of the parser and the cover, whose
inputs are finite. A destroyed node stutters by an explicit action
(`Terminated`).

## 5. Proofs

TLAPS checks these for all values of the constants under their `ASSUME`s
(bytes are below any `Base` of at least two, the message types need 32 and a
multiple of four; descriptors are a finite set of positive numbers; task numbers are positive;
walk speeds lie within 16 bits, as the declaration of those parameters and the
defaults have it; commands are of the kinds the dispatch knows; queue sizes are
positive).

`ProtocolParsingNode_proofs`:

* `TypeCorrect`: `Spec => []TypeOK`.
* `MutualExclusion`: `Spec => []MutexSafe`.
* `StopIsClean`: `Spec => []StopQuiesces`.
* `NobodyWaitsInACircle`: no circle of waits between the two threads, on
  `sendMutex_` and on the join of `stop()`, a thread waiting for itself
  included: the callback that `send` makes under the lock could call `send`.

None is inductive alone. The invariant is `IInv`, with three parts:

* `TypeOK`;
* `ControlInv`: each thread is at a label of its own code or inside `send` or
  `notifyState`, and then its return labels are ones its callers pass
  (`CallOK`). This is what makes "inside the locked part" follow the thread
  through the callback that `send` makes with the lock held. `QueueHeld`, that
  the chunk being popped or trimmed is still there, depends on the lock in turn
  and is needed for the type of the queue;
* `StopInv`: from the join to the end of `stop()` the io thread is dead, the
  descriptor unset, and the state about to be DISCONNECTED. It is needed for
  `ControlInv` as well: `Start` makes a new thread, which would overwrite one
  inside its locked part if an old one could still be alive.

The step from `IInv` to `IInv'` has one lemma per group of actions (`send`,
notification, io loop, node, main) and part.

* `AcceptanceIsOurs`: `Spec => []LoginAnswerIsOurs`, with the invariant
  `AnswerInv` relative to `IInv`. An acceptance lies only in the unread frames
  of a connection whose server sent it, and `recvBuf_` holds one only if the
  server of the live connection did. The exception is `BeforeClear`: from the
  new connection to `recvBuf_.clear()`, through the state callback and the login
  it sends, the buffer may still hold what the last connection left. The io
  thread parses nothing in between, which is why clearing that late is enough.

`FramesContiguous_proofs`:

* `NothingInBetween`: `Spec => []FramesContiguous`, with the invariant
  `StreamInv` relative to `IInv`. Only the head of the queue may be the rest of
  a frame; a descriptor that is closed or not connected carries nothing; and
  the stream of the connection in use stops where the head of the queue goes
  on, except while the holder of `sendMutex_` is between `::send` and the pop
  or trim of the head. Without the last part a step that writes could follow a
  half-written frame with anything. The mutual exclusion of `IInv` is what
  keeps the head in place in between.
* `LoginReachesServer`: `Spec => []LoginNotLost`, with `LoginInv` relative to
  `StreamInv`: unless the io thread has yet to queue it, a live connection whose
  server has not seen a login request has one in the queue, either whole, or as
  the rest of the one in which its stream stops. `CallbackInv` is needed first:
  `tryConnect` never finds `state_` CONNECTED already, so CONNECTED is always a
  change and `notifyState` does call the callback that logs in.

`Heartbeat_proofs`:

* `TypeCorrect`: `Spec => []TypeOK`. The two copies of the interval stay ints
  whatever the server sends.
* `SilenceNoticed`: `Spec => []SilenceBounded`. While logged in and outside
  `handleLoginResponse`, `recvAge` is the silence, and the last tick found it
  within the time-out; at most `Period` has passed since.
* `SessionKept`: `Spec => LiveSessionKept`, from an invariant on ages: with a
  sane interval either a heartbeat is under way and will be answered in time,
  or the next one is due early enough, so that no tick sees `recvAge` beyond
  three intervals. `Sane` (the interval is at least half of `Period + Delay`,
  and its triple is an int) is what the code needs and does not check.

`FrameParser_proofs`, for every number of frames of every length, every way to
cut the stream and every `Base`:

* `ParserImplementsChannel`: `Spec => ImplementsChannel`, the refinement of
  `FrameChannel`.
* `NoneIsLeftBehind`: `Spec => []NoFrameLeftBehind`.
* `NoneIsMissing` and `EveryStepCounts`: once all bytes are received and the
  loop has ended, all frames were delivered; and every step makes the natural
  number `Left` smaller (bytes on the wire count three, bytes in the buffer one,
  a running loop one). `AllDelivered` follows from the two with weak fairness,
  which is the step TLAPS cannot make.
* `OneWrongByteIsRefused`: a frame with one wrong byte is not taken for a frame,
  unless that byte is the preamble or of the length. It rests on `OneByteOff`:
  the checksum notices every change of one byte.

The first four hold under `IntactStreams`: stray bytes between frames do not
contain the preamble, checksums are right, and header, body and checksum
together are less than 2^32 bytes long. Each part is needed: a stray preamble or
a damaged frame makes the parser wait for bytes that do not come, or skip a
frame (`parser_damaged`), and a longer body makes the 32-bit `totalLen` wrap
(`tcp_client.cpp:228`). The streams of the `parser` run satisfy it.

The invariant is `ParserInv`, whose core is `Place`: what was consumed ends
within the stray bytes before the next frame to be delivered, or at that frame,
the buffer and the wire together hold exactly the rest of the stream, and when
the loop does not run the next frame is not whole yet. That `parseFrame` keeps
it is `ParseStray`, `ParsePart` and `ParseWhole`: what it makes of a buffer that
ends before, within, or behind the next frame. `FourBytes` (big-endian there and
back) and `LengthRead` give the length; `StreamShape` says where the items of a
stream end.

Streams and checksums are folds over sequences. The induction theorems of the
library take an operator as a parameter, which these provers cannot instantiate;
`Induction` here is stated over a *set* of numbers and follows from
`NatLessThanWellFounded` and `WFMin`. With it `Flattened` and `Summed` unroll
`FlattenSeq` and `FoldLeft` into their partial results, and nothing about a fold
is assumed.

`MessageCodec_proofs`:

* `PaddingComesOff`: `Unpad(Pad(s)) = s`, and padded texts pass the checks of
  `pkcs5Unpad`.
* `BusinessReadBack`, `EveryMessageReadBack`: a business message, and every
  message, is read from its frame as it was packed. `CipherAssumption` is all
  that is used of AES; `TypeAssumption` says that a byte has room for the type
  and its two bits.
* `MessagesComeIntact`: `Spec => []MessagesIntact` under `IntactStreams`, from
  `ParserInv` (a delivered frame is the content of the frame sent) and the
  former.

`CanBridgeNode_proofs`:

* `TypeCorrect`, `FaultsKnown`, `FaultReporting`: the last two from the
  invariant that the caches hold what the last look found.
* `SpeedsArrive`: `Spec => SentIsAsked`, without an assumption on the commands:
  an axis that is asked for at most 27767 milli-units gets what it asked for,
  whatever the other axis and the commands before were. The lemma
  `SpeedRoundTrip` shows that up to there offset and width lose nothing; above,
  they do.
* `HeartbeatGoesOn`: `Spec => HeartbeatCounts`, from the invariant that the
  register holds the heartbeat of the last frame.
* `ControlFrameExact`: `Spec => ControlBitsAsked`, for every integer as a light
  number.
* `CodesTellFaultsApart`: different faults have different codes, so that a
  change of the bits is a change of the report.

`ChargerCover_proofs`:

* `SuccessIsTrue`, `SocketsAreClosed`: `CoverSpec => []SuccessMeansActed` and
  `[]NoSocketLeft`. The first needs `ReplyIsOurs`: a good answer in the buffer of
  the open connection is about the command being handled, because answers of the
  controller to earlier requests went to connections that are closed.
* `TypeCorrect`: `CoverSpec => []CoverTypeOK`; that the number of descriptors
  stays natural needs `NoSocketLeft`.
* `CommandsAreKept`: `CoverSpec => NoCommandLost`, from the invariant `Numbered`:
  the queue holds the commands sent last, in order, so that the one it drops has
  `QueueSize` newer ones behind it. It is the safety half of `NewestIsAnswered`.

`BusinessRouting_proofs`:

* `PathsDoNotDrift`: `PathSpec => []NoDrift`, from `lastPath = pathOut`.
* `SystemTypes`: `SystemSpec => []SystemTypeOK`.
* `CanBridgeInside`, `PathBridgeInside`: the composition implements `Spec` and
  `PathSpec`; every step of it is one of the part or leaves its variables
  alone. So the theorems of the parts hold in the composition and are used
  there.
* `FaultsArrive`: `SystemSpec => []FaultsReachServer`, by `FaultChain`: in the
  session of the last report, the newest message of the queue, or if it is empty
  the server, has the last report; `FaultsKnown` of the CAN bridge does the
  rest.
* `TasksAgree`: `SystemSpec => []TaskNumbersAgree`, by `TaskChain`: the node's
  number is that of the newest task in the queue, or of the CAN bridge's task
  if the queue is empty. The queue drops its oldest message, never the newest,
  which is what saves it.

### Model-checked only

Every invariant and every safety property of the passing runs is the subject of
a theorem. What remains is liveness, because TLAPS cannot reason from fairness:
`StopReturns`, `LoginWaitEnds`, `SilenceNoticed`, `AllDelivered`,
`FaultEventuallyReported`, `StatusFlows`, `FinishedReported`,
`EmergencyStopSent`, `StopReachesBus`, `NewestIsAnswered`. Of these
`AllDelivered` is proved up to the fairness step (`NoneIsMissing`,
`EveryStepCounts`), of `StopReturns` and `NewestIsAnswered` the safety half
(`NobodyWaitsInACircle`, `CommandsAreKept`).

## 6. Abstractions to keep in mind

* The layout of JSON texts is not modelled, only what the parse functions make
  of numbers and missing fields. AES is any bijection that keeps the length. In
  the session a login request is answered or not whatever its body.
* A read or write of `sockFd_` is atomic. As `int` without synchronisation it
  is formally a data race; the model takes the interleavings of whole reads
  and writes. `FD_SET(-1)` in the same race is taken as a failed connect.
* `ros::Duration` arithmetic is exact and the clock does not go back.
* In `ProtocolParsingNode` whether a heartbeat is due, and whether its time-out
  is over, is left open; `Heartbeat` has the arithmetic.
* `write()` on the CAN socket succeeds: `sendCanFrame` ignores its result, and
  a lost frame is made good by the next one of the timer. `ctrlOut` and
  `motionOut` are what was written.
* In `BusinessRouting` what is sent in a session arrives; the delays and
  reorderings of the send queue are the subject of `TcpClient`. All nodes are
  up. `robot_status` and `task_state` are repeated every second and have no
  queue. `battery_level_down`, `raw_down`, unknown and malformed commands change
  no state. Task numbers of the server are not zero; zero stands for a command
  without one.
* Points of a path are integers in the unit of the threshold.
* The path bridge subscribes to `~input_path` and publishes on `~output_path`
  (`path_bridge_node.cpp:25` and `:29`); its parameters `input_path_topic` and
  `output_path_topic` are only logged, and no launch file of the repository
  remaps the two. The header comment (`:10`) and the one at `:28` have it that
  `protocol_parsing_node` hears what is passed on; as the repository is, nobody
  does, and the models have it as it is. A launch from outside could connect
  the two.
* The undefined cast of a light number outside a byte gives a byte (`LightBytes`).
* Bytes are below 32 and blocks two bytes long in the parser's run.

## 7. Not modelled

* The texts of `JsonHelper`: pure conversions over a library; `extractCmd` and
  `validate` have no caller.
* The decoders of the status frames: their numbers only go into the status
  message.
* Start-up failures of SocketCAN, parameters, launch files, `main.cpp`: no
  behaviour after the start. The uuid of the login is such a parameter:
  `packLoginRequest` throws for one longer than 255 bytes, in the callback of
  the io thread.
* `onSendJsonService` only reads `loggedIn_` and sends; it is one more caller of
  `send` on the main thread, like the topic callbacks.
* `build/` and `devel/` are generated.

## 8. Possible extensions

* An abstract session (disconnected, connected, logged in) that `BusinessRouting`
  could be composed with by refinement. The findings `session_logged_in` and
  `session_first_bytes` show how little of the usual one this code implements;
  `BusinessRouting` therefore lets `loggedIn` and `linkUp` change in every way
  that was found.
* `SilenceNoticed` under a fair lock, with commands coming in.
* What a later session makes of reports by difference: a statement of the
  sources to compare with is missing.
