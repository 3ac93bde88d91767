# Verification of microfuse

`microfuse` gives programs on a host access to a MicroPython device: its file
system as a FUSE mount, its console, and MQTT. This directory holds TLA+
models of the code in `src/`, the TLC configurations that check them, and
proofs that TLAPS checks.

## 1. The system

```
 FUSE kernel --> Operations --> Link ==unix socket==> Stream -+
 mpy-cmd     ----------------> Link ==unix socket==> Stream -+-> Multiplexer ==TCP==> UFuseClient --> UFuse
 terminal    ------------------------- unix socket --> REPL -+        |                                file system,
                                          watchdog: ChatObj -+        +-- MQTT broker                  console, publish
```

| component | state | operations | talks to |
|---|---|---|---|
| `Link` (`microfuse/link.py`) | `seq`, `waiting`, `_send_lock`, the socket | `send`, `_reader`, `_cmd_r`, `_cmd_e`, `aclose`, `ping` | the multiplexer, over a Unix socket |
| `Multiplexer`, `Stream`, `ChatObj` (`microfuse/multiplex.py`) | `streams`, `mseq`, `next_mid`, `next_stream`, `_send_lock`, the TCP socket | accept, read and submit, `send`, `_reader` with `cmd_r`/`cmd_e`, `_watchdog`, `chat` | Links, device |
| `REPL` (`multiplex.py`) | `repls`, a queue of 5 chunks per REPL | `run`, `send`, `close`, `cmd_c`, `cmd_cx` | a terminal, the device's console |
| MQTT bridge (`multiplex.py`) | `subs`, `next_sub`, one task per subscription | `subscribed_mqtt`, `cmd_m`, `cmd_ms`, `cmd_mu` | broker, device |
| `UFuseClient` (`embedded/ufuse.py`) | `_sched`, unpacker, socket | `_sched_read`, `_read`, `_process`, `send` | the multiplexer, over TCP |
| `UFuse` files | `_fd_cache`, `_fd_last` | `cmd_f*` | the device's file system |
| `UFuse` console, messaging, connections | `cons_buf`, `_repl_nr`, `subs`, `clients` | `cmd_c*`, `cmd_m*`, `publish`, `subscribe`, `_accept`, `opened`, `closed` | dupterm, application code |
| `Operations` (`microfuse/fuse.py`) | inode and path maps, open files, open directories | the FUSE operations | kernel, Link |
| `Scheduler` (`embedded/sched.py`), `UPin` (`examples/upin.py`) | the heap of events, the timer, `_running`; a pin's `_sched`, `_dly`, `on` | `enter`, `cancel`, `_run` | MicroPython's timer and scheduler |
| `Packer`, `Unpacker` (`embedded/msgpack.py`) | buffers | `pack`, `read`, iteration | sockets |
| `Miniterm` (`microfuse/term.py`) | reader and writer threads | `start`, `stop`, `change_port` | the REPL socket |
| `scripts/` | none of their own | `mpy-link`, `mpy-cmd`, `mpy-setup` | all of the above |

What makes the code hard to get right:

- **Three address spaces on one path.** A Link numbers its calls, the
  multiplexer renumbers them, and the device answers by the second number. The
  answer travels back through `mseq` and through the id of a stream, both of
  which may have gone stale when it arrives.
- **Cancellation.** Link.send can be cancelled at each of its awaits (the lock,
  the socket, the event). Nothing tells the multiplexer or the device; the answer
  still comes.
- **One reader per connection.** An exception in a reader ends it: the device's
  keeps its connection open and never reads again, a Link's ends the client, the
  multiplexer's ends the program.
- **Handlers of the file system are concurrent tasks** on shared maps, with an
  await inside nearly every one of them; the paths they work on can be renamed or
  deleted meanwhile by another handler, or by programs on the device.
- **Nothing is persistent.** Recovery from a crash is a restart by the service
  manager and a new connection; there is no journal and no retry of a request.

For each part, what makes it correct:

| part | it is correct when |
|---|---|
| request path | a call gets its own answer or an exception, never another's; requests run in order and at most once; nothing stays in the tables for ever; a dead device or connection ends every call |
| file system | the maps are inverse to each other and to the device's descriptors; an inode never comes to mean another file; an entry handed to the kernel resolves to the path it asked for; listings are complete; each request ends |
| REPL and console | output reaches every terminal in order; the device knows whether it is the terminal; a cx ends every session |
| messaging | a message goes to the callback it belongs to, once; both ends agree on the numbers when nothing is under way, and come to agree |
| connections | one connection at a time is the client, and none is left open that nobody will close |
| scheduler | every event runs, in time, and none that has been cancelled; a pin never goes deaf |
| message stream | a stream cut anywhere yields each message once, in order |

## 2. The modules

| module | what it is |
|---|---|
| `Wire` | requests and replies, and the channels between the three programs |
| `Link` | `Link` of `link.py` |
| `Multiplexer` | `Stream`, `ChatObj` and the request side of `Multiplexer` of `multiplex.py` |
| `UFuseClient` | `UFuseClient` of `ufuse.py`, running commands of any outcome |
| `RequestPath` | the composition of the three, its properties, and its refinement of `Rpc` |
| `Rpc` | abstract: what a client may rely on |
| `RequestPathInv` | the inductive invariants `IInv` and `OInv` of the request path |
| `RequestPath_proofs`, `RequestOrder_proofs`, `RpcRefinement_proofs` | the proofs: answers and numbers, order and the table `mseq`, the refinement of `Rpc` |
| `DeviceFS` | the file commands of `UFuse` and the file system below them |
| `FuseOps` | `Operations` of `fuse.py`, the kernel above it, `DeviceFS` below it |
| `FuseInv`, `FuseOps_proofs` | the inductive invariants (inodes, waiting handlers, descriptors, directory handles) and the proofs |
| `Scheduler` | `Scheduler` of `sched.py`, with the timer, the clock and `schedule()` below it |
| `UPin` | `UPin` of `upin.py` on top of it: interrupts, callbacks and the main program |
| `UPinInv` | the invariant behind the bound on the events' lateness: who will run an event, and when |
| `UPin_proofs` | the proofs about the three |
| `PubSub` | the connections and subscriptions of `UFuse`, multiplexers that come and go, their tasks, the broker |
| `Console` | the console of `UFuse`, the REPL sessions of `multiplex.py`, the terminals |
| `PubSubInv` | the inductive invariants of the subscriptions and of the messages that are delivered |
| `PubSub_proofs`, `Console_proofs` | the proofs about `PubSub` and `Console` |
| `MsgPack` | the encoding and decoding of `msgpack.py` |
| `MsgStream` | `Packer` and `Unpacker` with their buffers, on a stream of bytes, for any codec |
| `MsgStream_proofs` | the proofs about it |
| `MCRequestPath`, `MCFuseOps`, `MCUPin`, `MCPubSub`, `MCConsole`, `MCMsgStream` | instances for TLC |

The modules meet at the connection. `RequestPath`, `PubSub` and `Console` each look at some kinds of
messages on it and take from the others what they establish: messages arrive whole and in order
(`MsgStream`), a message that raises stops the device's reader (`UFuseClient`), one connection at a time is the
client (`PubSub`).

### 2.1 The request path

State. Each Link keeps `seq` and `waiting` (a function from numbers to `Event` or
the answer that has replaced it), as in the code; `call` is the request its caller
is awaiting. The multiplexer keeps `next_mid`, `mseq`, `next_stream` and `streams`
as in the code, the queue for its send lock (`sendq`: anyio's lock is fair, so the
queue is the order of the waiting tasks), what its reader is about to deliver
(`reply`), and the watchdog's chat. The device keeps `_sched`, the messages its
unpacker holds, and the request it is running. `done` is a history variable: what
the device ran, by peer. The ghost field `d` of a message says which request it is
about; no action of the program reads it to make a decision.

Steps. A step is what one task does between two awaits (host), or one callback of
MicroPython. `Send` is `Link.send` up to the await of its event, `Return` and
`Abort` the two ways it ends; `LinkReader` handles one message. `StreamRead`
is one message read by `Stream._reader` up to `submit`'s wait for the lock;
`SendOut` is the first waiter's turn; `MuxRead` is one message in
`Multiplexer._reader` up to `Stream.send`; `DeliverStream` and `DeliverChat` are
the rest. On the device `SchedRead` is the socket's callback, `ReadStart`, `Take`,
the `Process…` actions and `ReadEnd` are the loop of `_read`.

What a command does to the device is abstracted to how it ends: a value, nothing,
a `ServerError`, another exception, or no such command (`Outcomes`). The exceptions
matter: `_process` re-raises them, and `_read` then leaves `_sched` set.

Failures. `ConnLost` breaks the TCP connection; `Leave` is a client that closes or
dies, with calls outstanding or not; a program that comes back is another Link, which
may `Connect` at any time; `ChatTimeout` is the watchdog's `fail_after(2)`, which ends the multiplexer
(`Shut`). After `ConnLost` each side may or may not still process what was under way.

Simplifications:

- `Shut` closes all streams in one step. The task group cancels its tasks one after
  another, but none of them sends anything any more.
- Messages arrive whole, and sending to a socket never waits for the peer. A `send`
  that trio cancels may leave part of a frame behind; this is a hazard the channels
  cannot express.
- The socket callback is taken to be level-triggered: when `schedule` raises
  `RuntimeError`, the callback runs again later. Where it is edge-triggered, a full
  queue would lose the wake-up.
- `Stream Crash` makes `_handle_stream` send an error without an id after the socket
  has been closed, so nothing arrives; the branch of `_cmd_r` for a missing id is
  therefore never taken and is not modelled.

### 2.2 The file system

`DeviceFS` is one operator per command on a tree (`fs`: path to "d" or "f"), the set
of descriptors (`fds`, `lastFd`), and `answer`. A command ends in `Reply`, `Fail` (a
`ServerError`) or `Crash` (any other exception: the error is sent, and the device reads
nothing more, `wedged`). Errors that depend on the port (a file where a directory should
be) are a choice between the last two. `Elsewhere` is what programs on the device, or other
clients, do to the tree in between; it takes no part in the descriptors.

`FuseOps` keeps the maps of `Operations` under shorter names (`pathOf`, `inodeOf`,
`fdInode`, `inodeFd`, `dirContent`, `lastInode`, `lastDir`). A handler is a record in
`task`: the operation, its local variables that live across an await, and the request it
waits for. `waiters` is the queue of `Link._send_lock`, whose head has its request at
the device. A kernel request starts a handler, which runs to its first await; `Device`
answers the head's request; then one of the continuations in `Resume` runs to the next
await or to the end. That `Link.send` is a single exchange with the device, with its own
answer or an exception, is what `RequestPath` establishes.

The kernel is external. It sends requests for inodes and handles it has been given, looks
up a name only if it has no entry for it, holds the lock of a directory while it changes
it, reads a directory handle sequentially, and releases a handle once. Entries it has
cached may be stale.

An exception other than `FUSEError` in a handler ends `pyfuse3.main` (`mounted`). File
contents, sizes and times are not modelled; a large read or write is a sequence of up to
`MaxChunk` messages, any of which may be short or fail. Connection loss is not in this
module.

Two lines of the code do something else than they seem to, and are modelled as what they
do: `create` asks `i_path` for a path where it takes an inode, so it always misses
and the entry always counts as new; `forget` passes `i_del` the pair of inode and count, so
it forgets nothing.

### 2.3 The scheduler and the pins

`Scheduler` keeps `_queue` as a function from events to their times, each as its difference to now
(what `ticks_diff` would compute, modulo `Period`): the code never looks at anything else. `heapq` decides
which of several least events is at the root, and that is left open (`Roots`). `timer` is the hardware
timer, `pending` the queue of `schedule()`, of length `Depth`. `UPin` adds the pins, of which
`dly[p]` says which debounce event `_dly` is; `_irq` may make a new one while the old one is still queued.

Steps. MicroPython's rules decide the interleaving. Interrupts (the timer's, `Interrupt`, and the pins',
`do_irq`) come between any two steps. Callbacks of `schedule()` (`_run` and `_irq`) run one after another, each
to its end, between any two steps of the main program; they are cut into steps only so that interrupts
and time can come in between. The main program's `UPin.__init__` is cut in four (`Create`, `Push`, `Compute`, `Created`):
up to the end of its attributes, the `heappush` of the scan event, whose time has been read some ticks ago, the computation
of the time to wait, and the setting of the timer; the times may be stale when they are used. The interrupt that `__init__` registers before it
has set the attributes is taken together with them: an earlier interrupt raises `AttributeError`, which changes nothing.

Failures. `publish` may raise, which ends `_run` through its `finally`. `_set_timer` calls `schedule()` with
no `try`: when that raises, `raised` notes it. `_scan` run before `__init__` has got `_scan_` raises
`AttributeError` and notes it too. `cancel` takes an event with the same time, whichever comes first in the list;
when it is not the right one, `wrong` notes it. The model stops when one of the two is set
(`Sound` in `Next`): what is shown is about programs in which neither has happened. That the first does happen
is told under "Also met" below.

### 2.4 Connections and subscriptions

`PubSub` keeps `client`, `clients`, `subs`, `sub_nr` and `listen_s` of `UFuse`, for each connection the state of its
socket and whether an exception has left its `_read` (`stuck`), and for each multiplexer its `subs` and the
tasks of `subscribed_mqtt`. A connection is one run of a multiplexer, so a multiplexer that restarts is the next
connection. `broker` counts the messages the broker has had, which gives each a name. `asked` is a history: the topics, with or without
`r`, that the program has ever subscribed to under a number.

Steps. On the device the callbacks (`Accept`, `Opened`, `Message`, `Removed`, `Pong`, `ReadEOF`) run to their ends, and
interrupt the main program at the points that matter: between the test of `self.client` and its use
(`Then`, `SendBegin`), inside the packer (`SendBegin`, `SendEnd`), and between the lines of `stop` (`StopBegin`,
`StopClears`, `StopLoop`). The program subscribes with `subscribe`'s own number (`Subscribe`) or with one that it passes, which may be one it
has used or is using (`SubscribeAs`), raw or not. `subscribe` sends that flag, `r`, and `opened` does not, as in the code. In the multiplexer
`_reader` handles one message per step. Each task of a subscription forwards one message per step, fails (`TaskFails`, which sends `mu` to the
device), or deletes its entry after it has failed or been cancelled (`TaskEnds`: whichever entry is there now).

Failures. `MuxEnd` is every way a multiplexer ends: time-outs, a lost connection, a kill. The device finds out by
`ReadEOF`, or when the next one says h, or never. The broker may refuse a subscription or a message (`MuxRefused`), and the loop of a
subscription may fail. A message or an `mu` for a number that the device has not subscribed to raises `KeyError`
and sticks the reader, as does a reply while the main program is in the packer.

Three histories note where the code leaves what one would like to say. The model stops at one of them (`Next`), `raced`: an h is handled while
`stop` runs. It goes on after the others, and the properties name their numbers as exceptions. `twice` has the numbers that a multiplexer has subscribed
while a task of theirs was running; messages of theirs come twice. `adrift` has the numbers that the program has used before, those whose
subscription `opened` has sent while `subscribe` was about to send it, and those that the broker refused; the tables need not agree on them.

Left out: a callback that raises, which sticks the reader as a `KeyError` does; `publish` to a number instead of a topic; a multiplexer
without a broker; a subscription whose messages end without an exception. A message that nobody will read is not kept, and the broker answers a subscription
at once.

### 2.5 The console

`Console` keeps `_repl_nr`, `cons_buf`, `cons_wbuf` and `_cons_s` of `UFuse`, MicroPython's slot for a duplicate terminal,
which others may take too (`slot`), and for each session its queue, `_close_ind`, and how far it is. Output is
numbered chunks, input numbered characters, so that order and gaps can be seen.

Steps. On the device, the callbacks and the scheduled writer run to their ends; the main program is interrupted
inside `write`, `publish`, `drop_console` and `close`. In the multiplexer, `cmd_c` is cut at its await: `rd` is where its
reader is in the loop over the sessions. Python's iterator over a set raises when the set's size has changed; if one
session has left and another come, the loop may or may not meet the new one (`Iterate`).

Failures. The multiplexer or its connection ends (`MuxDies`), and another one comes; `schedule` is full; the packer is
in use, so that output is lost; another takes the terminal over.

Histories: `lost` has the chunks dropped where the code drops them, `refused` that the schedule has refused the writer and
nothing was sent since, `raced` that `close` or `stop` went on with a `_repl_nr` that had changed, `missed` that a cx did not reach
all sessions. `Blocked` is a reader that waits for room in the queue of a session that is gone. What is known of
a session is forgotten when it ends.

### 2.6 The stream of messages

`MsgPack` is the codec: `Pack` gives the writes `_pack` makes of a value, `Unpack` what `_unpack` makes of a
buffer. Bytes are numbers, integers their eight bytes in two's complement, so every width has its exact
limits.

`MsgStream` puts a codec on a stream: its `_pack`, `_unpack` and `Refused` are constants, which the runs replace by `Pack`, `Unpack` and `Unknown` of
`MsgPack`. A scenario is a direction, a size of the buffer, a list of messages, and how much a
read may find. Towards the device, `ReadSome` is one `Unpacker.read` with any cut, `Next_` one step of the iteration,
which returns a message, ends, or raises. From the device, `PackCall` is a call of `pack`, possibly in the middle of
another, `Write` one call of the writer, `WriteRaises` its exception.

Histories, at which the model stops: `desync`, `_has` has gone back to a position that is no longer the message's
(finding 2); `short`, the socket has taken a part of a write.

## 3. The runs

`CHECK_DEADLOCK FALSE` throughout: the system really stops, when the connection is lost or
the bounded clients have made their calls, when the device is stuck, or when the mount
has ended. That it does not stop with a call pending is what the liveness properties say.

| run | instance | properties | what it shows |
|---|---|---|---|
| `rp_crossing` | 2 Links, 2 calls each, commands return or raise; 811,548 states | `TypeOK` `OwnAnswer` `ReaderSurvives` `Routable` `ExecutedInOrder` `NoLeak` `IInv` `OInv` `RpcSpec` | answers belong to calls, numbers route, nothing leaks, while clients give up and leave and others arrive; the strengthened invariants; the composition implements `Rpc` |
| `rp_calls_end` | 2 Links, 1 call each, every command returns a value or raises `ServerError`; 41,439 | `CallEnds` | each call ends, answered or by the end of a connection |
| `rp_rescue` | 1 Link, 2 calls, 2 pings, every outcome; 165,080 | `WatchdogRescues` `RpcSpec` | the watchdog ends calls the device will never answer; `Rpc` also holds with the watchdog and every outcome |
| `rp_reply_promise` | 1 Link, 2 calls, no watchdog | `SameIdReply` (violated) | finding 1 |
| `fo_mount` | 2 handlers, 2 names, depth 2, 4 kernel requests, 1 change by others; 311,259 | `TypeOK` `InodeInv` `HandlesOpen` `DescriptorsMirrored` `ListedInOrder` `InodesNotReused` `EntryResolves` | the maps are right under every interleaving of two handlers |
| `fo_ends` | 2 handlers, 1 name, 3 requests, chunks of 2, 2 changes; 31,637 | `RequestsEnd` | each kernel request ends |
| `up_pins` | 2 pins, short callbacks; 1,826,232 | `TypeOK` `WakeInv` `WakeUp` `DelayRuns` `FlagKept` `Timely` | the scheduler never sleeps with events waiting, runs them in time, and the pins agree with the queues |
| `up_ends` | 1 pin, callbacks as long as the longest delay, another user of `schedule()`; 577,576 | `DebounceEnds` | a debounce delay ends once the pin stays released |
| `ps_tables` | one multiplexer and two calls of `subscribe`, one of them raw, or two multiplexers and one raw call; number 1 may be passed; 1 message or ping; 392,959 | `TypeOK` `Tracked` `TablesAgree` `Delivered` `EventuallyAgree` | one client at a time and no open socket forgotten; both ends agree on the subscriptions when nothing is under way, and come to agree, also when tasks fail; callbacks get messages of topics their number was subscribed to, each once; all but for the numbers in `adrift` and `twice` |
| `co_echo` | 2 terminals, four loads, queues of 1; 176,272 | `ConsoleMirrored` `InOrder` `Echoed` `Detached` | the device knows whether it is the terminal; output and input keep their order; output reaches each terminal, and a cx closes each, outside the cases named |
| `ms_stream` | 52 values of every type and width, buffers of 4 to 5120 bytes, every cut; 3,830 | `InStep` `TooLongOnly` `NotTorn` `AllUnpacked` | each message is unpacked once, up to the fault of `ms_cut`; what is written is whole messages |
| `ms_cut` | 2 messages, a buffer of 8 bytes, every cut | `CurrentMessage` (violated) | finding 2 |

### Why the bounds are enough

- *Clients.* The only thing two clients share is the multiplexer's tables, its lock and
  the connection; what a third could do to the first, the second can do by itself (either
  may connect after the other has left with requests under way). Links are interchangeable, hence the
  symmetry in the safety runs; the liveness runs use none.
- *Calls.* Two calls are needed for an answer to be late, and for an order to be wrong. A
  third adds numbers, not orders. In `rp_rescue` the watchdog's pings are further requests, and all five
  outcomes are possible; the proof covers the rest.
- *Handlers.* A race needs one handler inside an await and another that runs through. With
  four requests both can have a history (an entry looked up and dropped, a file opened).
  `Depth` 2 has a directory in a directory, which a rename of the parent can pull away.
- *Names.* Two: an entry and the one it is renamed to. `FileAndDir` starts with one of each.
- `MaxOther` lets the tree change at any one point (two in `fo_ends`). The kernel's view is
  then wrong; the properties about the maps must hold all the same.
- *Pins.* Two, so that an event is cancelled, delayed or overtaken by one of another pin; `MaxDly` 2 is the
  old and the new debounce event of a pin in `_irq`. `Depth` 2 is full as soon as each pin has scheduled its
  `_irq`. `Delay` 1 makes the scan come after 5.
- *Time.* `MaxLate` bounds how long callbacks and the main program's `enter` may take, 1 in `up_pins` and 5 in
  `up_ends`, which is as long as a scan's delay: an event may then come before `__init__` has ended. `Period` is
  64, more than twice the longest span between two events under these bounds, so times wrap
  around but are ordered, as on the device; for `up_pins` TLC evaluates that (`Ample`, below). `MaxOther` is the number of callbacks that others schedule.
- *Connections.* Two multiplexers, either of which may be there first: one can replace the other in every state of its
  socket and of the program. What can happen in one run is a member of `Plans`: two calls of `subscribe` for different topics, one of them raw, so that
  a message to the wrong callback and a lost `r` show, with one multiplexer; or one call and two multiplexers. Each call may use the next number of
  `subscribe` or 1 (`Chosen`), so a number can be used twice, at the same time or after an `unsubscribe`. The program may unsubscribe, `stop` and `start` at any time and without
  limit, tasks may fail and the broker refuse at any time. Each plan has one message of the program or of others, or one ping, at any point; tables do not depend on
  it, and one is enough to arrive late or twice.
- *The console.* Two terminals, each connecting once: one that stays while the other comes or goes, also in the middle of
  `cmd_c`. `QLen` 1 instead of five, so that the queue is full with the second chunk. `FourLoads` are the combinations of
  chunks printed, chunks typed and troubles (a takeover, a stop, a lost connection, a publish) that are checked together:
  much output alone, input against output, and each with trouble, or two troubles in a row.
- *The stream.* Every width of every type at its limits, one value at a time, in a buffer of the size the device uses; short messages
  with every cut in buffers from 4 bytes, where moving, filling and emptying all happen; two
  sizes of the packer's buffer around the messages' own lengths.
- `MaxChunk` 1 in `fo_mount` since reads and writes do not touch the maps.

Each property is shown to bite by a mutant: a change of one definition, as a plausible mistake
in the code would have it (an id that is reused, a lock that is not released, a guard that
is dropped), under which the same run reports a violation. The mutated definitions stand
next to the original ones in the modules and are used nowhere else.

### Fairness

`FairSpec` of `RequestPath` has weak fairness for each task of the event loops and for the
device: asyncio and trio run every task that is ready, a lock is handed to the next waiter,
and MicroPython runs what is scheduled. No fairness makes a caller call, give up, leave
or connect, and none breaks or saves the connection. `TimerSpec` adds the watchdog's `sleep`
and `fail_after`: a timer that is set goes off. `FairSpec` of `FuseOps` has weak fairness for
the device's command and for the continuation of the handler that was answered. `FairSpec` of `UPin` says that time passes, that
an interrupt is served, and that MicroPython runs what is scheduled (weak fairness), and that the
main program ends its call of `enter`, which callbacks interrupt again and again (strong fairness). Nothing makes a pin change or
be created. `FairSpec` of `PubSub` runs the callbacks of each connection, the tasks of each multiplexer, and what the main program has begun;
nothing makes a multiplexer connect or end, a task fail, or the program call anything. `FairSpec` of `Console` does the same for the device and the
multiplexer, and each terminal reads as long as it is there; none has to come, type or leave. `FairSpec` of `MsgStream`
runs the callback of a socket that has data.

### Findings

1. *A command that raises stops the device's reader* (`ufuse.py:148`, `:133`, `:121`). The
   exception skips `self._sched = False`; the connection stays open and nothing is read from
   it. `doc/messages.rst:16` promises a same-ID reply to every message with an ID. With the watchdog
   the multiplexer ends (`rp_rescue`); without it callers wait for ever.
2. *The unpacker goes back to the wrong place* (`msgpack.py:182`, `:223`). A full buffer is compacted, which moves the
   message that is not complete yet to its start, but `_b_cp` keeps the place it had. If the next read does not complete
   the message either, `_has` sets the position back to `_b_cp`, and from there on the stream is read out of step. It takes
   a message that is cut at the end of the buffer of 5 KB, after others, and arrives in two further reads.

Also met while modelling; the models contain each of them, and no run is spent on it. The first four have a
definition of their own, which TLC refutes:

- *The second close of a file ends the mount* (`fuse.py:54`). The maps hold one descriptor per inode; the last of two
  releases raises `KeyError`, which ends `pyfuse3.main`, and the device's file stays open. `ReleaseCloses` in `FuseOps` (one name, `Trees <- FilesOnly`,
  `Depth` 1, 5 requests), against the docstring at `fuse.py:510`.
- *`rename` leaves the maps alone* (`fuse.py:371`). The moved inode keeps its old path. `RenameFollows` in `FuseOps` (two names,
  3 requests), against the docstring at `fuse.py:360`.
- *`cancel` may take another event* (`sched.py:85`). `list.remove` takes the first event that compares equal, and events
  compare by time only. A pin whose debounce delay ends in the same tick as another event loses that other event:
  its own scan, or another pin's debounce delay, and that pin then ignores its interrupts for good. `CancelRemoves` in `UPin` (one pin,
  `Period` 32, `MaxLate` 1, `MaxOther` 0), against the comment at `sched.py:84`.
- *A raw subscription is not raw after a reconnection* (`ufuse.py:500`). `subscribe` sends `r`, `opened` does not, so the next multiplexer decodes
  the messages of the topic as msgpack; `doc/messages.rst:94` says both sides resend their requests. `RawRestored` in `PubSub` (the instance of `ps_tables`).
- A message for a subscription that has just ended raises `KeyError` in `cmd_m` (`ufuse.py:420`) and stops the device's reader, with it the
  pongs, until the watchdog ends the connection. So does the `mu` of a task that fails when the program has just unsubscribed (`ufuse.py:431`). The same happens when a message that needs a reply arrives while the main program is in
  the middle of `publish`: the packer refuses the reply, and then the error reply too (`msgpack.py:502`).
- Console output that is due while the main program is in the packer is lost (`ufuse.py:575`).
- An h that is handled between `self.client.close()` and `self.client = None` of `stop` (`ufuse.py:483`) installs a client that is then
  forgotten without being closed (`raced` in `PubSub`).
- When `opened` interrupts `subscribe` between the entry in `subs` and its message (`ufuse.py:449`), the subscription is sent twice. The multiplexer
  starts two tasks under one number (`multiplex.py:263`): each message comes twice, and `mu` can cancel one of the tasks only (`twice`, `adrift`).
  The same happens to a number that is passed to `subscribe` while it is in use, which `doc/messages.rst:95` says is not an error. A task whose number
  has been subscribed again deletes the other one's entry when it ends (`multiplex.py:292`).
- A subscription that the broker refuses stays in the device's `subs`; the error that the multiplexer sends changes nothing (`multiplex.py:488`).
- A terminal that leaves while its queue is full leaves the multiplexer's reader waiting for ever (`multiplex.py:522`): nobody empties the
  queue any more, and no reply, not even the watchdog's, is read. The watchdog then ends the multiplexer.
- A terminal that comes or goes while `cmd_c` waits makes the loop raise, and the sessions not yet met miss the chunk (`multiplex.py:521`).
- A session that still waits to send its ci has no scope; a cx that meets it raises and leaves the other sessions open (`multiplex.py:116`), although
  `doc/messages.rst:39` says cx disconnects them.
- The cx of a session that ends can arrive after the ci of the next one, which then has no console (`multiplex.py:93`). `doc/usage.rst` says
  that without `-m` new connections are rejected; the code never rejects one.
- If a ci arrives between the test and the assignment of `close`, or while `stop` is between `_repl_nr = -1` and `dupterm`, the device has the slot
  and `_repl_nr` is -1, or the reverse (`raced` in `Console`).
- When the console has been taken over, `drop_console` raises `ServerError`, which ends `stop` before it has closed anything (`ufuse.py:621`).
- `flush` ignores how much the socket has taken (`msgpack.py:516`).
- `ExtType` refuses the codes -128 to -1, which are valid in msgpack; one that arrives ends the device's reader (`msgpack.py:52`).
- `read`, `write` and `release` let `ServerError` through, so a device error ends the mount
  (`fuse.py:452`, `:485`); `doc/file_system.rst:182` says all errors become EIO.
- `readdir` fails as a whole when one of its entries has vanished: `getattr` raises
  `FUSEError`, and the code catches `ServerError` (`fuse.py:593`).
- An exchange without a destination leaves the source under its temporary name
  (`ufuse.py:359`).
- `create` loses an open descriptor when its last `getattr` fails (`fuse.py:758`), which a
  concurrent rename of the parent directory is enough for.
- `lookup` can hand out an inode that names nothing (`fuse.py:111`). It reads the path's inode before it awaits the device's answer and returns
  that inode after it; a `getattr` in between that finds the path gone drops it, and if a rename in between has put another file
  there, the lookup succeeds. `EntryResolves` therefore says only of an inode that is asked for after the answer that it is mapped, and of one read
  before it that it names no other path. It takes three handlers: a `getattr` of the inode, the rename and the lookup, queued in this order for
  `Link.send`, on a path that is gone from the device; TLC finds it after 7 requests of the kernel, nobody else changing the
  file system, when the second conjunct of `EntryResolves` is made to say `i \in DOMAIN pathOf'`. The kernel gets ENOENT for
  what it has just looked up.
- `forget` forgets nothing (`fuse.py:143`), so the maps only grow.
- When `_run` ends while `schedule()`'s queue is full and an event is already due, its `_set_timer` raises `RuntimeError`
  (`sched.py:74`), and nothing wakes the scheduler until somebody enters another event.
- If callbacks hold up `enter` in the main program (`upin.py:27`) for five delays, `_scan` fails on `_scan_`. The queue may then be empty
  when the main program computes its time, and the `deinit` that follows (`sched.py:65`) can switch off a timer that a
  callback has set in between. TLC found this as a violation of `WakeUp` before the model was made to stop at the failed `_scan`.

## 4. What is proved

All for any set of Links, any number of calls and pings, any set of outcomes, with the watchdog or
without; for any set of handlers, names and initial trees; for any pins, delays and length of `schedule()`'s queue; for any multiplexers, topics and terminals; and any bounds.

| theorem | statement |
|---|---|
| `RequestPath_proofs!Invariance` | `Spec => []IInv` |
| `TypeCorrect`, `AnswersAreOwn`, `RepliesAreRoutable` | `Spec => []TypeOK`, `[]OwnAnswer`, `[]Routable` |
| `RequestOrder_proofs!OrderInvariance` | `Spec => []OInv` |
| `RunsInOrder`, `ReadersSurvive` | `Spec => []ExecutedInOrder`, `[]ReaderSurvives` |
| `RpcRefinement_proofs!Implements` | `Spec => RpcSpec` |
| `RequestOrder_proofs!TableDoesNotLeak` | `Spec => []NoLeak`, if every command replies |
| `FuseOps_proofs!InodeInvariance` | `Spec => []InodeInv` |
| `MapsAgreement` | `Spec => []MapsAgree` |
| `InodesStayPut` | `Spec => InodesNotReused` |
| `WaitInvariance`, `DescInvariance`, `ListInvariance` | `Spec => []WaitInv`, `[](WaitInv /\ DescInv)`, `[](WaitInv /\ ListInv)` |
| `HandlesStayOpen`, `NoDescriptorLost`, `ListedAsSent` | `Spec => []HandlesOpen`, `[]DescriptorsMirrored`, `[]ListedInOrder` |
| `TypeInvariance`, `TypesOfMount` | `Spec => []Known`, `[]TypeOK` |
| `EntriesResolve` | `Spec => EntryResolves` |
| `UPin_proofs!WakeInvariance` | `Spec => []WakeInv` |
| `SchedulerWakesUp`, `FlagsAreKept` | `Spec => []WakeUp`, `[]FlagKept` |
| `DelayInvariance` | `Spec => [](WakeInv /\ DelayInv)` |
| `DelaysRun`, `TypesOfPins` | `Spec => []DelayRuns`, `[]TypeOK` |
| `TimeInvariance` | `Spec => [](WakeInv /\ DelayInv /\ TimeInv)`, if `Ample` |
| `EventsInTime` | `Spec => []Timely`, if `Ample` |
| `PubSub_proofs!ConnectionsTracked` | `Spec => []Tracked` |
| `AgreeInvariance`, `TablesDoAgree` | `Spec => [](TrackInv /\ AgreeInv)`, `[]TablesAgree` |
| `OnceInvariance`, `DeliversOnce` | `Spec => [](TrackInv /\ AgreeInv /\ OnceInv)`, `Spec => Delivered` |
| `TypeInvariance`, `TypesOfTables` | `Spec => [](TrackInv /\ AgreeInv /\ TypeInv)`, `[]TypeOK` |
| `Console_proofs!ConsoleIsMirrored` | `Spec => []ConsoleMirrored` |
| `InputInvariance`, `OutputInvariance`, `ConsoleInOrder` | `Spec => []InputInv`, `[]OutputInv`, `[]InOrder` |
| `MsgStream_proofs!StreamInvariance` | `Spec => []BuffersInv`, if `CodecRight` |
| `StreamInStep`, `GivenUpForLength`, `MessagesNotTorn` | `Spec => []InStep`, `[]TooLongOnly`, `[]NotTorn`, if `CodecRight` |

The assumptions are the named ones of the modules (`WireAssumption`: the bounds are numbers,
the watchdog's peer is no Link, the outcomes are those of `Outcomes`; `DeviceFSAssumption`, `FuseAssumption`:
what a name and an open mode are, that the device starts with a tree, and that there are finitely many names, so that a directory can be listed; `SchedulerAssumption`,
`UPinAssumption`: numbers, room in `schedule()`'s queue for one callback at least, a delay above zero, finitely many pins, and names for two debounce events of a pin at least, since `_irq` makes the next while it holds the last;
`PubSubAssumption`: what may happen in a run, and that the numbers passed to `subscribe` are odd, as those of the device are; `StreamAssumption`: what a scenario is). `TableDoesNotLeak` has a hypothesis of its own, `EveryoneReplies`: a command that is none ends the reader
without a reply (finding 1), and its entry in `mseq` then stays. The two theorems about time have another, `Ample`: half the range of `ticks_ms()` is more than
the longest wait plus the scan's delay. Times that are further apart have no order in `ticks_diff`, and no bound could hold; on the device the range is 2^30 ms, twelve days. Those about the stream have `CodecRight`, which says what the buffers rely on: where the bytes of
a message are, it is unpacked and they are used up, or it is refused; where only a part of them is, more is asked for. Whether `MsgPack` does that is a question about recursive
definitions; TLC evaluates it in `ms_stream` (`CodecAssumption`) for each message of the run, with every number of its bytes, after others and before others.

**The request path.** `OwnAnswer` says that what a Link finds in `waiting` is the answer to the
call it makes now. It is not inductive: the step that puts an answer there knows only a
message with a number. `IInv` adds where numbers and requests can be:

- `CallInv`: `waiting` has the current call's number and no other;
- `RequestInv`: a request on any channel was made by the peer it names, and if it has the
  number of that peer's current call it *is* that call (`Honest`); a reply belongs to a
  request that ran, and has its outcome (`Genuine`);
- `StreamInv`: stream ids are never shared and never given out twice;
- `MidInv`: message ids rise along the connection, so no two requests under way share one;
- `Routable`: `mseq` sends each id back to the peer and number it came from.

The argument for the step that matters: a reply leaves the device genuine; by `Routable`
and `MidInv` its id stands for exactly its own request; by `StreamInv` the stream found is that
of the peer or none; so it arrives at its peer under the number of its request; by `Honest`
either the call with that number is the call it answers, or there is no such call, and
`CallInv` says that then there is no entry. Each action has a step in the proof, and under it
a step per conjunct that it can disturb; frame lemmas carry the rest.

**The order.** That the device runs requests in order says nothing of those still under way; `OInv` says it of each place they pass.
`ForthInv`: the numbers of a peer's requests grow along its socket, along the queue for the send lock, along the connection, and from
each of these to the next. `PastInv`: what has run is below all that is still to come. `ExecutedInOrder` is then kept by the step that runs
one, the head of `toDev`. `BackInv` says of the answers what `ForthInv` says of the requests, and that a Link which
holds the answer to its call has no other on the way; hence `ReaderSurvives`. A peer has one number space but
two ways into the queue (a Link through its stream, the watchdog at once), and the numbers the multiplexer gives are not those of `OInv`: a
request keeps its place because the lock is fair, and the proof of `SendOut` is where that is used.

**The refinement.** Under the mapping of `RequestPath` (`last` is `seq`, `cur` is `call`, `ran` is `done`, `got` the kind of what has replaced the Event),
`Send` is `Call`; the step of the device that takes a Link's request and appends it to `done` is `Run`; `LinkReader` is `Reply` when the
number of the message is that of the current call, and a stutter when that call was given up; `Return`, `Abort` and the end of the client's socket during a call are `End`; all else
stutters. `Run` asks that all earlier runs have lower numbers (`PastInv`) and that a request with the number of the current call is that call (`Honest`);
`Reply`, that the call has run and the answer has its outcome (`OwnAnswer`), and that there was none before (`BackInv`).

**The table.** `NoLeak` needs that every request under way has an outcome that replies (`AskedInv`); the only steps that take an entry's message from
`OnTheWay` are then the multiplexer's reader, which deletes the entry, and those after the connection has gone.

**The file system.** `MapsAgree` needs that the inode `i_add` takes is new: `InodeInv` adds that
all inodes in use are at most `lastInode`. Only `i_add` and `i_del` write the maps; a lemma for
each says that it preserves `InodeInv` and gives no old number a new path, and the step lemma
finds one of them, or no change, in every action. `InodesStayPut` is the action property from the
same lemmas.

`WaitInv` is what the other two invariants of `FuseOps` rest on: the queue of `Link.send` holds exactly the handlers that run, each once, and
the request of each is one that its operation makes; so the answer of the device belongs to its head, and a continuation knows what was asked.
`DescInv` follows a descriptor from the answer of `fo`, when the device has it and no map does (`Granted("fo")`), through the maps, to `release`, which
takes it out of the maps before it sends `fc`. Descriptors are at most `lastFd`, so a new one is in no map. The conjunct that makes `DescriptorsMirrored`
inductive is the one on `Closing`: what is being closed is in no map any more, and no two releases close the same, since the
kernel gives up a handle once. `ListInv` says the same of the names of a directory handle: how many have been returned, which a running
`readdir` has collected, and that one handle is read by one call at a time.

`TypeOK` has two parts that are not types at all. One is that the device's file system stays a tree (`IsTree`): every file and directory but the root is
in a directory. For a new entry and for one that goes, that is the guard of the command. For a rename it is the hard part: what is moved is
everything below the old path, its parents move along, and the destination is not below the source, so the parent of the new path stays where
it is. `Ancestors` says that what is in a tree has all its ancestors there, by the least length at which one would be missing (no induction theorem
is needed); `TreeMove` uses it for what is left behind. An exchange is three renames, each of which may fail. The other part is that the inodes in the
maps, in the kernel and in the handlers have been given out, also those that a handler took before an await: `HandlersOK` says it of each handler
that waits, and lemmas say which steps keep it of the others (`OthersOK`), as `lastInode` only grows.

`HandlerOK` has a last conjunct, `Resolves`: the inode that `lookup`, `mkdir` or `create` has found for its path is, if it has a path at all, that path's. It is kept while the
handler waits since no number is used again (`InodesKept`), and `EntriesResolve` follows: what is handed out was either asked for in that step, or held since
before the await and at worst dropped. The attempt to prove more, that it has a path, failed for the reason given in section 3.

**The scheduler.** `WakeUp` speaks of moments when neither a callback nor the main program is inside the scheduler, so what
has to be shown is that everything that leaves it has set the timer: `_irq` when `_running` is not set, the `finally` of
`_run`, and the main program. The last is the hard one, since it acts on a time computed earlier. If it had found the
queue empty it would switch the timer off, although a callback may have set it since. `WakeInv` adds why it does not
(`Creating`): the pin's own scan event, pushed just before, is still in the queue, or is being run and about to fail; only
a wrong `cancel` could have taken it. The rest are types (`WakeTypes`), among them that `_running` is set exactly in the loop. `FlagKept` needs
that what leaves `schedule()`'s queue is the `_irq` of the pin whose flag it clears.

`DelayRuns` says that `_dly` names the one debounce event of the pin that is queued. It is inductive with the types (`Clock`, `Events`): callbacks run one
after another, so when `_irq` or `_timer` reads `_dly` nobody else is about to change it, and an interrupt only sets a flag. In `_irq`, the new event is made
before `_dly` lets go of the old, so it has another name, and the old one has been cancelled; in the loop, the event that is run has been popped, and
`_timer` clears `_dly` or enters the event anew within the same step. A `cancel` that takes another event (`wrong`) breaks this, and is excluded.

**The events' lateness.** `Timely` bounds how long after its time an event may still be queued. `MaxWait` is made up as follows.

- `Slack`: the main program sets the timer to a time it has computed up to `MaxLate` ticks before, for what was the first event then. A callback that enters a
  debounce event in between sets the timer for that, and the main program then overwrites it with its own time, at most that of its scan, four delays later.
- The timer finds `schedule()`'s queue full and tries again one tick later. What leaves the queue in between may be replaced by others' callbacks, each of which costs one
  more try after a callback's time; so `MaxOther` counts.
- `Round`: a full queue before `_run`, each of its callbacks taking its time.
- `Failures`: the publish of another pin's debounce event may raise and end `_run`, whose `finally` schedules it anew behind a full queue. Each pin can do that once
  before it is the turn of a late event, since its next debounce event is later.

The earlier form of this bound, which counted neither the others' refills nor these failures, held in `up_pins` and was refuted by TLC for other constants as small
(one pin, `Depth` and `MaxLate` 1, `MaxOther` 2). In `up_pins` the bound is 9 ticks for a scan and 11 for a debounce event; the worst that TLC finds there is 6 and 9.

`TimeInv` says of every event, at every moment, who will run it, and that the time until then suffices (`Served`): `_run` in its loop, or at its end, or the `k`th of
what is scheduled, with `k` callbacks before it; the timer, set at most `Slack` too late; the timer between two tries, with so many tries left as others have
callbacks; or the main program, which has entered it and is about to set the timer. Each of them has `Rounds` left for the pins whose events come first (`Before`), and a step that
takes an event and ends `_run` takes its pin out of `Before` of all that are late, as the root of the heap is the first event. Two
conjuncts carry facts that no single step shows: `OthersCounted`, that the others' callbacks in a row in the queue are no more than others have made, so a full queue contains something else; and
`Arming`, how old the time is with which the main program will set the timer. `Served` is then stated of constants (`ServedAt`), and the lemmas on it
say what a tick, a callback that is scheduled or starts, a full queue, `_set_timer` and the end of `_run` do to it; the
actions only say which of these they are. TLC has checked `TimeInv` for one and two pins, `Depth` 1 to 3, `MaxLate` up to 4 and `MaxOther` up to 3 before it was proved.

**Connections.** `Tracked` says that an open socket is the client's or waits in `clients`. Two things keep it from being
inductive. `stop` closes and forgets in several steps, so `Tracking` says what holds at each of them: from the first to the
last nobody listens and `client` is 0. And `Opened` closes the old client and puts the new one in its place, which is only
right if the two are different connections. That they are is `Hello`: an h is the first message of a multiplexer and the
only one, and until it has been handled its connection is not the client. The types of channels and tasks are there since `Hello`
speaks of them. A lemma says what `Close` does to all this, frame lemmas say which steps leave it alone, and there is one lemma per action.

**Subscriptions.** `TablesAgree` speaks of a quiet connection. `AgreeInv` says what holds on a busy one, of the client and its multiplexer, where the channels
and the message that the program is about to send (`Pend`) make up the difference between the tables. `Told`: an `ms` on the way is right, or an `mu` of
its number comes after it; an `mu` is right. `Served`: a task is on and right, or an `mu` comes; or it has failed, and the program does not want it any more or has the task's own `mu` to
read. `Failed`: such an `mu` means what it says. `Awaited`: a number in use has a task, or its `ms` comes, or its end. `Leads`: the multiplexer's table leads to its
tasks. When nothing comes, these are agreement. They stay true because a multiplexer is told of a number once (`Once`), and because a message that the program is about
to send is still true when it goes out (`Telling`), although callbacks have come in between; among them an `mu` of the multiplexer, which is never of a number
that the program is about to subscribe to (`Ending`). An `h` in this time starts over with another connection, of which nothing is known yet (`Unheard`), and sends all
subscriptions anew. Nothing is said of the numbers in `adrift`, but that a step about another number does not touch them has to be shown for each step, as all use the same table.
The parts are stated of a channel, tasks and tables that are constants, and so are the lemmas on what appending, taking the head, and adding, ending or failing a
subscription do to them; the actions only say which of these they are.

**Deliveries.** `Delivered` speaks of a message that a callback is called with. `MeantInv` follows its topic: the `ms` on its way, the task, the messages in
the task's queue and those on their way to the device all have a topic that the program has subscribed to under the number. That may be another one than the number has now,
if the program has used it again: nothing in the code tells a late message from a new one. `Novel` follows the message itself, on its way through the client's tasks and
channel: each number and message of the broker's is in one place at most and not among those called, but for the numbers in `twice`. A new message of the broker's goes into the
queues of tasks with different numbers (`OneIsOn`). That only the client matters is
`Greeting`: a connection that waits has its h still to come, so no callback is called from it; and one that is opened has no task and no message
under way (`Silent`, and `Unheard` of `AgreeInv`), so the broker's messages it will bring are new, while those of the old client are dropped with its socket.

**Types of the messaging.** `TypeOK` bounds two things that no single step bounds. The numbers: `subscribe` counts up by two, only when it is not passed a number, and at most as
often as the plan has calls (`Numbering`); all that is on the channels, in the tasks and in `subs` comes from there or from `Chosen` (`Mail`). And the tables: an entry of
`msubs` leads to a task that exists (`Tabled`), as tasks that end keep their place.

**The console.** `ConsoleMirrored` names the points of `stop` and of a takeover at which `_repl_nr` and the slot differ. It is
inductive but for one case, a ci while `debug_console` is set; `DebugInv` says that the device then never takes the slot.

`InOrder` speaks of the ends of two pipelines; `InputInv` and `OutputInv` speak of all of each. A character that the REPL has read is below those
that wait in `cons_buf`, and these are below those on the connection. What a terminal has had, its queue, the chunk that `cmd_c` hands round (if the terminal
is still to get it), the connection and the write buffer follow each other in the same way, and after the first chunk that a terminal has had every chunk up to
the last one printed is in one of these places or in `lost`. The hard step is the loop of `cmd_c`, which waits in the middle while sessions begin and end
(`OutputIterates`): that it ends without a `RuntimeError` only when all sessions that it began with, and still exist, have the chunk; and that a session that
it may miss has had nothing before, so that nothing is missing for it (`Newcomers`).

`readline` concatenates chunks with `FlattenSeq`, which is recursive. What it does for any number of chunks is proved without an induction theorem: every set of
numbers that is not empty has a least element (`Least`, from the well-foundedness of `<`), so there is no first number of chunks at which the recursion's
function does not exist (`FlattenFunction`) or the concatenation is out of order (`FlattenRises`).

**The stream.** `InStep` is nearly inductive: what is in the buffer from the position on, with what is on the wire, is the encoding of the rest. Moving the data to
the start, emptying the buffer and reading more keep that, whatever the cut, and by `CodecRight` so does taking a message: if the buffer goes on with all of the
next one's bytes it is the one unpacked, and if not, what is there is the start of it (`ShorterIsPrefix`), and the iteration ends. For `TooLongOnly` one needs to
remember that: while the Unpacker waits, less than the current message is there (`DownInv`), so if this fills the buffer, the message is longer. `b_cp` is in no
invariant: it matters only where the iteration ends, and there it is the position or the model stops.

`UpInv` splits the message that is being written at a place n: its first n bytes have been written, and the chunks left, put together, are the others. This
begins with all of `Chunks`: what `wp` and `wb` keep back, write at once, or write before it loses and reorders nothing (`PutKeeps`), for each call and so for
all calls of one `pack` (`ChunksRight`, along the recursion as for `readline`). A writer that raises leaves n as it is, and as `_bad` stays set nothing is written after it.

Every safety property of a passing run is proved. What `MsgPack` computes is recursive and stays with TLC. Liveness is outside the prover's reach and
stays with TLC: `CallEnds`, `WatchdogRescues`, `RequestsEnd`, `DebounceEnds`, `EventuallyAgree`, `Echoed`, `Detached`, `AllUnpacked`.

## 5. What is not modelled

- `Link.aclose` and `Multiplexer.aclose` (no caller), the connection retries of `run` (before there are clients).
- `f_c`, which only `scripts/run_test.py` sends; operations of the mount that only return a constant or raise `ENOSYS`
  (`access`, `statfs`, `flush`, `fsync`, `mknod`, `setattr`, the extended attributes, links); and the contents of files.
- `hw` and the hardware watchdog: no state depends on it until it resets the device, and whether it does depends on the numbers of
  seconds only (hazard at `multiplex.py:358`).
- Subscriptions made by the multiplexer (even numbers, `cmd_ms` of the device): nothing calls `subscribed_mqtt` without a number. The `mu` that it sends when
  a subscription of the device has failed is modelled.
  Wildcards, `publish` to a number, a callback that raises, and a multiplexer without a broker.
- `ioctl` of the console, `_to_repl` (no caller), a second h on one connection (never sent).
- `feed`, `unpackb`, `packb` and the `pack_*` helpers of `msgpack.py`, which the device does not call; widths of C integers in `struct`.
- The scheduler's `empty`, `queue` and `dump`, which only read; programs that call `cancel` outside a callback (none is in the repository); ports
  whose small integers are too narrow for a time plus a delay.
- `Miniterm`: mostly menu text and character tables; the scripts and service files, which keep no state.

## 6. Plan

What the modules above leave, in the order of its worth:

1. The hardware watchdog with a clock.
2. The threads of `Miniterm`.

`MsgPack` is recursive, and what it does is checked over bounded inputs only.
