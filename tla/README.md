# TLA+ models and proofs of asyncmsg

asyncmsg is a header-only C++20 library for request/response messaging over TCP, built on
asio coroutines: a server that knows its clients by device id and can push to them, a client
that reconnects, packets with a resynchronising frame format, and a protobuf RPC layer on top.
This directory holds TLA+ modules translated from `asyncmsg/asyncmsg/**`, the TLC
configurations that check them on small instances, and TLAPS proofs of what matters most.

Paths below are relative to the repository; `connection.hpp:98` is line 98 of
`asyncmsg/asyncmsg/detail/connection.hpp`, and so on.

## 1. Inventory

| Component | State it keeps | Operations | What makes it correct |
|---|---|---|---|
| `tcp::detail::connection` (connection.hpp) | socket, `device_id_`, `last_recv_time`, `requests` (packet id → channel of one response), its reference count | `start`, `receive_packet`/`process_packet`, `check`, `send_packet`, `send_packet_detach`, `send_packet_and_wait_rsp` | every call returns; a response ends the call that asked for it; nothing touches a destroyed object; the owner learns of the end |
| `tcp_server` (tcp_server.hpp) | `stopped`, `connections` (list, unidentified), `connection_map` (by device), request channels | `accept`, `send_packet`, `send_packet_and_wait_rsp` with retries, `wait_request`, `stop`, the three callbacks | list and map agree; a send reaches its device; a registered connection is live; stop ends everything |
| `tcp_client` (tcp_client.hpp) | `stopped`, `conn`, `stop_signal`, request channels, LRU of received requests | `connect`, `heartbeat`, `send_packet*`, `wait_request`, `stop`, callbacks | reconnects until stopped; a request of the server is delivered once |
| packets (packet.hpp, crc.hpp) | the global `seq_generator` | `next_seq`, `packet_id`, `encode_packet`, `decode_packet` | ids tell requests apart; decode returns what was encoded and finds its place again after junk |
| `io_buffer` (io_buffer.hpp) | `buffer_`, `head_`, `tail_` | `prepare`, `commit`, `consume` | a queue of bytes that never jams |
| `lru` (lru.hpp) | list and map | `exist`, `put` | list and map agree; at most `cap` kept, the oldest goes |
| `do_context_aware_task` (coroutine_util.hpp) | none | runs a task on the io thread and comes back | |
| rpc (rpc_server.hpp, rpc_client.hpp, rpc_protocol.hpp) | none of its own | handler loops, `call`, `push`, `wait_push` | a well-formed request is answered once |
| `expected` (expected.hpp, tl::expected) | a union of value and error, `m_has_val` | constructors, assignments, `emplace`, `swap`, `and_then`, `map`, `map_error`, `or_else`, observers | the flag names the live member, whatever throws; an operation happens as a whole or not at all |
| clocks (connection.hpp:125-143, tcp_client.hpp:80-110, 182-194, tcp_server.hpp:80-104) | `last_recv_time`, timers | `check`, `heartbeat`, the calls' time limits | a working connection is kept, a silent one found, a call returns in time |

Interaction. Each server and client owns an `io_context` run by one thread. Everything but
the `stopped` flag and `seq_generator` is touched on that thread only; the interleavings are
those of coroutines at `co_await`s, of posted handlers and of the two ends of the wire. A
connection calls back into its owner (`on_disconnected`, `on_got_device_id`,
`on_receive_request`), and the owner's containers decide, with the frames of suspended
calls, how long the connection lives.

What is hard: objects destroyed under coroutines that hold a raw `this`; two loops of one
connection that end independently; state looked up before a `co_await` and used after it;
replies that race timers and retries; a list shifted by `remove_if` without `erase`;
registrations keyed by device while connections of one device overlap; and stop(), which runs
while all of this is under way. Below these, in plain sequential code, an exception between a
destructor and the constructor after it. `PROJECT.json` lists each hazard at its line, with the
properties that cover it.

## 2. Modules

### Connection

One connection object on either side (`Side`). A step is what one coroutine or handler does
between two `co_await`s.

* *Lifetime.* `owned` is the owner's `shared_ptr`. A server call holds another one in its
  frame (tcp_server.hpp:93), a client call holds none (tcp_client.hpp:109): that is `Held`.
  `Settle` is the end of every step that may drop a reference: when the last goes, the map's
  channels and the socket are closed by the destructor, so that callers suspended in a write
  or a receive get an error. What arrives afterwards finds nothing.
* *Calls.* `Call`, `Write`/`WriteFails`, `Register`, `TimerFires`, `Return` follow
  `send_packet_and_wait_rsp` from one suspension to the next. That the channel is entered in
  `requests` after the write (line 98), not before, is part of the model: a reply can be
  processed between `Write` and `Register`, and is lost. `Call` may repeat a failed call with
  the same packet, as the server's retry loop does.
* *Loops.* `rx` and `ck` are `receive_packet()` and `check()`, members of one `||` group. The
  end of one cancels the other: a cancelled read normally ends with an error - and reports the
  disconnection a second time if the object is still there - but if its data were already in,
  it processes them first (`draining`). A `check` whose timer had expired likewise still runs.
  `ReceivePacket` is one packet of a read; a read of several packets is several steps.
* *Start.* `start()` posts a handler that captures a raw `this`.
* *Environment.* The peer replies to what it received, late or never, sends packets of its
  own whose id may equal one of ours, names no device, this one or another, stops reading
  (`stalled`) or closes. Replies and requests travel in order. The owner lets go at any time.
* *Identification.* The constructor's parameter `device_id__` is not stored: line 56
  initialises `device_id_` from itself. What builds produce is an empty string, so a client's
  connection, like a server's, starts without a device and takes the first one its peer names.
* *History variables.* `reports` counts `on_disconnected`, `strayUse` records which kinds of
  step used the object after its destruction.

Left out here: the time of the last packet (check may find the connection silent at any moment;
KeepAlive has the clocks), `send_packet` and `send_packet_detach`, whose writes are in
ReceivePath, and the bytes of a packet.

`CallPromise` is the abstract specification: a call asks at most once, and ends well only by
using up an answer to its own request; answers may be lost. `Connection!ImplementsPromise`
maps each caller's place to a status and counts the replies on the wire.

### TcpServer

The registry and the life of several connections: `accept`'s loop (`Incoming`, `Accept`,
`AcceptFails` - an error leaves the detached coroutine for good), the callbacks
(`OnDisconnected`, `OnGotDeviceId`), the calls of `Tasks`, whose `kind` tells `send_packet` from
`send_packet_and_wait_rsp`, and `stop`, split into the caller's part, which sets the flag, and
the posted handler. A connection's two loops are reduced to the callbacks they make; `loops[c]`
says which of them ended first. What a send on a connection returns is left open; module
Connection says more. `Stall` is a write to a peer that reads no more.

`RemoveIf` is `std::remove_if` without the `erase` (tcp_server.hpp:146): the elements after
the match move up, the size stays, and the last slot keeps either the dead connection (if it
was last: it then lives until stop) or a null pointer. Slots are therefore never freed by a
disconnection; this leak is by the code, and the properties say what must hold in spite of it.
The list is a function of its places (`Slot`, `EraseSlot`), not a recursion, so that what these
operators keep can be proved.

`stopped` is a plain `bool` in the server, written by the caller of stop() and read on the io
thread: a data race. Each read sees the old or the new value, which is the same as stop() being
called at another moment between its call and its posted handler; `Stop` and `StopHandler` are
separate steps for that reason. In the client the flag is atomic.

The io thread runs what is ready while it is inside `io_context.run()` (`IoRuns`). That ends in two
ways: `stop(true)` calls `io_context.stop()` (`halted`), and after any stop(), whose handler resets the
work guard (tcp_server.hpp:56), `run()` returns when nothing is left to do (`HasWork`, `RunReturns`,
`ranOut`). What is called or posted after that is never taken up, in any of the three modules with an
io thread.

### TcpClient

The group `connect() || heartbeat() || stop_signal.async_wait`, the connection they share,
`send_packet`, `send_packet_and_wait_rsp`, `wait_request` and `stop`. `config.hpp` turns the
`||` of the awaitable operators into one that ends with the first member that returns *or*
throws and cancels the others; that is why a heartbeat whose write fails ends reconnection for
good (`beatThrew`), and why each of the three variables `connecting`, `beating` and `signal`
has its own idea of having been cancelled. `conn` is the only reference to a connection, so
`Alive(c)` is `conn = c`. `on_disconnected` drops `conn` whoever reports (`ConnDropped`), and
`Connected` assigns it two awaits after `ConnectTop` found none: that neither loses a newer
connection is what `ConnLostByItself` shows. `run()` may return under the client as under the server
(tcp_client.hpp:62). The calls' wait for a connection is `"polling"`.
What is sent and answered on a connection is left to Connection.

### Push, Lru and Recency

`Push` is the server's `send_packet_and_wait_rsp` with its retries at one end and the client's
`on_receive_request` and `wait_request` at the other, over a connection either end may drop
and find out about on its own. `Restart` is a new run of the server: its `seq_generator` is 0
again, while the client remembers. The memory of received ids is used through `Recency`, what
an LRU promises; `Lru` is lru.hpp itself, a list of cells and a map into it, shown to implement
`Recency`. A cell erased may be handed out again, so a dangling iterator would show.
`crashed` is the use of a channel that `operator[]` has just created empty
(tcp_client.hpp:150). `life`, `waited`, `received`, `forgotten`, `given`, `repeated` and `refused` are
history variables; `waited` keeps the commands `wait_request` was ever called for.

### PacketIdentity

`next_seq` as the three atomic operations it consists of - test, reset, increment - under any
number of threads, and `packet_id`. `Half` stands for 2^31. `drawn` keeps the last 2^31 - 1
packets; a packet is `raced` if another thread was in `next_seq` together with its own.

### Framing and ReceivePath

`Framing` is `encode_packet` and `decode_packet` as functions of bytes, with the byte order of
the length and `calc_crc8` by its table. The header keeps what the decoder acts on - flag,
`device_id_len`, `body_len` and crc, five bytes -; `cmd`, `seq`, `rsp`, `ec` and the device id travel with
the body. `body_len` is two bytes, and a byte has `Bits` bits. `device_id_len` is one byte that says how
far the device id reaches behind the header; `encode_packet`, which asserts that the id fits its field,
writes 0. The decoder does not check it (packet.hpp:170-172): of a false header it may reach over the
body (`Overruns`) to bytes that came later, are left in the buffer from before or are not the buffer's. Such
a packet is `Garbled`: it comes out as a packet of which nothing is said, or the decoder throws
(`DecodeThrows`). `xor`
of two bytes is a parameter, as the table is; the run gives it its meaning. `calc_crc8` and
`decode_packet` are recursive functions, and what the loop of `decode_packet` does from an offset on,
given what it does from later ones, has a name of its own (`DecodeFrom`), so that both can be
proved about.

`ReceivePath` composes it with `IoBuffer` and with the senders. `Writers` are coroutines that
send on one socket - a call, a heartbeat, an acknowledgement - each with an `async_write` that
writes what the socket takes and the rest later; there is no write queue, so frames may run into
each other (`torn`). Pieces of junk stand for a peer that is no asyncmsg program, and bodies beyond
`max_body_length` are sent, since `encode_packet` makes them. The receiver is the buffer's loop
(`MakeRoom`, `ReadSome`, `DecodeOne`) with the real decoder. `sent` and `framed` are history
variables: the bodies that the decoder should give out, and the offsets that belong to a frame it
accepts or to the header of one too large, where no other header can begin.

### Rpc

`rpc::call` on a device, the server's `wait_request` and `on_receive_request` with its
channels, the handler loops (the synchronous and the asynchronous one have the same steps), and
`send_packet` of the response to the connection the device has then. A response goes to the call that
waits under its cmd and seq (`WaitingUnder`), whichever handler it is from; `seq` is what `next_seq` gave
each call. `parse_body` has three ends (`Parsed`): the response's error code, the value, or
`err_deserialize` where the call's `T` does not parse the body - `parses` says whose messages it does,
and whether the empty body of an error code of 0. Loops catch a `std::exception`, and nothing else
(rpc_server.hpp:25, 52). They run on an executor of their own: one whose handler is still running is no
work of the io_context, which `RunReturns` takes into account. `"stuck"` is a response's write to a device that reads no more. On `stop(true)`
the io_context stops in the very handler that cancels the channels, and what the cancellation
posts no longer runs: waiting loops are then left as they are.

### IoBuffer and ByteQueue

`io_buffer_view` with head, tail and bytes, driven by the receive loop. `ByteQueue` is the
abstract queue of the bytes read and not yet consumed; `taken`, a history variable, holds the
bytes consumed last. The branch of `Prepare` without room is the loop's early end; with a buffer
that holds the largest packet nothing reaches it (`NeverFull`). The decoder is reduced to how
much it can leave: less than `MaxPacket`. `ReceivePath!ImplementsBuffer` shows that the loop with
the real decoder is such a loop, so that what is proved of IoBuffer holds of it.

### KeepAlive

The clocks, in discrete time: the client's `heartbeat`, `check` at both ends of each connection,
the time limits of a client's call (waiting for a connection in polls, then what is left) and of
a server's (a whole limit for each of `max_tries + 1` tries). A timer is what is left of it, a
time point the ticks since; `Tick` may pass only if nothing is overdue (`MayPass`), so timers and
packets are handled in time, in any order within a tick. A packet is up to `Delay` ticks on its
way; `Cut` is a network that fails, after which nothing arrives and either end may or may not
notice (`ReadFails`). `TooLong` compares whole seconds, rounded down, with `>`. The server's
registry is reduced to the entry of this client's device, with eviction by a superseded
connection that a push keeps alive. Heartbeats and answers are assumed to be written at once; a heartbeat
that blocks or fails is in TcpClient. A call's packet is not: it is awaited, for any time or for ever
(`"write"`), before the timer is made (connection.hpp:90, 99; `CallWritten`, `TryWritten`), and the
client's remainder is computed before it (tcp_client.hpp:104-109). `time` is what a call has used but
for its writes.

### Expected and Result

`tl::expected`, of which `rpc_result` is made. An object is `m_has_val`, the member that is live,
and its data; the types `T` and `E` are given by the traits the overloads are chosen by: void,
trivially destructible, whether construction, copy and move never throw, may, or are deleted.
Each operator is one overload and gives the set of its outcomes: how it ends, what it leaves in
the two objects, and what it did that it must not (`harm`): `"dead"`, an assignment to or a second
destruction of a member that is not live; `"leak"`, a construction over one that is. An exception
out of a `noexcept` function ends the program. `Result` is the abstract specification: objects
are a value or an error, operations take effect as a whole, and one that throws has changed
nothing but, at most, lost the data of the alternative it was assigning.

### MC modules and proofs

The `MC` modules add symmetry sets and the values a cfg cannot write. The modules named
`...Proofs` hold the proofs, `PacketProofs` those of PacketIdentity, IoBuffer, Framing and
ReceivePath, `PushProofs` those of Push and Lru. Operators named for a mistake and commented with it (`RemoveTail`,
`TooLongFrom`, `ResetBeforeMove`, ...) stand before the definition they would replace: they are the
mutations that show each property can fail.

## 3. Runs

| Run | Instance | Question | States |
|---|---|---|---|
| ConnectionClient | client side, 2 callers, 2 tries, 2 packets of the peer's own | can whoever waits be woken; is the object used after its end; how often is the owner told; does it implement CallPromise | 994,193 |
| ConnectionServer | server side, 2 callers, 2 tries, 1 packet | calls that keep the object alive: does every call return, do the loops follow the object, how often is the owner told | 53,731 |
| ConnectionStart | client side, 1 caller | does start's handler find its owner (no: see Findings) | violated |
| TcpServer (`server`) | 2 connections, 2 devices, 1 task, 2 tries | do list and map agree; does a send reach its device; when may a device be evicted; do tasks return, does stop end what it finds | 204,934 |
| TcpClient | 2 connections, 1 sending task, 1 waiter | is a connection in use live, is it lost only by its own end, does the client keep trying, does stop end all | 162,021 |
| Push | 2 pushes of 2 commands, 2 tries, 2 lives, channel and memory of 1 | is a request given out once, what does success or a refusal mean, what fails the client | 610,978 |
| Lru | 4 values, 3 kept, 4 cells | do list and map agree, is the oldest forgotten | 5,888 |
| PacketIdentity | 2 threads, 3 commands, 8 numbers, 2 laps | who draws 0, which ids meet | 27,406 |
| ReceivePath | 2 writers, 2 pieces in up to 2 writes each, bytes of 2 bits, a buffer of one packet | what is left in the buffer, does the cut into writes and reads matter, do whole frames arrive, is the buffer used as IoBuffer says | 234,326 |
| Rpc | 2 calls, 2 names, 2 loops of one name, channel of 1 | is a request run once, by its handler, is its result returned, do loops survive and end | 256,597 |
| KeepAlive | 2 connections, second and check of 2 ticks, lifetime 2 s, heartbeat 3, delay 1, a call of 3 with polls of 2 or a push of 2 tries | is a working connection kept and named, a silent one found, does a call return in time but for its writes | 1,405,874 |
| Expected | 2 objects, 2 data, 7 value types, 3 error types | do flag and member agree, is each operation whole | 16,937 |

`TypeOK` is a conjunct of `RegistryConsistent`, `ConnIsLive`, `GivenOnce` and `RunOnce` in the
modules of these, `LruTypeOK` of `ListAndMapAgree`.

Bounds. Two callers are enough for one call to keep the object alive under another and for a
reply to meet the wrong waiter; two tries for a stale entry and a late reply; two packets of
the peer's own for an identification followed by another; liveness, on the server, needs one.
Two connections are the fewest in which `remove_if` moves a live element past a dead one and
leaves a null, and in which one supersedes or evicts the other; two devices the fewest for an
eviction to hit the wrong one. The invariants of TcpServer are proved for any number.
`MaxPeerPackets` and, in Connection, `MaxTries` are bounds in guards; `MaxTries` in TcpServer is
the code's parameter.

In TcpClient two connections let an old one end, by either of its loops, while the next is being
opened or is live. In Push a channel and a memory of one place are full after one request, two
pushes of two commands can push each other's ids out, and two lives are one restart. In
PacketIdentity eight numbers and two laps cross both the end of the range and the bit that cmd
and seq share. In Rpc two calls meet two loops of one name
(run together, buffered, or dropped when the loops are busy) and a name nobody serves, whose
channel takes one and drops the other; one call's type parses the messages of one loop only and no
empty body. Lru has one cell and one value more than it keeps.

In ReceivePath the buffer holds exactly one packet of the largest size, the tightest that does;
two pieces are a frame and junk, an oversized frame or a second frame, in either order or torn
into each other by the two writers, and two writes and any number of reads cut a header, a body
and junk at every place. Bytes of two bits let junk equal a flag, a length and a crc; one piece of junk is
a header with a right crc whose device id reaches two bytes behind it.

KeepAlive's ticks are the smallest in which the parts differ: a heartbeat (3) is no multiple of a
second (2), the check's interval as long as a second, and a poll (2) does not divide half of the
time limit (1). `TimeAssumption` is what the real constants must satisfy and do: a heartbeat and
two packets' ways below lifetime plus one second (20 s + 2 delays < 61 s). Two connections are
one reconnection; one call is made in a run, of either side.

Expected's types are void, an integer, a message, one whose move throws too, one whose copy does
not throw, a `unique_ptr` and one that cannot be moved; its errors an integer, a string and one
whose move throws. Two objects are what any operation takes.

`MaxLives`, `MaxLaps`, `MaxPieces`, `MaxChunks` and `MaxConns` are bounds in guards; Lru's `cap`
and Push's `Cap` and `ChannelSize` are parameters of the code (1000, 1000 and 64 there).

Symmetry is used for callers (ConnectionClient), writers (ReceivePath), and
pushes and commands (Push): invariants and properties of a single step that name none of them.
Runs with liveness use none. Deadlock is not checked, except in Lru: everything may end, and then
the system stops.

Fairness. `Connection!Fairness`: every ready handler runs, timers expire, the socket takes a
packet or fails unless the peer is stalled. Nothing is asked of the peer, of the owner, or of
`check`. `TcpServer!Fairness`: the same for posted handlers, ending coroutines and sends that
are not stuck. `TcpClient!Fairness`: an attempt to connect ends one way or the other, timers expire, and a
cancelled or closed write ends, but not a heartbeat's write to a peer that reads no more.
`Rpc!Fairness`: loops go on and handlers return. All are what one io thread in `io_context.run()` gives,
and the actions of that thread are enabled only while it is there (`IoRuns`), so that nothing is asked
of it later. stop(true) ends it at once, and stop(false) when it runs out of work: hence the `halted` and
the `ranOut` in the liveness properties. `run()` cannot return under a send that has begun, but it can
before one, or while a handler runs elsewhere.

What the properties show, beyond what they state:

* `EveryCallReturns` needs its second disjunct. The timeout does not cover `async_write`; on a
  server, where the call itself keeps the connection alive, a peer that stops reading holds it
  for ever. On a client the same call ends when `check` drops the connection.
* `ReportBound` is two on a server: the report of `check` does not destroy an object that a
  call holds, and the read cancelled next reports again. Because `on_disconnected` erases by
  device id, the second report can evict a newer connection of the device;
  `EvictionHasCause` names this case explicitly.
* `RegisteredHasReader` has one exception: a connection that `check` has just given up, while
  still in the list as its last element, and whose last read brings its first packet is registered and stays
  there with nobody reading it.
* `KeepsTrying` has a second exception that is no stop(): a heartbeat whose write fails. The
  client then never connects again, though nobody stopped it.
* `StopEndsWhatItFinds` covers what there is when stop's handler runs. A connection whose
  async_connect completes in between is assigned after it and lives on (it is cancelled at the
  next co_await, but `conn` stays), and a `wait_request` begun after stop() waits for ever: the
  client's does not look at `stopped`, the server's does. A destructor's stop(true) after
  stop(false) returns at once.
* `OkMeansReceived` does not say that anybody took the request: it is acknowledged
  (tcp_client.hpp:143) before the channel is tried, and dropped when that is full; the retry is
  then refused as a duplicate. Its second case is a restarted server's new request that carries
  the id of an old one: it is acknowledged and never given to anybody.
* `EveryTaskReturns`, of both sides, is about sends begun while `run()` is under way: neither `send_packet`
  nor the calls look at `stopped` before they are posted, so that one begun after a stop(false) has taken
  effect never returns and never throws. `StopEndsLoops` has the same exception for an RPC loop whose
  handler outlives `run()`.
* `FailsOnFirstUnwaited`: the client fails on the first request it remembers receiving for which nobody
  had ever waited, and on no other, whatever has become of its channels, connections and the server since.
* `WholeFramesArrive` has its precondition: junk that passes for a header (one in 256 with a flag)
  can swallow a frame, and so can two writes that ran into each other. `CutsDoNotMatter` has none: whatever
  the bytes, the decoder finds packets where it would have found them at once. What is in them is the same
  too, with one exception: the device id of a false header with a right crc may be read from behind its
  packet, and is then whatever is there at the time, or an exception.
* `LiveIsKept` counts a working connection as unnamed for up to a heartbeat: the heartbeat's timer
  goes on across a reconnection, and until the next beat a push to the client finds no connection.
* `CallsInTime` bounds a call but for its writes, which nothing limits: with a peer that reads slowly it
  takes longer than its time limit, and a server's may never return (`EveryCallReturns`). `i <= max_tries`
  gives a push `max_tries + 1` times its limit, and a client's call with a limit below two polls may take
  longer than that.
* `ReturnsWhatHandlerDid`: a handler's error code of 0 reaches the caller as an empty message, and a
  message that the caller's type does not parse as `err_deserialize`, a code that no handler returned.
* `RecentIdsDiffer` is tight: 31 bits of shift for 32 bits of seq make ids meet exactly 2^31
  numbers apart.
* `StopEndsConnections` does not extend to a connection accepted after stop's handler ran:
  `acceptor.cancel()` does not reach an accept already completed, the loop does not look at
  `stopped`, and it goes on accepting.

## 4. Proofs

Each module of proofs states its invariant first, then the lemmas on the operators of the model,
then one lemma or step per action, then the theorems. Every theorem holds for every value of the
constants the named assumptions allow; the bounds of the runs are no part of them.

| Module | Theorem | Property | Assumption |
|---|---|---|---|
| ConnectionProofs | `TypeCorrect`, `WaiterSafe`, `NoStrayUse`, `ReportsBounded`, `OnlyTimeoutLeaves`, `ClientWaiterRead` (clients only), `PromiseKept` | `WaiterCanBeWoken`, `StrayUseOnlyAtStart`, `ReportBound`, `WaiterHasReader`, `ImplementsPromise` | `ConnectionAssumption` |
| TcpServerProofs | `RegistryStaysConsistent`, `RegisteredStaysRead`, `SendsStayOnDevice`, `EvictionsHaveCause` | `RegistryConsistent`, `RegisteredHasReader`, `SendsToItsDevice`, `EvictionHasCause` | `ServerAssumption` |
| TcpClientProofs | `ConnStaysLive`, `OnlyItselfIsLost` | `ConnIsLive`, `ConnLostByItself` | `ClientAssumption` |
| KeepAliveProofs | `SilenceIsBounded`, `CallsAreBounded`, `LiveStaysKept` | `SilentIsFound`, `CallsInTime`, `LiveIsKept` | `TimeAssumption` |
| PushProofs | `RequestsGivenOnce`, `SuccessMeansReceived`, `ChannelsStayOpen`, `ListFollowsMap`, `LruIsRecency` | `GivenOnce`, `OkMeansReceived`, `FailsOnFirstUnwaited`, `ListAndMapAgree`, `ImplementsRecency` | `PushAssumption`, `NullAssumption`, `LruAssumption` |
| RpcProofs | `RequestsRunOnce`, `CallsReturnTheirs`, `OnlyStopEndsLoops` | `RunOnce`, `ReturnsWhatHandlerDid`, `LoopsEndOnlyByStop` | `RpcAssumption`, `NullAssumption` |
| PacketProofs | `NumbersTypeCorrect`, `ZeroSafe`, `IdsDiffer` | `ZeroNeedsRace`, `RecentIdsDiffer` | `IdentityAssumption` |
| PacketProofs | `BufferTypeCorrect`, `SlabSafe`, `NeverFullSafe`, `QueueImplemented` | those of IoBuffer, `ImplementsQueue` among them | `BufferAssumption` |
| PacketProofs | `RoundTrip`, `NoJunkStays`, `PacketsDespiteCuts`, `FramesArriveWhole`, `LoopIsBuffers` | `LeftIsIncomplete`, `CutsDoNotMatter`, `WholeFramesArrive`, `ImplementsBuffer` | `PathAssumption`, `BufferAssumption` |
| ExpectedProofs | `Invariance`, `FlagIsRight`, `ChangesAsAWhole` | `FlagMatchesMember`, `ImplementsResult` | `ExpectedAssumption`, `NullAssumption` |

**ConnectionProofs**, on both sides. The inductive invariant `IInv` has four parts:

* `CallerInv`: a destroyed object holds no entry, no packet and nobody suspended
  (`DeadHoldsNothing`) - needed because the checked invariants speak of waiters only, and a
  step that destroys the object must leave none; entries left behind belong to a timeout or a
  retry; who has been called has at least one try.
* `LoopInv`: the two loops start together (`LoopsPaired`); reports plus loops still running are at
  most two (`ReportsLeft`) - the bound on reports alone is not inductive; `check` is cancelled
  only when the receive loop has ended; a client that was told, or whose receive loop winds down,
  has let go (`ClientTold`).
* `OtherType`: the types of the rest.
* `StrayUseOnlyAtStart`.

`SettleKeeps` is the lemma all steps share that may drop the last reference; `MoveKeeps`,
`ReleaseKeeps`, `ReportKeeps` and `ArrivalKeeps` specialise it. `PromiseKept` is the refinement of
CallPromise, step by step. Its mapping counts, for each call, the replies to it on the wire, so its
lemmas say how that number changes when a packet arrives (`ArrivalCounts`), is read (`ReadCounts`),
or is lost with the object (`SettleLoses`): a call that ends well has used up one.

**TcpServerProofs.** The list lemmas come first: `RemoveIfKeeps` (nobody is repeated and nobody
but the one searched for is lost, although the size stays) and `EraseKeeps`. The inductive
invariant adds to the three checked ones what they leave unsaid: a connection in the list has no
device (`ListedUnnamed`), a call that has begun names a device (`CalledHasTarget`), and the
handler of stop runs only after the flag is set (`FlagBeforeHandler`).

**TcpClientProofs.** What `ConnIsLive` and the action property `ConnLostByItself` leave unsaid is
why the second look at `conn` that `connect` does not take is not needed: while an attempt is
under way there is no connection (`OpensWithoutConn`), since only that loop makes one.

**KeepAliveProofs.** That an end is found silent in time is not inductive: the invariant relates
each end's silence to its timer (`ClocksOK`: their sum is at most the limit and an interval), and
each call's time so far to what its timer still allows (`CallOK`, `PushOK`). `NotTooLong` and
`TriesAddUp` are the arithmetic, `RunKeeps`, `StartKeeps` and `StopKeeps` the lemmas all steps
share. The second part of the module proves `LiveIsKept`. An end's silence must be bounded by what
will end it, so its invariant (`LiveInv`) follows the packets: the silence of a server's end is at
most a heartbeat and the age of a packet on its way to it, or the heartbeat's timer holds the rest
(`ServerAt`); a client's end has an answer on its way, a beat that will be answered, or a heartbeat
to come (`ClientAt`). That needs in turn who has told whom: the client has let go of a connection
if and only if its server's end, running or about to, has the end of the stream on its way, and a
server's end that is closed has told a client that still runs. `WireAt` says which packets go where
and that a connection begins with its acceptance. Most steps concern one connection and close at
most the server's end of others (`Bystander`, `BystanderKeeps`), which is where the eviction of a
superseded connection enters. An end that is found silent is then one of a failed network
(`SilentIsCut`). The last conjunct of `TimeAssumption` is what makes it true: 20 s and a packet's
way and back against 61 s.

**PushProofs.** A request the memory still holds is in one place at most: in the channel of its
command, or given out (`HandedOn`); the memory holds the ids of all received requests but the
forgotten (`Remembered`), so that a repetition is told. `OkMeansReceived` needs who may have
acknowledged: a request or an acknowledgement on a connection that the server has not left is of
the server's own run (`SameRun`), and an acknowledged one is known to the client, received or
refused for one that was (`AcksKnown`). That the client fails
exactly on the first request of a command nobody has waited for needs that a command has a channel
iff it was waited for, and that who waits has one (`Opened`). The last sections are
Lru: `Agree` says that list and map agree, `LinkedAgree` and `UnlinkedAgree` that they still do when
a cell is put in front or taken out, and `ExistImplements` and `PutImplements` that the values in
the order of the list are the memory of `Recency`, also when a cell that was erased is used again.

**RpcProofs.** A request that has been sent is in one place at most: on the wire, in the channel
of its command, in the hands of one loop, or run (`OnePlace`), and goes by the hash of its name
(`ByName`); so it is run once, by a handler of its name. `AnswersReturned` follows what a handler
returned through `sending`, the wire and the parsing of the response, where a body that does not
parse becomes `err_deserialize`; that the response is that of the call needs that calls differ
in their sequence numbers. `LoopsRun` adds to
`LoopsEndOnlyByStop` that the flag is set before stop goes to the io thread.

**PacketProofs**, in three parts.

*Sequence numbers.* The inductive invariant adds what the checked properties leave unsaid about
the counter between two draws: who is about to increment is below the end unless met
(`IncrementIsBelow`); the counter is the number drawn last, or a lone thread in `next_seq` is about
to draw the one after it (`CounterFollows`); packets drawn without a race are numbered in turn, at
any distance (`InTurn`). `SameId` is the arithmetic: equal ids mean numbers that are equal or `Half`
apart, whatever the commands, and `Half - 1` numbers in turn never are, also across the end of the
range, where 0 is skipped.

*The buffer.* The invariant adds `LeftIncomplete`, what the decoder leaves at the top of the loop.
A read appends to the window between head and tail (`ReadAppends`), a consume shortens it from the
front (`ConsumeTakes`), a move leaves it as it is (`PrepareStutters`); hence the refinement of
ByteQueue.

*The decoder and the receive path.* What a recursive function computes is proved by induction over
offsets, from the end of the bytes backwards. The induction is the least-element principle of the
library's `WFMin`, as a lemma about sets of numbers (`Least`, `Backward`); that the recursion of
`calc_crc8`, `decode_packet` and `Packets` ends, so that its equation may be used, is proved the same
way (`CrcType`, `DecoderExists`, `ParseExists`). On this stand: a result is the beginning of a
packet that may become one, or a whole packet (`DecodeResult`); what the decoder finds in a part it
finds in the whole, and where it stopped in the part it goes on in the whole (`DecoderInWindow`,
`FoundStays`, `StoppedGoesOn`); decoding what is there, with or without what comes later, leaves the
packets of the whole as they are (`DecodedSoFar`). `RoundTrip` is `decode_packet` after
`encode_packet`. `CutsDoNotMatter` is not inductive, since a write adds bytes at the end of both
sides of the equation; `NothingLost` states it for every continuation:
`\A x \in Seq(Byte) : out \o Packets(Contents \o (stream \o x)) = Packets(wire \o x)`. Writes, reads
and moves in the buffer only regroup the left side, and a decode is `DecodedSoFar`.

`FramesArriveWhole` rests on two facts about the decoder: a stretch without headers makes no
difference to the packets (`PassedOver`), and so a piece - a frame it accepts, one that is too long,
or junk - makes the packets it should, whatever comes behind it (`PieceDecoded`), and its beginning
makes none (`PartDecoded`). The invariant is stated for every continuation again: `Delivers(base, F,
ps)` says that, whatever comes behind `base`, if the only headers in `base` are those in `F`, the
packets are `ps` and those of the continuation. This is needed because the last bytes of junk may,
with the first of the next frame, look like a header. `InPieces` says that the wire, while nothing is
torn, is such a `base`, or one and the part of a piece that a single coroutine is writing
(`PutInPieces`). `NothingReady` adds that the loop reads again only when no packet is left in the
buffer.

**ExpectedProofs.** One lemma per overload says its outcomes are `Sound`: unless the program ends
or something undefined has happened, both objects still fit their flags. The invariant is that they
fit while the program is `Ready` for another operation: that a switch destroys the member the flag
names needs the flag to be right, and the flag stays right only where nothing undefined happens.
`ChangesAsAWhole` is the refinement of Result. A second invariant, `Keeping`, says what the data of
an object may be (a void value has none); the outcomes of each overload are described once more, by
what they promise (`Transfers`, `SetsTo`, `Exchanges`, `MadeOf`), and each description is a step of
Result or none.

Only model-checked: all liveness, which is out of the prover's reach: `EveryCallReturns`,
`LoopsFollowObject`, `KeepsTrying`, `EveryTaskReturns`, `StopEndsWhatItFinds`, `StopEndsConnections`,
`StopEndsLoops` and `QueuedIsTaken`. Every other property of a passing run is stated by a theorem.
The invariants that quantify over all continuations of the bytes (`NothingLost`, `Delivers`) are
beyond TLC; it checks what follows from them.

## 5. Findings

* `StartFindsOwner`: "post to make sure shared_ptr has been constructed" - the handler captures
  a raw `this`, and an owner can have dropped the object before it runs.

The commented-out assertions of `commit` and `consume` (io_buffer.hpp:150, 157) state bounds the
code does not keep and need not: a read may fill the slab, and a decoder may leave bytes.
`SlabIsFree`, and a `consume` of at most `size`, are the bounds that hold.

What the models of other code say against its comments or its evident purpose, as conditions of
the properties rather than as runs:

* `expected.hpp:703-706` promises the strong guarantee of every `assign`, and 739-743 to move the
  error back and rethrow; `construct` and the first two overloads are `noexcept`, so an exception
  ends the program before the handler is reached (`Dies`, `NoExcept`).
* The handlers of `operator=(U&&)`, `emplace` and `swap` (expected.hpp:1708, 1780, 1822, 1885, 1908)
  assign to a member whose destructor has run.
* The conversion from another expected (expected.hpp:1582-1642) constructs over the `T{}` of its
  base.
* `on_disconnected` (tcp_server.hpp:145) erases by device id, and so a superseded connection that a
  push has kept alive evicts its successor (`EvictionHasCause`).
* The constructor of `connection` initialises `device_id_` from itself (connection.hpp:56).

## 6. Not modelled

* Base utilities (`ibuffer`, strings, logging), exception types, build files, examples and
  generated code: no interacting state.
* Byte order but for what the packets use; the platform's macros are the preprocessor's.
* Of `expected`: self-assignment, `swap` of void values, which its `is_swappable` condition excludes,
  `operator*` and `error()`, which only assert and read, and builds without exceptions.
* Name resolution of asio, protobuf's parsing: what they return is a choice of the model.
* `rpc::push` and `wait_push`, thin wrappers of what Push models.
* The destructors' joins, except as what `StopEndsConnections` and `StopEndsWhatItFinds` make
  possible. Memory exhaustion, except as what lets a copy throw in Expected.

## 7. Plan

What would add most to this:

1. Compositions: Push over Lru instead of Recency; the destructors' join after stop(false).
2. asio's channel as an abstract bounded queue with waiting receivers, shown to be implemented by
   what Push and Rpc do with it.
