# A formal model of the repository's libevent

This directory holds TLA+ specifications of libevent as it is bundled in
`src/libevent`, and of how its parts work together: the event base with its loop,
the polling backends and signals below it, buffers, bufferevents, TLS, the
listener, HTTP, RPC and DNS above it. The servers of the repository (`myserver`,
`libevent_pool`, `libevent_cpp`, `ChatRoom`, `libeventInterface`) are programs on
top of it; of them, the message classes of `myserver`'s framework are modelled. The
models are checked by TLC on small instances; for the event base,
the signals, the listener, the incoming HTTP connection and the token buckets the
main properties are proved for every instance with TLAPS.

`PROJECT.json` lists the parts of the system, the runs, which lines each definition
translates, the hazards of the code with the properties that cover them, the
disagreements between code and documentation, and the theorems.

## 1. The system and how its parts interact

- **Event base** (`event.c`). One thread runs `event_base_loop`. It holds the base
  lock except while it sleeps in the backend and while a callback of the program
  runs. Other threads call the operations under the lock in those two windows. A
  call that changes what the loop should do writes to the notification descriptor,
  once until the loop has drained it. A thread that deletes an event whose callback
  runs waits on `current_event_cond`.
- **Event map and backends** (`evmap.c`, `epoll.c`, `poll.c`, `select.c`,
  `kqueue.c`, `devpoll.c`, `evport.c`, `win32select.c`). The map counts the events
  of each descriptor and tells the backend when a count leaves or reaches 0. Each
  backend has its own way to keep the kernel in step. Some take a changelist.
- **Signals** (`signal.c`). The first event for a signal installs a handler that
  writes to the pipe of the one base in charge; the loop of that base reads it.
- **Buffers** (`buffer.c`). A list of chains that share and hand over memory.
- **Bufferevents** (`bufferevent*.c`). A pair of buffers over a socket, another
  bufferevent, or TLS, with suspension for five reasons, watermarks, timeouts, rate
  limits and deferred callbacks.
- **Listener, HTTP, RPC, tagging, DNS** (`listener.c`, `http.c`, `evrpc.c`,
  `event_tagging.c`, `evdns.c`). State machines driven by the callbacks of the
  layers below, which the program may re-enter at every callback.

The composition is the code's own: a layer sees the one below through its
callbacks. A model of a layer takes the layer below as what that one promises,
stated as an abstract specification where other models rely on it
(`Interest`, `ByteStreams`, `HttpRequests`, `Lookups`).

## 2. Modules

| module | models | abstract specification or proofs |
|---|---|---|
| `EventQueues` | the part of the base that the lock protects, as one record; each `event_queue_*` function as an operator on it | `EventNolockProofs` |
| `EventNolock` | the `*_nolock_` functions, as operators on that record | `EventNolockProofs` |
| `EventBase` | the loop, the operations, the waiting threads | `EventBaseProofs`, `WakeupProofs`, `CallbackProofs`, `EventBaseTheorems` |
| `Backends` | the event map over epoll (with and without the changelist), poll and select | implements `Interest` |
| `OtherBackends` | kqueue, `/dev/poll`, event ports, select on Windows | implements `Interest` |
| `Signals` | handlers, pipes, the base in charge, forks | `SignalsProofs` |
| `EvBuffer` | chains, references, file segments, freezing, callbacks | implements `ByteStreams` |
| `EvBufferSearch` | pointers, searching, lines | compared with definitions on the flat bytes |
| `TokenBuckets` | the arithmetic of rate limits | `TokenBucketProofs` |
| `BufferEvent` | sockets, pairs, filters, limits and groups | |
| `OpenSsl` | the TLS bufferevent over a socket and as a filter | |
| `Listener` | the connection listener and two threads | `ServerProofs` |
| `HttpClient` | an outgoing connection with its queue | implements `HttpRequests` |
| `HttpServer` | an incoming connection | `ServerProofs` |
| `Rpc`, `Tagging` | the RPC pool, hooks and server; tagged records | |
| `EvDns` | nameservers, requests in flight and waiting, probes, searches | implements `Lookups` |
| `GetAddrInfo` | the two lookups of `evdns_getaddrinfo` | uses `Lookups` |
| `DnsServer` | server ports; compressed names | |
| `ProtobufTables`, `CommonProto`, `MessageProto`, `PlayerProto`, `PlayerPushProto` | the generated message classes of `myserver/framework/message`: per class and method, what it does to which member under which bits | |
| `Protobuf` | what such methods mean; a program with two messages of a class | |
| `MC*` | model values and constants for TLC | |

The functions of the code that run under a lock are operators from a record of
state to the record they leave, named as in the code; an action applies one to the
state. Where the code calls the program, the action ends and the program may call
anything before the rest runs. Mutated definitions, marked `Mutant` in their
comment, stand before the definition they change; they document which mistake
each property would catch and are used by nothing else.

### Event base

`base` is the record `event_base` of `EventQueues`. `flags[c]` is `evcb_flags`;
`activequeues` and `active_later_queue` are sequences; the heap is the set of events
with `TIMEOUT` together with `ev_timeout`; the event map is the set of events with
`INSERTED`; `notify_fd` says that the notification descriptor is readable. `ncalls`
is the local variable of a running `event_signal_closure`, and `ev_pncalls` says
whether an event's pointer to it is set. `pc` is the loop's place:

| `pc` | place | lock |
|---|---|---|
| `out` | outside `event_base_loop` | free |
| `top` | the head of `while (!done)` | held |
| `later` | `event_queue_make_later_events_active` | held |
| `dispatch` | asleep in `epoll_wait` | free |
| `polled` | `epoll_wait` has returned, lock not yet taken | free |
| `events` | the results go to `evmap_io_active_` | held |
| `timeouts` | `timeout_process` | held |
| `active` | `event_process_active` chooses a queue | held |
| `queue` | `event_process_active_single_queue` takes a callback | held |
| `callback`, `body_done` | a callback runs, or an internal one has run | free |
| `drained` | `evthread_notify_drain_*` between read and lock | free |
| `evsig` | `evsig_cb` activates signal events | held |

An operation is one action, from taking the lock to releasing it; one that waits on
`current_event_cond` is two, the second being `Resume`. A condition wait has no
spurious wake-ups in the model. Time is a counter that advances while the lock is
free; `lag` is a history variable: how old the cached time was when the sleep was
computed. Which of several equal timeouts is on top of the heap, which events a
descriptor reports, whether the backend accepts a change (`MayFail`) and how often
a signal was delivered are choices. A write through `ev_pncalls` that races with
the closure may or may not take effect. The program makes no call on an event that
was freed or whose finalizer began.

### Backends and signals

`kern` is what the kernel watches, per open file; the rest of the backend's private
state is kept per method. A system call may fail wherever the code looks at its
result. The program closes a descriptor only after deleting its events, and may
open it again as another file at any time (epoll's interest then survives with the
old file while another descriptor keeps it open). With `PortRaces = TRUE` an event
port may lose the last event of a descriptor it is reporting: see section 4.

In `Signals` adding an event is two steps, since a signal can come after
the handler is installed and before the event is listed. `event_reinit` is the
signal half of what a child does after a fork. `WatchMayFail` says whether the
backend may refuse the pipe, or a descriptor that is added again after a fork, upon
which `evmap_reinit_` returns before it comes to the signals (evmap.c:650).

### Buffers and bufferevents

Every operation of `EvBuffer` is one action, callbacks included, because it holds
the locks from its first line to its last. Allocations may fail (`OOM`). `bad`
records a failed `EVUTIL_ASSERT` or a use of freed memory. `BufferEvent` knows
buffers by their lengths and timeouts by whether they are armed.

### HTTP, TLS, RPC, DNS

Messages are sequences of the parts the code tells apart (first line, headers,
pieces of a body, trailers), not bytes; names in DNS messages and tagged records
are modelled byte by byte, since their encodings are what the properties are
about. Sockets accept or refuse, answers come late, twice or never.

### Messages of the servers

`protoc` generated 51 classes whose methods repeat, member by member and with masks of
several bits at a time, what the `.proto` files say once. The tables are taken from
the statements of the generated methods (not from the `.proto` files), one definition
per class and method; `Protobuf` gives the statements their meaning. A message is its
`_has_bits_`, its members and its unknown fields; numbers and strings are abstract
values, 0 being the empty string too. Parsing always begins with `Clear`, as
`ParseFromArray` does in `server_comm_engine.cpp`, and may break off anywhere.

### Uses the models keep clear of

Some constants (`Careful`, `Tidy`, `Steady`, `Polite`, `Patient`, `Orderly`,
`Closable`, `Prompt`) stand for a program that avoids uses for which the code does
not keep its promise. Each place is a conjunct marked with the constant's name and a
comment that says what goes wrong otherwise; section 4 lists them. The runs set the
constants to TRUE; set to FALSE, TLC finds the counterexample.

## 3. Runs

| run | instance | what it shows |
|---|---|---|
| `threads` | a persistent I/O event with `EV_FINALIZE` whose backend may refuse it, a deferred callback, ten operations from a second thread and from callbacks | `QueuesOK`, `CountsExact`: flags, queues and counters agree. `NoLostWakeup`: no activation, break or continue leaves the loop asleep. `FinalizersSafe`: a finalizer stays queued and marked until it runs |
| `sleeping` | two I/O events with timeouts on one descriptor, virtual events | `SleepEnds`: the sleep ends no later than the earliest timeout, and an emptied loop is woken |
| `signals` | a signal event, the three deletions, finalization | `TypeOK`, `WaitersCounted`: a thread that waits is counted, and waits for the callback that runs |
| `turns` | two priorities, limits on callbacks and time per turn, all loop flags, two threads that run the loop, failing dispatch | `UrgentFirst`, `EndsOnlyEmpty` |
| `progress` | fair; loop with `NO_EXIT_ON_EMPTY` | `LoopProgresses`: a broken loop returns, waiting threads are woken, the loop polls again and again |
| `backend` | eight polling methods with two descriptors, six events (one for `EV_CLOSED` alone) and two files; two bases with three signal events | `PollsWhatIsListed` (refinement of `Interest`), `IntegrityOK`, `ReportsServed`, `SignalsFollow` |
| `evbuffer` | two buffers of at most four bytes, chains of at least two; failing allocations; five parts | `KeepsBytes` (refinement of `ByteStreams`), `LayoutOK`, `RefcountsExact`, `ToldTrue`, `FreezeHolds`, `SearchesFind` |
| `bufferevents` | six parts: connecting, a socket, a bucket, a group, a pair, a filter | `RegisteredAsAsked`, `LimitsSound`, `LivesLongEnough`, `NothingStuck`, `ReadsAnnounced` |
| `http` | eight parts: listener, client, server, TLS, RPC pool, RPC server, tagged records, messages | `EndsOnce` (refinement of `HttpRequests`), `ListenerSafe`, `ClientSound`, `ServerSound`, `TlsAwaits`, `RpcsServed`, `RecordsRead`. `FieldsKept`: a member without its bit shows its default. `MessagesKept`: what is written is what was counted and reads back the same |
| `dns` | eight parts: two nameservers with lookups, searches and probes under several networks, limits and options; `getaddrinfo`; a port with three queries; messages of three names | `LookupsToldOnce` (refinement of `Lookups`: told at most once; that a lookup ends is `ResolverSound`), `ResolverSound`, `AddrInfoSound`, `PortServes`, `NamesReadBack` |
| `free_race`, `retry_pending` | | end in a counterexample: section 4 |

A run with parts starts one part and stays in it: the parts share no state, and one
run explores the union of their state spaces instead of the product.

### Bounds

Every bound is a constant. In `EventBase`, `MaxClock` stops the clock (a timeout can
be armed, elapse and be armed again within it), `MaxNcalls` bounds the deliveries of
a signal at once (2: the closure loops), `MaxVirtual` the virtual events,
`MAX_DEFERREDS_QUEUED` is 0 instead of 32 (the code is the same for any value), and
`CountCap` makes the local `count` saturate above every limit it is compared with.
Two threads suffice for every pair of operations to meet, and one or two events for
a queue to hold more than one callback together with the internal ones.
In `Backends`, `Room` and `MaxListed` stand for table sizes that the code grows or
refuses at, so small values meet the limit. In `EvBuffer`, `MinChain`, `MaxAuto`,
`MaxCopy` and `MaxRealign` are scaled down together so that four bytes meet every
branch on them; `PairBytes` and `PairChains` bound the part with two buffers.
In `BufferEvent`, `SizeMod` and `TickMod` are the moduli of `size_t` and of the tick
counter; `MaxDebt` bounds an overdrawn bucket, `MaxFill` how far above its burst one is
filled (by the program, with a negative decrement, and by the ticks that follow), and
`MaxTicks` the ticks between updates. Low-water marks are 0, and the part that connects
enables and disables `EV_WRITE` only. In HTTP, `MaxInput` bounds the parts that wait in the input; `MaxCalls`
bounds the calls on a message (2: any method after any other, for each class). In DNS,
`MaxInflight`, `MaxTimeouts` and the limits on retransmitting and reissuing are the
resolver's own, set to 0, 1 or 2; `BufLen`, `MaxLabel` and `MaxName` stand for the size of
a message (1500), of a label (63) and of a name (255), scaled down so that messages of
three names meet each of them, at the last byte too. In `MCBackends`, `Few` limits
which of the six events share the first descriptor: the `EV_CLOSED` one with two others at
most, and a second reader not with the changelist or kqueue.

Symmetry is used where the values are interchangeable: the two buffers (`Twins`) and
the nameservers (`Sym`).

### Deadlock

Deadlock is checked in the runs of the event base and the backends. In the others the
system may stop: everything has been freed, or a bound is reached.

### Fairness

`FairSpec` of `EventBase` assumes that the loop's thread goes on (weak fairness of
`LoopStep`: a callback returns, a lock that is free is taken), that `epoll_wait`
returns when the notification descriptor is readable or its timeout has passed, and
that time passes. It assumes nothing of other threads, of descriptors, or of the
order in which waiting threads get the lock: what is claimed of a waiting thread is
that it is woken. `ReportsServed` of `Backends` needs no fairness; elsewhere "something
under way will serve it" is stated as an invariant (a queue, timer, registered event
or pending reply exists), which asks nothing of the scheduler.

## 4. Where the code and its documentation differ

Two runs end in a counterexample to what a comment or a header of the repository
says; `PROJECT.json` quotes the lines.

| run | property | what happens |
|---|---|---|
| `free_race` | `FreeWaits` | the condition wait in `event_del_nolock_` is not repeated; the event may be running again when `event_free` releases it |
| `retry_pending` | `NeverFatal` | a request made while an HTTP connection waits to retry connects at once; when that connect fails too, the retry event is assigned again while it is pending |

Three more configurations do the same and can be run by hand: `evbuffer_gap`
(`LayoutOK` with `Careful = FALSE`), `pair_timeout` (`TimersFit`) and `tls_pending`
(`PendingRead` with `BigRecords = TRUE`). The rest of this section lists what else the
models show; each is a conjunct marked `Careful`, `Tidy` and so on, a hypothesis of a
theorem, or a choice of constants.

**Event base.** A waiting `event_del` resumes after `event_finalize` and removes the
finalizer; `event_finalize` of a running signal event waits before it sets
`EVLIST_FINALIZING` (hence the hypothesis `NobodyWaits`). Activating a deferred
callback does not set `event_continue`, and `event_base_loopcontinue` from another
thread makes `event_process_active` go on to the next queue when only an internal
callback ran; with `max_dispatch_callbacks` 0 and `limit_callbacks_after_prio` 0 a
queue is left after its first callback and the next, less urgent one is run (hence
`Unhurried`). The signal closure overwrites the count that
`event_active` set (`ActiveSignalsFire`). Re-adding a timed-out active event leaves
its descriptor unwatched (`AddWatches`). A backend deletion that fails suppresses the
notification of an emptied loop (event.c:3000; hence `MayFail = {}` in
`SleepsCorrect`). `event_remove_timer` on an active signal event clears the union
member that holds its call count. When a deletion ends the loop of
`event_signal_closure`, `ev_pncalls` keeps pointing at its local variable, and a later
`event_add` or `event_del` may write there (event.c:1481). The interval of a persistent event survives
`event_del` and is used after a later add without a timeout.

**Backends and signals.** An event port keeps a stale association and a stale index
into its pending list when a descriptor loses its last event while it is reported
(`PortRaces`). `evport_add` leaves `fdi_what` changed when `port_associate` fails.
`devpoll_del` of `EV_CLOSED` alone removes reading and writing too, and ignores a
failing second submission. `win32_dispatch` without sockets sleeps with the lock held.
kqueue tells a refused write addition only to readers. With epoll, `EPOLLHUP` or
`EPOLLERR` on a descriptor whose only events are for `EV_CLOSED` (as in
test-closed.c:102) activates none of them (epoll.c:506-508), and the loop polls again at
once, for ever: `ReportsServed` names this exception. After `event_reinit` on
epoll `ev_n_signals_added` counts the signals a second time (`SignalsCounted`); without `need_reinit` it leaks `sh_old`; a failing
`event_add` in `evsig_add` leaves the handler installed, and a descriptor refused after
a fork leaves every signal of the base unhandled (hence `Separate`).

**Buffers.** Prepending a buffer that ends in an empty chain leaves an empty chain in
the middle, at which `advance_last_with_data` stops. `evbuffer_pullup` may fill a
shared first chain in place. A failing `evbuffer_prepend` leaves part of the data.
`evbuffer_remove_buffer` ignores a failing `evbuffer_add`.
`evbuffer_add_buffer_reference` frees empty chains of the destination and keeps the
pointers to them.

**Bufferevents.** A bucket that was filled above its maximum with a negative decrement
(bufferevent.h:957-960) is not cut down by the next tick: the difference in
`ev_token_bucket_update_` is unsigned, and the bucket goes on growing, where the
comment at bufferevent_ratelim.c:87-94 gives the maximum. `be_pair_transfer` re-arms the read timer of a bufferevent that is
disabled or suspended. `be_null_filter` reports moved bytes as an error. A connect
that succeeds at once while `EV_WRITE` is disabled never reports `CONNECTED`; a
connect that times out keeps its event armed. Data drained from a filter while
`EV_READ` is disabled stays stuck below. A group with `min_share` 0 reads 0 bytes and
takes it for the end of the stream. Unsuspending a group re-adds the event of a member
that is being freed.

**TLS.** With a blocked direction and a suspension, `consider_reading` and
`consider_writing` spin (`Steady`); a filter ends a blocked read after one record;
suspending a group during the handshake stalls it; a closed connection may be
reported twice.

**Listener.** A callback that frees the listener makes `listener_read_cb` close the
connection it has given away (listener.c:421-427). With `LEV_OPT_THREADSAFE`,
`evconnlistener_disable` waits for a callback that waits for the listener's lock
(`NoStandoff` fails; listener.h:71-73).

**HTTP.** Cancelling the only request while a retry is pending, or data on an idle
connection that is reset without clearing close detection, reach assertions.
`evhttp_connection_reset_` does not cancel the deferred read. A failing bind leaves the
queue unserved. At the server: starting a reply after the connection ended, bytes
that arrive while a reply is prepared, and `evhttp_free` while a request is served
(`Tidy`).

**RPC.** The timer aborts the head request of a connection whichever timed out;
a failing `make_request` frees a context whose timer is pending; a terminating hook
strands the queue; a pool is freed with calls under way; a request is unregistered
while paused; a connection is added to a pool while it has requests, which
`evhttp_connection_set_base` asserts it has not (http.c:2443-2450) (`Polite`). A reader that does not wait for the whole record loses it
(`Patient`). Tags are written in little-endian groups, against the comment in
`event_tagging.c`.

**DNS.** `evdns_server_request_respond` queues an answer only on a permanent error
(evdns.c:2005); one the socket cannot take now stays with the program, against the
comment at evdns.c:276-278 and dns.h:645-647. Closing a port with outstanding requests
leaves its lock held; the last answer or drop of a closed port frees it under
`evdns_server_request_respond`, `server_port_ready_callback` or, from the program's
callback, `server_port_read`, each of which goes on with it (`Closable`). The zero that
ends a name is written without a look at the room (evdns.c:1659).

With one request allowed in flight, a search strands the request that waits. Clearing
the nameservers frees them one by one: a probe whose request was moved to a nameserver
freed before it then ends on freed memory (evdns.c:2408-2423), and so does a request
that waits and is given to one of them; a probe that is about to be told finds its
nameserver gone. Freeing the base has the last two as well (`Orderly`). With
`EVDNS_BASE_DISABLE_WHEN_INACTIVE` the end of a nameserver's last request deletes its
event and its probe timer, whatever they were for: a nameserver that is waiting to
become writable stays choked, and one that failed is not probed again. `RequestsDriven`
and `DownProbed` are therefore stated without that option.

`evdns_getaddrinfo` does not hold the lock between its two lookups and assigns its timer
after them, so in a thread other than the loop's the first may have ended by then; a
failing allocation while an answer is converted tells the program twice, and one in
`evdns_getaddrinfo_fromhosts` returns with the lock held; shutting the base down while
one answer waits for the other leaves a timer on freed state (`Prompt`).

## 5. Proofs

The theorems hold for every value of the constants that satisfies the assumptions
stated beside them (`CallbacksAssumption`, `PrioritiesAssumption`,
`DeferredsAssumption`, `ThreadsAssumption`, `BoundsAssumption`, `SignalsAssumption`,
`HttpServerAssumption`, `ModAssumption`): kinds of callbacks are disjoint, internal
events have priority 0, signals are finitely many numbers.

| theorem | module | statement | hypothesis |
|---|---|---|---|
| `TypeCorrect` | `EventBaseTheorems` | `Spec => []TypeOK` | |
| `QueuesCorrect` | | `Spec => []QueuesOK` | |
| `CountsCorrect` | | `Spec => []CountsExact` | |
| `WaitersCorrect` | | `Spec => []WaitersCounted` | |
| `EndsCorrect` | | `Spec => EndsOnlyEmpty` | |
| `WakeupsCorrect` | | `Spec => []NoLostWakeup` | |
| `TimersCorrect` | | `Spec => []TimersWake` | |
| `SleepsCorrect` | | `Spec => []SleepEnds` | `MayFail = {}` |
| `FinalizersCorrect` | | `Spec => []FinalizersSafe` | `NobodyWaits` |
| `PrioritiesCorrect` | | `Spec => UrgentFirst` | `Unhurried` |
| `SignalsCorrect` | `SignalsProofs` | `SigSpec => []SignalsFollow` | `Separate` |
| `ListenerCorrect` | `ServerProofs` | `LevSpec => []ListenerSafe` | |
| `ServerCorrect` | `ServerProofs` | `SrvSpec => []ServerSound` | `Tidy` |
| `UpdateExact` | `TokenBucketProofs` | `Exact`: at or below the maximum the update equals the naive one; above it, it adds without the bound | the configuration is one `ev_token_bucket_cfg_new` accepts, the limit is an `ev_ssize_t` |

Each hypothesis is satisfied by the constants of the run that checks the same
property, and each names uses for which the property fails (section 4).

**Event base.** `IInv == BaseOK(base) /\ CtlOK` is the inductive invariant behind the
first five. None of their properties is inductive by itself: that a queue operation
keeps the counters needs queues and flags to agree (an insertion must meet a callback
that is not yet queued), that a callback is taken off its queue once needs the
queues to be without repetition, and both need the types. `BaseOK` joins the type of
the record, `QueuesMatchFlags`, `CountsMatchFlags` and that closures fit their
callbacks. `CtlOK` adds the types of the other variables, what a waiting thread
remembers (`ThrOK`), that a callback is current only while one runs (`PcOK`), and
`WaitersCounted`. `EventNolockProofs` goes up in layers, from inserting into a queue to
the `*_nolock_` functions; `EventBaseProofs` has one step per action. `EndsCorrect`
follows from the counters: the loop compares counts with zero, and exact counts of
zero mean that no flag is set.

`WakeInv` (`WakeupProofs`) adds what the wake-up properties need: outside the window
between the two halves of the drain, a pending notification is one the loop will still
read; and a loop that is about to sleep has seen every active callback, break and
timeout (`AboutToSleep`). Each operation is shown to change what the loop waits for
only if it also makes the descriptor readable (`Alerts`), or runs in the loop's own
thread. `SleepInv` adds that the loop goes to sleep only with something to wait for.
`FinInv` (`CallbackProofs`) says that a callback is marked exactly when its closure is
a finalizer and from then on is active, running or done. `UrgentInv` says that the
queues before the one being run are empty or the callback that runs is the last of its
turn.

`BaseOK` has one conjunct about no variable, `Cardinalities`: the facts on finite
sets that the counters need. The library's theorems would be in the context of every
obligation of a module that extends them, which makes checking several times
slower; so only `EventBaseTheorems` extends them, and it proves `Cardinalities`
before it concludes that the initial states satisfy the invariant. No theorem assumes
it.

**Signals.** `SigInv` says of each base that what `sh_old` keeps is exactly what the
handlers it installed have replaced, within `sh_old_max`, that a listed signal has its
pipe watched and open, and that the base in charge is open. The step that deletes
everything at the end of a base walks the signals in order; that it restores all of
them needs the least and the greatest element of a set (`Least`, `Greatest`).

**Listener.** `LevInv` ties the lock to who is where, and the reference count to
the program's reference and the callback's: a listener the program has freed lives on
exactly while the callback holds its reference or the freeing thread waits in
`event_del`.

**HTTP server.** `SrvInv` says that a live connection has a current request that is in
one of three situations, `Reading`, `Answering` or `Answered`, each with the callbacks,
directions and flags the code has set by then, and that every other request is
`Apart`: freed once, or held by the program without a connection. The three
assertions of the code, and that each request is freed once, follow. The deferred read
callback and the recursion from the end of a reply into the next request are why
`Reading` must say when a deferred read is pending.

**Token buckets.** `Exact` is about the wrapped arithmetic of the code: ticks counted
modulo the width of the counter, the difference modulo that of `size_t`. In a bucket at
or below its maximum the difference does not wrap (`TicksCounted`, `QuotientDecides`,
`SumKept`), so the test decides whether the plain sum passes the maximum and the sum it
takes otherwise fits. Above the maximum the wrapped difference is larger than any
sum the ticks can reach except near the width of `size_t`, so the sum is taken as it is,
reduced to `ev_ssize_t`: the theorem states that too, since a program can fill a bucket
that far.

Only model-checked, and why:

- liveness (`LoopProgresses`): fairness and `ENABLED` are out of the prover's reach;
- `EvBuffer`, `EvBufferSearch`, `BufferEvent`, `OpenSsl`, `HttpClient`, `EvDns`,
  `DnsServer`, `Protobuf` use recursive operators, as their code loops over chains and queues or
  calls itself through callbacks, and messages contain messages; the prover has no induction over data. Their
  refinements (`KeepsBytes`, `EndsOnce`, `LookupsToldOnce`) stay with TLC for the same
  reason;
- `PollsWhatIsListed`, `IntegrityOK`, `ReportsServed`: the changelist and the tables of
  kqueue and Windows are folds over sequences;
- `RpcsServed`, `RecordsRead`: sequences of digits and queues, likewise;
- `AddrInfoSound`: `GetAddrInfo` has no constant but `Prompt`, so the run explores every
  behaviour there is.

## 6. Not modelled

Of the modelled parts: `event_base_free`, `event_priority_set`,
`event_callback_finalize_many_`, `event_base_once` for other uses than `loopexit`,
common timeouts, the array of the min heap, debug mode and dumps; growing tables;
`sendfile` and reading file segments; changing the base, lock or group of a
bufferevent, and control operations; the grammar of HTTP's first lines, headers and
URIs; parsing DNS replies, `resolv.conf` and hosts files.

IOCP is Windows only and needs a model of overlapped I/O; reading it shows an
asynchronous bufferevent that is disabled and enabled during an operation keep
`read_added` at 0, and a listener whose `AcceptEx` succeeds at once call back twice.
The locking layer enters as what it promises. Utilities, logging and formatting have no
state of their own.

The servers under `src/myserver` run over a framework whose packets are never framed
(`m_uRecvPackLen` is not assigned), whose queues refuse every message
(code_queue.cpp:267) or are never created (mes_handle.cpp:64), whose threads are never
started and whose timers are never inserted; as written there is no behaviour above it
to state properties of, except for the messages themselves. The remaining programs are samples. `PROJECT.json` gives the
reason for each.
