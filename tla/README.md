# Verification of the Psocks engine

Psocks is an Android SOCKS5 client. A VPN service (Java) hands a TUN descriptor to a native engine
(`app/src/main/jni/psocks-engine`), which turns the packets of the device back into TCP and UDP flows with
lwIP and relays each flow to a SOCKS5 server. This directory holds TLA+ models of the parts of that program
whose correctness depends on the order of events, TLC configurations that check them on small instances, and
proofs of their main invariants for every instance.

In what follows `E` is `src/app/src/main/jni/psocks-engine`.

## 1. Inventory

| Component | State | Operations | Hard behaviour | Correct when |
|---|---|---|---|---|
| Tunnel (`E/src/hev-socks5-tunnel.c`, `hev-socks5-session.c`) | `run`, session list and counter, three daemon tasks | accept (TCP, UDP), update, delete, eviction, stop, the loops of the event, io and timer task | all tasks share the list and yield at different points; eviction and stop terminate sessions in any phase | list exact, no wakeup of a stopped task (it aborts), terminations are seen, the lwIP timer runs while sessions exist, stop returns |
| Task system (`E/third-part/hev-task-system/src/kern`) | task states, run queue, timers | wakeup, yield, sleep, join, exit | a wakeup between a check and a sleep; edge-triggered events | the run queue and the timers are exact, a task that can run, whose timer expired or whose event came gets its turn |
| TCP session (`E/src/hev-socks5-session-tcp.c`, `misc/hev-ring-buffer.c`) | ring buffer, queue of pbufs, pcb, results of both directions | splice in both directions, recv/sent/err callbacks, drain, destruct | zero-copy ring shared with lwIP, back pressure on both sides, half close, loss of the pcb at any yield | bytes are not overwritten before they are acknowledged, no end of stream overtakes data, no wakeup lost |
| UDP session (`E/src/hev-socks5-session-udp.c`, `core/src/hev-socks5-udp.c`) | frame queue, two directions, the calls under way | forward, relay framing over TCP or UDP, time limit | calls stop inside a frame, one direction fails and the other goes on | each direction is a lossy channel of whole datagrams, what is queued goes out, the session ends with its connection |
| SOCKS5 client (`E/src/core/src/hev-socks5-client*.c`) | fd, time limit, address | connect, authentication, request, response, pipelined variant | partial reads, a server that answers out of step, terminate during connect | the handshake ends, and ends with what the server granted; the address of the request has one owner |
| DNS proxy and task mutex (`E/third-part/hev-task-system/src/lib/dns/hev-task-dns-proxy.c`, `kern/sync/hev-task-mutex.c`) | one call slot, socket pair, LIFO of waiters | call, lock, unlock, resolver loop, destroy | tasks of one thread against a resolver thread; stray wakeups | a call gets its own answer, the resolver never follows a dead call, no unlock or answer is lost |
| Mapped DNS (`E/src/hev-mapped-dns.c`) | tree, LRU list, records, counter | query, lookup, insert, replace | the index of an evicted name is used again while clients hold the address | structures agree, an address keeps its meaning while its name is in use |
| Engine life cycle (`E/src/hev-jni.c`, `hev-main.c`) | `is_working`, mutex, thread, `event_fds` | start, stop, init, run, fini | stop during asynchronous initialisation, failing initialisation | stop reaches its engine and returns |
| VPN service (`ProxyVpnService.java`) | `tun`, settings file | connect, disconnect, revoke, restart | commands on the main thread, revocation on a binder thread, killed processes | each engine has its own open TUN and its own settings |
| Configuration (`E/src/hev-config.c`) | static values | parse, defaults, clamps | limits other parts rely on | taken as assumptions on constants |
| SOCKS5 server, authenticator, users (`E/src/core/src`) | session, user tree, reference counts | server side of the handshake, add, delete, drop | users deleted while a handshake waits (the engine itself does not call this part) | only the right user is served, references add up |
| TUN back ends, logger, user interface | - | system calls, views | - | - |

Interaction: the service calls the JNI functions; the engine thread runs the tunnel; the io task reads packets
and calls lwIP, whose callbacks create sessions and wake their tasks; a session resolves the server's name
through the DNS proxy, shakes hands with the server and splices; destinations inside the mapped network are
translated back to names; the event task ends everything when a byte arrives from `hev_socks5_tunnel_stop`.

`PROJECT.json` lists every hazard found at its line, with the properties that cover it.

## 2. Modules

| Module | Models | Checked by | Proofs |
|---|---|---|---|
| `Lists` | intrusive lists as sequences: membership, deletion, push | - | as lemmas of the modules that use them |
| `Tunnel` | tunnel, use of the task system, phases of sessions | `MCTunnel`, `TunnelLimits` | `TunnelProofs` |
| `TunnelLimits` | `Tunnel` with a history variable counting time limits after a terminate | itself | `TunnelProofs` |
| `DnsProxy` | DNS proxy, task mutex, resolver thread | `MCDnsProxy` | `DnsProxyProofs` |
| `MappedDns` | mapped DNS cache and its use by queries and sessions | `MCMappedDns` | `MappedDnsProofs` |
| `TcpSplice` | data path of one TCP session | `MCTcpSplice` | `TcpSpliceProofs` |
| `DatagramChannel` | abstract specification: bounded lossy first-in-first-out channel of whole datagrams | through `UdpSession` | `UdpSessionProofs` |
| `UdpSession` | data path of one UDP session, both relay protocols; each direction refines `DatagramChannel` | `MCUdpSession` | `UdpSessionProofs` |
| `Socks5` | SOCKS5 client and server over one connection, authenticator and users | `MCSocks5` | `Socks5Proofs` |
| `Scheduler` | run queue and timers of the task system | `MCScheduler` | `SchedulerProofs` |
| `Engine` | VPN service commands, JNI functions, engine thread | `MCEngine` | `EngineProofs` |

### How actions correspond to code

**Cooperative tasks.** In `Tunnel`, `TcpSplice`, `UdpSession` and `DnsProxy` a task runs until it yields. An action of a task
is the code from one yield to the next (or to the next phase, which adds interleavings and removes none), is
enabled when the task is `RUNNING`, and ends by leaving it `RUNNING` (`HEV_TASK_YIELD`) or `WAITING`
(`HEV_TASK_WAITIO`, sleep). Callbacks of lwIP run inside the io or timer task and are actions enabled where
the session task can be suspended.

**Tunnel.** `state` is `HevTask.state`, `session_set` the list in its order, `pc[s]` the phase of a session
(`start`, `resolve`, `connect`, `handshake`, `lookup`, `splice`/`fwd`/`part`, `drain`), `timeout[s]` the field of `HevSocks5`
reduced to not set, 0 and positive. A UDP session that waits inside a call of `hev-socks5-udp.c` is in `fwd` while
the call has moved nothing and in `part` once it has moved some: a limit that runs out in `fwd` closes the direction,
one that runs out in `part` may leave it open, because a call that was cut reports what it moved (`FwdResume`).
`lookup` is the second name lookup of a UDP-in-UDP session whose `udp-address` is a name (`UdpIsName`); like the
first it has no time limit. `Accept` is the whole of `tcp_accept_handler`/`udp_recv_handler` with
`hev_socks5_tunnel_insert_session` (list, counter, eviction by `hev_socks5_session_terminate`, wakeup of the
timer task) and `hev_task_run`. `aborted` records a call of `hev_task_wakeup` on a stopped task.

**DnsProxy.** `pc[t]` is where a task is in `hev_task_dns_proxy_call`; `waiters` the stack of
`hev_task_mutex`; `edge`/`entity` the edge-triggered event and the task it is for; `rpc` the resolver thread.
`Wake` is a wakeup for any other reason.

**MappedDns.** An address is a pair of network and host part. `Question` is one round of the loop of
`hev_mapped_dns_handle`, `Find` is `hev_mapped_dns_find`, `Translate` the lookup made for a new session. `handed` and `since` are history:
addresses given out and the names used since.

**TcpSplice.** One pass of the splice loop is `tcp_splice_f` (pc `f`), the read half of `tcp_splice_b` (`b`),
its write half (`w`) and the yield (`y`). A byte is its number in the server's stream, `data` says which byte
is at each place of the ring, `seg` the places lwIP refers to. `BWrite` takes the outcome of every `tcp_write`
and of `tcp_output` as input. The socket of the server (`ServerSend` and so on) is external.

**UdpSession.** One pass of the splice loop is `fwd_f` (pc `f`, `send`), `fwd_b` (`b`, and for frames in a
stream `head`, `rest`, `body`, `push`) and the yield (`y`). Streams are counted in bytes (towards the session) or
parts of frames (towards the server), so that every call may stop anywhere; `Sent`, `HeadResult` and `BodyReturn`
are the results the callers get. `ub` is the undefined behaviour that follows when `fwd_b` takes a byte count
for a number of messages, follows an address that was never set, or reads the stream out of step. `torn` and
`cut` are history: a call returned inside a frame.

*Refinement.* `UpChannel` and `DownChannel` instantiate `DatagramChannel`: upwards the queue is `frame_list`
without the frames whose last part is written, the output what the server can parse out of the bytes it got;
downwards the queue is what arrived and was not delivered, the output what went to lwIP. The promise of the
abstract channel ends with the first frame cut inside (`intact`).

**Socks5.** `cpc`/`spc` name the read or write each side is at, `After` and `Goes` the order of the calls. A
message is two or three parts, so that a read may end between them; all messages of a handshake fit into the
socket buffers, so a send is one step. `obj` is the union field of the server that holds the authenticator, then
the user. `owner` follows the address `write_request` takes. `excuse` is history: what may make a handshake fail.

**Scheduler.** The cached red-black trees of runnable tasks and of timers are sequences in tree order: erasure of
a node is `ListDel`, and insertion links it behind the keys that are not greater (run queue) or before those that
are not smaller (timers), as the comparisons of the code do. Keys are
kept relative to the first task (the code only adds the first key to new ones and compares), times are what is
left of them. `Pick`, `PollEvent`, `PollTimer` and `IdleEnds` are the parts of `hev_task_system_pick_current_task`,
with events coming in between; `Resume` is `hev_task_timer_wait` after its yield.

**Engine.** `pc[main]` walks through `startVpn`/`closeCurrentVpn` and the JNI functions below them; `pc[binder]`
is `onRevoke`. `epc` is the engine thread. `faults` fixes, per behaviour, which of "revoke", "init", "kill" may
happen, so that each property can say under which of them it is claimed. The Android build defines `NDEBUG`
(`APP_OPTIM := release`), so a failed write in `hev_socks5_tunnel_stop` goes on.

## 3. Runs

| Run | Instance | Shows |
|---|---|---|
| `tunnel` | one TCP and one UDP slot (reused), limit 2, server by name, relay address from the server | list exact, no abort, terminated sessions awake, timer not parked, at most two idle time limits after a terminate |
| `tunnel_stop` | the same slots, one session alive at a time, server and relay by name, fair | stop returns whatever phase the session is in |
| `dns_proxy` | three tasks, two calls each, fair | mutex exact, no lost answer, resolver follows live calls only, own answer, every call returns |
| `mapped_dns` | four names, cache of three, queries of up to four questions | structures agree, mapping holds until three other names were used |
| `tcp_splice` | ring of 3, window 2, socket buffer 1, five bytes down and two up, `tcp_write` failing or not | stream intact, ring, queue and window exact, clean ends in both directions |
| `tcp_splice_live` | ring of 2, three bytes down, one up, fair | bytes are delivered, a session whose sides both ended ends |
| `udp_session` | both types, batches of 2, pool size 1, frames of two parts, heads and bodies of two bytes, socket buffer 3, three datagrams up and two down | message counts right, both directions implement `DatagramChannel` |
| `udp_live` | the same with socket buffer 1, two up and one down, fair | queued datagrams and arrived replies leave, the session ends with its connection |
| `socks5` | two users, a stranger, right, wrong and no password; pipelined or not; three request types; server with or without authenticator; fair | agreement, authentication, ownership of objects and address, no false refusal, both sides end |
| `scheduler` | three tasks of priorities 2, 1, 1, turns of one or two units, sleeps of one, fair | both trees exact, no starvation, timers fire, events are served |
| `engine` | three starts; faults {kill, init} and {kill, revoke}; fair | own open TUN, own settings, write reaches the engine, clean disconnect, stops return |
| `engine_hang` | faults {init} | **violated**: a stop after a failed initialisation never returns |

### Why the bounds are enough

Session slots are reused after a session ends, so any number of flows passes through the two slots; two
slots of different kind with limit 2 already make eviction of the other, eviction of a session in every phase
and a second accept before the evicted session ran happen. The ring of three bytes wraps with both parts non-empty, is filled completely, emptied (pointer reset) and
partly acknowledged; with five bytes each place is used twice. Four names on a cache of three give hit, insertion, replacement and
re-insertion of an evicted name. Three callers are the least with which a waiter is overtaken both by a
newcomer and by a later waiter. Three starts give a start on top of a running engine, after a stop and after a
kill.

With a pool size of 1 the queue of a UDP session holds two datagrams: it is full, takes the one datagram more
that `frames > UDP_POOL_SIZE` admits, drops the third, and a batch of two is sent in up to four steps; two bytes
of head and body are the least that can be cut. In a handshake every message, answer and failure happens once;
a second user is needed to tell the right user from another. Three tasks are the least with which two others can
starve a third, two timers expire behind a first, and one task never waits; two priorities and two run times give
keys that overtake each other.

### Fairness

- `Tunnel`: a running task gets its turn (the scheduler picks the least virtual run time), the TUN read
  reports empty at some point, the resolver answers. After stop, and only then, strong fairness for the
  expiry of time limits, for their expiry with nothing moved (`StuckAfterStop`) and for a session's wait. A peer that
  keeps a session busy for ever, or a server that takes part of a batch within every limit, would keep
  `native_stop_service` waiting for ever, which the code does not prevent. The run shows that nothing else does: in
  particular the limits that run out with nothing moved close one direction after the other and end the session.
- `DnsProxy`: tasks and resolver run, events are collected, `getaddrinfo` returns. The number of calls is
  finite: the mutex serves waiters last in first out, so endless new callers could starve one.
- `TcpSplice`: the task runs, events are collected, both peers acknowledge and read. No fairness for time
  limits, terminations or resets.
- `UdpSession`: the task runs, events are collected, the network delivers the rest of a frame it began and the
  server reads. No fairness for time limits, terminations or resets.
- `Socks5`: both sides run and read what was sent. No fairness for time limits: the handshake ends without them.
- `Scheduler`: the kernel runs and every turn ends. The second half is what the tasks owe the scheduler: it is
  cooperative, and the io task of the tunnel yields only when the TUN device is empty. Priorities are at least 1
  (1 for the io and the timer task, `hev-socks5-tunnel.c:538` and `:560`, and the default 8 for the others): with 0 a task that only yields would keep its key and starve the others.
- `Engine`: the threads run.

## 4. Proofs

All theorems are checked by tlapm without assumptions other than the `ASSUME`s on constants, which TLC
evaluates in the runs.

- `TunnelProofs`: `TunnelInv` is inductive for every set of slots and every limit other than 1 (with 1 the
  first flow terminates itself before its task runs and the process aborts). `NoAbort` needs the exact list (only sessions in it are woken) and
  the protocol of the daemons (`StopProtocol`: `run` is cleared exactly when the event task leaves its read;
  io is joined before timer); `TerminatedIsAwake` needs that every entry into a timed wait sees a limit of 0.
- `DnsProxyProofs`: `ProxyInv` adds to the properties who owns the call slot (`Owner`: while locked exactly one
  request, call or answer is under way and belongs to the task at the read) and that an answer follows its
  work (`Answered`). The action property `OwnAnswer` follows from it.
- `MappedDnsProofs`: `CacheExact` is inductive with the typing. `MappingHolds` needs `Recency`: every name
  behind a handed-out name in the LRU list was used since; so when a name becomes the first of a full list,
  as many other names as the cache holds were used. `CountLemma` turns that into a cardinality.
- `EngineProofs`: `EngineInv` consists of `Commands` (what each thread may be doing), `Locking` (mutex,
  `is_working` and thread agree), `Reaches` (without failing initialisation the engine ends only after the
  write of the stop that holds the mutex) and `Owns` (without revocation: one TUN descriptor, the engine's,
  and the file holds its settings until they are read).
- `TcpSpliceProofs`: `SpliceInv`, for every size of ring, window and socket buffer, with and without failing
  `tcp_write`. `StreamIntact` alone is not inductive: it says where the bytes lwIP holds are and not what the next
  `readv` may overwrite. `RingOK` and `InPlace` say that the places in use form one row that wraps around, first what
  lwIP holds, then what it was not given yet, and that they hold the server's stream from the first byte not
  acknowledged on; `AllThere` accounts for every byte of the server while the direction is open, from which
  `CleanEnd` follows. The lemmas about `Wrap` replace the `% max` of the ring by a comparison, which is all the
  provers need to know of it.
- `Socks5Proofs`: `HandInv`, for every set of users and passwords. What the client sends is a prefix of one stream
  (`Stream`: methods, credentials, request) whatever the server chooses, and `UpOK` says at which position of it the
  server reads; `DownOK` does the same for the answers. So a pipelined client that sends everything before it reads
  anything is never read out of step, which `Agreement` and `Authentic` rest on. `Refs` is the exact count of
  references; `ServerOK` what the server knows of the client at each of its steps; `SmoothOK` what must have happened
  if nothing excuses a failure. The assumptions on the constants say only that different things have different
  names.
- `SchedulerProofs`: `SchedInv`, for every finite set of tasks, priorities from 1 to 15 and every bound on run times
  and delays. New keys are computed from the first task of the queue, which the code takes for the current one; that
  it is rests on the order of the queue, and the order on the keys: `RunOK` and `TurnOK` carry both. The counters are
  cardinalities of the sets the queues stand for (`DistinctCount`).
- `TunnelProofs`, second part: `LimitsInv`, for every `max-session-count`. `AtMostTwoIdleLimits` needs to know that
  a limit that ran out with nothing moved (`IdleExpired`) is seen before the session can sleep again, and that it leaves
  a TCP session in its drain or a UDP session with one direction closed (`LastLimit`), where the next such limit ends
  it. Limits that run out in a UDP call that has moved data are not counted and there is no bound on them: against a
  server that reads nothing, the first batch may still be cut after the socket buffer took some of it, which gives a
  third limit.
- `UdpSessionProofs`: `UdpInv`, for every length of frames, heads and bodies, every batch, pool and send buffer.
  Outside a call the position of each stream is a multiple of the length of a frame as long as nothing was cut, and
  inside one it is off by exactly what the call has sent (`InFrames`) or read (`ReadOK`); without that a call that ends
  between frames could leave the stream out of step, and `CountExact` would not follow. `UpImplements` and
  `DownImplements` show the two refinements of `DatagramChannel`, step by step: a send that completes frames moves them
  from the queue to what the server parses (`ParsedGrow`: frames added whole are found, and the earlier ones stay what
  they were), a frame that is read whole changes its place in the model but not in the channel (`WaitingRead`), and a
  call that ends gives a first part of its messages to lwIP and loses the others. `DivUnique` turns a position that
  is known as frames plus rest into the quotient the mappings use. After a frame is cut the channel promises nothing.
- Each module that works with lists starts with what deletion, appending, push and tail do to membership,
  distinctness and order.

Each inductive invariant was checked by TLC on the instance of its run before it was proved. Type invariants are
part of the inductive invariants, so they hold for every instance.

Only model-checked: liveness (`StopReturns`, `CallReturns`, `Delivered`, `BothEnd`, `UpStopReturns`, `Forwarded`,
`Answered`, `EndsWithConnection`, `Ends`, `NoStarvation`, `TimersFire`, `EventsServed`), which needs fairness and
`ENABLED` and is beyond the prover. Every invariant, action property and refinement that a run checks is also proved.

## 5. Findings

Run `engine_hang`: a stop after a failed initialisation loops for ever with the JNI mutex held
(`hev-socks5-tunnel.c:698`).

Met while modelling, without a run of their own. Each is visible in the definition named, or excluded by a hypothesis
of the property named:

- `max-session-count: 1` aborts the process at the first flow (`hev-socks5-tunnel.c:127`; `NoAbort`).
- The mapped DNS translates addresses of any network (`hev-mapped-dns.c:259`; `Lookup`), where `conf/main.yml:44`
  speaks of one.
- A failing `tcp_write` for the first part of the ring leaves a hole in the stream
  (`hev-socks5-session-tcp.c:116`; `StreamIntact`); it needs an exhausted segment pool.
- A sticky restart uses built-in defaults where a comment promises the saved settings
  (`ProxyVpnService.java:69`; `Restart`). No property states that comment: `ConfigIsOwn` compares an engine with the
  command that started it, and the variable `saved` only numbers the settings of connect commands.
- A call that its time limit stops inside a UDP frame is reported as a full success (`hev-socks5-udp.c:94`;
  `UpChannel`) or with a byte count as message count (`hev-socks5-udp.c:184` and `:219`; `CountExact`), so the
  rest of the stream is read out of step.
- A datagram of less than four bytes leaves a message without address, which the session follows
  (`hev-socks5-udp.c:288`; `CountExact`).
- A datagram of the client that comes while `fwd_b` waits inside a frame stays in the queue until the next event
  if `fwd_b` then fails (`hev-socks5-session-udp.c:281`; `Forwarded`).
- Once a client sent to a destination known by name, every reply carries that destination as its source
  (`hev-socks5-session-udp.c:138`; `Shown`), where the engine's README promises full cone NAT.
- `write_request` loses the address it took when the send fails (`hev-socks5-client.c:145`; `AddressOnce`).

Races that contradict no statement of the repository are kept as hazards: `onRevoke` against `startVpn`, and a
stop writing to an event descriptor that a failing initialisation closes.

## 6. Not modelled

- Third-party code: lwIP, libyaml and wintun. They are five sixths of the C lines of the engine (lwIP
  alone has 106,000), so the models cover a small share of all lines; of the
  program's own engine code and of the task system below it, they cover the parts with state. lwIP appears
  through the callbacks the engine registers.
- Wording, logging and byte layout of messages; among these the compression pointer of a DNS answer, which is the
  offset of its question cut to 8 bits (`hev-mapped-dns.c:237`).
- What `destroy` of the DNS proxy frees while the resolver thread may be about to read once more
  (`hev-task-dns-proxy.c:184`): whether memory and descriptor are used again by then is outside the model.
- The TIME_WAIT timer of lwIP, which may free a pcb while a session waits for its last acknowledgements
  (`hev-socks5-session-tcp.c:232`).
- What a failed `hev_socks5_tunnel_init` leaves allocated (`hev-main.c:73`).
- The address in the server's answer to a refused request, which `hev_socks5_server_handshake` never set
  (`hev-socks5-server.c:523`): the model has no contents of addresses.
- The service of the SOCKS5 server after the handshake, with its splicers: the engine never calls it.
- Rotation and colouring of the red-black trees (the models use their order), slices of the memory allocator,
  channels and condition variables of the task system (not used by the engine).
- The network parameters and notifications of the service, the activities, the TUN back ends (system calls),
  parsing of the configuration (its limits are assumptions on constants), and native statistics, which are read
  without synchronisation but never acted upon.

## 7. Plan

`Engine`: the running flag of the settings, which the activity, the picker and the boot receiver share.
