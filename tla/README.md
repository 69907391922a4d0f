# xtp-rs in TLA+

xtp-rs is a transparent proxy: it accepts TCP connections and UDP packets that
TPROXY or a port forward redirects to it, decides for each whether it goes
direct or through a SOCKS5 upstream, and relays it. It runs on a multi-threaded
tokio runtime, so everything below that is called a task may run in parallel
with every other. This directory holds TLA+ models of its stateful parts,
translated from the code, the TLC configurations that check them on small
instances, and proofs, checked by TLAPS, for instances of any size.

```
tlc -workers 2 -config MCUdpSessionsSafety.cfg MCUdpSessions
tlapm UdpSessionsProofs.tla
```

## The system

| part | source | state | operations | what makes it hard |
|---|---|---|---|---|
| UDP session registry | `udp/mod.rs`, `udp/session.rs` | `sessions` (key → Creating(notify) or Ready(session)), `closed`; per session: cancel token, `last_seen_secs`, join handle | get or create, probe, register, receive-loop exit, GC, shutdown | several callers per key, creation in a task of its own, eviction against traffic, shutdown against creations, aborts |
| UDP loops, packet tasks, key locks | `udp/mod.rs` | key lock table, permits, time of the last reap | receive, reap, spawn, stop | locks removed by strong count while tasks wait for them; the loop itself acts for any key, without its lock |
| Pending sniffs | `udp/pending.rs` | `pending_sniff` (key → replay buffer, deadline, attempts) | Ready hit, take / change / put back, flush, new entry, reap, enforce the limit | remove–change–insert on a shared map, reaper without key lock, order of replayed datagrams |
| Fake UDP sockets | `udp/fake.rs` | socket cache, `closed` | get or create, send, expiry, close | insertion against close |
| Generations | `state.rs`, `main.rs`, `util.rs` | current generation (ArcSwap), task guards | start, reload, rollback, exit, signals | failure half way, order of shutdown, timeouts and aborts |
| TCP connect and failover | `tcp.rs`, `state.rs` | mode, direct cache, upstream cache | accept, decide, sniff, decide again, pick, connect, penalise, retry | mode changed between two decisions, stale cached upstream, end of the retry loop |
| Relay | `relay.rs`, `util.rs` | two copy directions, EOF and activity flags, timer | copy, half-close, reclaim | timer against the last bytes |
| Upstreams | `upstream.rs` | scores, health, sticky choice, statistics | sample, report, check, rescore, penalise, pick | relaxed atomics written one by one, descriptors read outside the lock, clock set back |
| Routing | `state.rs`, `geosite.rs`, `cli.rs` | compiled tables | validate, build, look up | hash maps in any order, longest match, what validation promises |
| SOCKS5, sniffers | `socks5.rs`, `sniff/` | position in the stream | handshake, UDP headers, peek and parse TLS, HTTP, QUIC | input in pieces, lengths that depend on the content |
| Configuration, sockets, TPROXY receive | `cli.rs`, `socket_factory.rs`, `udp/tproxy.rs` | none | parse, validate, system calls | nothing stateful |

A UDP packet goes through the first three: the loop receives it, first reaps
what is due, takes a permit and the lock of the packet's key and spawns a task;
the task looks for a Ready session, else sniffs (which may cache the datagram in
the pending map), else forwards; forwarding gets a session from the registry or
creates one; replies come back through the session's receive loop. A reload
starts a new generation, swaps it in and shuts the old one down: loops first,
then the GC, then the registry.

A TCP connection is accepted, handed to a task of the generation's handlers,
decided by its address, perhaps sniffed and decided again, then connected
directly or through an upstream of the group the routes give its client. The
cached upstream comes first, then one pick after another until all have failed,
then the default group. The connection lives on when its generation is replaced.

## Modules

| module | content |
|---|---|
| `SessionRegistry` | abstract specification: what the session registry promises |
| `UdpSessions` | `UdpRuntime`: registry, creations, receive loops, GC, shutdown; implements `SessionRegistry` |
| `UdpPending` | UDP loop, packet tasks, key locks, pending sniffs; uses `SessionRegistry` |
| `Generations` | start, reload, rollback, shutdown and exit; task guards, connections, fake UDP sockets |
| `TcpConnect` | many TCP connections from accept to relay: mode, caches, failover |
| `Relay` | one TCP relay: two copy directions and the half-close timer |
| `UpstreamScores` | the scores of an upstream and the tasks that write them |
| `UpstreamPick` | the choice of an upstream and its statistics; extends `UpstreamScores` |
| `DomainNames` | normal form of domains, suffixes, valid host names |
| `Routing` | tables, lookups, `validate`: pure operators |
| `SniffLoop` | the peek loop with the TLS and HTTP engines |
| `Socks5` | the SOCKS5 handshake and UDP packets, as bytes |
| `FrontEnd` | one connection in full detail: composes `SniffLoop`, `Routing`, `Socks5` |
| `UdpSessionsProofs`, `UdpPendingProofs`, `UdpPendingOnceProofs`, `GenerationsProofs`, `TcpProofs`, `UpstreamProofs`, `Socks5Proofs`, `FrontEndProofs` | theorems |
| `MC...` | instances and symmetry sets for TLC; the `.cfg` files give the constants |

Models are composed where components meet, and cut where an interface is narrow:

- `UdpSessions` is shown to implement `SessionRegistry`; `UdpPending` takes its
  session steps (`Registry!Publish`, `Die`, `Evict`, `Seal`) from it. So what
  `UdpPending` establishes does not depend on how the registry is locked, and
  neither state space multiplies the other.
- `UpstreamPick` reads the scores of `UpstreamScores` while its tasks change them.
- `FrontEnd` runs sniffers, rules and SOCKS5 client in sequence for one connection;
  `TcpConnect` takes their results as constants or choices and has the concurrency.
  In `TcpConnect` a pick may return any candidate, which covers every score.
- `Generations` has the receive loops, accept loops and handlers only as tasks that
  can be cancelled, aborted, or hold their generation.

### UdpSessions

One action per critical section of the `sessions` mutex. None of these sections
awaits, so each is atomic; what happens between two of them interleaves with
everything. A `Creating` entry is represented by the caller that inserted it,
whose `Notify` it holds.

| code | actions |
|---|---|
| `handle_udp_client_payload` as a caller | `Arrive` (key lock obtained), `Probe`, `Call`, `Send` |
| reaper's flush, from the UDP loop | `Flush` |
| `get_or_create_udp_session` | `LookupClosed`, `LookupReady`, `LookupCreating` (waits on the Notify), `LookupVacant`; `JoinFailed`, `JoinFailedNotify`; `FinishClosed`, `AbortRecvTask`, `FinishCancelled`, `FinishReady`, `FinishErr` |
| `create_udp_session`, a task of its own | `CreateErr`, `CreatePanic`, `CreateSpawn`, `CreateReady` |
| receive loop | `RecvStart`, `RecvReply`, `RecvCancelled`, `RecvStop` (error or watchdog), `RecvExit` (removes its own entry), `RecvAborted` |
| `run_udp_gc_loop`, `cleanup_expired_sessions` | `GcWake`, `GcSnapshot`, `GcCollect`, `GcAbort` |
| `shutdown_for_reload`, `UdpRuntime::shutdown` | `StopLoops`, `StopGc`, `Close`, `Clear`, `DrainTimeout`, `Drained` |

Abstractions. Payloads, addresses and the kind of the outbound (direct or
SOCKS5) are left out: both receive loops share one model, which may reply, or
end by itself, at any time. The snapshot of the GC and the filter on it are one
step: `last_seen_secs` only grows and is looked at again under the lock.
`StopLoops` is the end of the three `TaskGuard::shutdown` calls: a loop that has
not left its flush is aborted where it awaits, and the create task it awaited goes
on. `now_secs` is taken to be monotone. The failure of the ready channel between
the create task and the receive loop it has just spawned is not modelled: the
receive loop sends on it first. A release build is compiled with
`panic = "abort"`, so `CreatePanic` is a behaviour of debug builds only.

### UdpPending

One action per access to the shared maps. A packet stands for its task; actor 0
is the loop, which flushes expired entries and enforces the limit with the same
steps as the tasks but without a key lock. What the sniffer makes of a datagram
is any outcome.

| code | actions |
|---|---|
| `run_udp_loop`, `run_udp_port_forward`, `maybe_reap_pending_udp_sniff` | `Receive` (an empty packet included), `Stop` |
| `reap_pending_udp_sniff` | collection in `Receive`, `ReapKey`, `ReapKeysDone` |
| `reap_idle_udp_key_locks`, `spawn_udp_packet_handler`, `get_udp_key_lock` | `Spawn` |
| `handle_udp_client_payload` | `Acquire` (with the `closed` check), `ProbeHit`, `ProbeMiss` |
| `handle_pending_udp_sniff` | `TakeExpired`, `TakeMatched`, `TakeFailed`, `TakeMore` then `Insert` |
| `handle_new_udp_sniff` | `SniffMore`, `SniffForward` |
| `enforce_pending_udp_sniff_capacity` | `EnforceLen`, `EnforcePick`, `EnforceEvict` |
| `forward_udp_payload`, `flush_pending_udp_sniff` | `ForwardReuse`, `ForwardCreate`, `ForwardFail`, `Send`, one datagram at a time |

Abstractions. Deadlines are kept as the time left and the reap interval as the
time since the last reap, so time needs no bound; deadlines that have passed are
alike, so `EnforcePick` may take any of them. The 64 KB limit of the replay buffer
may be reached at any time. A pass over the DashMap (the collection of expired
keys, the search for the oldest entry) is one step, although the code locks one
shard after the other. Waiting tasks get a key lock in any order, because they
queue for it in the order in which the runtime polls them first. The modes
`besteffort` and `none` cache nothing: their behaviours are among those of `full`.
`closed` and the clearing of the registry are one step here. `maker`, `turn` and
`sent` are history variables that no guard reads.

### Generations

One action per stretch of code between two points at which another thread, an
await or an abort can intervene. `spawn_all_tasks` has no await, so an abort cannot
stop it half way, but the tasks it has spawned run beside it. The tasks of a
guard are one task, the TCP handlers are connections.

| code | actions |
|---|---|
| `main` | `MainSpawn`, `CtrlC`, `StopSighup`, `HupEnds`, `AbortHup`, `ExitShutdown`, `Exit` |
| SIGHUP handler, `reload_config`, `spawn_all_tasks` | `HupSignal`, `BuildFails`, `Build`, `HupSpawn` (each part may fail), `Swap`, `HupReturns` |
| `shutdown_for_reload`, `shutdown_for_exit`, `TaskGuard::shutdown` | `ShutdownStage` (cancel, take the handles), `AwaitTask`, `AbortTask` |
| accept loops, `TaskGuard::spawn`, handlers | `Accept`, `SpawnHandler`, `HandlerEnds`, `PortForwardFails`, `TaskEnds` |
| UDP sessions of a generation | `OpenSession`, `LateSession`, `SessionEnds`, `EvictSession`, `StrayEnds` |
| `FakeUdpManager` | `ReplyStarts` (lookup, first check), `ReplyInserts` (second check, insertion), `FakeExpires`; `close` is two stages of the shutdown |
| last `Arc<AppState>` gone, `TaskGuard::drop` | `DropState` |

Abstractions. Deadlines are not measured: whoever is awaited ends in time or is
aborted. An abort happens at an await only (`AtAwait`). A generation has at most one
receive loop outside its session map: one evicted by the GC that has not ended yet,
or an orphan left by an aborted creation. The tasks that
`spawn_udp_packet_handler` starts for single packets are detached, so they may outlive
their UDP loop (`LeavesPackets`), and one of them stands for all: it can still open a session
(`OpenSession`), or, once the runtime is closed, one that it cancels again after its
receive loop has run (`LateSession`).

### TcpConnect

A step ends at an await or where another thread can change what the next one reads.

| code | actions |
|---|---|
| `handle_tcp_connection`, `should_direct`, `need_geosite_sniff` | `DecideByIp`, `NeedSniff`, `Sniff`, `Decide`, `DirectConnect`; the direct cache is part of the decisions (`CacheDecision`) |
| `get_cached_upstream`, `remove_cached_upstream`, `cache_upstream` | `Lookup`, `CachedConnect`, `Store` |
| `pick_and_connect`, `try_connect_socks5_group` | `Pick`, `ConnectFails`, `Connected`, `GroupExhausted` (falls back to the default group) |
| `run_tcp_port_forward` | starts at `Pick`; `ForwardConnected` |
| SIGUSR1, clock | `Rotate`, `Tick` |

Abstractions. The rules are constants (`IpRule`, `DomainRule`, `GroupRule`), a pick
returns any candidate, and what a client names in its stream is fixed for each
connection. `seen` and `down` are history variables.

### Relay

| code | actions |
|---|---|
| `copy_bidirectional`: poll of the copy, then of the timer | `Wake`, the copy steps, `CopyPending`, `CheckTimer` |
| tokio's copy under `Tracked` (external) | `Read`, `ReadEof`, `Write`, `Shutdown`, `Finish`, `Fail` |
| `relay_tcp_streams`, `abort_with_rst` | ends of the relay; `linger` on a reclaimed one |
| the two peers, time | `Sends`, `Closes`, `Drains`, `RelayTick` |

A byte stands for what one read or write moves. The timer counts down from
`Grace`; a relay by `splice` or with the timeout 0 has no timer (`guarded`).

### UpstreamScores, UpstreamPick

Every load and every run of stores without a load between them is a step, as the
atomics are relaxed and written by five tasks.

| code | actions |
|---|---|
| `penalize`, from handlers and the health check | `ConnectFailed`, `HealthDead`, then `Penalize` store by store |
| `run_score_task` | `SamplerSnapshot` (under the lock), `SamplerReads` (outside), `SamplerLoads`, `SamplerStores` |
| `run_upstream_stats_listener` | `Report`, `ListenerSwaps`, `ListenerLoads`, `ListenerStores` |
| `run_health_check_task` | `HealthAlive`, `HealthDead` |
| `run_relative_score_task` | `RescoreSnapshot`, `RescoreQuic`, `RescoreLoads`, `RescoreStores` |
| tracked connections, time | `Track`, `Transfer`, `Untrack`, `Tick` |
| `pick_weighted` | `PickBest`, `PickSticky`, `PickWeighted` |
| `PickStats::record_at` | `Record`, in the step that chooses; `ClockSetBack` |

Abstractions. Scores are integers where the code rounds floats. Penalties for loss,
delay and MTU are the code's tables. One upstream has all its scores, the others
constant ones; a random draw is any positive weight. Received and sent bytes are
counted apart, as the sampler compares each with its own old total. What a descriptor
counts after it was closed is nothing, or any number in each direction if it was reused.

### SniffLoop, Routing, Socks5, FrontEnd

`FrontEnd` takes one connection through `Arrive`, `Peek`, `WaitForMore`, `Expire`
(`sniff_with_engine`, one engine after the other), `Route` (`should_direct`,
`lookup_upstream_group` for any configuration), `Proxy` and the handshake: `Dial`,
`ReadMethod`, `ReadAuth`, `ReadReply`, `ReadAddress`, `Timeout`, and for an association
`Exchange`. `HealthCheck` uses the same client with the configured name.

- A TLS stream is a sequence of records with lengths and kinds, an HTTP one a
  sequence of lines; the engines compute from the number of bytes they see what
  the parsers compute from the bytes. A record may be empty or above the limit of 18 KiB
  (`MaxRecordLen`), a line may hold a byte that is not UTF-8 ("not text"): such a stream is
  not taken for the protocol. The limits of a name and of its labels (253 and 63) are
  constants (`MaxHostLen`, `MaxLabelLen`). Names are sequences of characters, so that
  case, trailing dots, suffixes and invalid names are the code's.
- The hash maps of the configuration are sequences in any order. A network is a
  prefix of an address of `AddrBits` bits, two for TLC. A list of networks is a trie,
  which answers with the longest one that holds an address (`TrieLookup`). A configuration with a pattern
  that has no name does not get past `AppState::build` (`Builds`).
- The handshake is made of bytes. The server's bytes may end anywhere, deviate
  in any field, and are followed at once by those of the connection. Of the credentials
  the lengths count, which `socks5_auth` alone checks (`Usable`). A UDP packet has any reserved
  bytes, any fragment number and any address type.

## Runs

| run | instance | distinct states | question |
|---|---|---|---|
| `udp_sessions` | 2 keys, 1 packet task, 1 loop, 2 sessions, timeout 1, clock to 1 | 441,311 | registry consistent, and an implementation of `SessionRegistry` |
| `udp_sessions_liveness` | 1 key, clock to 1 | 113,541 | waiters released, packets finish, idle sessions go, shutdown ends |
| `udp_sessions_stray` | 1 key | | violated: `AllReceiveLoopsEnd` |
| `udp_pending` | 2 keys, 3 packets, 2 permits, 1 pending entry, 2 cached datagrams, 1 session | 1.6 M | exclusion per key, no duplicates, limit, order, host, drops |
| `udp_pending_liveness` | 2 keys, 2 packets | 102,168 | tasks end, sniffs do not stay pending |
| `udp_pending_drop` | 1 key, 3 packets | | violated: `CachedUntilFlushed` |
| `generations` | 3 generations, 1 connection, 4 histories of configurations | 222,519 | service without a gap, complete shutdowns, connections kept, generations released |
| `generations_aux` | 1 reload with relative scoring | | violated: `AuxiliaryTasksEnd` |
| `tcp` | 2 connections, 2 clients or a port forward, 3 groups, 2 upstreams, TTL 1 | 412,102 | the decision, the upstream, when to give up, the end of the retries |
| `relay` | 2 bytes each way, buffers of 2, grace 2 | 152,564 | what the half-close timer may and must reclaim |
| `upstreams` | 1 scored upstream, 1 other, 2 connections, 1 chunk each way, 4 operations | 589,232 | penalties, samples, pick statistics |
| `front_end` | 88 streams, the configurations, credentials and servers of `MCFrontEnd` | 632,951 | the sniffed name, the route, the bytes of SOCKS5 |

What the properties say:

- `SingleLiveSession`, `ReadyIsServed`, `NoStraySession`, `ClearedStaysEmpty`:
  one live session per key; a Ready entry has a receive loop that will still
  remove it; a live session is reachable for the GC and the shutdown; nothing is
  inserted into a registry that has been shut down.
- `WaiterHasNotifier`, `WaitersReleased`, `PacketsFinish`: nobody waits on a
  Notify that will not be notified any more.
- `EvictedOnlyIdle`, `IdleEvicted`: the GC evicts idle sessions, and only those,
  although it decides from a snapshot.
- `ShutdownFinishes`, `ReceiveLoopsEnd`: the shutdown ends and takes the receive
  loops with it.
- `ImplementsRegistry`: refinement of `SessionRegistry`.
- `KeyExclusive`: removing idle locks never breaks the exclusion per key.
- `NoDuplicate`, `InOrderUnlessReaped`: no datagram is sent twice; tasks send the
  datagrams of a key in the order in which they got its lock. The reaper's own
  flushes are the exception: they may send older datagrams late.
- `PendingBounded`, `TasksEnd`: concurrent enforcements exceed the limit at most by
  the number of tasks that are still enforcing it, and they end.
- `SniffedHostUsed`, `DroppedOnlyBehindReaper`: a sniffed host is ignored, and a
  cached datagram dropped by a Ready hit, only when the reaper made the session.
- `PendingEnds`: as long as the loop receives packets, no sniff stays pending.
- `AlwaysServing`, `ShutdownIsComplete`: whatever fails, is rolled back or aborted, the
  current generation listens until the exit stops it; a generation that was shut
  down runs nothing the shutdown is about, also what was spawned while it went on.
- `ReloadKeepsConnections`, `RetiredIsReleased`: a reload cuts no connection, and the
  generation goes once nothing of it is left.
- `NoSocketAfterClose`: only a receive loop outside the session map, which had passed
  the closed check before, can put a fake socket into a closed manager.
- `DecisionMatchesMode`: two decisions, lazy sniffing and a cache together decide as
  the mode prescribes, unless the mode changes meanwhile (then the connection may
  be decided half by one mode and half by the next).
- `UpstreamOfGroup`, `GivesUpAfterAll`, `Handled`: a connection uses an upstream it may
  use, though others fill the cache it reads; it tries all of them before it gives
  up; it does end.
- `ReclaimedOnlyIfSilent`, `CopyWinsOverTimer`, `HalfClosedEnds`: the half-close timer
  kills no relay that moves bytes or that nobody closed, loses against bytes that
  arrive with it, and leaves no relay half-closed for ever.
- `PenaltyHolds`: once a penalty is stored no older and better score shows through.
  "Once stored" matters: a score computed from a load before the penalty may be stored
  after it and undo it, which the property does not count as a violation.
- `RateNotOverestimated`, `StatsConsistent`: a sample never counts bytes that did not
  move in its period, in both directions together; a reused descriptor adds no more than
  its new socket has moved, and to the sample that read it only. Totals of the pick
  statistics are the sums of their buckets, also after the clock was set back.
- `SniffFindsHost`: no prefix makes the sniffers report a wrong name, and they report
  the one that is there in time, within reach of `max_len` and `max_retries`, if it is in
  a header that is text or in records of a legal length.
- `RoutedAsConfigured`: the compiled tables and tries give what the rules and lists say one
  by one, in any order (a network of length 0 in an address list apart); what `validate` accepts has an upstream. Among rules for two networks that
  contain the client and are equally long (a network written in two ways), either
  may decide: the code takes the one its hash map had first.
- `Socks5Exact`: the handshake succeeds exactly with credentials of a legal length and a
  server that goes along, and the stream is then at the first byte of the connection;
  UDP packets are passed on whole or dropped.

Three runs end in a violation, because a comment of the code says more than the
code does:

- `udp_sessions_stray`. `shutdown_for_reload` is commented "cancels all running
  receive loops" (`state.rs:711`). If a UDP loop is aborted while it awaits a
  creation, the create task goes on and its receive loop is never cancelled.
  It ends only by a receive error or the reply watchdog. `ReceiveLoopsEnd` shows
  that this is the only exception.
- `udp_pending_drop`. Datagrams that arrive while sniffing are said to be cached
  and flushed when the sniff is over (`pending.rs:7`). The reaper may make a session
  for a key just after a packet task of that key missed it; the datagram which that
  task then caches is dropped by the next packet. `DroppedOnlyBehindReaper` shows
  that this is the only way.
- `generations_aux`. `shutdown_for_reload` is said to stop the auxiliary tasks
  (`state.rs:698`). It leaves out `relative_score`, and as that task holds an `Arc` of
  its `AppState`, the drop that would cancel it never comes. `RetiredIsReleased` shows
  that nothing else keeps a generation for ever, but an orphaned receive loop.
  (The score printer is not stopped either, but holds no `Arc` and ends with the drop.)

Other things the models show about the code, on which no line of it is explicit
enough, or which no run is spent on:

- `route_cache_max` is called the maximum of either cache (`cli.rs:590`); a full
  cache without expired entries grows on (`Purged`).
- An upstream with `groups = []` belongs to no group, but `validate` counts it to the
  default group; `RoutedAsConfigured` excepts it.
- A network with a prefix of length 0 in `force_direct_ips` or `force_socks5_ips` matches
  nothing (`InNets`; `RoutedAsConfigured` states it, in `InList`).
- The length of the credentials is not checked before a connection is made with them: each
  connection through such an upstream fails (`Usable`).
- Bytes that move between the sampler's snapshot and its reading are counted in that
  sample; bytes of connections that end between two samples may not be counted at all.
- `penalize` raises a score that was below the default score.
- The sniff loop gives up without waiting when its prefix has reached `max_len`, although
  attempts are left; `SniffFindsHost` promises the name only for data that is there from
  the beginning.
- An accept error ends a port forward for good (`PortForwardFails`).
- The exit shuts down the handlers of the current generation; those of older ones end
  with the process.

### Bounds

Two callers and two keys are where creations collide and where a flow must not
disturb another; two sessions let a key be created again after an eviction or an
exit. A clock of `Timeout` ticks lets a session expire, and lets a packet touch one that
the GC has already found expired, or that is newer than the time the GC has read; what
more ticks add, sessions that expire after they were touched, is in the theorems, which
hold for any clock.
In `UdpPending`, three packets are the least for a task that holds a key lock, one
that waits for it, and a third that the loop is spawning while it reaps; room for
one pending entry and two keys make enforcements collide; a window and an interval
of one tick let an entry be fresh or expired, and a reap due or not. Each bound
stands in the guard of an action (the supply of sessions and packets, `MaxTime`).

In `Generations` three generations let a reload begin while a retired one still has
a connection; the four histories of configurations start and stop every kind of task
at least once. In `TcpConnect` one client has a group of its own, another one depends
on the domain, and the default group overlaps both, so a wrong cache key, group or
exclusion has consequences; one tick makes cache entries stale, one entry fills
a cache. In `Relay` two bytes and buffers of two let a buffer be empty, partly
filled and full; a grace of two ticks lets the timer run, restart and expire. In
`UpstreamScores` four operations (`MaxOps`) are enough for two tasks to overlap, or for two
samples with a connection that comes or goes between them, and one chunk in each direction
(`MaxChunks`) for one direction to shrink while the other grows; a chunk of 100 MiB gives scores on both sides of the default,
and `Period` passes the five and ten seconds the code waits for. In `FrontEnd` the streams
have the name whole, split at every kind of boundary, missing, malformed or too long
(`MaxHostLen` 4, `MaxLabelLen` 2), in records at and above the limit (`MaxRecordLen` 12), in text or
not; prefixes grow by less than a record; credentials are at and beyond each limit;
servers deviate in each field or stop after any byte.

Deadlock is not checked: a generation that was shut down, and a loop that was
stopped, do nothing more; relays end, operations are bounded, `FrontEnd` handles one
connection. That they are not stuck before is what the liveness properties say. In
`TcpConnect` it is checked: the mode can always be rotated.

### Fairness

Weak fairness on the steps that the tokio scheduler and its timers run once they
are possible: callers, create tasks (a connect ends, if need be by
its timeout), receive loops that must end, the GC, the shutdown, the passage of time;
and in `UdpPending` tasks, enforcements, forwarding and the loop. None on the
environment in `UdpSessions`: packets, replies, receive errors and the shutdown itself
may never come. `PendingEnds` does assume that the socket goes on receiving
(possibly empty) packets, since the code has no timer: without traffic an expired sniff
waits. `PacketsFinish` excepts a UDP loop that starts flushes for ever, as a waiter
that finds the key taken again waits again.

`Generations`: weak fairness on the steps that wind something down (spawning, the
shutdown stages, awaiting or aborting, a cancelled task leaving its loop, dropping),
on insertions under way, and on packet tasks and evicted receive loops: the awaits of
the former have timeouts, the latter are cancelled. None on
signals, connections, or orphaned receive loops. `TcpConnect`: weak fairness on each
handler, as every await before the relay has a timeout. `Relay`: weak fairness on polls
for which a socket or the timer has woken the task, and on time. No fairness on peers.

## Proofs

All theorems hold for any sets of keys, tasks, sessions, connections, groups, upstreams,
streams, configurations and servers and any limits, from the assumptions on the
constants alone:

- `UdpSessionsAssumption`, `UdpPendingAssumption`: limits are positive, the sets disjoint,
  `None` a value of its own, keys finitely many in `UdpPending`;
- `ConfigAssumption`, `ConnsAssumption` (`Generations`): any bounded sequence of configurations;
- `TcpAssumption`: the rules are functions of the right type; a domain has a rule only if
  one is configured;
- `RelayAssumption`: the buffer and the grace period are positive;
- `ScoreAssumption`, `PickAssumption`, `WindowAssumption`: ranges of the configured numbers, and
  a start of the clock;
- `NameAssumption`: the limits of names are numbers;
- `StreamAssumption`, `EngineAssumption`: records and lines follow each other, a message is in
  its records and has a header, there is an engine;
- `RulesAssumption`: a configuration has the types its parser gives it;
- `SocksAssumption`, `FrontEndAssumption`: everything sent consists of bytes, an address has the
  length of its family, a name fits its length byte.

The invariants below were checked by TLC before they were proved.

`UdpSessionsProofs`

- `TypeCorrect`.
- `Invariance`, the inductive invariant `IInv`. The safety properties are not
  inductive: that no two sessions of a key are alive needs that a `Creating` entry and
  the create task of its owner go together until the map is cleared (`OwnerInv`), what
  a caller knows at each of its steps (`CallerInv`), that a session just made is not in
  the map yet (`MadeInv`), that a receive loop which has ended or was aborted has been
  cancelled (`SessionInv`), and that the GC and the shutdown abort only sessions they
  have taken out of the map (`TaskInv`).
- From it `SingleLiveSessionHolds`, `WaiterHasNotifierHolds`, `ReadyIsServedHolds`,
  `NoStraySessionHolds`, `ClearedStaysEmptyHolds`, and, with the fact that the
  GC's time is not in the future, `EvictedOnlyIdleHolds`.
- `Refinement`: every step of `UdpSessions` is a step of `SessionRegistry` or leaves its
  variables as they are.

`UdpPendingProofs`

- `KeyExclusiveHolds`, from `LockInv`: the lock a task holds or waits for is the one in
  the table, since its strong count is above one, and a lock has one holder.
- `PendingBoundedHolds`, from `BoundInv`: who adds an entry starts enforcing, and
  who stops has just seen the map within the limit.
- `DroppedOnlyBehindReaperHolds` and `SniffedHostUsedHolds`, from `HitInv`: while a
  key is being sniffed a session for it can only come from the reaper, because a task
  that forwards has the key to itself and left nothing pending.

`UdpPendingOnceProofs`

- `NoDuplicateHolds`, from `OnceInv`: the replay buffers in the map, those taken out of it
  by a task and those being flushed are pairwise disjoint, have no repetition, and
  share nothing with what was sent or with packets whose task has not started on
  its datagram. It needs no counting, only that data move from place to place (`Apart`).
- `TypeCorrect`, which includes the limit of the replay buffer (`BufferInv`) and what the
  loop, the sessions and the history variables hold (`LoopInv`, `SessionInv`, `TurnInv`).
- `InOrderUnlessReapedHolds`, from `OrderInv`: what was sent, what is being flushed and what is
  cached stand in line (`InLine`), each in the order of the turns, as nobody but the reaper
  works on a key without its lock, and who has the lock has the last turn (`LastInv`).

`GenerationsProofs`

- `AlwaysServingHolds`, from `ServeInv`: at each point of `main` and of the reload, which
  generation is current, starting or being shut down (`Control`), and that the
  current one listens unless it is being stopped for the exit (`Serving`).
- `ReloadKeepsConnectionsHolds`, from `KeepInv`: a connection lives in a generation that was
  built and is not dropped, a dropped generation has nothing that holds it (`Free`), and
  the guard of the handlers is cancelled only by an exit, a rollback or a drop (`Handlers`).
- `ShutdownIsCompleteHolds` and `NoSocketAfterCloseHolds`, from `DownInv`. The stages to come
  cover every task that is still to be stopped, the receive loops before the fake sockets
  are closed and the accept loops before the handlers (`Ordered`). A connection between
  accept and spawn keeps its accept loop from ending (`Accepting`), so that no handler
  comes after the stage of the handlers (`Emptied`). This is where the order of
  the shutdown matters: with the handlers first, or the fake sockets before the
  receive loops, `DownInv` is not inductive and the properties fail.
- `TypeCorrect`.

`TcpProofs`, about `TcpConnect`

- `UpstreamOfGroupHolds` and `GivesUpAfterAllHolds`, from `RouteInv`: what a connection tries
  and what any connection has cached under its key belongs to the group the routes
  give that key, or to the default group; what is excluded has failed; and once the
  default group is tried, all of the routed group has failed.
- `DecisionMatchesModeHolds`, from `DecideInv`: what was decided so far, the need of a domain
  included, agrees with the mode seen at the beginning as long as it is unchanged, and
  the direct cache holds what the address rules say (`DirectCacheOk`), which does not
  depend on the mode.
- `TypeCorrect`.

`TcpProofs`, about `Relay`

- `ReclaimedOnlyIfSilentHolds`, from `SilenceInv`: unless a byte has moved since the last
  look at the timer, the time left and the time of silence together make the whole
  grace period (`TimerInv`).
- `CopyWinsOverTimerHolds`, from `PollInv`: a poll that could move something has moved it, or
  still can, when the timer is looked at, and the timer is then restarted.
- `RelayTypeCorrect`: the buffers do not overflow.

`UpstreamProofs`

- `PenaltyHoldsAlways`, from `PenaltyInv`: as long as no other score was stored, the TCP score is
  the default one, and so are those of the links once no penalty has their stores still
  ahead of it.
- `RateNeverOverestimated`, from `RateInv`: in each direction, what the tracked connections have
  moved exceeds the total of the last sample by no more than was moved since the snapshot
  before it, whatever reused descriptors have added to that total; and what
  a connection outside a snapshot has moved, it moved since that snapshot.
- `StatsAlwaysConsistent`, from `StatsInv`: buckets start at multiples of their length and
  in order, so those that are dropped are the first ones, and the totals lose
  exactly their counts.

`Socks5Proofs`

- `Socks5ExactHolds`, from `SocksInv` (and `FrontInv`, that what the client asks for is an address
  or a name in bytes). The invariant says at each await how many of the server's bytes
  have been read (`Read`), which answers have been accepted (`Greeted`), what was written, and
  that the credentials can be sent once anything is.
  The lemmas under it cut the server's bytes at those places, decode the request as a
  server does, and parse every packet, whole or cut off, of every address.

`FrontEndProofs`

- `SniffFindsHostHolds`, from `SniffInv`. That no wrong name is found follows from what an engine
  makes of a prefix: more bytes may turn "need more" into a name, but never a name into
  another one. That a name is found needs more: the prefix is longer at every attempt
  and has doubled with each of them unless it is at its limit (`Grown`), so that an engine
  which reaches the name within its retries is not given up before; and as long as
  nothing but the configuration stops the search, such an engine is still to be
  asked (`Looking`).
- `RoutedAsConfiguredHolds`, from `RouteInv`, which adds that a sniffed name is in normal form. The
  rest is about the operators of `Routing` and `DomainNames`: a stable sort with the
  greatest key first lists every row once (`SortedLists`), so that the first match is
  a longest one (`FindsLongest`, `CidrPicks`, `DomainLookupPicks`); row by row that gives the rule
  that no other beats (`RowsPick`), and kind by kind the group (`KindsPick`). For names, the
  parents of a domain are just its suffixes at a dot (`ParentsMatch`); for addresses, the
  longest match has length 0 just when no longer network holds the address (`TrieHolds`); so sets of names and
  compiled geosite rules match what the rules match one by one (`DomainSetHolds`,
  `GeositeHolds`).

Only model-checked: the liveness properties, which are out of the prover's reach (fairness
and ENABLED): `WaitersReleased`, `PacketsFinish`, `IdleEvicted`, `ShutdownFinishes`,
`ReceiveLoopsEnd`, `TasksEnd`, `PendingEnds`, `RetiredIsReleased`, `Handled`, `HalfClosedEnds`.
Every other property of a passing run has a theorem.

## Not modelled

- QUIC sniffing (`sniff/quic.rs`, `sniff/udp.rs`): header protection, decryption, frames
  and the reassembly of CRYPTO data are byte parsing around cryptography. `UdpPending`
  allows the sniffer every outcome for every datagram, so its properties do not
  depend on it.
- TPROXY receive (`udp/tproxy.rs`) and socket construction (`socket_factory.rs`): sequences
  of system calls without state. Their failures are the failures of a receive, a
  bind or a connect in the models.
- Command line, TOML and defaults (`cli.rs`): one immutable value. The part of `validate`
  about groups and routes is in `Routing`; its other conditions are ranges of numbers,
  which are the assumptions on the constants.
- File formats of geosite and MMDB; the interfaces whose addresses count as local.
- The splice path inside the kernel and `TCP_INFO` beyond its byte counters.
- Logging, statistics output, the tests.
