---------------------------- MODULE UdpSessions ----------------------------
(***************************************************************************)
(* The UDP session registry of one configuration generation, UdpRuntime    *)
(* (src/udp/mod.rs): packet handlers and the UDP loops look sessions up    *)
(* and create them, every session has a receive loop of its own, the GC    *)
(* loop evicts idle sessions and a reload or an exit shuts the registry    *)
(* down.                                                                   *)
(*                                                                         *)
(* `sessions` is the HashMap behind the tokio Mutex.  No critical section  *)
(* of that mutex awaits, so each one is a single action.  An entry is      *)
(*   None        no entry for the key,                                     *)
(*   a caller    UdpSessionEntry::Creating(notify): the caller inserted    *)
(*               it and its Notify stands for the caller,                  *)
(*   a session   UdpSessionEntry::Ready(session).                          *)
(***************************************************************************)
EXTENDS Naturals

CONSTANTS
    Keys,       \* UdpSessionKey values
    Handlers,   \* packet tasks (spawn_udp_packet_handler), one per permit of
                \* packet_sem; detached, no shutdown waits for them
    Loops,      \* UDP loop tasks, which flush expired pending sniffs themselves
    Sessions,   \* session objects, each used once (bounds the creations)
    None,       \* no entry, no key, no session, no caller
    Timeout,    \* udp_session_timeout_secs
    MaxTime     \* bound on now_secs()

Callers == Handlers \cup Loops

ASSUME UdpSessionsAssumption ==
    /\ Timeout \in Nat \ {0}
    /\ MaxTime \in Nat
    /\ Handlers \cap Loops = {}
    /\ Callers \cap Sessions = {}
    /\ None \notin Callers \cup Sessions \cup Keys

VARIABLES
    now,        \* now_secs()
    closed,     \* UdpRuntime.closed
    sessions,   \* UdpRuntime.sessions: Keys -> None, a caller or a session
    pc,         \* where each caller is
    key,        \* the key each caller works on
    on,         \* whose Notify a caller awaits, None when it is runnable
    ses,        \* the session a caller has obtained or its task has made
    task,       \* the spawned create_udp_session of a caller
    skey,       \* UdpSession.spec.key
    lastSeen,   \* UdpSession.last_seen_secs
    cancelled,  \* UdpSession.cancel
    loop,       \* the receive loop task of a session
    handle,     \* UdpSession.recv_task holds the JoinHandle
    aborted,    \* JoinHandle::abort was called on the receive loop
    gc,         \* where the GC loop is
    gcNow,      \* `now` of the current cleanup_expired_sessions, 0 when unused
    gcSet,      \* its `expired`, later its `expired_sessions`
    shut,       \* where shutdown_for_reload is
    drain       \* receive loops UdpRuntime::shutdown waits for

callerVars  == <<pc, key, on, ses, task>>
sessionVars == <<skey, lastSeen, cancelled, loop, handle, aborted>>
gcVars      == <<gc, gcNow, gcSet>>
shutVars    == <<shut, drain>>
vars == <<now, closed, sessions, callerVars, sessionVars, gcVars, shutVars>>

PcValues   == {"idle", "probe", "call", "lookup", "create", "notify",
               "abort", "send", "stopped"}
TaskValues == {"none", "connect", "ready", "ok", "err", "panic"}
LoopValues == {"none", "spawned", "running", "ending", "gone"}
GcValues   == {"sleep", "snapshot", "collect", "abort", "stopped"}
ShutValues == {"up", "loops", "gc", "closing", "draining", "down"}

(***************************************************************************)
(* Every variable stays within the values the Rust types allow.            *)
(***************************************************************************)
TypeOK ==
    /\ now \in Nat
    /\ closed \in BOOLEAN
    /\ sessions \in [Keys -> Callers \cup Sessions \cup {None}]
    /\ pc \in [Callers -> PcValues]
    /\ key \in [Callers -> Keys \cup {None}]
    /\ on \in [Callers -> Callers \cup {None}]
    /\ ses \in [Callers -> Sessions \cup {None}]
    /\ task \in [Callers -> TaskValues]
    /\ skey \in [Sessions -> Keys \cup {None}]
    /\ lastSeen \in [Sessions -> Nat]
    /\ cancelled \in [Sessions -> BOOLEAN]
    /\ loop \in [Sessions -> LoopValues]
    /\ handle \in [Sessions -> BOOLEAN]
    /\ aborted \in [Sessions -> BOOLEAN]
    /\ gc \in GcValues
    /\ gcNow \in Nat
    /\ gcSet \in SUBSET Sessions
    /\ shut \in ShutValues
    /\ drain \in SUBSET Sessions

Init ==
    /\ now = 0
    /\ closed = FALSE
    /\ sessions = [k \in Keys |-> None]
    /\ pc = [c \in Callers |-> "idle"]
    /\ key = [c \in Callers |-> None]
    /\ on = [c \in Callers |-> None]
    /\ ses = [c \in Callers |-> None]
    /\ task = [c \in Callers |-> "none"]
    /\ skey = [s \in Sessions |-> None]
    /\ lastSeen = [s \in Sessions |-> 0]
    /\ cancelled = [s \in Sessions |-> FALSE]
    /\ loop = [s \in Sessions |-> "none"]
    /\ handle = [s \in Sessions |-> FALSE]
    /\ aborted = [s \in Sessions |-> FALSE]
    /\ gc = "sleep"
    /\ gcNow = 0
    /\ gcSet = {}
    /\ shut = "up"
    /\ drain = {}

-----------------------------------------------------------------------------
(* Helpers. *)

\* The entry of k is UdpSessionEntry::Ready.
IsReady(k) == sessions[k] \in Sessions

\* s is the session some entry is Ready with.
Registered(s) == \E k \in Keys : sessions[k] = s

\* Mutation of NotifyWaiters: nobody is woken.
NotifyNobody(owners) == UNCHANGED on

\* Notify::notify_waiters on the Notify of every caller in owners.
NotifyWaiters(owners) ==
    on' = [w \in Callers |-> IF on[w] \in owners THEN None ELSE on[w]]

\* Mutation of Cancel: the token is not cancelled.
CancelNothing(S) == UNCHANGED cancelled

\* CancellationToken::cancel on every session in S.
Cancel(S) == cancelled' = [s \in Sessions |-> cancelled[s] \/ s \in S]

\* The caller returns: its locals go away.
Return(c) ==
    /\ pc' = [pc EXCEPT ![c] = "idle"]
    /\ key' = [key EXCEPT ![c] = None]
    /\ ses' = [ses EXCEPT ![c] = None]
    /\ task' = [task EXCEPT ![c] = "none"]

SaturatingSub(a, b) == IF a >= b THEN a - b ELSE 0

-----------------------------------------------------------------------------
(* A packet handler: handle_udp_client_payload with no sniffer configured. *)

\* No other packet task holds the key lock of k.  The lock table is per UDP loop
\* and a key belongs to one loop.
KeyLockFree(k) == \A d \in Handlers : pc[d] = "idle" \/ key[d] # k

\* The task of a packet gets its key lock; a closed runtime drops the packet.
Arrive(c, k) ==
    /\ c \in Handlers
    /\ pc[c] = "idle"
    /\ KeyLockFree(k)
    /\ ~closed
    /\ pc' = [pc EXCEPT ![c] = "probe"]
    /\ key' = [key EXCEPT ![c] = k]
    /\ UNCHANGED <<now, closed, sessions, on, ses, task, sessionVars, gcVars, shutVars>>

\* get_ready_udp_session: a Ready session is used as it is.
Probe(c) ==
    /\ pc[c] = "probe"
    /\ \/ /\ IsReady(key[c])
          /\ ses' = [ses EXCEPT ![c] = sessions[key[c]]]
          /\ pc' = [pc EXCEPT ![c] = "send"]
       \/ /\ ~IsReady(key[c])
          /\ pc' = [pc EXCEPT ![c] = "call"]
          /\ UNCHANGED ses
    /\ UNCHANGED <<now, closed, sessions, key, on, task, sessionVars, gcVars, shutVars>>

\* A UDP loop forwards a cached datagram itself (reap_pending_udp_sniff).
Flush(c, k) ==
    /\ c \in Loops
    /\ pc[c] = "idle"
    /\ pc' = [pc EXCEPT ![c] = "call"]
    /\ key' = [key EXCEPT ![c] = k]
    /\ UNCHANGED <<now, closed, sessions, on, ses, task, sessionVars, gcVars, shutVars>>

-----------------------------------------------------------------------------
(* get_or_create_udp_session. *)

\* The check before the lock.
Call(c) ==
    /\ pc[c] = "call"
    /\ \/ /\ closed
          /\ Return(c)
       \/ /\ ~closed
          /\ pc' = [pc EXCEPT ![c] = "lookup"]
          /\ UNCHANGED <<key, ses, task>>
    /\ UNCHANGED <<now, closed, sessions, on, sessionVars, gcVars, shutVars>>

\* One turn of the loop, under the lock: the runtime was closed meanwhile.
LookupClosed(c) ==
    /\ pc[c] = "lookup"
    /\ on[c] = None
    /\ closed
    /\ Return(c)
    /\ UNCHANGED <<now, closed, sessions, on, sessionVars, gcVars, shutVars>>

\* The entry is Ready: reuse its session.
LookupReady(c) ==
    /\ pc[c] = "lookup"
    /\ on[c] = None
    /\ ~closed
    /\ IsReady(key[c])
    /\ ses' = [ses EXCEPT ![c] = sessions[key[c]]]
    /\ pc' = [pc EXCEPT ![c] = "send"]
    /\ UNCHANGED <<now, closed, sessions, key, on, task, sessionVars, gcVars, shutVars>>

\* The entry is Creating: the Notified future is created under the lock, so
\* it is woken by every later notify_waiters; then the loop starts over.
LookupCreating(c) ==
    /\ pc[c] = "lookup"
    /\ on[c] = None
    /\ ~closed
    /\ sessions[key[c]] \in Callers
    /\ on' = [on EXCEPT ![c] = sessions[key[c]]]
    /\ UNCHANGED <<now, closed, sessions, pc, key, ses, task, sessionVars, gcVars, shutVars>>

\* No entry: insert Creating and spawn create_udp_session.
LookupVacant(c) ==
    /\ pc[c] = "lookup"
    /\ on[c] = None
    /\ ~closed
    /\ sessions[key[c]] = None
    /\ sessions' = [sessions EXCEPT ![key[c]] = c]
    /\ pc' = [pc EXCEPT ![c] = "create"]
    /\ task' = [task EXCEPT ![c] = "connect"]
    /\ UNCHANGED <<now, closed, key, on, ses, sessionVars, gcVars, shutVars>>

\* The create task panicked: the entry is removed, the lock released ...
JoinFailed(c) ==
    /\ pc[c] = "create"
    /\ task[c] = "panic"
    /\ sessions' = [sessions EXCEPT ![key[c]] = None]
    /\ pc' = [pc EXCEPT ![c] = "notify"]
    /\ task' = [task EXCEPT ![c] = "none"]
    /\ UNCHANGED <<now, closed, key, on, ses, sessionVars, gcVars, shutVars>>

\* ... and only then the waiters are notified.
JoinFailedNotify(c) ==
    /\ pc[c] = "notify"
    /\ NotifyWaiters({c})
    /\ Return(c)
    /\ UNCHANGED <<now, closed, sessions, sessionVars, gcVars, shutVars>>

\* The create task finished but the runtime was closed: the entry goes, and a
\* session that was made is cancelled, its receive loop aborted after the lock.
FinishClosed(c) ==
    /\ pc[c] = "create"
    /\ task[c] \in {"ok", "err"}
    /\ closed
    /\ sessions' = [sessions EXCEPT ![key[c]] = None]
    /\ NotifyWaiters({c})
    /\ \/ /\ task[c] = "ok"
          /\ Cancel({ses[c]})
          /\ pc' = [pc EXCEPT ![c] = "abort"]
          /\ task' = [task EXCEPT ![c] = "none"]
          /\ UNCHANGED <<key, ses>>
       \/ /\ task[c] = "err"
          /\ Return(c)
          /\ UNCHANGED cancelled
    /\ UNCHANGED <<now, closed, skey, lastSeen, loop, handle, aborted, gcVars, shutVars>>

AbortRecvTask(c) ==
    /\ pc[c] = "abort"
    /\ aborted' = [aborted EXCEPT ![ses[c]] = handle[ses[c]]]
    /\ handle' = [handle EXCEPT ![ses[c]] = FALSE]
    /\ Return(c)
    /\ UNCHANGED <<now, closed, sessions, on, skey, lastSeen, cancelled, loop, gcVars, shutVars>>

\* The receive loop ended before the session could be registered.
FinishCancelled(c) ==
    /\ pc[c] = "create"
    /\ task[c] = "ok"
    /\ ~closed
    /\ cancelled[ses[c]]
    /\ sessions' = [sessions EXCEPT ![key[c]] = None]
    /\ NotifyWaiters({c})
    /\ Return(c)
    /\ UNCHANGED <<now, closed, sessionVars, gcVars, shutVars>>

\* Mutations of MayRegister: closed, or is_cancelled, is not checked.
MayRegisterClosed(c) == ~cancelled[ses[c]]

MayRegisterCancelled(c) == ~closed

\* The runtime is open and the receive loop of the session has not ended.
MayRegister(c) == ~closed /\ ~cancelled[ses[c]]

\* The entry becomes Ready.
FinishReady(c) ==
    /\ pc[c] = "create"
    /\ task[c] = "ok"
    /\ MayRegister(c)
    /\ sessions' = [sessions EXCEPT ![key[c]] = ses[c]]
    /\ NotifyWaiters({c})
    /\ pc' = [pc EXCEPT ![c] = "send"]
    /\ task' = [task EXCEPT ![c] = "none"]
    /\ UNCHANGED <<now, closed, key, ses, sessionVars, gcVars, shutVars>>

\* create_udp_session returned an error.
FinishErr(c) ==
    /\ pc[c] = "create"
    /\ task[c] = "err"
    /\ ~closed
    /\ sessions' = [sessions EXCEPT ![key[c]] = None]
    /\ NotifyWaiters({c})
    /\ Return(c)
    /\ UNCHANGED <<now, closed, sessionVars, gcVars, shutVars>>

\* send_udp_payload: touch, then send_payload, which fails when cancelled.
Send(c) ==
    /\ pc[c] = "send"
    /\ lastSeen' = [lastSeen EXCEPT ![ses[c]] = now]
    /\ Return(c)
    /\ UNCHANGED <<now, closed, sessions, on, skey, cancelled, loop, handle, aborted, gcVars, shutVars>>

-----------------------------------------------------------------------------
(* The spawned create_udp_session.  It is detached when its caller goes.   *)

\* No upstream, socket error, SOCKS5 error or connect timeout.
CreateErr(c) ==
    /\ task[c] = "connect"
    /\ task' = [task EXCEPT ![c] = "err"]
    /\ UNCHANGED <<now, closed, sessions, pc, key, on, ses, sessionVars, gcVars, shutVars>>

\* The task panics (a build with unwinding): a JoinError for its caller.
CreatePanic(c) ==
    /\ task[c] = "connect"
    /\ task' = [task EXCEPT ![c] = "panic"]
    /\ UNCHANGED <<now, closed, sessions, pc, key, on, ses, sessionVars, gcVars, shutVars>>

\* Connected: build the session, spawn its receive loop, store the handle.
CreateSpawn(c, s) ==
    /\ task[c] = "connect"
    /\ loop[s] = "none"
    /\ task' = [task EXCEPT ![c] = "ready"]
    /\ ses' = [ses EXCEPT ![c] = s]
    /\ skey' = [skey EXCEPT ![s] = key[c]]
    /\ lastSeen' = [lastSeen EXCEPT ![s] = now]
    /\ loop' = [loop EXCEPT ![s] = "spawned"]
    /\ handle' = [handle EXCEPT ![s] = TRUE]
    /\ UNCHANGED <<now, closed, sessions, pc, key, on, cancelled, aborted, gcVars, shutVars>>

\* ready_rx resolves once the receive loop has started.
CreateReady(c) ==
    /\ task[c] = "ready"
    /\ loop[ses[c]] # "spawned"
    /\ task' = [task EXCEPT ![c] = "ok"]
    /\ UNCHANGED <<now, closed, sessions, pc, key, on, ses, sessionVars, gcVars, shutVars>>

-----------------------------------------------------------------------------
(* The receive loop task of a session. *)

\* ready_tx.send, then the select loop.
RecvStart(s) ==
    /\ loop[s] = "spawned"
    /\ loop' = [loop EXCEPT ![s] = "running"]
    /\ UNCHANGED <<now, closed, sessions, callerVars, skey, lastSeen, cancelled, handle, aborted, gcVars, shutVars>>

\* A reply: touch and send it to the client.  The select is biased towards
\* the cancellation.
RecvReply(s) ==
    /\ loop[s] = "running"
    /\ ~cancelled[s]
    /\ lastSeen' = [lastSeen EXCEPT ![s] = now]
    /\ UNCHANGED <<now, closed, sessions, callerVars, skey, cancelled, loop, handle, aborted, gcVars, shutVars>>

\* The loop returns because its session was cancelled.
RecvCancelled(s) ==
    /\ loop[s] = "running"
    /\ cancelled[s]
    /\ loop' = [loop EXCEPT ![s] = "ending"]
    /\ UNCHANGED <<now, closed, sessions, callerVars, skey, lastSeen, cancelled, handle, aborted, gcVars, shutVars>>

\* The loop returns by itself (a receive error, the SOCKS5 reply watchdog) and
\* the task cancels the session.
RecvStop(s) ==
    /\ loop[s] = "running"
    /\ ~cancelled[s]
    /\ loop' = [loop EXCEPT ![s] = "ending"]
    /\ Cancel({s})
    /\ UNCHANGED <<now, closed, sessions, callerVars, skey, lastSeen, handle, aborted, gcVars, shutVars>>

\* Mutation of ShouldRemove: any Ready entry of the key.
ShouldRemoveAny(s) == IsReady(skey[s])

\* The entry of the key is Ready with this session (Arc::ptr_eq).
ShouldRemove(s) == sessions[skey[s]] = s

\* Under the lock the task removes the entry, if it is still its session's.
RecvExit(s) ==
    /\ loop[s] = "ending"
    /\ loop' = [loop EXCEPT ![s] = "gone"]
    /\ sessions' = [k \in Keys |-> IF k = skey[s] /\ ShouldRemove(s) THEN None ELSE sessions[k]]
    /\ UNCHANGED <<now, closed, callerVars, skey, lastSeen, cancelled, handle, aborted, gcVars, shutVars>>

\* An aborted task is dropped at an await point.
RecvAborted(s) ==
    /\ aborted[s]
    /\ loop[s] \in {"running", "ending"}
    /\ loop' = [loop EXCEPT ![s] = "gone"]
    /\ UNCHANGED <<now, closed, sessions, callerVars, skey, lastSeen, cancelled, handle, aborted, gcVars, shutVars>>

-----------------------------------------------------------------------------
(* The GC loop: cleanup_expired_sessions. *)

\* Mutation of GcWake: it keeps the time before which a session is expired.
GcWakeCutoff ==
    /\ gc = "sleep"
    /\ gc' = "snapshot"
    /\ gcNow' = now - Timeout
    /\ UNCHANGED <<now, closed, sessions, callerVars, sessionVars, gcSet, shutVars>>

\* The cleanup reads the clock before it asks for the lock.
GcWake ==
    /\ gc = "sleep"
    /\ gc' = "snapshot"
    /\ gcNow' = now
    /\ UNCHANGED <<now, closed, sessions, callerVars, sessionVars, gcSet, shutVars>>

\* Mutation of Expired: > instead of >=.
ExpiredLater(s) == SaturatingSub(gcNow, lastSeen[s]) > Timeout

Expired(s) == SaturatingSub(gcNow, lastSeen[s]) >= Timeout

\* Ready sessions are copied under the lock, the expired ones kept.
GcSnapshot ==
    /\ gc = "snapshot"
    /\ gcSet' = {s \in Sessions : Registered(s) /\ Expired(s)}
    /\ gc' = IF gcSet' = {} THEN "sleep" ELSE "collect"
    /\ gcNow' = IF gcSet' = {} THEN 0 ELSE gcNow
    /\ UNCHANGED <<now, closed, sessions, callerVars, sessionVars, shutVars>>

\* Mutation of StillExpired: last_seen_secs is not read again.
StillExpiredStale == {s \in gcSet : ShouldRemove(s)}

\* The lock is taken again: an entry goes only if it still holds the same
\* session and that session is still expired.
StillExpired == {s \in gcSet : ShouldRemove(s) /\ Expired(s)}

GcCollect ==
    /\ gc = "collect"
    /\ sessions' = [k \in Keys |-> IF sessions[k] \in StillExpired THEN None ELSE sessions[k]]
    /\ Cancel(StillExpired)
    /\ gcSet' = StillExpired
    /\ gcNow' = 0
    /\ gc' = "abort"
    /\ UNCHANGED <<now, closed, callerVars, skey, lastSeen, loop, handle, aborted, shutVars>>

\* The handles of the evicted sessions are taken and aborted.
GcAbort ==
    /\ gc = "abort"
    /\ aborted' = [s \in Sessions |-> aborted[s] \/ (s \in gcSet /\ handle[s])]
    /\ handle' = [s \in Sessions |-> handle[s] /\ s \notin gcSet]
    /\ gcSet' = {}
    /\ gc' = "sleep"
    /\ UNCHANGED <<now, closed, sessions, callerVars, skey, lastSeen, cancelled, loop, gcNow, shutVars>>

-----------------------------------------------------------------------------
(* shutdown_for_reload: the UDP loops and port forwards, the GC loop, then *)
(* UdpRuntime::shutdown.                                                   *)

\* TaskGuard::shutdown of udp_listeners and port_forwards has returned: every
\* loop has left its select, or was aborted where it awaits when the time was up.
\* Nothing awaits between the removal and the notification of JoinFailed.
StopLoops ==
    /\ shut = "up"
    /\ \A c \in Loops : pc[c] # "notify"
    /\ shut' = "loops"
    /\ pc' = [c \in Callers |-> IF c \in Loops THEN "stopped" ELSE pc[c]]
    /\ on' = [c \in Callers |-> IF c \in Loops THEN None ELSE on[c]]
    /\ UNCHANGED <<now, closed, sessions, key, ses, task, sessionVars, gcVars, drain>>

\* TaskGuard::shutdown of udp_gc.
StopGc ==
    /\ shut = "loops"
    /\ shut' = "gc"
    /\ gc' = "stopped"
    /\ gcNow' = 0
    /\ gcSet' = {}
    /\ UNCHANGED <<now, closed, sessions, callerVars, sessionVars, drain>>

\* UdpRuntime::shutdown stores closed before it asks for the lock ...
Close ==
    /\ shut = "gc"
    /\ shut' = "closing"
    /\ closed' = TRUE
    /\ UNCHANGED <<now, sessions, callerVars, sessionVars, gcVars, drain>>

\* Mutation of Creators: Creating entries are passed over.
NoCreators == {}

\* The owners of the Creating entries.
Creators == {c \in Callers : \E k \in Keys : sessions[k] = c}

\* ... then cancels every Ready session, notifies the waiters of every Creating
\* entry, clears the map and takes the handles of the cancelled sessions.
Clear ==
    /\ shut = "closing"
    /\ shut' = "draining"
    /\ Cancel({s \in Sessions : Registered(s)})
    /\ NotifyWaiters(Creators)
    /\ sessions' = [k \in Keys |-> None]
    /\ drain' = {s \in Sessions : Registered(s) /\ handle[s]}
    /\ handle' = [s \in Sessions |-> handle[s] /\ ~Registered(s)]
    /\ UNCHANGED <<now, closed, pc, key, ses, task, skey, lastSeen, loop, aborted, gcVars>>

\* The deadline passes: the remaining tasks are aborted and awaited.
DrainTimeout ==
    /\ shut = "draining"
    /\ \E s \in drain : loop[s] # "gone" /\ ~aborted[s]
    /\ aborted' = [s \in Sessions |-> aborted[s] \/ (s \in drain /\ loop[s] # "gone")]
    /\ UNCHANGED <<now, closed, sessions, callerVars, skey, lastSeen, cancelled, loop, handle, gcVars, shutVars>>

\* Mutation of AllEnded: sessions that were never in the map are awaited too.
AllEndedEverywhere == \A s \in Sessions : loop[s] \in {"none", "gone"}

AllEnded == \A s \in drain : loop[s] = "gone"

\* Every awaited task has ended.
Drained ==
    /\ shut = "draining"
    /\ AllEnded
    /\ shut' = "down"
    /\ drain' = {}
    /\ UNCHANGED <<now, closed, sessions, callerVars, sessionVars, gcVars>>

Tick ==
    /\ now < MaxTime
    /\ now' = now + 1
    /\ UNCHANGED <<closed, sessions, callerVars, sessionVars, gcVars, shutVars>>

-----------------------------------------------------------------------------

Lookup(c) == LookupClosed(c) \/ LookupReady(c) \/ LookupCreating(c) \/ LookupVacant(c)

Finish(c) ==
    \/ JoinFailed(c) \/ FinishClosed(c) \/ FinishCancelled(c)
    \/ FinishReady(c) \/ FinishErr(c)

\* The steps a caller takes by itself once a packet has arrived.
CallerStep(c) ==
    \/ Probe(c) \/ Call(c) \/ Lookup(c) \/ Finish(c)
    \/ JoinFailedNotify(c) \/ AbortRecvTask(c) \/ Send(c)

\* connect_timeout_secs bounds the connection attempt.
CreateConnect(c) ==
    \/ CreateErr(c) \/ CreatePanic(c)
    \/ \E s \in Sessions : CreateSpawn(c, s)

RecvStep(s) == RecvStart(s) \/ RecvCancelled(s) \/ RecvExit(s) \/ RecvAborted(s)

Gc == GcWake \/ GcSnapshot \/ GcCollect \/ GcAbort

ShutdownStep == StopGc \/ Close \/ Clear \/ DrainTimeout \/ Drained

Next ==
    \/ \E c \in Callers, k \in Keys : Arrive(c, k) \/ Flush(c, k)
    \/ \E c \in Callers : CallerStep(c) \/ CreateConnect(c) \/ CreateReady(c)
    \/ \E s \in Sessions : RecvStep(s) \/ RecvReply(s) \/ RecvStop(s)
    \/ Gc
    \/ StopLoops
    \/ ShutdownStep
    \/ Tick

\* The tokio scheduler runs every task that can run, timers fire and the
\* clock advances.  Packets, replies, receive errors and the reload itself
\* come from outside and need not happen.
Fairness ==
    /\ \A c \in Callers :
          /\ WF_vars(CallerStep(c))
          /\ WF_vars(CreateConnect(c))
          /\ WF_vars(CreateReady(c))
    /\ \A s \in Sessions : WF_vars(RecvStep(s))
    /\ WF_vars(Gc)
    /\ WF_vars(ShutdownStep)
    /\ WF_vars(Tick)

Spec == Init /\ [][Next]_vars

FairSpec == Spec /\ Fairness

-----------------------------------------------------------------------------
(* Properties. *)

Alive(s) == loop[s] \in {"spawned", "running"} /\ ~cancelled[s]

\* c has a create task under way or one whose result it has not yet used.
CreatedBy(c, s) == task[c] \in {"ready", "ok"} /\ ses[c] = s

(***************************************************************************)
(* A client flow never has two live outbound sessions at once: the         *)
(* Creating entry keeps a second caller of get_or_create_udp_session from  *)
(* connecting, and an evicted session is cancelled before its key is free. *)
(***************************************************************************)
SingleLiveSession ==
    \A s, t \in Sessions : Alive(s) /\ Alive(t) /\ skey[s] = skey[t] => s = t

(***************************************************************************)
(* A Ready entry always has a receive loop that will still remove it: the  *)
(* is_cancelled check before the registration and the removal at the end   *)
(* of the receive loop leave no window for an entry whose loop is gone.    *)
(***************************************************************************)
ReadyIsServed ==
    \A k \in Keys : IsReady(k) =>
        /\ skey[sessions[k]] = k
        /\ loop[sessions[k]] \in {"running", "ending"}

(***************************************************************************)
(* Whoever awaits a Notify awaits one that is still to be notified: its    *)
(* Creating entry is in the map, or its owner is about to notify.          *)
(***************************************************************************)
WaiterHasNotifier ==
    \A c \in Callers : on[c] # None =>
        \/ sessions[key[c]] = on[c]
        \/ pc[on[c]] = "notify"

(***************************************************************************)
(* A live session is either found through the map, where the GC loop and   *)
(* the shutdown cancel it, or still belongs to the caller that creates it. *)
(***************************************************************************)
NoStraySession ==
    \A s \in Sessions : Alive(s) =>
        \/ sessions[skey[s]] = s
        \/ \E c \in Callers : CreatedBy(c, s)

(***************************************************************************)
(* Once UdpRuntime::shutdown has cleared the map nothing is inserted any   *)
(* more, although creations were under way when closed was stored.         *)
(***************************************************************************)
ClearedStaysEmpty ==
    shut \in {"draining", "down"} => \A k \in Keys : sessions[k] = None

(***************************************************************************)
(* Until the shutdown, a session whose receive loop works is only taken    *)
(* out of the map after udp_session_timeout_secs without traffic: the GC   *)
(* looks at last_seen_secs again under the lock that removes the entry.    *)
(***************************************************************************)
EvictedOnlyIdle ==
    [][\A s \in Sessions :
          Registered(s) /\ ~Registered(s)' /\ Alive(s) /\ ~closed
              => lastSeen[s] + Timeout <= now]_vars

(***************************************************************************)
(* UdpRuntime implements the abstract registry: an entry that is Creating  *)
(* is invisible, a cancelled session is dead, and clearing the map in      *)
(* UdpRuntime::shutdown seals the registry.                                *)
(***************************************************************************)
Registry == INSTANCE SessionRegistry WITH
    reg  <- [k \in Keys |-> IF IsReady(k) THEN sessions[k] ELSE None],
    life <- [s \in Sessions |-> IF cancelled[s] THEN "dead"
                                ELSE IF Registered(s) THEN "live" ELSE "fresh"],
    open <- shut \notin {"draining", "down"}

ImplementsRegistry == Registry!Spec

-----------------------------------------------------------------------------
(* Liveness, under Fairness. *)

(***************************************************************************)
(* A packet that waits for another caller's creation is not left waiting:  *)
(* every way a creation ends, an abort of the UDP loop followed by the     *)
(* shutdown included, notifies the waiters.                                *)
(***************************************************************************)
WaitersReleased == \A c \in Callers : on[c] # None ~> on[c] = None

(***************************************************************************)
(* Every packet is finished with: its task returns and frees the key lock  *)
(* and the permit, whatever the creation, the GC and the shutdown do,      *)
(* unless the UDP loop starts new flushes for ever (a waiter that finds    *)
(* the key taken again goes on waiting).                                   *)
(***************************************************************************)
PacketsFinish ==
    \A c \in Handlers :
        \/ pc[c] # "idle" ~> pc[c] = "idle"
        \/ []<><<\E l \in Loops, k \in Keys : Flush(l, k)>>_vars

(***************************************************************************)
(* A session that stays without traffic is evicted, as long as the bounded *)
(* clock still has udp_session_timeout_secs to go.                         *)
(***************************************************************************)
IdleEvicted ==
    \A s \in Sessions :
        Registered(s) /\ lastSeen[s] + Timeout <= MaxTime
            ~> ~Registered(s) \/ lastSeen[s] + Timeout > MaxTime

(***************************************************************************)
(* UdpRuntime::shutdown returns once begun: the drain deadline aborts the  *)
(* receive loops that do not end by themselves.                            *)
(***************************************************************************)
ShutdownFinishes == shut # "up" ~> shut = "down"

(***************************************************************************)
(* After the shutdown every receive loop ends, those of creations that     *)
(* were under way included, but for the sessions whose creating UDP loop   *)
(* was aborted.                                                            *)
(***************************************************************************)
ReceiveLoopsEnd ==
    \A s \in Sessions :
        shut = "down" ~> \/ loop[s] \in {"none", "gone"}
                         \/ \E c \in Loops : CreatedBy(c, s)

(***************************************************************************)
(* After the shutdown every receive loop ends ("把还在跑的 recv loop 全部   *)
(* cancel", shutdown_for_reload).                                          *)
(***************************************************************************)
AllReceiveLoopsEnd ==
    shut = "down" ~> \A s \in Sessions : loop[s] \in {"none", "gone"}

=============================================================================
