----------------------------- MODULE UdpPending -----------------------------
(***************************************************************************)
(* The packet path of one UDP loop (run_udp_loop, run_udp_port_forward) in *)
(* full sniffing mode: the loop receives packets, reaps expired pending    *)
(* sniffs and idle key locks between two packets and spawns one task per   *)
(* packet; a task takes the lock of its key and hands the packet to        *)
(* handle_udp_client_payload.  Sessions come from the registry, of which   *)
(* this module uses only what SessionRegistry promises.                    *)
(*                                                                         *)
(* A packet is its number in the order of reception and stands for its     *)
(* task too; 0 is the loop.  A lock object is named after the packet whose *)
(* reception made it.  What the sniffer says of a datagram is any outcome. *)
(***************************************************************************)
EXTENDS Naturals, Sequences, FiniteSets, Functions

CONSTANTS
    Keys,           \* UdpSessionKey values of this loop
    Sessions,       \* session objects, each used once
    None,
    MaxPackets,     \* bound on the packets received
    Permits,        \* UDP_PACKET_TASK_LIMIT
    MaxPending,     \* UDP_SNIFF_MAX_PENDING_SESSIONS
    MaxCached,      \* UDP_SNIFF_MAX_CACHED_DATAGRAMS
    NoClueLimit,    \* UDP_SNIFF_NO_CLUE_LIMIT
    Window,         \* quic_sniff_pending_timeout_ms, in ticks
    ReapInterval    \* UDP_SNIFF_REAP_INTERVAL, in ticks

Packets == 1 .. MaxPackets
Loop == 0
Actors == Packets \cup {Loop}

ASSUME UdpPendingAssumption ==
    /\ IsFiniteSet(Keys)
    /\ MaxPackets \in Nat
    /\ Permits \in Nat \ {0} /\ MaxPending \in Nat \ {0} /\ MaxCached \in Nat \ {0}
    /\ NoClueLimit \in Nat \ {0} /\ Window \in Nat \ {0} /\ ReapInterval \in Nat
    /\ None \notin Keys \cup Sessions \cup Nat

VARIABLES
    pending,    \* PendingSniffMap: Keys -> None or a PendingUdpSniff
    locks,      \* UdpKeyLocks: Keys -> None or a lock
    sinceReap,  \* last_pending_reap.elapsed(), up to ReapInterval
    expired,    \* expired_keys of the reap under way
    pc,         \* where each task and the loop are
    key,        \* the key an actor works on; for the loop, the key it flushes
    lock,       \* the lock a task holds an Arc of, None once the task has ended
    entry,      \* the PendingUdpSniff a task has taken out of the map or made
    todo,       \* the datagrams an actor still has to forward, in order
    host,       \* spec.sniffed_host is set in what the actor forwards
    got,        \* the session an actor has obtained
    victim,     \* oldest_key of an enforcement under way
    cur,        \* the packet the loop has received and not yet spawned
    reg,        \* the session registry: reg, life and open of SessionRegistry
    life,
    open,
    shost,      \* spec.sniffed_host of a session
    maker,      \* history: the actor that published a session
    turn,       \* history: which task of its key a packet's was to get the lock
    sent        \* history: the packets that were sent

mapVars   == <<pending, locks>>
loopVars  == <<sinceReap, expired, cur>>
actorVars == <<pc, key, lock, entry, todo, host, got, victim>>
regVars   == <<reg, life, open, shost, maker>>
histVars  == <<turn, sent>>
vars == <<mapVars, loopVars, actorVars, regVars, histVars>>

Registry == INSTANCE SessionRegistry

\* Its deadline is kept as the time left.
PendingUdpSniff ==
    [left : 0 .. Window, noClue : 0 .. NoClueLimit - 1,
     data : Seq(Packets)]

TaskPc == {"new", "lock", "probe", "take", "insert", "done"}
LoopPc == {"recv", "reap", "reaped", "spawn", "stopped"}
BothPc == {"forward", "send", "len", "pick", "evict"}

(***************************************************************************)
(* Every variable stays within the values the Rust types allow, no replay  *)
(* buffer exceeds UDP_SNIFF_MAX_CACHED_DATAGRAMS and no entry that is kept *)
(* has reached UDP_SNIFF_NO_CLUE_LIMIT.                                    *)
(***************************************************************************)
TypeOK ==
    /\ sinceReap \in 0 .. ReapInterval
    /\ pending \in [Keys -> PendingUdpSniff \cup {None}]
    /\ \A k \in Keys : pending[k] # None => Len(pending[k].data) <= MaxCached
    /\ locks \in [Keys -> Packets \cup {None}]
    /\ expired \in SUBSET Keys
    /\ pc \in [Actors -> TaskPc \cup LoopPc \cup BothPc]
    /\ key \in [Actors -> Keys \cup {None}]
    /\ lock \in [Packets -> Packets \cup {None}]
    /\ entry \in [Packets -> PendingUdpSniff \cup {None}]
    /\ \A p \in Packets : entry[p] # None => Len(entry[p].data) <= MaxCached
    /\ todo \in [Actors -> Seq(Packets)]
    /\ host \in [Actors -> BOOLEAN]
    /\ got \in [Actors -> Sessions \cup {None}]
    /\ victim \in [Actors -> Keys \cup {None}]
    /\ cur \in Packets \cup {None}
    /\ reg \in [Keys -> Sessions \cup {None}]
    /\ life \in [Sessions -> {"fresh", "live", "dead"}]
    /\ open \in BOOLEAN
    /\ shost \in [Sessions -> BOOLEAN]
    /\ maker \in [Sessions -> Actors \cup {None}]
    /\ turn \in [Packets -> 0 .. MaxPackets]
    /\ sent \in SUBSET Packets

Init ==
    /\ pending = [k \in Keys |-> None]
    /\ locks = [k \in Keys |-> None]
    /\ sinceReap = 0
    /\ expired = {}
    /\ cur = None
    /\ pc = [a \in Actors |-> IF a = Loop THEN "recv" ELSE "new"]
    /\ key = [a \in Actors |-> None]
    /\ lock = [p \in Packets |-> None]
    /\ entry = [p \in Packets |-> None]
    /\ todo = [a \in Actors |-> <<>>]
    /\ host = [a \in Actors |-> FALSE]
    /\ got = [a \in Actors |-> None]
    /\ victim = [a \in Actors |-> None]
    /\ Registry!Init
    /\ shost = [s \in Sessions |-> FALSE]
    /\ maker = [s \in Sessions |-> None]
    /\ turn = [p \in Packets |-> 0]
    /\ sent = {}

-----------------------------------------------------------------------------
(* Helpers. *)

PendingKeys == {k \in Keys : pending[k] # None}

Received == {p \in Packets : key[p] # None}

\* Packets are numbered as they are received.
IsNext(p) == p \in Packets \ Received /\ 1 .. (p - 1) \subseteq Received

\* The task holds its key lock.
Running(p) == pc[p] \notin {"new", "lock", "done"}

Goto(a, l) == pc' = [pc EXCEPT ![a] = l]

\* What follows a flush and an enforcement: the task of a packet ends and drops
\* its key lock and its permit; the loop goes on with its reap.
Finish(a, l) ==
    /\ Goto(a, IF a = Loop THEN l ELSE "done")
    /\ lock' = [p \in Packets |-> IF p = a THEN None ELSE lock[p]]

Expired(e) == e.left = 0

-----------------------------------------------------------------------------
(* The loop. *)

\* Mutation of Receive: an empty packet is skipped before the reap.
ReceiveSkipsEmpty(p, k) ==
    /\ pc[Loop] = "recv"
    /\ p # None => IsNext(p)
    /\ cur' = p
    /\ key' = [a \in Actors |-> IF a = p THEN k ELSE key[a]]
    /\ \/ /\ sinceReap < ReapInterval \/ p = None
          /\ Goto(Loop, "spawn")
          /\ UNCHANGED <<sinceReap, expired>>
       \/ /\ sinceReap >= ReapInterval
          /\ p # None
          /\ Goto(Loop, "reap")
          /\ sinceReap' = 0
          /\ expired' = {l \in PendingKeys : Expired(pending[l])}
    /\ UNCHANGED <<mapVars, lock, entry, todo, host, got, victim, regVars, histVars>>

\* A packet is received, or an empty one (p = None), and
\* maybe_reap_pending_udp_sniff looks at the time of the last reap.  If it is due,
\* reap_pending_udp_sniff collects the expired keys ...
Receive(p, k) ==
    /\ pc[Loop] = "recv"
    /\ p # None => IsNext(p)
    /\ cur' = p
    /\ key' = [a \in Actors |-> IF a = p THEN k ELSE key[a]]
    /\ \/ /\ sinceReap < ReapInterval
          /\ Goto(Loop, "spawn")
          /\ UNCHANGED <<sinceReap, expired>>
       \/ /\ sinceReap >= ReapInterval
          /\ Goto(Loop, "reap")
          /\ sinceReap' = 0
          /\ expired' = {l \in PendingKeys : Expired(pending[l])}
    /\ UNCHANGED <<mapVars, lock, entry, todo, host, got, victim, regVars, histVars>>

\* Mutation of ReapKey: the entry is flushed but stays in the map.
ReapKeyCopy(k) ==
    /\ pc[Loop] = "reap"
    /\ k \in expired
    /\ expired' = expired \ {k}
    /\ pending[k] # None
    /\ todo' = [todo EXCEPT ![Loop] = pending[k].data]
    /\ key' = [key EXCEPT ![Loop] = k]
    /\ Goto(Loop, "forward")
    /\ UNCHANGED <<mapVars, sinceReap, cur, lock, entry, host, got, victim, regVars, histVars>>

\* ... and removes and flushes whatever these keys hold then, one by one.
ReapKey(k) ==
    /\ pc[Loop] = "reap"
    /\ k \in expired
    /\ expired' = expired \ {k}
    /\ \/ /\ pending[k] = None
          /\ UNCHANGED <<pending, pc, key, todo>>
       \/ /\ pending[k] # None
          /\ pending' = [pending EXCEPT ![k] = None]
          /\ todo' = [todo EXCEPT ![Loop] = pending[k].data]
          /\ key' = [key EXCEPT ![Loop] = k]
          /\ Goto(Loop, "forward")
    /\ UNCHANGED <<locks, sinceReap, cur, lock, entry, host, got, victim, regVars, histVars>>

ReapKeysDone ==
    /\ pc[Loop] = "reap"
    /\ expired = {}
    /\ Goto(Loop, "len")
    /\ UNCHANGED <<mapVars, loopVars, key, lock, entry, todo, host, got, victim, regVars, histVars>>

\* Mutation of StrongCount: the Arcs of waiting tasks are not counted.
StrongCountRunning(l) == 1 + Cardinality({p \in Packets : lock[p] = l /\ Running(p)})

\* Arc::strong_count of a lock in the table.
StrongCount(l) == 1 + Cardinality({p \in Packets : lock[p] = l})

\* reap_idle_udp_key_locks, if the reap was due.
KeptLocks ==
    [k \in Keys |-> IF pc[Loop] = "reaped" /\ locks[k] # None /\ StrongCount(locks[k]) = 1
                    THEN None ELSE locks[k]]

Tasks == {p \in Packets : pc[p] \notin {"new", "done"}}

\* The locks are reaped, then spawn_udp_packet_handler: without a permit the
\* packet is dropped.
Spawn ==
    /\ pc[Loop] \in {"reaped", "spawn"}
    /\ cur' = None
    /\ \/ /\ cur = None
          /\ locks' = KeptLocks
          /\ Goto(Loop, "recv")
          /\ UNCHANGED lock
       \/ /\ cur # None
          /\ Cardinality(Tasks) >= Permits
          /\ locks' = KeptLocks
          /\ pc' = [pc EXCEPT ![Loop] = "recv", ![cur] = "done"]
          /\ UNCHANGED lock
       \/ /\ cur # None
          /\ Cardinality(Tasks) < Permits
          /\ locks' = [KeptLocks EXCEPT ![key[cur]] = IF @ = None THEN cur ELSE @]
          /\ lock' = [lock EXCEPT ![cur] = locks'[key[cur]]]
          /\ pc' = [pc EXCEPT ![Loop] = "recv", ![cur] = "lock"]
    /\ UNCHANGED <<pending, sinceReap, expired, key, entry, todo, host, got, victim, regVars, histVars>>

\* The loop is cancelled where it receives, or aborted where it awaits a flush.
Stop ==
    /\ pc[Loop] \in {"recv", "forward", "send"}
    /\ pc' = [a \in Actors |-> IF a = Loop THEN "stopped" ELSE IF a = cur THEN "done" ELSE pc[a]]
    /\ cur' = None
    /\ expired' = {}
    /\ key' = [key EXCEPT ![Loop] = None]
    /\ todo' = [todo EXCEPT ![Loop] = <<>>]
    /\ got' = [got EXCEPT ![Loop] = None]
    /\ UNCHANGED <<mapVars, sinceReap, lock, entry, host, victim, regVars, histVars>>

-----------------------------------------------------------------------------
(* The task of a packet: handle_udp_client_payload under the key lock. *)

\* The task gets its lock, in whatever order the tasks were polled first; a
\* closed runtime drops the packet.
Acquire(p) ==
    /\ pc[p] = "lock"
    /\ \A q \in Packets : lock[q] = lock[p] => ~Running(q)
    /\ \/ /\ open
          /\ Goto(p, "probe")
          /\ turn' = [turn EXCEPT ![p] =
                        1 + Cardinality({q \in Received : key[q] = key[p] /\ turn[q] > 0})]
          /\ UNCHANGED lock
       \/ /\ ~open
          /\ Finish(p, "recv")
          /\ UNCHANGED turn
    /\ UNCHANGED <<mapVars, loopVars, key, entry, todo, host, got, victim, regVars, sent>>

\* get_ready_udp_session: a Ready session gets the datagram, and what the key
\* has pending is dropped.
ProbeHit(p) ==
    /\ pc[p] = "probe"
    /\ reg[key[p]] # None
    /\ pending' = [pending EXCEPT ![key[p]] = None]
    /\ got' = [got EXCEPT ![p] = reg[key[p]]]
    /\ todo' = [todo EXCEPT ![p] = <<p>>]
    /\ Goto(p, "send")
    /\ UNCHANGED <<locks, loopVars, key, lock, entry, host, victim, regVars, histVars>>

ProbeMiss(p) ==
    /\ pc[p] = "probe"
    /\ reg[key[p]] = None
    /\ Goto(p, "take")
    /\ UNCHANGED <<mapVars, loopVars, key, lock, entry, todo, host, got, victim, regVars, histVars>>

\* Mutation of FlushedWith: the current datagram first.
FlushedFirst(p) == <<p>> \o pending[key[p]].data

\* The cached datagrams, then the current one.
FlushedWith(p) == Append(pending[key[p]].data, p)

\* The entry is taken out of the map and flushed with the current datagram, with
\* the sniffed host or without.
Flush(p, h) ==
    /\ pending' = [pending EXCEPT ![key[p]] = None]
    /\ todo' = [todo EXCEPT ![p] = FlushedWith(p)]
    /\ host' = [host EXCEPT ![p] = h]
    /\ Goto(p, "forward")
    /\ UNCHANGED <<locks, loopVars, key, lock, entry, got, victim, regVars, histVars>>

\* It has expired, or the replay buffer is full.  Bytes are not modelled: the
\* 64 KB may be used up at any time.
TakeExpired(p) ==
    /\ pc[p] = "take"
    /\ pending[key[p]] # None
    /\ Flush(p, FALSE)

\* Mutation of Fits: <= for the limit of cached datagrams.
FitsOneMore(p) ==
    /\ pending[key[p]] # None
    /\ ~Expired(pending[key[p]])
    /\ Len(pending[key[p]].data) <= MaxCached

\* The current datagram still fits into the window and the buffer.
Fits(p) ==
    /\ pending[key[p]] # None
    /\ ~Expired(pending[key[p]])
    /\ Len(pending[key[p]].data) < MaxCached

TakeMatched(p) ==
    /\ pc[p] = "take"
    /\ Fits(p)
    /\ Flush(p, TRUE)

\* record_no_clue.
GivesUp(e) == e.noClue + 1 >= NoClueLimit

\* The sniffer failed, or found no clue for the last time.
TakeFailed(p) ==
    /\ pc[p] = "take"
    /\ Fits(p)
    /\ Flush(p, FALSE)

\* Need more, or no clue yet: out of the map with the datagram added ...
TakeMore(p, clue) ==
    /\ pc[p] = "take"
    /\ Fits(p)
    /\ clue \/ ~GivesUp(pending[key[p]])
    /\ pending' = [pending EXCEPT ![key[p]] = None]
    /\ entry' = [entry EXCEPT ![p] =
                    [pending[key[p]] EXCEPT !.data = Append(@, p),
                                            !.noClue = IF clue THEN @ ELSE @ + 1]]
    /\ Goto(p, "insert")
    /\ UNCHANGED <<locks, loopVars, key, lock, todo, host, got, victim, regVars, histVars>>

\* Mutation of Insert: the limit is not enforced afterwards.
InsertUnenforced(p) ==
    /\ pc[p] = "insert"
    /\ pending' = [pending EXCEPT ![key[p]] = entry[p]]
    /\ entry' = [entry EXCEPT ![p] = None]
    /\ Finish(p, "recv")
    /\ UNCHANGED <<locks, loopVars, key, todo, host, got, victim, regVars, histVars>>

\* ... and back in again.
Insert(p) ==
    /\ pc[p] = "insert"
    /\ pending' = [pending EXCEPT ![key[p]] = entry[p]]
    /\ entry' = [entry EXCEPT ![p] = None]
    /\ Goto(p, "len")
    /\ UNCHANGED <<locks, loopVars, key, lock, todo, host, got, victim, regVars, histVars>>

\* handle_pending_udp_sniff finds none; handle_new_udp_sniff needs more: a new
\* entry for the key.
SniffMore(p) ==
    /\ pc[p] = "take"
    /\ pending[key[p]] = None
    /\ pending' = [pending EXCEPT ![key[p]] =
                      [left |-> Window, noClue |-> 0, data |-> <<p>>]]
    /\ Goto(p, "len")
    /\ UNCHANGED <<locks, loopVars, key, lock, entry, todo, host, got, victim, regVars, histVars>>

\* A match, or nothing to wait for: no sniffer, a direct target, no match, a
\* failure.
SniffForward(p, h) ==
    /\ pc[p] = "take"
    /\ pending[key[p]] = None
    /\ todo' = [todo EXCEPT ![p] = <<p>>]
    /\ host' = [host EXCEPT ![p] = h]
    /\ Goto(p, "forward")
    /\ UNCHANGED <<mapVars, loopVars, key, lock, entry, got, victim, regVars, histVars>>

-----------------------------------------------------------------------------
(* enforce_pending_udp_sniff_capacity, by a task or by the loop.  The map  *)
(* is shared, so len, the search for the oldest and its removal are        *)
(* separate steps.                                                         *)

EnforceLen(a) ==
    /\ pc[a] = "len"
    /\ \/ /\ Cardinality(PendingKeys) > MaxPending
          /\ Goto(a, "pick")
          /\ UNCHANGED lock
       \/ /\ Cardinality(PendingKeys) <= MaxPending
          /\ Finish(a, "reaped")
    /\ UNCHANGED <<mapVars, loopVars, key, entry, todo, host, got, victim, regVars, histVars>>

\* The deadlines that have passed are alike here: any of these entries may be the
\* oldest.
EnforcePick(a) ==
    /\ pc[a] = "pick"
    /\ \/ /\ PendingKeys = {}
          /\ Finish(a, "reaped")
          /\ UNCHANGED victim
       \/ \E k \in PendingKeys :
             /\ \A l \in PendingKeys : pending[k].left <= pending[l].left
             /\ victim' = [victim EXCEPT ![a] = k]
             /\ Goto(a, "evict")
             /\ UNCHANGED lock
    /\ UNCHANGED <<mapVars, loopVars, key, entry, todo, host, got, regVars, histVars>>

\* Mutation of EnforceEvict: the oldest entry is only looked at.
EnforceEvictNothing(a) ==
    /\ pc[a] = "evict"
    /\ victim' = [victim EXCEPT ![a] = None]
    /\ Goto(a, "len")
    /\ UNCHANGED <<mapVars, loopVars, key, lock, entry, todo, host, got, regVars, histVars>>

EnforceEvict(a) ==
    /\ pc[a] = "evict"
    /\ pending' = [pending EXCEPT ![victim[a]] = None]
    /\ victim' = [victim EXCEPT ![a] = None]
    /\ Goto(a, "len")
    /\ UNCHANGED <<locks, loopVars, key, lock, entry, todo, host, got, regVars, histVars>>

-----------------------------------------------------------------------------
(* forward_udp_payload for every datagram to be forwarded, in order, by a  *)
(* task or by the loop.                                                    *)

\* The first datagram is dealt with.
NextDatagram(a) ==
    /\ todo' = [todo EXCEPT ![a] = Tail(@)]
    /\ \/ /\ Tail(todo[a]) # <<>>
          /\ Goto(a, "forward")
          /\ UNCHANGED <<key, lock, host>>
       \/ /\ Tail(todo[a]) = <<>>
          /\ Finish(a, "reap")
          /\ key' = [key EXCEPT ![a] = IF a = Loop THEN None ELSE @]
          /\ host' = [host EXCEPT ![a] = FALSE]

\* get_or_create_udp_session finds a session ...
ForwardReuse(a) ==
    /\ pc[a] = "forward"
    /\ open
    /\ reg[key[a]] # None
    /\ got' = [got EXCEPT ![a] = reg[key[a]]]
    /\ Goto(a, "send")
    /\ UNCHANGED <<mapVars, loopVars, key, lock, entry, todo, host, victim, regVars, histVars>>

\* ... or makes one for the target of this flush ...
ForwardCreate(a, s) ==
    /\ pc[a] = "forward"
    /\ Registry!Publish(key[a], s)
    /\ shost' = [shost EXCEPT ![s] = host[a]]
    /\ maker' = [maker EXCEPT ![s] = a]
    /\ got' = [got EXCEPT ![a] = s]
    /\ Goto(a, "send")
    /\ UNCHANGED <<mapVars, loopVars, key, lock, entry, todo, host, victim, histVars>>

\* ... or fails.
ForwardFail(a) ==
    /\ pc[a] = "forward"
    /\ open => reg[key[a]] = None
    /\ NextDatagram(a)
    /\ UNCHANGED <<mapVars, loopVars, entry, got, victim, regVars, histVars>>

\* send_payload succeeds if the session has not been cancelled, or fails.
Send(a) ==
    /\ pc[a] = "send"
    /\ \/ /\ life[got[a]] = "live"
          /\ sent' = sent \cup {Head(todo[a])}
       \/ UNCHANGED sent
    /\ got' = [got EXCEPT ![a] = None]
    /\ NextDatagram(a)
    /\ UNCHANGED <<mapVars, loopVars, entry, victim, regVars, turn>>

-----------------------------------------------------------------------------
(* The registry by itself: a session is cancelled or evicted, and the      *)
(* shutdown seals the registry after the loop has stopped.                 *)

SessionDies(s) ==
    /\ life[s] = "live"
    /\ Registry!Die(s)
    /\ UNCHANGED <<mapVars, loopVars, actorVars, shost, maker, histVars>>

SessionEvicted(s) ==
    /\ Registry!Evict({s})
    /\ UNCHANGED <<mapVars, loopVars, actorVars, shost, maker, histVars>>

Seal ==
    /\ pc[Loop] = "stopped"
    /\ Registry!Seal
    /\ UNCHANGED <<mapVars, loopVars, actorVars, shost, maker, histVars>>

\* Time passes.
Tick ==
    LET Older(e) == IF e = None THEN None ELSE [e EXCEPT !.left = IF @ = 0 THEN 0 ELSE @ - 1]
    IN  /\ sinceReap' = IF sinceReap = ReapInterval THEN sinceReap ELSE sinceReap + 1
        /\ pending' = [k \in Keys |-> Older(pending[k])]
        /\ entry' = [p \in Packets |-> Older(entry[p])]
        /\ UNCHANGED <<locks, expired, cur, pc, key, lock, todo, host, got, victim, regVars, histVars>>

-----------------------------------------------------------------------------

TaskStep(p) ==
    \/ Acquire(p) \/ ProbeHit(p) \/ ProbeMiss(p)
    \/ TakeExpired(p) \/ TakeMatched(p) \/ TakeFailed(p)
    \/ \E clue \in BOOLEAN : TakeMore(p, clue)
    \/ Insert(p) \/ SniffMore(p)
    \/ \E h \in BOOLEAN : SniffForward(p, h)

EnforceStep(a) == EnforceLen(a) \/ EnforcePick(a) \/ EnforceEvict(a)

ForwardStep(a) ==
    \/ ForwardReuse(a) \/ ForwardFail(a) \/ Send(a)
    \/ \E s \in Sessions : ForwardCreate(a, s)

LoopStep == (\E k \in Keys : ReapKey(k)) \/ ReapKeysDone \/ Spawn

ReceiveAny ==
    \/ Receive(None, None)
    \/ \E p \in Packets, k \in Keys : Receive(p, k)

Next ==
    \/ ReceiveAny
    \/ LoopStep
    \/ Stop
    \/ \E p \in Packets : TaskStep(p)
    \/ \E a \in Actors : EnforceStep(a) \/ ForwardStep(a)
    \/ \E s \in Sessions : SessionDies(s) \/ SessionEvicted(s)
    \/ Seal
    \/ Tick

Spec == Init /\ [][Next]_vars

\* The scheduler runs every task that can run, connections time out, and the
\* socket goes on receiving packets, of any key or empty, while the loop runs.
Fairness ==
    /\ \A p \in Packets : WF_vars(TaskStep(p))
    /\ \A a \in Actors : WF_vars(EnforceStep(a)) /\ WF_vars(ForwardStep(a))
    /\ WF_vars(LoopStep)
    /\ WF_vars(ReceiveAny)
    /\ WF_vars(Tick)

FairSpec == Spec /\ Fairness

-----------------------------------------------------------------------------
(* Properties. *)

(***************************************************************************)
(* Two packets of one key are never in handle_udp_client_payload at once,  *)
(* although idle locks are removed from the table between two packets:     *)
(* the strong count keeps every lock that a task holds or waits for.       *)
(***************************************************************************)
KeyExclusive ==
    \A p, q \in Packets : Running(p) /\ Running(q) /\ key[p] = key[q] => p = q

(***************************************************************************)
(* A datagram is cached or about to be forwarded in one place only and is  *)
(* sent at most once, although the entry of a key is taken out of the map, *)
(* changed and put back while the reaper and the enforcement remove        *)
(* entries.                                                                *)
(***************************************************************************)
NoDuplicate ==
    LET Places == {<<"map", k, pending[k].data>> : k \in PendingKeys}
                  \cup {<<"task", p, entry[p].data>> : p \in {q \in Packets : entry[q] # None}}
                  \cup {<<"flush", a, todo[a]>> : a \in Actors}
    IN  /\ \A x, y \in Places : x # y => Range(x[3]) \cap Range(y[3]) = {}
        /\ \A x \in Places : IsInjective(x[3]) /\ Range(x[3]) \cap sent = {}

\* The tasks in enforce_pending_udp_sniff_capacity.
Enforcers == {p \in Packets : pc[p] \in {"len", "pick", "evict"}}

(***************************************************************************)
(* The limit of pending sniffs is exceeded at most by the entries of tasks *)
(* that are still enforcing it, however the enforcements interleave.       *)
(***************************************************************************)
PendingBounded == Cardinality(PendingKeys) <= MaxPending + Cardinality(Enforcers)

(***************************************************************************)
(* The datagrams of a key are sent in the order in which their tasks got   *)
(* the key lock, the cached ones before the one that completes the sniff;  *)
(* only a flush of the reaper, which has no key lock, can come too late.   *)
(***************************************************************************)
InOrderUnlessReaped ==
    [][\A p \in Packets : Send(p) =>
          \A d \in sent' \ sent, e \in sent : key[d] = key[e] => turn[e] < turn[d]]_vars

(***************************************************************************)
(* A flush that knows the sniffed host uses a session made for that host,  *)
(* or one that the reaper made for the key meanwhile.                      *)
(***************************************************************************)
SniffedHostUsed ==
    \A p \in Packets : pc[p] = "send" /\ host[p] =>
        shost[got[p]] \/ maker[got[p]] = Loop

\* The datagrams cached for k, in the map or taken out of it.
Cached(k) ==
    (IF pending[k] = None THEN {} ELSE Range(pending[k].data))
        \cup (UNION {Range(entry[p].data) : p \in {q \in Packets : entry[q] # None /\ key[q] = k}})
        \cup (UNION {Range(todo[a]) : a \in {b \in Actors : key[b] = k}})

(***************************************************************************)
(* What a Ready hit drops with the pending sniff of its key was cached     *)
(* behind the reaper's back: the session hit is one the reaper made.       *)
(***************************************************************************)
DroppedOnlyBehindReaper ==
    [][\A p \in Packets :
          ProbeHit(p) /\ pending[key[p]] # None => maker[reg[key[p]]] = Loop]_vars

(***************************************************************************)
(* A cached datagram stays cached until it is flushed ("嗅探期间收到的包缓存在 *)
(* PendingReplayBuffer 中，嗅探完成后一次性 flush", pending.rs), unless the  *)
(* enforcement of the limit drops its entry or the loop is stopped.        *)
(***************************************************************************)
CachedUntilFlushed ==
    [][\A k \in Keys : pending[k] # None =>
          \/ Cached(k) \subseteq Cached(k)'
          \/ \E a \in Actors : EnforceEvict(a) \/ ForwardStep(a)
          \/ Stop]_vars

(***************************************************************************)
(* Every packet task ends and frees its key lock and its permit.           *)
(***************************************************************************)
TasksEnd == \A p \in Packets : pc[p] = "lock" ~> pc[p] = "done"

(***************************************************************************)
(* As long as packets of any flow arrive, no sniff stays pending: the      *)
(* reaper flushes what its own flow does not finish.                       *)
(***************************************************************************)
PendingEnds ==
    \A k \in Keys : pending[k] # None ~> pending[k] = None \/ pc[Loop] = "stopped"

=============================================================================
