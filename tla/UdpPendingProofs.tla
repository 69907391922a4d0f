-------------------------- MODULE UdpPendingProofs --------------------------
(***************************************************************************)
(* Theorems about UdpPending: for any number of keys, packets, permits and *)
(* sessions.                                                               *)
(***************************************************************************)
EXTENDS UdpPending, FiniteSetTheorems, TLAPS

USE DEF Packets, Loop, Actors

-----------------------------------------------------------------------------
(* Key locks. *)

PcValues == TaskPc \cup LoopPc \cup BothPc

(***************************************************************************)
(* The inductive invariant behind KeyExclusive: the lock that a task holds *)
(* or waits for is the one in the table (reap_idle_udp_key_locks never     *)
(* removes it), and one lock has one holder.                               *)
(***************************************************************************)
LockInv ==
    /\ locks \in [Keys -> Packets \cup {None}]
    /\ pc \in [Actors -> PcValues]
    /\ key \in [Actors -> Keys \cup {None}]
    /\ lock \in [Packets -> Packets \cup {None}]
    /\ cur \in Packets \cup {None}
    /\ cur # None => key[cur] \in Keys /\ pc[cur] = "new"
    /\ \A p \in Packets :
          \/ pc[p] \in {"new", "done"} /\ lock[p] = None
          \/ /\ pc[p] \notin {"new", "done"}
             /\ key[p] \in Keys
             /\ lock[p] \in Packets
             /\ locks[key[p]] = lock[p]
    /\ \A p \in Packets : key[p] = None => pc[p] = "new"
    /\ \A p, q \in Packets : Running(p) /\ Running(q) /\ lock[p] = lock[q] => p = q

\* None is a value of its own.
LEMMA NoneIsNoPacket == None \notin Packets /\ None # Loop /\ None \notin Keys
  BY UdpPendingAssumption, SMT, SMTT(30)

\* No task has been spawned at first, so no lock is held.
LEMMA InitLockInv == Init => LockInv
  BY NoneIsNoPacket, SMT, SMTT(30) DEF Init, LockInv, Running, PcValues, TaskPc, LoopPc

(***************************************************************************)
(* An actor that is past its lock moves on, or ends and drops its Arc.     *)
(***************************************************************************)
LEMMA MoveLockInv ==
    ASSUME LockInv,
           NEW a \in Actors, NEW l \in PcValues,
           a \in Packets => Running(a) /\ l \notin {"new", "lock"},
           pc' = [pc EXCEPT ![a] = l],
           lock' = [p \in Packets |-> IF p = a /\ l = "done" THEN None ELSE lock[p]],
           key' \in [Actors -> Keys \cup {None}],
           \A p \in Packets : key'[p] = key[p],
           locks' = locks,
           cur' = cur
    PROVE  LockInv'
<1> USE NoneIsNoPacket DEF LockInv, Running
<1>1. cur # None => cur # a
  BY Zenon
<1>2. \A p \in Packets :
          \/ pc'[p] \in {"new", "done"} /\ lock'[p] = None
          \/ /\ pc'[p] \notin {"new", "done"}
             /\ key'[p] \in Keys
             /\ lock'[p] \in Packets
             /\ locks'[key'[p]] = lock'[p]
  BY Zenon
<1>3. \A p \in Packets : key'[p] = None => pc'[p] = "new"
  BY Zenon
<1>4. \A p, q \in Packets : Running(p)' /\ Running(q)' /\ lock'[p] = lock'[q] => p = q
  BY ZenonT(30)
<1> QED
  BY <1>1, <1>2, <1>3, <1>4, SMT, SMTT(30)

\* Reception gives a key to a packet that has no task yet.
LEMMA ReceiveLockInv ==
    ASSUME LockInv, NEW p \in Packets \cup {None}, NEW k \in Keys \cup {None},
           p \in Packets => k \in Keys, Receive(p, k)
    PROVE  LockInv'
<1> USE NoneIsNoPacket DEF LockInv, Running
<1>1. PICK l \in {"spawn", "reap"} : pc' = [pc EXCEPT ![Loop] = l]
  BY Zenon DEF Receive, Goto
<1>2. /\ locks' = locks
      /\ lock' = lock
      /\ cur' = p
      /\ key' = [a \in Actors |-> IF a = p THEN k ELSE key[a]]
  BY Zenon DEF Receive, mapVars
<1>3. p # None => key[p] = None /\ pc[p] = "new"
  BY Zenon DEF Receive, IsNext, Received
<1>4. pc' \in [Actors -> PcValues]
  BY <1>1, Zenon DEF PcValues, LoopPc
<1>5. key' \in [Actors -> Keys \cup {None}]
  BY <1>2, Zenon
<1>6. \A q \in Packets : pc'[q] = pc[q] /\ (q # p => key'[q] = key[q])
  BY <1>1, <1>2, SMT, SMTT(30)
<1>7. cur' # None => key'[cur'] \in Keys /\ pc'[cur'] = "new"
  BY <1>2, <1>3, <1>6, ZenonT(30)
<1>8. ASSUME NEW q \in Packets
      PROVE  \/ pc'[q] \in {"new", "done"} /\ lock'[q] = None
             \/ /\ pc'[q] \notin {"new", "done"}
                /\ key'[q] \in Keys
                /\ lock'[q] \in Packets
                /\ locks'[key'[q]] = lock'[q]
  <2>1. CASE q = p
    BY <2>1, <1>2, <1>3, <1>6, ZenonT(30)
  <2>2. CASE q # p
    BY <2>2, <1>2, <1>6, ZenonT(30)
  <2> QED
    BY <2>1, <2>2, Zenon
<1>9. \A q \in Packets : key'[q] = None => pc'[q] = "new"
  BY <1>3, <1>6, <1>2, ZenonT(30)
<1>10. \A q, r \in Packets : Running(q)' /\ Running(r)' /\ lock'[q] = lock'[r] => q = r
  BY <1>2, <1>6, ZenonT(30)
<1> QED
  BY <1>2, <1>4, <1>5, <1>7, <1>8, <1>9, <1>10, ZenonT(30)

(***************************************************************************)
(* The strong count of a lock that a task has an Arc of is not 1.          *)
(***************************************************************************)
LEMMA StrongCountLemma ==
    ASSUME NEW p \in Packets, NEW l, lock[p] = l
    PROVE  StrongCount(l) # 1
<1> DEFINE S == {q \in Packets : lock[q] = l}
<1>1. IsFiniteSet(Packets)
  BY FS_Interval, UdpPendingAssumption, SMT, SMTT(30)
<1>2. IsFiniteSet(S)
  BY <1>1, FS_Subset, ZenonT(30)
<1>3. S # {}
  BY Zenon
<1>4. Cardinality(S) \in Nat /\ Cardinality(S) # 0
  BY <1>2, <1>3, FS_CardinalityType, FS_EmptySet, Zenon
<1> QED
  BY <1>4, SMT, SMTT(30) DEF StrongCount

\* reap_idle_udp_key_locks keeps every lock that a task has an Arc of.
LEMMA KeptLocksLemma ==
    ASSUME LockInv
    PROVE  /\ KeptLocks \in [Keys -> Packets \cup {None}]
           /\ \A p \in Packets : lock[p] # None => KeptLocks[key[p]] = lock[p]
<1>1. KeptLocks \in [Keys -> Packets \cup {None}]
  BY Zenon DEF LockInv, KeptLocks
<1>2. ASSUME NEW p \in Packets, lock[p] # None
      PROVE  KeptLocks[key[p]] = lock[p]
  <2>1. key[p] \in Keys /\ locks[key[p]] = lock[p]
    BY <1>2, Zenon DEF LockInv
  <2>2. StrongCount(locks[key[p]]) # 1
    BY <2>1, StrongCountLemma, Zenon
  <2> QED
    BY <2>1, <2>2, Zenon DEF KeptLocks
<1> QED
  BY <1>1, <1>2, Zenon

\* spawn_udp_packet_handler gives a new task the lock that is in the table.
LEMMA SpawnLockInv ==
    ASSUME LockInv, Spawn
    PROVE  LockInv'
<1> USE NoneIsNoPacket DEF LockInv, Running
<1>0. /\ key' = key /\ cur' = None
      /\ KeptLocks \in [Keys -> Packets \cup {None}]
      /\ \A p \in Packets : lock[p] # None => KeptLocks[key[p]] = lock[p]
  BY KeptLocksLemma, Zenon DEF Spawn
<1>1. CASE cur = None
  <2>1. locks' = KeptLocks /\ lock' = lock /\ pc' = [pc EXCEPT ![Loop] = "recv"]
    BY <1>1, Zenon DEF Spawn, Goto
  <2>2. pc' \in [Actors -> PcValues] /\ \A p \in Packets : pc'[p] = pc[p]
    BY <2>1, SMT, SMTT(30) DEF PcValues, LoopPc
  <2> QED
    BY <1>0, <2>1, <2>2, SMT, SMTT(30)
<1>2. CASE /\ cur # None /\ locks' = KeptLocks /\ lock' = lock
           /\ pc' = [pc EXCEPT ![Loop] = "recv", ![cur] = "done"]
  <2>2. /\ pc' \in [Actors -> PcValues]
        /\ \A p \in Packets : pc'[p] = IF p = cur THEN "done" ELSE pc[p]
    BY <1>2, SMT, SMTT(30) DEF PcValues, LoopPc, TaskPc
  <2>3. lock[cur] = None
    BY <1>2, Zenon
  <2>4. ASSUME NEW q \in Packets
        PROVE  \/ pc'[q] \in {"new", "done"} /\ lock'[q] = None
               \/ /\ pc'[q] \notin {"new", "done"}
                  /\ key'[q] \in Keys
                  /\ lock'[q] \in Packets
                  /\ locks'[key'[q]] = lock'[q]
    BY <1>0, <1>2, <2>2, <2>3, Zenon
  <2>5. \A q \in Packets : key'[q] = None => pc'[q] = "new"
    BY <1>0, <1>2, <2>2, SMT, SMTT(30)
  <2>6. \A q, r \in Packets : Running(q)' /\ Running(r)' /\ lock'[q] = lock'[r] => q = r
    BY <1>0, <1>2, <2>2, SMT, SMTT(30)
  <2> QED
    BY <1>0, <1>2, <2>2, <2>4, <2>5, <2>6, ZenonT(30)
<1>3. CASE /\ cur # None
           /\ locks' = [KeptLocks EXCEPT ![key[cur]] = IF @ = None THEN cur ELSE @]
           /\ lock' = [lock EXCEPT ![cur] = locks'[key[cur]]]
           /\ pc' = [pc EXCEPT ![Loop] = "recv", ![cur] = "lock"]
  <2>2. /\ pc' \in [Actors -> PcValues]
        /\ \A p \in Packets : pc'[p] = IF p = cur THEN "lock" ELSE pc[p]
    BY <1>3, SMT, SMTT(30) DEF PcValues, LoopPc, TaskPc
  <2>3. cur \in Packets /\ key[cur] \in Keys /\ locks'[key[cur]] \in Packets
    BY <1>0, <1>3, SMT, SMTT(30)
  <2>4. locks' \in [Keys -> Packets \cup {None}] /\ lock' \in [Packets -> Packets \cup {None}]
    BY <1>0, <1>3, <2>3, Zenon
  <2>5. \A p \in Packets : lock'[p] = IF p = cur THEN locks'[key[cur]] ELSE lock[p]
    BY <1>3, <2>3, SMT, SMTT(30)
  <2>6. \A p \in Packets : lock[p] # None => locks'[key[p]] = lock[p]
    BY <1>0, <1>3, Zenon
  <2> QED
    BY <1>0, <2>2, <2>3, <2>4, <2>5, <2>6, SMT, SMTT(30)
<1> QED
  BY <1>1, <1>2, <1>3, Zenon DEF Spawn

\* Stopping the loop leaves the tasks and their locks alone.
LEMMA StopLockInv ==
    ASSUME LockInv, Stop
    PROVE  LockInv'
<1> USE NoneIsNoPacket DEF LockInv, Running
<1>1. /\ locks' = locks /\ lock' = lock /\ cur' = None
      /\ key' = [key EXCEPT ![Loop] = None]
      /\ pc' = [a \in Actors |-> IF a = Loop THEN "stopped"
                                 ELSE IF a = cur THEN "done" ELSE pc[a]]
  BY Zenon DEF Stop, mapVars
<1>2. pc' \in [Actors -> PcValues]
  BY <1>1, Zenon DEF PcValues, LoopPc, TaskPc
<1>3. \A p \in Packets : key'[p] = key[p] /\ pc'[p] = IF p = cur THEN "done" ELSE pc[p]
  BY <1>1, SMT, SMTT(30)
<1>4. ASSUME NEW q \in Packets
      PROVE  \/ pc'[q] \in {"new", "done"} /\ lock'[q] = None
             \/ /\ pc'[q] \notin {"new", "done"}
                /\ key'[q] \in Keys
                /\ lock'[q] \in Packets
                /\ locks'[key'[q]] = lock'[q]
  BY <1>1, <1>3, SMT, SMTT(30)
<1>5. \A q \in Packets : key'[q] = None => pc'[q] = "new"
  BY <1>1, <1>3, SMT, SMTT(30)
<1>6. \A q, r \in Packets : Running(q)' /\ Running(r)' /\ lock'[q] = lock'[r] => q = r
  BY <1>1, <1>3, SMT, SMTT(30)
<1> QED
  BY <1>1, <1>2, <1>4, <1>5, <1>6, Zenon

\* Whoever gets a lock finds nobody else running with it.
LEMMA AcquireLockInv ==
    ASSUME LockInv, NEW p \in Packets, Acquire(p)
    PROVE  LockInv'
<1> USE NoneIsNoPacket DEF LockInv, Running
<1>1. locks' = locks /\ key' = key /\ cur' = cur /\ pc[p] = "lock"
  BY Zenon DEF Acquire, mapVars, loopVars
<1>2. CASE lock' = lock /\ pc' = [pc EXCEPT ![p] = "probe"]
  <2>1. pc' \in [Actors -> PcValues]
    BY <1>2, Zenon DEF PcValues, TaskPc
  <2>2. \A q \in Packets : lock[q] = lock[p] => ~Running(q)
    BY Zenon DEF Acquire
  <2>3. \A q, r \in Packets : Running(q)' /\ Running(r)' /\ lock'[q] = lock'[r] => q = r
    BY <1>2, <2>2, ZenonT(30)
  <2> QED
    BY <1>1, <1>2, <2>1, <2>3, Zenon
<1>3. CASE /\ lock' = [q \in Packets |-> IF q = p THEN None ELSE lock[q]]
           /\ pc' = [pc EXCEPT ![p] = "done"]
  <2>1. pc' \in [Actors -> PcValues]
    BY <1>3, Zenon DEF PcValues, TaskPc
  <2>2. \A q, r \in Packets : Running(q)' /\ Running(r)' /\ lock'[q] = lock'[r] => q = r
    BY <1>3, Zenon
  <2>3. \A q \in Packets : pc'[q] = (IF q = p THEN "done" ELSE pc[q])
                           /\ lock'[q] = (IF q = p THEN None ELSE lock[q])
    BY <1>3, Zenon
  <2> QED
    BY <1>1, <1>3, <2>1, <2>2, <2>3, Zenon
<1> QED
  BY <1>2, <1>3, SMT, SMTT(30) DEF Acquire, Finish, Goto

\* A task that handles its packet keeps its lock.
LEMMA TaskLockInv ==
    ASSUME LockInv, NEW p \in Packets, TaskStep(p)
    PROVE  LockInv'
<1> USE DEF Goto, mapVars, loopVars
<1>1. CASE Acquire(p)
  BY <1>1, AcquireLockInv, Zenon
<1>2. CASE ~Acquire(p)
  <2>1. PICK l \in {"send", "take", "forward", "insert", "len"} : pc' = [pc EXCEPT ![p] = l]
    BY <1>2, ZenonT(30) DEF TaskStep, ProbeHit, ProbeMiss, TakeExpired, TakeMatched, TakeFailed, Flush,
                TakeMore, Insert, SniffMore, SniffForward
  <2>2. key' = key /\ lock' = lock /\ locks' = locks /\ cur' = cur
    BY <1>2, ZenonT(30) DEF TaskStep, ProbeHit, ProbeMiss, TakeExpired, TakeMatched, TakeFailed, Flush,
                TakeMore, Insert, SniffMore, SniffForward
  <2>3. Running(p)
    BY <1>2, ZenonT(30) DEF TaskStep, ProbeHit, ProbeMiss, TakeExpired, TakeMatched, TakeFailed,
                TakeMore, Insert, SniffMore, SniffForward, Running
  <2>4. lock' = [q \in Packets |-> IF q = p /\ l = "done" THEN None ELSE lock[q]]
    BY <2>2, Zenon DEF LockInv
  <2>5. l \in PcValues
    BY Zenon DEF PcValues, TaskPc, BothPc
  <2> QED
    BY <2>1, <2>2, <2>3, <2>4, <2>5, MoveLockInv, ZenonT(30) DEF LockInv
<1> QED
  BY <1>1, <1>2, Zenon

\* The steps that a task and the loop have in common, and those of the loop that
\* leave the locks alone.
LEMMA SharedLockInv ==
    ASSUME LockInv, NEW a \in Actors, EnforceStep(a) \/ ForwardStep(a)
    PROVE  LockInv'
<1> USE NoneIsNoPacket DEF Goto, Finish, mapVars, loopVars, NextDatagram
<1>1. /\ locks' = locks /\ cur' = cur
      /\ key' = key \/ key' = [key EXCEPT ![a] = IF a = Loop THEN None ELSE @]
  BY Zenon DEF EnforceStep, EnforceLen, EnforcePick, EnforceEvict,
         ForwardStep, ForwardReuse, ForwardCreate, ForwardFail, Send
<1>2. key' \in [Actors -> Keys \cup {None}] /\ \A p \in Packets : key'[p] = key[p]
  BY <1>1, SMT, SMTT(30) DEF LockInv
<1>3. a \in Packets => Running(a)
  BY Zenon DEF EnforceStep, EnforceLen, EnforcePick, EnforceEvict,
         ForwardStep, ForwardReuse, ForwardCreate, ForwardFail, Send, Running
<1>4. \E l \in PcValues :
          /\ a \in Packets => l \notin {"new", "lock"}
          /\ pc' = [pc EXCEPT ![a] = l]
          /\ lock' = [p \in Packets |-> IF p = a /\ l = "done" THEN None ELSE lock[p]]
  <2>1. CASE lock' = lock /\ \E l \in {"pick", "evict", "len", "forward", "send"} :
                                pc' = [pc EXCEPT ![a] = l]
    <3>1. PICK l \in {"pick", "evict", "len", "forward", "send"} : pc' = [pc EXCEPT ![a] = l]
      BY <2>1, ZenonT(30)
    <3>2. lock' = [p \in Packets |-> IF p = a /\ l = "done" THEN None ELSE lock[p]]
      BY <2>1, Zenon DEF LockInv
    <3>3. l \in PcValues /\ l \notin {"new", "lock"}
      BY Zenon DEF PcValues, BothPc
    <3> QED
      BY <3>1, <3>2, <3>3, ZenonT(30)
  <2>2. CASE \E l \in {"reap", "reaped"} : Finish(a, l)
    <3>1. PICK m \in {"reap", "reaped"} : Finish(a, m)
      BY <2>2, ZenonT(30)
    <3> DEFINE l == IF a = Loop THEN m ELSE "done"
    <3>2. l \in PcValues /\ (a \in Packets => l \notin {"new", "lock"})
      BY Zenon DEF PcValues, LoopPc, TaskPc
    <3>3. pc' = [pc EXCEPT ![a] = l]
      BY <3>1, Zenon
    <3>4. lock' = [p \in Packets |-> IF p = a /\ l = "done" THEN None ELSE lock[p]]
      BY <3>1, SMT, SMTT(30)
    <3> HIDE DEF l
    <3> QED
      BY <3>2, <3>3, <3>4, ZenonT(30)
  <2> QED
    BY <2>1, <2>2, Zenon
       DEF EnforceStep, EnforceLen, EnforcePick, EnforceEvict,
           ForwardStep, ForwardReuse, ForwardCreate, ForwardFail, Send
<1> QED
  BY <1>1, <1>2, <1>3, <1>4, MoveLockInv, ZenonT(30)

\* The loop changes locks only where it reaps them and where it spawns.
LEMMA LoopLockInv ==
    ASSUME LockInv, LoopStep
    PROVE  LockInv'
<1>1. CASE Spawn
  BY <1>1, SpawnLockInv, Zenon
<1>2. CASE ReapKeysDone \/ \E k \in Keys : ReapKey(k)
  <2>1. PICK l \in {"reap", "forward", "len"} : pc' = [pc EXCEPT ![Loop] = l]
    <3>1. pc[Loop] = "reap" => pc = [pc EXCEPT ![Loop] = "reap"]
      BY Zenon DEF LockInv
    <3> QED
      BY <3>1, <1>2, Zenon DEF ReapKeysDone, ReapKey, Goto
  <2>2. locks' = locks /\ cur' = cur /\ lock' = lock
    BY <1>2, Zenon DEF ReapKeysDone, ReapKey, mapVars, loopVars
  <2>3. key' = key \/ \E k \in Keys : key' = [key EXCEPT ![Loop] = k]
    BY <1>2, Zenon DEF ReapKeysDone, ReapKey
  <2>4. key' \in [Actors -> Keys \cup {None}] /\ \A p \in Packets : key'[p] = key[p]
    BY <2>3, SMT, SMTT(30) DEF LockInv
  <2>5. lock' = [p \in Packets |-> IF p = Loop /\ l = "done" THEN None ELSE lock[p]]
    BY <2>2, Zenon DEF LockInv
  <2>6. l \in PcValues
    BY Zenon DEF PcValues, LoopPc, BothPc
  <2>7. Loop \in Actors /\ Loop \notin Packets
    BY SMT, SMTT(30)
  <2> HIDE DEF Loop, Actors, Packets
  <2> QED
    BY <2>1, <2>2, <2>4, <2>5, <2>6, <2>7, MoveLockInv, ZenonT(30)
<1> QED
  BY <1>1, <1>2, Zenon DEF LoopStep

\* LockInv is inductive.
LEMMA NextLockInv == LockInv /\ [Next]_vars => LockInv'
<1> SUFFICES ASSUME LockInv, [Next]_vars
             PROVE  LockInv'
  BY Zenon
<1>1. CASE ReceiveAny
  BY <1>1, ReceiveLockInv, NoneIsNoPacket, ZenonT(30) DEF ReceiveAny
<1>2. CASE LoopStep
  BY <1>2, LoopLockInv, Zenon
<1>3. CASE Stop
  BY <1>3, StopLockInv, Zenon
<1>4. CASE \E p \in Packets : TaskStep(p)
  BY <1>4, TaskLockInv, Zenon
<1>5. CASE \E a \in Actors : EnforceStep(a) \/ ForwardStep(a)
  BY <1>5, SharedLockInv, Zenon
<1>6. CASE UNCHANGED <<locks, pc, key, lock, cur>>
  BY <1>6, Zenon DEF LockInv, Running
<1> QED
  BY <1>1, <1>2, <1>3, <1>4, <1>5, <1>6, ZenonT(30)
     DEF Next, SessionDies, SessionEvicted, Seal, Tick, vars, mapVars, loopVars, actorVars

(***************************************************************************)
(* Two packets of one key are never handled at once, although              *)
(* reap_idle_udp_key_locks removes locks from the table all the time.      *)
(***************************************************************************)
THEOREM KeyExclusiveHolds == Spec => []KeyExclusive
<1>1. LockInv => KeyExclusive
  BY NoneIsNoPacket, SMT, SMTT(30) DEF LockInv, KeyExclusive, Running
<1> QED
  BY <1>1, InitLockInv, NextLockInv, PTL DEF Spec

-----------------------------------------------------------------------------
(* The limit of pending sniffs. *)

(***************************************************************************)
(* The inductive invariant behind PendingBounded: with it, only that the   *)
(* map is a map.                                                           *)
(***************************************************************************)
BoundInv ==
    /\ LockInv
    /\ pending = [k \in Keys |-> pending[k]]
    /\ PendingBounded

\* There are finitely many packets.
LEMMA FinitePackets == IsFiniteSet(Packets)
  BY FS_Interval, UdpPendingAssumption, SMT, SMTT(30)

\* No entry is added and nobody stops enforcing, or somebody starts to enforce for
\* the entry it adds, or the limit is respected.
LEMMA BoundStep ==
    ASSUME PendingBounded,
           \/ PendingKeys' \subseteq PendingKeys /\ Enforcers \subseteq Enforcers'
           \/ \E p \in Packets \ Enforcers, k \in Keys :
                 /\ PendingKeys' \subseteq PendingKeys \cup {k}
                 /\ Enforcers' = Enforcers \cup {p}
           \/ Cardinality(PendingKeys') <= MaxPending
    PROVE  PendingBounded'
<1>1. /\ IsFiniteSet(PendingKeys) /\ IsFiniteSet(PendingKeys')
      /\ IsFiniteSet(Enforcers) /\ IsFiniteSet(Enforcers')
  BY FinitePackets, FS_Subset, UdpPendingAssumption, Zenon DEF PendingKeys, Enforcers
<1>2. /\ Cardinality(PendingKeys) \in Nat /\ Cardinality(PendingKeys') \in Nat
      /\ Cardinality(Enforcers) \in Nat /\ Cardinality(Enforcers') \in Nat
      /\ MaxPending \in Nat
  BY <1>1, FS_CardinalityType, UdpPendingAssumption, Zenon
<1> HIDE DEF Packets
<1>3. CASE PendingKeys' \subseteq PendingKeys /\ Enforcers \subseteq Enforcers'
  <2>1. /\ Cardinality(PendingKeys') <= Cardinality(PendingKeys)
        /\ Cardinality(Enforcers) <= Cardinality(Enforcers')
    BY <1>1, <1>3, FS_Subset, Zenon
  <2> QED
    BY <1>2, <2>1, SMT, SMTT(30) DEF PendingBounded
<1>4. ASSUME NEW p \in Packets \ Enforcers, NEW k \in Keys,
             PendingKeys' \subseteq PendingKeys \cup {k},
             Enforcers' = Enforcers \cup {p}
      PROVE  PendingBounded'
  <2>1. Cardinality(Enforcers') = Cardinality(Enforcers) + 1
    BY <1>1, <1>4, FS_AddElement, Zenon
  <2>2. /\ IsFiniteSet(PendingKeys \cup {k})
        /\ \/ Cardinality(PendingKeys \cup {k}) = Cardinality(PendingKeys)
           \/ Cardinality(PendingKeys \cup {k}) = Cardinality(PendingKeys) + 1
    BY <1>1, FS_AddElement, Zenon
  <2>3. Cardinality(PendingKeys') <= Cardinality(PendingKeys \cup {k})
    BY <2>2, <1>4, FS_Subset, Zenon
  <2> QED
    BY <1>2, <2>1, <2>2, <2>3, SMT, SMTT(30) DEF PendingBounded
<1>5. CASE Cardinality(PendingKeys') <= MaxPending
  BY <1>2, <1>5, SMT, SMTT(30) DEF PendingBounded
<1> QED
  BY <1>3, <1>4, <1>5, Zenon

\* Nothing is pending at first.
LEMMA InitBoundInv == Init => BoundInv
<1> SUFFICES ASSUME Init PROVE BoundInv
  BY Zenon
<1>1. PendingKeys = {}
  BY Zenon DEF Init, PendingKeys
<1>2. Cardinality(Enforcers) \in Nat
  BY FinitePackets, FS_Subset, FS_CardinalityType, ZenonT(30) DEF Enforcers
<1>3. PendingBounded
  BY <1>1, <1>2, FS_EmptySet, UdpPendingAssumption, SMT, SMTT(30) DEF PendingBounded
<1> QED
  BY <1>3, InitLockInv, Zenon DEF Init, BoundInv

\* The steps of the loop, of which only the enforcement adds or removes an
\* enforcer, and the loop is none.
LEMMA LoopBound ==
    ASSUME BoundInv, ReceiveAny \/ LoopStep \/ Stop
    PROVE  /\ PendingKeys' \subseteq PendingKeys
           /\ Enforcers \subseteq Enforcers'
           /\ pending' = [k \in Keys |-> pending'[k]]
<1> USE NoneIsNoPacket DEF BoundInv, LockInv, mapVars
<1>1. pending' = pending \/ \E k \in Keys : pending' = [pending EXCEPT ![k] = None]
  BY Zenon DEF ReceiveAny, Receive, LoopStep, ReapKey, ReapKeysDone, Spawn, Stop
<1>2. ASSUME NEW p \in Packets
      PROVE  pc'[p] = pc[p] \/ pc[p] = "new"
  <2>1. CASE ReceiveAny
    BY <2>1, SMT, SMTT(30) DEF ReceiveAny, Receive, Goto
  <2>2. CASE LoopStep
    BY <2>2, SMT, SMTT(30) DEF LoopStep, ReapKey, ReapKeysDone, Spawn, Goto
  <2>3. CASE Stop
    BY <2>3, SMT, SMTT(30) DEF Stop
  <2> QED
    BY <2>1, <2>2, <2>3, Zenon
<1>3. PendingKeys' \subseteq PendingKeys /\ pending' = [k \in Keys |-> pending'[k]]
  BY <1>1, Zenon DEF PendingKeys
<1> QED
  BY <1>2, <1>3, Zenon DEF Enforcers

\* A task adds an entry only where it goes on to enforce the limit.
LEMMA TaskBound ==
    ASSUME BoundInv, NEW p \in Packets, TaskStep(p)
    PROVE  PendingBounded' /\ pending' = [k \in Keys |-> pending'[k]]
<1> USE NoneIsNoPacket DEF BoundInv, LockInv, Goto
<1>1. CASE Insert(p) \/ SniffMore(p)
  <2>1. /\ pc[p] \in {"insert", "take"}
        /\ pc' = [pc EXCEPT ![p] = "len"]
        /\ \E e : pending' = [pending EXCEPT ![key[p]] = e]
    BY <1>1, ZenonT(30) DEF Insert, SniffMore
  <2>2. key[p] \in Keys
    BY <2>1, Zenon
  <2>3. p \notin Enforcers /\ Enforcers' = Enforcers \cup {p}
    BY <2>1, SMT, SMTT(30) DEF Enforcers
  <2>4. PendingKeys' \subseteq PendingKeys \cup {key[p]} /\ pending' = [k \in Keys |-> pending'[k]]
    BY <2>1, <2>2, ZenonT(30) DEF PendingKeys
  <2> QED
    BY <2>2, <2>3, <2>4, BoundStep, Zenon
<1>2. CASE ~(Insert(p) \/ SniffMore(p))
  <2>1. pc[p] \in {"lock", "probe", "take"}
    BY <1>2, ZenonT(30) DEF TaskStep, Acquire, ProbeHit, ProbeMiss, TakeExpired, TakeMatched, TakeFailed, Flush,
                TakeMore, SniffForward
  <2>2. \E l \in {"probe", "take", "insert", "forward", "send", "done"} : pc' = [pc EXCEPT ![p] = l]
    <3>1. CASE Acquire(p)
      BY <3>1, SMT, SMTT(30) DEF Acquire, Finish
    <3>2. CASE ProbeHit(p) \/ ProbeMiss(p)
      BY <3>2, Zenon DEF ProbeHit, ProbeMiss
    <3>3. CASE TakeExpired(p) \/ TakeMatched(p) \/ TakeFailed(p)
      BY <3>3, Zenon DEF TakeExpired, TakeMatched, TakeFailed, Flush
    <3>4. CASE \E clue \in BOOLEAN : TakeMore(p, clue) \/ SniffForward(p, clue)
      BY <3>4, Zenon DEF TakeMore, SniffForward
    <3> QED
      BY <1>2, <3>1, <3>2, <3>3, <3>4, Zenon DEF TaskStep
  <2>3. pending' = pending \/ pending' = [pending EXCEPT ![key[p]] = None]
    BY <1>2, ZenonT(30) DEF TaskStep, Acquire, ProbeHit, ProbeMiss, TakeExpired, TakeMatched, TakeFailed, Flush,
                TakeMore, SniffForward, mapVars
  <2>4. Enforcers \subseteq Enforcers'
    BY <2>1, <2>2, Zenon DEF Enforcers
  <2>5. PendingKeys' \subseteq PendingKeys /\ pending' = [k \in Keys |-> pending'[k]]
    BY <2>3, SMT, SMTT(30) DEF PendingKeys
  <2> QED
    BY <2>4, <2>5, BoundStep, Zenon
<1> QED
  BY <1>1, <1>2, Zenon

\* A task stops enforcing only when it has seen the map within the limit.
LEMMA EnforceBound ==
    ASSUME BoundInv, NEW a \in Actors, EnforceStep(a)
    PROVE  PendingBounded' /\ pending' = [k \in Keys |-> pending'[k]]
<1> USE NoneIsNoPacket DEF BoundInv, LockInv, Goto, mapVars
<1>1. pending' = pending \/ pending' = [pending EXCEPT ![victim[a]] = None]
  BY Zenon DEF EnforceStep, EnforceLen, EnforcePick, EnforceEvict
<1>2. PendingKeys' \subseteq PendingKeys /\ pending' = [k \in Keys |-> pending'[k]]
  BY <1>1, Zenon DEF PendingKeys
<1>3. CASE \E l \in {"len", "pick", "evict"} : pc' = [pc EXCEPT ![a] = l]
  <2>1. Enforcers \subseteq Enforcers'
    BY <1>3, Zenon DEF Enforcers
  <2> QED
    BY <1>2, <2>1, BoundStep, Zenon
<1>4. CASE pending' = pending /\ Cardinality(PendingKeys) <= MaxPending
  <2>1. PendingKeys' = PendingKeys
    BY <1>4, Zenon DEF PendingKeys
  <2> QED
    BY <1>2, <1>4, <2>1, BoundStep, Zenon
<1>5. CASE pending' = pending /\ PendingKeys = {}
  <2>1. Cardinality(PendingKeys) <= MaxPending
    BY <1>5, FS_EmptySet, UdpPendingAssumption, SMT, SMTT(30)
  <2> QED
    BY <1>4, <1>5, <2>1, Zenon
<1> QED
  BY <1>3, <1>4, <1>5, Zenon DEF EnforceStep, EnforceLen, EnforcePick, EnforceEvict

\* Forwarding does not touch the pending map.
LEMMA ForwardBound ==
    ASSUME BoundInv, NEW a \in Actors, ForwardStep(a)
    PROVE  PendingBounded' /\ pending' = [k \in Keys |-> pending'[k]]
<1> USE NoneIsNoPacket DEF BoundInv, LockInv, Goto, mapVars
<1>1. /\ pending' = pending
      /\ pc[a] \in {"forward", "send"}
      /\ \E l : pc' = [pc EXCEPT ![a] = l]
  BY Zenon DEF ForwardStep, ForwardReuse, ForwardCreate, ForwardFail, Send, NextDatagram, Finish
<1>2. Enforcers \subseteq Enforcers'
  BY <1>1, Zenon DEF Enforcers
<1> QED
  BY <1>1, <1>2, BoundStep, Zenon DEF PendingKeys

\* BoundInv is inductive.
LEMMA NextBoundInv == BoundInv /\ [Next]_vars => BoundInv'
<1> SUFFICES ASSUME BoundInv, [Next]_vars
             PROVE  PendingBounded' /\ pending' = [k \in Keys |-> pending'[k]]
  BY NextLockInv, Zenon DEF BoundInv
<1>1. CASE ReceiveAny \/ LoopStep \/ Stop
  BY <1>1, LoopBound, BoundStep, Zenon DEF BoundInv
<1>2. CASE \E p \in Packets : TaskStep(p)
  BY <1>2, TaskBound, Zenon
<1>3. CASE \E a \in Actors : EnforceStep(a) \/ ForwardStep(a)
  BY <1>3, EnforceBound, ForwardBound, Zenon
<1>4. CASE Tick
  <2>1. PendingKeys' \subseteq PendingKeys /\ pending' = [k \in Keys |-> pending'[k]]
    BY <1>4, Zenon DEF Tick, PendingKeys
  <2>2. Enforcers \subseteq Enforcers'
    BY <1>4, Zenon DEF Tick, Enforcers
  <2> QED
    BY <2>1, <2>2, BoundStep, Zenon DEF BoundInv
<1>5. CASE UNCHANGED <<pending, pc>>
  BY <1>5, Zenon DEF BoundInv, PendingBounded, PendingKeys, Enforcers
<1> QED
  BY <1>1, <1>2, <1>3, <1>4, <1>5, ZenonT(30)
     DEF Next, SessionDies, SessionEvicted, Seal, vars, mapVars, actorVars

(***************************************************************************)
(* However many tasks run enforce_pending_udp_sniff_capacity at once, the  *)
(* limit is exceeded at most by as many entries as there are such tasks.   *)
(***************************************************************************)
THEOREM PendingBoundedHolds == Spec => []PendingBounded
<1>1. BoundInv => PendingBounded
  BY Zenon DEF BoundInv
<1> QED
  BY <1>1, InitBoundInv, NextBoundInv, PTL DEF Spec

-----------------------------------------------------------------------------
(* Sessions that come about while a sniff is pending. *)

\* Whoever relies on the sessions of a key: its sniff is pending, or a task has
\* missed the registry and has not flushed yet.
Sniffing(k) ==
    \/ pending[k] # None
    \/ \E p \in Packets : key[p] = k /\ pc[p] \in {"take", "insert"}

\* The session fits what a task with this sniffed host forwards.
Fitting(s, h) == h => shost[s] \/ maker[s] = Loop

(***************************************************************************)
(* The inductive invariant behind DroppedOnlyBehindReaper and              *)
(* SniffedHostUsed: while a key is being sniffed, a session for it can     *)
(* only come from the reaper, since a task that forwards has the key to    *)
(* itself and left nothing pending.                                        *)
(***************************************************************************)
HitInv ==
    /\ pending = [k \in Keys |-> pending[k]]
    /\ reg \in [Keys -> Sessions \cup {None}]
    /\ life = [s \in Sessions |-> life[s]]
    /\ shost \in [Sessions -> BOOLEAN]
    /\ maker = [s \in Sessions |-> maker[s]]
    /\ host \in [Actors -> BOOLEAN]
    /\ got = [a \in Actors |-> got[a]]
    /\ \A k \in Keys : reg[k] # None => life[reg[k]] # "fresh"
    /\ \A k \in Keys : reg[k] # None /\ Sniffing(k) => maker[reg[k]] = Loop
    /\ \A p \in Packets : pc[p] \in {"forward", "send"} => pending[key[p]] = None
    /\ \A p \in Packets : pc[p] \notin {"forward", "send"} => ~host[p]
    /\ \A p \in Packets : pc[p] = "forward" /\ reg[key[p]] # None => Fitting(reg[key[p]], host[p])
    /\ \A p \in Packets : pc[p] = "send" =>
          got[p] \in Sessions /\ life[got[p]] # "fresh" /\ Fitting(got[p], host[p])
    /\ \A p \in Packets : pc[p] = "send" /\ reg[key[p]] # None => Fitting(reg[key[p]], host[p])

\* There is no session at first.
LEMMA InitHitInv == Init => HitInv
  BY NoneIsNoPacket, SMT, SMTT(30) DEF Init, Registry!Init, HitInv, Sniffing, Fitting

\* A step that leaves the registry alone, adds nothing to the map and moves tasks
\* only where they forward nothing and hold no entry.
LEMMA QuietHitInv ==
    ASSUME HitInv,
           UNCHANGED regVars,
           pending' = [k \in Keys |-> pending'[k]],
           \A k \in Keys : pending'[k] # None => pending[k] # None,
           host' \in [Actors -> BOOLEAN],
           got' = [a \in Actors |-> got'[a]],
           \A p \in Packets : key[p] \in Keys \/ pc[p] \in {"new", "done"},
           \A p \in Packets :
              \/ pc'[p] = pc[p] /\ key'[p] = key[p] /\ host'[p] = host[p] /\ got'[p] = got[p]
              \/ pc'[p] \in {"new", "lock", "probe", "len", "pick", "evict", "done"} /\ ~host'[p]
    PROVE  HitInv'
<1> USE DEF HitInv, regVars, Fitting
<1>1. \A k \in Keys : Sniffing(k)' => Sniffing(k)
  BY ZenonT(30) DEF Sniffing
<1>2. \A k \in Keys : reg'[k] # None /\ Sniffing(k)' => maker'[reg'[k]] = Loop
  BY <1>1, ZenonT(30)
<1>0. ASSUME NEW p \in Packets, pc'[p] \in {"forward", "send"}
      PROVE  /\ pc'[p] = pc[p] /\ key'[p] = key[p] /\ host'[p] = host[p] /\ got'[p] = got[p]
             /\ key[p] \in Keys
  <2> HIDE DEF HitInv
  <2> QED
    BY <1>0, Zenon
<1>3. ASSUME NEW p \in Packets, pc'[p] \in {"forward", "send"}
      PROVE  pending'[key'[p]] = None
  <2>1. key'[p] = key[p] /\ key[p] \in Keys /\ pending[key[p]] = None
    BY <1>0, <1>3, ZenonT(30)
  <2> HIDE DEF HitInv
  <2> QED
    BY <2>1, Zenon
<1>4. \A p \in Packets : pc'[p] \notin {"forward", "send"} => ~host'[p]
  BY ZenonT(30)
<1>5. \A p \in Packets : pc'[p] \in {"forward", "send"} /\ reg'[key'[p]] # None
                         => Fitting(reg[key[p]], host[p])'
  BY ZenonT(30)
<1>6. ASSUME NEW p \in Packets, pc'[p] = "send"
      PROVE  got'[p] \in Sessions /\ life'[got'[p]] # "fresh" /\ Fitting(got[p], host[p])'
  <2>1. /\ pc[p] = "send" /\ host'[p] = host[p] /\ got'[p] = got[p]
        /\ life' = life /\ shost' = shost /\ maker' = maker
    BY <1>0, <1>6, ZenonT(30)
  <2> QED
    BY <2>1, ZenonT(30)
<1> QED
  BY <1>2, <1>3, <1>4, <1>5, <1>6, ZenonT(30)

\* Sessions leave the registry or die.
LEMMA RegistryHitInv ==
    ASSUME HitInv,
           UNCHANGED <<mapVars, actorVars, shost, maker>>,
           reg' \in [Keys -> Sessions \cup {None}],
           \A k \in Keys : reg'[k] \in {reg[k], None},
           life' = [s \in Sessions |-> life'[s]],
           \A s \in Sessions : life[s] # "fresh" => life'[s] # "fresh",
           \A p \in Packets : key[p] \in Keys \/ pc[p] \in {"new", "done"}
    PROVE  HitInv'
<1> USE DEF HitInv, mapVars, actorVars, Fitting
<1>1. \A k \in Keys : Sniffing(k)' = Sniffing(k)
  BY Zenon DEF Sniffing
<1>2. \A k \in Keys : reg'[k] # None => life'[reg'[k]] # "fresh"
  BY Zenon
<1>3. \A k \in Keys : reg'[k] # None /\ Sniffing(k)' => maker'[reg'[k]] = Loop
  BY <1>1, ZenonT(30)
<1>4. ASSUME NEW p \in Packets, pc'[p] \in {"forward", "send"}, reg'[key'[p]] # None
      PROVE  Fitting(reg[key[p]], host[p])'
  <2>1. pc[p] \in {"forward", "send"} /\ key[p] \in Keys /\ UNCHANGED <<key, host, shost, maker>>
    BY <1>4, ZenonT(30)
  <2>2. reg'[key'[p]] = reg[key[p]]
    BY <1>4, <2>1, ZenonT(30)
  <2> QED
    BY <1>4, <2>1, <2>2, ZenonT(30)
<1>5. \A p \in Packets : pc'[p] = "send" =>
          got'[p] \in Sessions /\ life'[got'[p]] # "fresh" /\ Fitting(got[p], host[p])'
  BY ZenonT(30)
<1> QED
  BY <1>2, <1>3, <1>4, <1>5, ZenonT(30)

\* One task moves on, with the registry as it is.  Nobody else forwards for its
\* key: it has the lock.
LEMMA MoveHitInv ==
    ASSUME HitInv, LockInv, NEW p \in Packets, Running(p), NEW l,
           UNCHANGED regVars, key' = key,
           pc' = [pc EXCEPT ![p] = l],
           pending' = [k \in Keys |-> pending'[k]],
           \A k \in Keys \ {key[p]} : pending'[k] = pending[k],
           host' \in [Actors -> BOOLEAN],
           got' = [a \in Actors |-> got'[a]],
           \A q \in Packets \ {p} : host'[q] = host[q] /\ got'[q] = got[q],
           pending'[key[p]] # None \/ l \in {"take", "insert"} =>
              reg[key[p]] = None \/ maker[reg[key[p]]] = Loop,
           l \in {"forward", "send"} =>
              /\ pending'[key[p]] = None
              /\ reg[key[p]] # None => Fitting(reg[key[p]], host'[p]),
           l \notin {"forward", "send"} => ~host'[p],
           l = "send" =>
              got'[p] \in Sessions /\ life[got'[p]] # "fresh" /\ Fitting(got'[p], host'[p])
    PROVE  HitInv'
<1> USE DEF regVars
<1>1. key[p] \in Keys /\ \A q \in Packets \ {p} : Running(q) => key[q] # key[p] /\ key[q] \in Keys
  BY SMT, SMTT(30) DEF LockInv, Running
<1>2. pc'[p] = l /\ \A q \in Packets \ {p} : pc'[q] = pc[q]
  BY Zenon DEF LockInv
<1>3. \A q \in Packets \ {p} : pc[q] \in {"take", "insert", "forward", "send"} =>
          key[q] \in Keys \ {key[p]}
  BY <1>1, Zenon DEF Running
<1>4. ASSUME NEW k \in Keys, reg'[k] # None, Sniffing(k)'
      PROVE  maker'[reg'[k]] = Loop
  <2>1. CASE k = key[p]
    <3>1. pending'[key[p]] # None \/ l \in {"take", "insert"}
      BY <1>2, <1>3, <1>4, <2>1, Zenon DEF Sniffing
    <3> QED
      BY <3>1, <1>4, <2>1, Zenon
  <2>2. CASE k # key[p]
    <3>1. Sniffing(k)
      BY <1>2, <1>4, <2>2, Zenon DEF Sniffing
    <3> QED
      BY <3>1, <1>4, ZenonT(30) DEF HitInv
  <2> QED
    BY <2>1, <2>2, Zenon
<1>5. ASSUME NEW q \in Packets
      PROVE  /\ pc'[q] \in {"forward", "send"} =>
                    /\ pending'[key'[q]] = None
                    /\ reg'[key'[q]] # None => Fitting(reg[key[q]], host[q])'
             /\ pc'[q] \notin {"forward", "send"} => ~host'[q]
             /\ pc'[q] = "send" =>
                    got'[q] \in Sessions /\ life'[got'[q]] # "fresh" /\ Fitting(got[q], host[q])'
  <2>1. CASE q = p
    BY <1>2, <2>1, Zenon DEF Fitting
  <2>2. CASE q # p
    <3>1. pc'[q] = pc[q] /\ key'[q] = key[q] /\ host'[q] = host[q] /\ got'[q] = got[q]
      BY <1>2, <2>2, Zenon
    <3>2. pc[q] \in {"forward", "send"} => pending'[key[q]] = None
      BY <1>3, <2>2, ZenonT(30) DEF HitInv
    <3>3. pc[q] \in {"forward", "send"} /\ reg[key[q]] # None => Fitting(reg[key[q]], host[q])
      BY Zenon DEF HitInv
    <3>4. pc[q] \notin {"forward", "send"} => ~host'[q]
      BY <3>1, Zenon DEF HitInv
    <3>5. pc[q] = "send" =>
             got[q] \in Sessions /\ life[got[q]] # "fresh" /\ Fitting(got[q], host[q])
      BY ZenonT(30) DEF HitInv
    <3> QED
      BY <3>1, <3>2, <3>3, <3>4, <3>5, Zenon DEF Fitting
  <2> QED
    BY <2>1, <2>2, Zenon
<1> QED
  BY <1>4, <1>5, ZenonT(30) DEF HitInv

\* A task sniffs only after it missed the registry and forwards only what it took out.
LEMMA TaskHitInv ==
    ASSUME HitInv, LockInv, NEW p \in Packets, TaskStep(p)
    PROVE  HitInv'
<1> USE NoneIsNoPacket DEF Goto, mapVars, regVars
<1>1. CASE Acquire(p)
  <2>1. /\ pending' = pending /\ host' = host /\ got' = got /\ key' = key /\ UNCHANGED regVars
        /\ pc[p] = "lock"
        /\ \E l \in {"probe", "done"} : pc' = [pc EXCEPT ![p] = l]
    BY <1>1, SMT, SMTT(30) DEF Acquire, Finish
  <2>2. \A q \in Packets :
           \/ pc'[q] = pc[q] /\ key'[q] = key[q] /\ host'[q] = host[q] /\ got'[q] = got[q]
           \/ pc'[q] \in {"new", "lock", "probe", "len", "pick", "evict", "done"} /\ ~host'[q]
    BY <2>1, ZenonT(30) DEF LockInv, HitInv
  <2>3. \A q \in Packets : key[q] \in Keys \/ pc[q] \in {"new", "done"}
    BY Zenon DEF LockInv
  <2> QED
    BY <2>1, <2>2, <2>3, QuietHitInv, ZenonT(30) DEF HitInv
<1>2. CASE ~Acquire(p)
  <2>1. Running(p)
    BY <1>2, ZenonT(30) DEF TaskStep, ProbeHit, ProbeMiss, TakeExpired, TakeMatched, TakeFailed,
                TakeMore, Insert, SniffMore, SniffForward, Running
  <2>2. key[p] \in Keys
    BY <2>1, Zenon DEF LockInv, Running
  <2>3. pc[p] \in {"take", "insert"} /\ reg[key[p]] # None => maker[reg[key[p]]] = Loop
    BY <2>2, ZenonT(30) DEF HitInv, Sniffing
  <2>4. pc[p] \notin {"forward", "send"} => ~host[p]
    BY Zenon DEF HitInv
  <2>5. CASE ProbeHit(p)
    <3>1. /\ UNCHANGED regVars /\ key' = key /\ pc' = [pc EXCEPT ![p] = "send"] /\ host' = host
          /\ pending' = [pending EXCEPT ![key[p]] = None]
          /\ got' = [got EXCEPT ![p] = reg[key[p]]]
          /\ pc[p] = "probe" /\ reg[key[p]] # None
      BY <2>5, Zenon DEF ProbeHit
    <3>2. reg[key[p]] \in Sessions /\ life[reg[key[p]]] # "fresh"
      BY <2>2, <3>1, ZenonT(30) DEF HitInv
    <3>3. pending'[key[p]] = None /\ got'[p] = reg[key[p]]
      BY <2>2, <3>1, Zenon DEF HitInv
    <3> QED
      BY <2>1, <2>4, <3>1, <3>2, <3>3, MoveHitInv, ZenonT(30) DEF HitInv, Fitting
  <2>6. CASE ProbeMiss(p)
    BY <2>1, <2>4, <2>6, MoveHitInv, ZenonT(30) DEF HitInv, ProbeMiss
  <2>7. CASE TakeExpired(p) \/ TakeMatched(p) \/ TakeFailed(p)
    <3>1. PICK h \in BOOLEAN : host' = [host EXCEPT ![p] = h]
      BY <2>7, ZenonT(30) DEF TakeExpired, TakeMatched, TakeFailed, Flush
    <3>2. /\ UNCHANGED regVars /\ key' = key /\ pc' = [pc EXCEPT ![p] = "forward"] /\ got' = got
          /\ pending' = [pending EXCEPT ![key[p]] = None]
          /\ pc[p] = "take"
      BY <2>7, Zenon DEF TakeExpired, TakeMatched, TakeFailed, Flush
    <3>3. pending'[key[p]] = None
      BY <2>2, <3>2, Zenon DEF HitInv
    <3> QED
      BY <2>1, <2>3, <3>1, <3>2, <3>3, MoveHitInv, ZenonT(30) DEF HitInv, Fitting
  <2>8. CASE \E clue \in BOOLEAN : TakeMore(p, clue)
    <3>1. /\ UNCHANGED regVars /\ key' = key /\ pc' = [pc EXCEPT ![p] = "insert"]
          /\ got' = got /\ host' = host
          /\ pending' = [pending EXCEPT ![key[p]] = None]
          /\ pc[p] = "take"
      BY <2>8, Zenon DEF TakeMore
    <3> QED
      BY <2>1, <2>3, <2>4, <3>1, MoveHitInv, ZenonT(30) DEF HitInv
  <2>9. CASE Insert(p) \/ SniffMore(p)
    <3>1. /\ UNCHANGED regVars /\ key' = key /\ pc' = [pc EXCEPT ![p] = "len"]
          /\ got' = got /\ host' = host
          /\ \E e : pending' = [pending EXCEPT ![key[p]] = e]
          /\ pc[p] \in {"take", "insert"}
      BY <2>9, Zenon DEF Insert, SniffMore
    <3> QED
      BY <2>1, <2>3, <2>4, <3>1, MoveHitInv, ZenonT(30) DEF HitInv
  <2>10. CASE \E h \in BOOLEAN : SniffForward(p, h)
    <3>1. PICK h \in BOOLEAN : SniffForward(p, h)
      BY <2>10, Zenon
    <3>2. /\ UNCHANGED regVars /\ key' = key /\ pc' = [pc EXCEPT ![p] = "forward"]
          /\ got' = got /\ host' = [host EXCEPT ![p] = h] /\ pending' = pending
          /\ pc[p] = "take" /\ pending[key[p]] = None
      BY <3>1, Zenon DEF SniffForward
    <3> QED
      BY <2>1, <2>3, <3>2, MoveHitInv, ZenonT(30) DEF HitInv, Fitting
  <2> QED
    BY <1>2, <2>5, <2>6, <2>7, <2>8, <2>9, <2>10, Zenon DEF TaskStep
<1> QED
  BY <1>1, <1>2, Zenon

\* The enforcement only removes entries.
LEMMA EnforceHitInv ==
    ASSUME HitInv, LockInv, NEW a \in Actors, EnforceStep(a)
    PROVE  HitInv'
<1> USE NoneIsNoPacket DEF Goto, mapVars, regVars
<1>1. /\ UNCHANGED regVars /\ key' = key /\ host' = host /\ got' = got
      /\ pending' = pending \/ pending' = [pending EXCEPT ![victim[a]] = None]
      /\ pc[a] \in {"len", "pick", "evict"}
  BY Zenon DEF EnforceStep, EnforceLen, EnforcePick, EnforceEvict
<1>2. \E l : pc' = [pc EXCEPT ![a] = l] /\ (a \in Packets => l \in {"len", "pick", "evict", "done"})
  BY SMT, SMTT(30) DEF EnforceStep, EnforceLen, EnforcePick, EnforceEvict, Finish
<1>3. \A q \in Packets :
         \/ pc'[q] = pc[q] /\ key'[q] = key[q] /\ host'[q] = host[q] /\ got'[q] = got[q]
         \/ pc'[q] \in {"new", "lock", "probe", "len", "pick", "evict", "done"} /\ ~host'[q]
  BY <1>1, <1>2, SMT, SMTT(30) DEF LockInv, HitInv
<1>4. \A q \in Packets : key[q] \in Keys \/ pc[q] \in {"new", "done"}
  BY Zenon DEF LockInv
<1>5. pending' = [k \in Keys |-> pending'[k]] /\ \A k \in Keys : pending'[k] # None => pending[k] # None
  BY <1>1, Zenon DEF HitInv
<1> QED
  BY <1>1, <1>3, <1>4, <1>5, QuietHitInv, ZenonT(30) DEF HitInv

\* A new session is made for a key by its own task, or by the reaper.
LEMMA CreateHitInv ==
    ASSUME HitInv, LockInv, NEW a \in Actors, NEW s \in Sessions, ForwardCreate(a, s)
    PROVE  HitInv'
<1> USE NoneIsNoPacket DEF Goto, mapVars
<1>0. a = Loop \/ (a \in Packets /\ a # Loop)
  BY UdpPendingAssumption, Zenon
<1>1. /\ pc[a] = "forward" /\ reg[key[a]] = None /\ life[s] = "fresh"
      /\ reg' = [reg EXCEPT ![key[a]] = s]
      /\ life' = [life EXCEPT ![s] = "live"]
      /\ shost' = [shost EXCEPT ![s] = host[a]]
      /\ maker' = [maker EXCEPT ![s] = a]
      /\ got' = [got EXCEPT ![a] = s]
      /\ pc' = [pc EXCEPT ![a] = "send"]
      /\ pending' = pending /\ key' = key /\ host' = host
  BY Zenon DEF ForwardCreate, Registry!Publish
<1>2. /\ reg' \in [Keys -> Sessions \cup {None}] /\ life' = [t \in Sessions |-> life'[t]]
      /\ shost' \in [Sessions -> BOOLEAN] /\ maker' = [t \in Sessions |-> maker'[t]]
      /\ got' = [b \in Actors |-> got'[b]]
  BY <1>1, ZenonT(30) DEF HitInv
<1>3. /\ life'[s] = "live" /\ shost'[s] = host[a] /\ maker'[s] = a /\ got'[a] = s /\ pc'[a] = "send"
      /\ \A t \in Sessions \ {s} : life'[t] = life[t] /\ shost'[t] = shost[t] /\ maker'[t] = maker[t]
      /\ \A b \in Actors \ {a} : got'[b] = got[b] /\ pc'[b] = pc[b]
  BY <1>1, SMT, SMTT(30) DEF HitInv, LockInv
<1>4. \A k \in Keys : reg'[k] = IF k = key[a] THEN s ELSE reg[k]
  BY <1>1, Zenon DEF HitInv
<1>5. \A k \in Keys : reg[k] # s
  BY <1>1, UdpPendingAssumption, ZenonT(30) DEF HitInv
<1>6. \A q \in Packets : pc[q] \in {"take", "insert", "forward", "send"} =>
          key[q] \in Keys /\ (a \in Packets /\ q # a => key[q] # key[a])
  BY <1>1, SMT, SMTT(30) DEF LockInv, Running
<1>7. \A k \in Keys : reg'[k] # None => life'[reg'[k]] # "fresh"
  BY <1>3, <1>4, <1>5, SMT, SMTT(30) DEF HitInv
<1>8. ASSUME NEW k \in Keys, reg'[k] # None, Sniffing(k)'
      PROVE  maker'[reg'[k]] = Loop
  <2>1. Sniffing(k)
    BY <1>1, <1>3, <1>8, Zenon DEF Sniffing
  <2>2. CASE k # key[a]
    BY <1>3, <1>4, <1>5, <1>8, <2>1, <2>2, SMT, SMTT(30) DEF HitInv
  <2>3. CASE k = key[a] /\ a \in Packets
    BY <1>1, <1>6, <2>1, <2>3, ZenonT(30) DEF HitInv, Sniffing
  <2>4. CASE k = key[a] /\ a = Loop
    BY <1>3, <1>4, <2>4, Zenon
  <2> QED
    BY <2>2, <2>3, <2>4, <1>0, Zenon
<1>9. ASSUME NEW q \in Packets
      PROVE  /\ pc'[q] \in {"forward", "send"} =>
                    /\ pending'[key'[q]] = None
                    /\ reg'[key'[q]] # None => Fitting(reg[key[q]], host[q])'
             /\ pc'[q] \notin {"forward", "send"} => ~host'[q]
             /\ pc'[q] = "send" =>
                    got'[q] \in Sessions /\ life'[got'[q]] # "fresh" /\ Fitting(got[q], host[q])'
  <2>1. CASE q = a
    <3>1. pending[key[q]] = None /\ key[q] \in Keys
      BY <1>1, <1>6, <2>1, ZenonT(30) DEF HitInv
    <3>2. reg'[key[q]] = s
      BY <1>4, <3>1, <2>1, Zenon
    <3> QED
      BY <1>1, <1>3, <2>1, <3>1, <3>2, SMT, SMTT(30) DEF Fitting
  <2>2. CASE q # a
    <3>1. pc'[q] = pc[q] /\ got'[q] = got[q]
      BY <1>3, <2>2, Zenon
    <3>2. pc[q] \in {"forward", "send"} => pending[key[q]] = None
      BY Zenon DEF HitInv
    <3>3. pc[q] \notin {"forward", "send"} => ~host'[q]
      BY <1>1, Zenon DEF HitInv
    <3>4. ASSUME pc[q] \in {"forward", "send"}, reg'[key[q]] # None
          PROVE  Fitting(reg[key[q]], host[q])'
      <4>1. key[q] \in Keys
        BY <1>6, <3>4, Zenon
      <4>2. CASE key[q] = key[a]
        <5>1. a = Loop
          BY <1>0, <1>6, <2>2, <3>4, <4>2, Zenon
        <5> QED
          BY <5>1, <1>1, <1>3, <1>4, <4>1, <4>2, SMT, SMTT(30) DEF Fitting
      <4>3. CASE key[q] # key[a]
        <5>1. reg'[key[q]] = reg[key[q]] /\ reg[key[q]] \in Sessions \ {s}
          BY <1>4, <1>5, <3>4, <4>1, <4>3, SMT, SMTT(30) DEF HitInv
        <5>2. Fitting(reg[key[q]], host[q])
          BY <5>1, <3>4, Zenon DEF HitInv
        <5> QED
          BY <1>1, <1>3, <5>1, <5>2, SMT, SMTT(30) DEF Fitting
      <4> QED
        BY <4>2, <4>3, Zenon
    <3>5. ASSUME pc[q] = "send"
          PROVE  got[q] \in Sessions /\ life'[got[q]] # "fresh" /\ Fitting(got[q], host[q])'
      <4>1. got[q] \in Sessions \ {s} /\ life[got[q]] # "fresh" /\ Fitting(got[q], host[q])
        BY <1>1, <3>5, ZenonT(30) DEF HitInv
      <4> QED
        BY <1>1, <1>3, <3>1, <4>1, SMT, SMTT(30) DEF Fitting
    <3> QED
      BY <1>1, <3>1, <3>2, <3>3, <3>4, <3>5, Zenon
  <2> QED
    BY <2>1, <2>2, Zenon
<1>10. pending' = [k \in Keys |-> pending'[k]] /\ host' \in [Actors -> BOOLEAN]
  BY <1>1, Zenon DEF HitInv
<1>11. \A k \in Keys : reg'[k] # None /\ Sniffing(k)' => maker'[reg'[k]] = Loop
  BY <1>8, Zenon
<1> HIDE DEF Packets, Loop, Actors
<1> QED
  BY <1>2, <1>7, <1>9, <1>10, <1>11, Zenon DEF HitInv

\* A task forwards to the session of its key, or makes one that fits.
LEMMA ForwardHitInv ==
    ASSUME HitInv, LockInv, NEW a \in Actors, ForwardStep(a)
    PROVE  HitInv'
<1> USE NoneIsNoPacket DEF Goto, mapVars, regVars
<1>0. a = Loop \/ (a \in Packets /\ a # Loop)
  BY UdpPendingAssumption, Zenon
<1>1. CASE \E s \in Sessions : ForwardCreate(a, s)
  BY <1>1, CreateHitInv, Zenon
<1>2. CASE ~(\E s \in Sessions : ForwardCreate(a, s))
  <2>1. /\ UNCHANGED regVars /\ pending' = pending
        /\ pc[a] \in {"forward", "send"}
        /\ got' = got \/ \E e : got' = [got EXCEPT ![a] = e]
        /\ key' = key \/ key' = [key EXCEPT ![a] = IF a = Loop THEN None ELSE @]
        /\ host' = host \/ host' = [host EXCEPT ![a] = FALSE]
    BY <1>2, Zenon DEF ForwardStep, ForwardReuse, ForwardFail, Send, NextDatagram
  <2>2. \E l : pc' = [pc EXCEPT ![a] = l]
    BY <1>2, Zenon DEF ForwardStep, ForwardReuse, ForwardFail, Send, NextDatagram, Finish
  <2>3. \A q \in Packets : key'[q] = key[q]
    BY <1>0, <2>1, SMT, SMTT(30) DEF LockInv
  <2>4. host' \in [Actors -> BOOLEAN] /\ \A q \in Packets \ {a} : host'[q] = host[q]
    BY <2>1, ZenonT(30) DEF HitInv
  <2>5. got' = [b \in Actors |-> got'[b]] /\ \A q \in Packets \ {a} : got'[q] = got[q]
    <3> HIDE DEF Packets, Loop, Actors
    <3>1. CASE got' = got
      BY <3>1, Zenon DEF HitInv
    <3>2. CASE \E e : got' = [got EXCEPT ![a] = e]
      <4>1. PICK e : got' = [got EXCEPT ![a] = e]
        BY <3>2, ZenonT(30)
      <4>2. got = [b \in Actors |-> got[b]]
        BY Zenon DEF HitInv
      <4>3. Packets \subseteq Actors
        BY Zenon DEF Actors
      <4> QED
        BY <4>1, <4>2, <4>3, Zenon
    <3> QED
      BY <2>1, <3>1, <3>2, Zenon
  <2>6. /\ host' \in [Actors -> BOOLEAN] /\ got' = [b \in Actors |-> got'[b]]
        /\ \A q \in Packets : key'[q] = key[q]
        /\ \A q \in Packets \ {a} : pc'[q] = pc[q] /\ host'[q] = host[q] /\ got'[q] = got[q]
    BY <2>2, <2>3, <2>4, <2>5, Zenon DEF LockInv
  <2>7. \A q \in Packets : key[q] \in Keys \/ pc[q] \in {"new", "done"}
    BY Zenon DEF LockInv
  <2>8. pending' = [k \in Keys |-> pending'[k]] /\ \A k \in Keys : pending'[k] = pending[k]
    BY <2>1, Zenon DEF HitInv
  <2>9. CASE a = Loop
    <3>1. \A q \in Packets :
             pc'[q] = pc[q] /\ key'[q] = key[q] /\ host'[q] = host[q] /\ got'[q] = got[q]
      BY <2>6, <2>9, SMT, SMTT(30)
    <3> HIDE DEF Packets, Loop, Actors
    <3> QED
      BY <2>1, <2>6, <2>7, <2>8, <3>1, QuietHitInv, Zenon
  <2>10. CASE a \in Packets /\ a # Loop
    <3>1. Running(a) /\ key[a] \in Keys
      BY <2>1, <2>7, <2>10, Zenon DEF Running
    <3>2. key' = key
      BY <2>1, <2>10, Zenon DEF LockInv
    <3>3. pending[key[a]] = None /\ (reg[key[a]] # None => Fitting(reg[key[a]], host[a]))
      BY <2>1, <2>10, ZenonT(30) DEF HitInv
    <3>4. CASE ForwardReuse(a)
      <4>1. /\ pc' = [pc EXCEPT ![a] = "send"] /\ host' = host
            /\ got' = [got EXCEPT ![a] = reg[key[a]]]
            /\ reg[key[a]] # None
        BY <3>4, Zenon DEF ForwardReuse
      <4>2. reg[key[a]] \in Sessions /\ life[reg[key[a]]] # "fresh" /\ got'[a] = reg[key[a]]
        BY <3>1, <4>1, ZenonT(30) DEF HitInv
      <4>3. /\ got'[a] \in Sessions /\ life[got'[a]] # "fresh" /\ Fitting(got'[a], host'[a])
            /\ Fitting(reg[key[a]], host'[a])
        BY <3>3, <4>1, <4>2, Zenon
      <4>4. pending'[key[a]] = None
        BY <2>1, <3>3, Zenon
      <4>5. /\ \A k \in Keys \ {key[a]} : pending'[k] = pending[k]
            /\ \A q \in Packets \ {a} : host'[q] = host[q] /\ got'[q] = got[q]
        BY <2>6, <2>8, Zenon
      <4> DEFINE l == "send"
      <4>6. /\ pc' = [pc EXCEPT ![a] = l]
            /\ pending'[key[a]] # None \/ l \in {"take", "insert"} =>
                  reg[key[a]] = None \/ maker[reg[key[a]]] = Loop
            /\ l \in {"forward", "send"} =>
                  /\ pending'[key[a]] = None
                  /\ reg[key[a]] # None => Fitting(reg[key[a]], host'[a])
            /\ l \notin {"forward", "send"} => ~host'[a]
            /\ l = "send" =>
                  got'[a] \in Sessions /\ life[got'[a]] # "fresh" /\ Fitting(got'[a], host'[a])
        BY <4>1, <4>3, <4>4, Zenon
      <4> HIDE DEF Packets, Loop, Actors, l
      <4> QED
        BY <2>1, <2>6, <2>10, <2>8, <3>1, <3>2, <4>5, <4>6, MoveHitInv, ZenonT(30)
    <3>5. CASE NextDatagram(a)
      <4>1. CASE pc' = [pc EXCEPT ![a] = "forward"] /\ host' = host
        BY <2>1, <2>6, <2>10, <3>1, <3>2, <3>3, <4>1, MoveHitInv, ZenonT(30) DEF HitInv
      <4>2. CASE pc' = [pc EXCEPT ![a] = "done"] /\ host' = [host EXCEPT ![a] = FALSE]
        <5>1. pc'[a] = "done" /\ ~host'[a]
          BY <4>2, Zenon DEF HitInv, LockInv
        <5> QED
          BY <2>1, <2>6, <2>7, <5>1, QuietHitInv, ZenonT(30) DEF HitInv
      <4> QED
        BY <2>10, <3>5, <4>1, <4>2, Zenon DEF NextDatagram, Finish
    <3> QED
      BY <1>2, <3>4, <3>5, Zenon DEF ForwardStep, ForwardFail, Send
  <2> QED
    BY <1>0, <2>9, <2>10, Zenon
<1> QED
  BY <1>1, <1>2, Zenon

\* The loop and the passage of time add nothing to the map.
LEMMA LoopHitInv ==
    ASSUME HitInv, LockInv, ReceiveAny \/ LoopStep \/ Stop \/ Tick
    PROVE  HitInv'
<1> USE NoneIsNoPacket DEF mapVars, regVars, Goto
<1>0. \A q \in Packets : key[q] \in Keys \/ pc[q] \in {"new", "done"}
  BY Zenon DEF LockInv
<1>1. \A q \in Packets : pc[q] \in {"new", "done"} => ~host[q]
  BY Zenon DEF HitInv
<1>2. CASE ReceiveAny
  <2>1. PICK p \in Packets \cup {None}, k \in Keys \cup {None} : Receive(p, k)
    BY <1>2, ZenonT(30) DEF ReceiveAny
  <2>2. /\ UNCHANGED regVars /\ pending' = pending /\ host' = host /\ got' = got
        /\ key' = [a \in Actors |-> IF a = p THEN k ELSE key[a]]
        /\ p # None => key[p] = None
    BY <2>1, Zenon DEF Receive, IsNext, Received
  <2>3. \A q \in Packets : pc'[q] = pc[q]
    BY <2>1, SMT, SMTT(30) DEF Receive, LockInv
  <2>4. \A q \in Packets : key'[q] = key[q] \/ pc[q] = "new"
    BY <2>2, Zenon DEF LockInv
  <2> QED
    BY <1>0, <1>1, <2>2, <2>3, <2>4, QuietHitInv, ZenonT(30) DEF HitInv
<1>3. CASE Spawn
  <2>1. UNCHANGED regVars /\ pending' = pending /\ host' = host /\ got' = got /\ key' = key
    BY <1>3, Zenon DEF Spawn
  <2>2. \A q \in Packets : pc'[q] = pc[q] \/ (pc[q] = "new" /\ pc'[q] \in {"lock", "done"})
    BY <1>3, SMT, SMTT(30) DEF Spawn, LockInv
  <2> QED
    BY <1>0, <1>1, <2>1, <2>2, QuietHitInv, ZenonT(30) DEF HitInv
<1>4. CASE Stop
  <2>1. /\ UNCHANGED regVars /\ pending' = pending /\ host' = host
        /\ got' = [got EXCEPT ![Loop] = None]
        /\ key' = [key EXCEPT ![Loop] = None]
    BY <1>4, Zenon DEF Stop
  <2>2. /\ \A q \in Packets : key'[q] = key[q] /\ got'[q] = got[q]
        /\ got' = [b \in Actors |-> got'[b]]
    <3>1. \A q \in Packets : q # Loop /\ q \in Actors
      BY SMT, SMTT(30)
    <3>2. got = [b \in Actors |-> got[b]] /\ key = [b \in Actors |-> key[b]]
      BY Zenon DEF LockInv, HitInv
    <3> HIDE DEF Packets, Loop, Actors
    <3> QED
      BY <2>1, <3>1, <3>2, Zenon
  <2>3. \A q \in Packets : pc'[q] = pc[q] \/ (pc[q] = "new" /\ pc'[q] = "done")
    BY <1>4, SMT, SMTT(30) DEF Stop, LockInv
  <2> QED
    BY <1>0, <1>1, <2>1, <2>2, <2>3, QuietHitInv, ZenonT(30) DEF HitInv
<1>5. CASE (\E k \in Keys : ReapKey(k)) \/ ReapKeysDone
  <2>1. /\ UNCHANGED regVars /\ host' = host /\ got' = got
        /\ pending' = pending \/ \E k \in Keys : pending' = [pending EXCEPT ![k] = None]
        /\ key' = key \/ \E k \in Keys : key' = [key EXCEPT ![Loop] = k]
        /\ pc' = pc \/ \E l : pc' = [pc EXCEPT ![Loop] = l]
    BY <1>5, Zenon DEF ReapKey, ReapKeysDone
  <2>2. \A q \in Packets : key'[q] = key[q] /\ pc'[q] = pc[q]
    BY <2>1, SMT, SMTT(30) DEF LockInv
  <2> QED
    BY <1>0, <2>1, <2>2, QuietHitInv, ZenonT(30) DEF HitInv
<1>6. CASE Tick
  <2>1. /\ UNCHANGED regVars /\ host' = host /\ got' = got /\ key' = key /\ pc' = pc
        /\ pending' = [k \in Keys |-> pending'[k]]
        /\ \A k \in Keys : pending'[k] # None => pending[k] # None
    BY <1>6, Zenon DEF Tick
  <2> QED
    BY <1>0, <2>1, QuietHitInv, ZenonT(30) DEF HitInv
<1> QED
  BY <1>2, <1>3, <1>4, <1>5, <1>6, Zenon DEF LoopStep

\* HitInv is inductive, given LockInv.
LEMMA NextHitInv == LockInv /\ HitInv /\ [Next]_vars => HitInv'
<1> SUFFICES ASSUME LockInv, HitInv, [Next]_vars
             PROVE  HitInv'
  BY Zenon
<1>0. \A q \in Packets : key[q] \in Keys \/ pc[q] \in {"new", "done"}
  BY Zenon DEF LockInv
<1>1. CASE ReceiveAny \/ LoopStep \/ Stop \/ Tick
  BY <1>1, LoopHitInv, Zenon
<1>2. CASE \E p \in Packets : TaskStep(p)
  BY <1>2, TaskHitInv, Zenon
<1>3. CASE \E a \in Actors : EnforceStep(a) \/ ForwardStep(a)
  BY <1>3, EnforceHitInv, ForwardHitInv, Zenon
<1>4. CASE (\E s \in Sessions : SessionDies(s) \/ SessionEvicted(s)) \/ Seal
  <2>1. UNCHANGED <<mapVars, actorVars, shost, maker>>
    BY <1>4, ZenonT(30) DEF SessionDies, SessionEvicted, Seal
  <2>2. /\ reg' \in [Keys -> Sessions \cup {None}]
        /\ \A k \in Keys : reg'[k] \in {reg[k], None}
    BY <1>4, SMT, SMTT(30) DEF SessionDies, SessionEvicted, Seal, Registry!Die, Registry!Evict, Registry!Seal, HitInv
  <2>3. /\ life' = [s \in Sessions |-> life'[s]]
        /\ \A s \in Sessions : life[s] # "fresh" => life'[s] # "fresh"
    BY <1>4, Zenon DEF SessionDies, SessionEvicted, Seal, Registry!Die, Registry!Evict, Registry!Seal, HitInv
  <2> QED
    BY <1>0, <2>1, <2>2, <2>3, RegistryHitInv, Zenon
<1>5. CASE UNCHANGED vars
  BY <1>5, ZenonT(30) DEF vars, mapVars, actorVars, regVars, HitInv, Sniffing, Fitting
<1> QED
  BY <1>1, <1>2, <1>3, <1>4, <1>5, Zenon DEF Next

(***************************************************************************)
(* In every run, if the Ready hit of handle_udp_client_payload drops a     *)
(* pending sniff, the session it hit was made by the reaper's flush.       *)
(***************************************************************************)
THEOREM DroppedOnlyBehindReaperHolds == Spec => DroppedOnlyBehindReaper
<1>1. LockInv /\ HitInv /\ [Next]_vars =>
         [\A p \in Packets :
             ProbeHit(p) /\ pending[key[p]] # None => maker[reg[key[p]]] = Loop]_vars
  <2> SUFFICES ASSUME LockInv, HitInv, NEW p \in Packets, ProbeHit(p), pending[key[p]] # None
               PROVE  maker[reg[key[p]]] = Loop
    BY Zenon
  <2>1. key[p] \in Keys /\ reg[key[p]] # None
    BY Zenon DEF ProbeHit, LockInv
  <2> QED
    BY <2>1, ZenonT(30) DEF HitInv, Sniffing
<1> QED
  BY <1>1, InitLockInv, NextLockInv, InitHitInv, NextHitInv, PTL DEF Spec, DroppedOnlyBehindReaper

(***************************************************************************)
(* In every run, what a match has flushed goes to a session with the       *)
(* sniffed host, or to one that the reaper's flush made for the key.       *)
(***************************************************************************)
THEOREM SniffedHostUsedHolds == Spec => []SniffedHostUsed
<1>1. HitInv => SniffedHostUsed
  BY ZenonT(30) DEF HitInv, SniffedHostUsed, Fitting
<1> QED
  BY <1>1, InitLockInv, NextLockInv, InitHitInv, NextHitInv, PTL DEF Spec

=============================================================================
