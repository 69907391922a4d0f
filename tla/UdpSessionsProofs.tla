------------------------- MODULE UdpSessionsProofs -------------------------
(***************************************************************************)
(* Proofs about UdpSessions, for every set of keys, packet tasks, UDP      *)
(* loops and sessions and every timeout.                                   *)
(***************************************************************************)
EXTENDS UdpSessions, TLAPS

(***************************************************************************)
(* The initial state is well typed.                                        *)
(***************************************************************************)
LEMMA InitTypeOK == Init => TypeOK
  <1> SUFFICES ASSUME Init PROVE TypeOK
    BY Zenon
  <1>1. closed \in BOOLEAN
    BY Zenon DEF Init
  <1> QED
    BY <1>1, Zenon DEF Init, TypeOK, PcValues, TaskValues, LoopValues, GcValues, ShutValues

(***************************************************************************)
(* The steps of the callers keep every variable well typed.                *)
(***************************************************************************)
LEMMA CallerTypeOK ==
  ASSUME TypeOK, NEW c \in Callers,
         CallerStep(c) \/ CreateConnect(c) \/ CreateReady(c)
                       \/ \E k \in Keys : Arrive(c, k) \/ Flush(c, k)
  PROVE  TypeOK'
  <1> USE DEF PcValues, TaskValues, LoopValues, Return, NotifyWaiters, Cancel, callerVars,
              sessionVars, gcVars, shutVars
  <1>1. ASSUME NEW k \in Keys, Arrive(c, k) \/ Flush(c, k) PROVE TypeOK'
    <2>1. CASE Arrive(c, k)
      BY <2>1, Zenon DEF Arrive, TypeOK
    <2>2. CASE Flush(c, k)
      BY <2>2, Zenon DEF Flush, TypeOK
    <2> QED
      BY <1>1, <2>1, <2>2, Zenon
  <1>2. CASE Probe(c)
    BY <1>2, Zenon DEF Probe, IsReady, TypeOK
  <1>3. CASE Call(c)
    <2>1. CASE closed
      BY <1>3, <2>1, Zenon DEF Call, TypeOK
    <2>2. CASE ~closed
      BY <1>3, <2>2, Zenon DEF Call, TypeOK
    <2> QED
      BY <2>1, <2>2, Zenon
  <1>4. CASE LookupClosed(c)
    BY <1>4, Zenon DEF LookupClosed, TypeOK
  <1>5. CASE LookupReady(c)
    BY <1>5, Zenon DEF LookupReady, IsReady, TypeOK
  <1>6. CASE LookupCreating(c)
    BY <1>6, Zenon DEF LookupCreating, TypeOK
  <1>7. CASE LookupVacant(c)
    BY <1>7, Zenon DEF LookupVacant, TypeOK
  <1>8. CASE JoinFailed(c)
    BY <1>8, Zenon DEF JoinFailed, TypeOK
  <1>9. CASE JoinFailedNotify(c)
    BY <1>9, Zenon DEF JoinFailedNotify, TypeOK
  <1>10. CASE FinishClosed(c)
    <2>1. cancelled' \in [Sessions -> BOOLEAN]
      BY <1>10, ZenonT(30) DEF FinishClosed, TypeOK
    <2>2. key' \in [Callers -> Keys \cup {None}] /\ ses' \in [Callers -> Sessions \cup {None}]
      BY <1>10, Zenon DEF FinishClosed, TypeOK
    <2>3. pc' \in [Callers -> PcValues] /\ task' \in [Callers -> TaskValues]
      BY <1>10, Zenon DEF FinishClosed, TypeOK
    <2>4. /\ sessions' \in [Keys -> Callers \cup Sessions \cup {None}]
          /\ on' \in [Callers -> Callers \cup {None}]
      BY <1>10, Zenon DEF FinishClosed, TypeOK
    <2>5. UNCHANGED <<now, closed, skey, lastSeen, loop, handle, aborted, gcVars, shutVars>>
      BY <1>10, Zenon DEF FinishClosed
    <2> QED
      BY <2>1, <2>2, <2>3, <2>4, <2>5, Zenon DEF TypeOK
  <1>11. CASE AbortRecvTask(c)
    BY <1>11, UdpSessionsAssumption, Zenon DEF AbortRecvTask, TypeOK
  <1>12. CASE FinishCancelled(c)
    BY <1>12, Zenon DEF FinishCancelled, TypeOK
  <1>13. CASE FinishReady(c)
    BY <1>13, Zenon DEF FinishReady, TypeOK
  <1>14. CASE FinishErr(c)
    BY <1>14, Zenon DEF FinishErr, TypeOK
  <1>15. CASE Send(c)
    BY <1>15, Zenon DEF Send, TypeOK
  <1>16. CASE CreateErr(c) \/ CreatePanic(c)
    BY <1>16, ZenonT(30) DEF CreateErr, CreatePanic, TypeOK
  <1>17. ASSUME NEW s \in Sessions, CreateSpawn(c, s) PROVE TypeOK'
    BY <1>17, Zenon DEF CreateSpawn, TypeOK
  <1>18. CASE CreateReady(c)
    BY <1>18, Zenon DEF CreateReady, TypeOK
  <1> QED
    BY <1>1, <1>2, <1>3, <1>4, <1>5, <1>6, <1>7, <1>8, <1>9, <1>10, <1>11, <1>12, <1>13,
       <1>14, <1>15, <1>16, <1>17, <1>18, Zenon
       DEF CallerStep, Lookup, Finish, CreateConnect

(***************************************************************************)
(* So do the steps of the receive loops, the GC loop and the shutdown.     *)
(***************************************************************************)
LEMMA TaskTypeOK ==
  ASSUME TypeOK,
         \/ \E s \in Sessions : RecvStep(s) \/ RecvReply(s) \/ RecvStop(s)
         \/ Gc \/ StopLoops \/ ShutdownStep \/ Tick
  PROVE  TypeOK'
  <1> USE DEF PcValues, LoopValues, GcValues, ShutValues, NotifyWaiters, Cancel, callerVars,
              sessionVars, gcVars, shutVars
  <1>1. ASSUME NEW s \in Sessions, RecvStep(s) \/ RecvReply(s) \/ RecvStop(s)
        PROVE  TypeOK'
    <2>1. CASE RecvExit(s)
      BY <2>1, Zenon DEF RecvExit, TypeOK
    <2>2. CASE RecvStop(s)
      BY <2>2, Zenon DEF RecvStop, TypeOK
    <2> QED
      BY <1>1, <2>1, <2>2, SMT, SMTT(30) DEF RecvStep, RecvStart, RecvCancelled, RecvAborted, RecvReply, TypeOK
  <1>2. CASE Gc
    <2>1. CASE GcWake \/ GcSnapshot
      BY <2>1, SMT, SMTT(30) DEF GcWake, GcSnapshot, TypeOK
    <2>2. CASE GcCollect
      BY <2>2, Zenon DEF GcCollect, StillExpired, TypeOK
    <2>3. CASE GcAbort
      BY <2>3, Zenon DEF GcAbort, TypeOK
    <2> QED
      BY <1>2, <2>1, <2>2, <2>3, Zenon DEF Gc
  <1>3. CASE StopLoops
    BY <1>3, Zenon DEF StopLoops, TypeOK
  <1>4. CASE ShutdownStep
    <2>1. CASE StopGc
      BY <2>1, Zenon DEF StopGc, TypeOK
    <2>2. CASE Close
      <3>1. closed' \in BOOLEAN
        BY <2>2, Zenon DEF Close
      <3> QED
        BY <2>2, <3>1, Zenon DEF Close, TypeOK
    <2>3. CASE Clear
      BY <2>3, Zenon DEF Clear, TypeOK
    <2>4. CASE DrainTimeout
      BY <2>4, Zenon DEF DrainTimeout, TypeOK
    <2>5. CASE Drained
      BY <2>5, Zenon DEF Drained, TypeOK
    <2> QED
      BY <1>4, <2>1, <2>2, <2>3, <2>4, <2>5, Zenon DEF ShutdownStep
  <1>5. CASE Tick
    BY <1>5, SMT, SMTT(30) DEF Tick, TypeOK
  <1> QED
    BY <1>1, <1>2, <1>3, <1>4, <1>5, Zenon

(***************************************************************************)
(* Every step keeps the variables of UdpRuntime well typed.                *)
(***************************************************************************)
LEMMA NextTypeOK == TypeOK /\ [Next]_vars => TypeOK'
  <1> SUFFICES ASSUME TypeOK, [Next]_vars PROVE TypeOK'
    BY Zenon
  <1>1. CASE UNCHANGED vars
    BY <1>1, Zenon DEF vars, callerVars, sessionVars, gcVars, shutVars, TypeOK
  <1>2. CASE Next
    BY <1>2, CallerTypeOK, TaskTypeOK, Zenon DEF Next
  <1> QED
    BY <1>1, <1>2, Zenon

(***************************************************************************)
(* Every variable of UdpRuntime always has a value of its type.            *)
(***************************************************************************)
THEOREM TypeCorrect == Spec => []TypeOK
  BY InitTypeOK, NextTypeOK, PTL DEF Spec

-----------------------------------------------------------------------------
(* The inductive invariant. *)

Cleared == shut \in {"draining", "down"}

\* A Creating entry and the create task of its owner go together, until the map
\* is cleared, and two creations never share a key.
OwnerInv ==
    /\ \A k \in Keys : sessions[k] \in Callers =>
          task[sessions[k]] # "none" /\ key[sessions[k]] = k
    /\ \A c \in Callers : task[c] # "none" =>
          /\ key[c] \in Keys
          /\ pc[c] \in {"create", "stopped"}
          /\ Cleared \/ sessions[key[c]] = c
    /\ \A c, d \in Callers :
          task[c] # "none" /\ task[d] # "none" /\ key[c] = key[d] => c = d

\* What a caller knows at each of its steps.
CallerInv ==
    \A c \in Callers :
        /\ pc[c] \notin {"idle", "stopped"} => key[c] \in Keys
        /\ pc[c] = "create" => task[c] # "none"
        /\ on[c] # None => pc[c] = "lookup"
        /\ pc[c] = "abort" => /\ closed
                              /\ ses[c] \in Sessions
                              /\ cancelled[ses[c]]
                              /\ ~Registered(ses[c])

\* A session that a create task has made is not in the map yet.
MadeInv ==
    \A c \in Callers : task[c] \in {"ready", "ok"} =>
        /\ ses[c] \in Sessions
        /\ skey[ses[c]] = key[c]
        /\ loop[ses[c]] # "none"
        /\ task[c] = "ok" => loop[ses[c]] # "spawned"
        /\ ~Registered(ses[c])

\* A receive loop that ends by itself, or is aborted, has been cancelled.
SessionInv ==
    \A s \in Sessions :
        /\ loop[s] = "none" => ~Registered(s)
        /\ loop[s] # "none" => skey[s] \in Keys
        /\ loop[s] \in {"ending", "gone"} => cancelled[s]
        /\ aborted[s] => cancelled[s] /\ ~Registered(s)

\* The GC loop and the shutdown abort only sessions they have taken out.
TaskInv ==
    /\ gc = "collect" => \A s \in gcSet : loop[s] # "none"
    /\ gc = "abort" => \A s \in gcSet : cancelled[s] /\ ~Registered(s)
    /\ closed <=> shut \in {"closing", "draining", "down"}
    /\ ClearedStaysEmpty
    /\ drain # {} => Cleared
    /\ \A s \in drain : cancelled[s]

CoreInv ==
    /\ OwnerInv
    /\ CallerInv
    /\ WaiterHasNotifier
    /\ MadeInv
    /\ SessionInv
    /\ ReadyIsServed
    /\ NoStraySession
    /\ TaskInv

IInv == TypeOK /\ CoreInv

(***************************************************************************)
(* The invariant holds of a UdpRuntime that was just made.                 *)
(***************************************************************************)
LEMMA InitIInv == Init => IInv
  <1> SUFFICES ASSUME Init PROVE IInv
    BY Zenon
  <1>1. TypeOK
    BY InitTypeOK, Zenon
  <1> QED
    BY <1>1, UdpSessionsAssumption, Zenon
       DEF Init, IInv, CoreInv, OwnerInv, CallerInv, WaiterHasNotifier, MadeInv, SessionInv, ReadyIsServed,
           NoStraySession, TaskInv, ClearedStaysEmpty, Cleared, IsReady, Registered, Alive

-----------------------------------------------------------------------------
(* The kinds of steps: each lemma covers the actions that change the same  *)
(* part of the state.                                                      *)

(***************************************************************************)
(* A caller that owns no creation moves on, returns, waits, notifies or    *)
(* aborts the receive loop of a session that is not in the map.            *)
(***************************************************************************)
LEMMA CallerMoves ==
  ASSUME IInv, NEW c \in Callers, pc[c] \notin {"create", "stopped"},
         UNCHANGED <<closed, sessions, skey, cancelled, loop, gcVars, shutVars>>,
         \A s \in Sessions : aborted'[s] => aborted[s] \/ (cancelled[s] /\ ~Registered(s)),
         \A d \in Callers \ {c} : /\ pc'[d] = pc[d] /\ key'[d] = key[d]
                                  /\ ses'[d] = ses[d] /\ task'[d] = task[d],
         \A d \in Callers \ {c} : on'[d] \in {on[d], None},
         \A d \in Callers : pc[c] = "notify" => on'[d] # c,
         task'[c] \in {task[c], "none"},
         pc'[c] \in {"idle", "probe", "call", "lookup", "send"},
         pc'[c] # "idle" => key'[c] \in Keys,
         on'[c] # None => pc'[c] = "lookup" /\ sessions[key'[c]] = on'[c]
  PROVE  CoreInv'
  <1> USE DEF IInv, CoreInv, gcVars, shutVars
  <1>1. task[c] = "none" /\ task'[c] = "none"
    BY Zenon DEF OwnerInv
  <1>2. OwnerInv'
    BY <1>1, SMT, SMTT(30) DEF OwnerInv, Cleared
  <1>3. CallerInv'
    BY SMT, SMTT(30) DEF CallerInv, Registered
  <1>4. WaiterHasNotifier'
    <2> SUFFICES ASSUME NEW d \in Callers, on'[d] # None
                 PROVE  sessions'[key'[d]] = on'[d] \/ pc'[on'[d]] = "notify"
      BY Zenon DEF WaiterHasNotifier
    <2>1. CASE d = c
      BY <2>1, Zenon
    <2>2. CASE d # c
      <3>1. on'[d] = on[d] /\ key'[d] = key[d] /\ on[d] \in Callers
        BY <2>2, Zenon DEF TypeOK
      <3>2. sessions[key[d]] = on[d] \/ pc[on[d]] = "notify"
        BY <3>1, Zenon DEF WaiterHasNotifier
      <3> QED
        BY <3>1, <3>2, SMT, SMTT(30)
    <2> QED
      BY <2>1, <2>2, Zenon
  <1>5. MadeInv'
    BY <1>1, SMT, SMTT(30) DEF MadeInv, Registered
  <1>6. SessionInv' /\ ReadyIsServed'
    BY ZenonT(30) DEF SessionInv, ReadyIsServed, IsReady, Registered
  <1>7. TaskInv'
    BY Zenon DEF TaskInv, ClearedStaysEmpty, Cleared, Registered
  <1>8. NoStraySession'
    BY <1>1, SMT, SMTT(30) DEF NoStraySession, Alive, CreatedBy
  <1> QED
    BY <1>2, <1>3, <1>4, <1>5, <1>6, <1>7, <1>8, Zenon

(***************************************************************************)
(* A creation ends without a Ready entry: the Creating entry goes, the     *)
(* waiters are notified or are about to be, and a session that was made    *)
(* is, or becomes, cancelled.                                              *)
(***************************************************************************)
LEMMA EntryRemoved ==
  ASSUME IInv, NEW c \in Callers, pc[c] = "create", task[c] \in {"ok", "err", "panic"},
         UNCHANGED <<closed, skey, loop, aborted, gcVars, shutVars>>,
         \A s \in Sessions : cancelled'[s] <=> cancelled[s] \/ (task[c] = "ok" /\ s = ses[c]),
         sessions' = [sessions EXCEPT ![key[c]] = None],
         task' = [task EXCEPT ![c] = "none"],
         \/ Return(c) /\ NotifyWaiters({c})
         \/ pc' = [pc EXCEPT ![c] = "notify"] /\ UNCHANGED <<key, ses, on>>
         \/ /\ pc' = [pc EXCEPT ![c] = "abort"] /\ UNCHANGED <<key, ses>> /\ NotifyWaiters({c})
            /\ closed /\ task[c] = "ok"
  PROVE  CoreInv'
  <1> USE DEF IInv, CoreInv, gcVars, shutVars
  <1>a. \A d \in Callers \ {c} : /\ pc'[d] = pc[d] /\ key'[d] = key[d]
                                 /\ ses'[d] = ses[d] /\ task'[d] = task[d]
    BY ZenonT(30) DEF TypeOK, Return
  <1>b. /\ \A d \in Callers : on'[d] \in {on[d], None}
        /\ \A d \in Callers : pc'[c] # "notify" => on'[d] # c
    BY UdpSessionsAssumption, SMT, SMTT(30) DEF TypeOK, NotifyWaiters
  <1>c. /\ task'[c] = "none"
        /\ pc'[c] \in {"idle", "notify", "abort"}
        /\ pc'[c] # "idle" => key'[c] = key[c]
        /\ pc'[c] = "abort" => closed /\ task[c] = "ok" /\ ses'[c] = ses[c]
    BY Zenon DEF TypeOK, Return
  <1>1. key[c] \in Keys /\ (sessions[key[c]] = c \/ sessions[key[c]] = None)
    BY Zenon DEF OwnerInv, CallerInv, TaskInv, ClearedStaysEmpty, Cleared
  <1>2. \A k \in Keys : sessions'[k] = IF k = key[c] THEN None ELSE sessions[k]
    BY <1>1, Zenon DEF TypeOK
  <1>3. sessions[key[c]] \notin Sessions /\ None \notin Callers \cup Sessions
    BY <1>1, UdpSessionsAssumption, Zenon
  <1>4. \A s \in Sessions : Registered(s)' <=> Registered(s)
    BY <1>2, <1>3, SMT, SMTT(30) DEF Registered
  <1>5. OwnerInv'
    BY <1>a, <1>c, <1>1, <1>2, <1>3, SMT, SMTT(30) DEF OwnerInv, Cleared
  <1>6. CallerInv'
    <2>1. \A d \in Callers : on'[d] # None => d # c /\ on[d] # None
      BY <1>b, Zenon DEF CallerInv
    <2>2. task[c] = "ok" => ses[c] \in Sessions /\ ~Registered(ses[c])
      BY Zenon DEF MadeInv
    <2> QED
      BY <1>a, <1>c, <1>1, <1>4, <2>1, <2>2, SMT, SMTT(30) DEF CallerInv
  <1>7. WaiterHasNotifier'
    <2> SUFFICES ASSUME NEW d \in Callers, on'[d] # None
                 PROVE  sessions'[key'[d]] = on'[d] \/ pc'[on'[d]] = "notify"
      BY Zenon DEF WaiterHasNotifier
    <2>1. on'[d] = on[d] /\ on[d] \in Callers /\ pc[d] = "lookup"
      BY <1>b, Zenon DEF CallerInv, TypeOK
    <2>2. d # c /\ key'[d] = key[d] /\ key[d] \in Keys
      BY <1>a, <2>1, Zenon DEF CallerInv
    <2>3. sessions[key[d]] = on[d] \/ pc[on[d]] = "notify"
      BY <2>1, Zenon DEF WaiterHasNotifier
    <2>4. CASE on[d] = c
      BY <1>b, <2>1, <2>4, Zenon
    <2>5. CASE on[d] # c
      BY <1>a, <1>1, <1>2, <2>1, <2>2, <2>3, <2>5, SMT, SMTT(30)
    <2> QED
      BY <2>4, <2>5, Zenon
  <1>8. MadeInv'
    BY <1>a, <1>c, <1>4, SMT, SMTT(30) DEF MadeInv
  <1>9. SessionInv' /\ ReadyIsServed'
    BY <1>2, <1>3, <1>4, SMT, SMTT(30) DEF SessionInv, ReadyIsServed, IsReady
  <1>10. TaskInv'
    BY <1>2, <1>4, Zenon DEF TaskInv, ClearedStaysEmpty, Cleared, TypeOK
  <1>11. NoStraySession'
    <2> SUFFICES ASSUME NEW s \in Sessions, Alive(s)'
                 PROVE  (sessions[skey[s]] = s)' \/ \E d \in Callers : CreatedBy(d, s)'
      BY Zenon DEF NoStraySession
    <2>1. Alive(s) /\ ~(task[c] = "ok" /\ s = ses[c]) /\ skey[s] \in Keys
      BY Zenon DEF Alive, SessionInv
    <2>2. CASE sessions[skey[s]] = s
      BY <1>2, <1>3, <2>1, <2>2, Zenon
    <2>3. ASSUME NEW d \in Callers, CreatedBy(d, s) PROVE CreatedBy(d, s)'
      BY <1>a, <2>1, <2>3, Zenon DEF CreatedBy
    <2> QED
      BY <2>1, <2>2, <2>3, Zenon DEF NoStraySession
  <1> QED
    BY <1>5, <1>6, <1>7, <1>8, <1>9, <1>10, <1>11, Zenon

(***************************************************************************)
(* The receive loop of one session moves, and its map entry stays.         *)
(***************************************************************************)
LEMMA LoopMoves ==
  ASSUME IInv, NEW s \in Sessions, loop[s] # "none",
         UNCHANGED <<closed, sessions, callerVars, skey, aborted, gcVars, shutVars>>,
         \A t \in Sessions \ {s} : loop'[t] = loop[t] /\ (cancelled'[t] <=> cancelled[t]),
         cancelled[s] => cancelled'[s],
         loop'[s] # "none", loop'[s] # "spawned" \/ loop[s] = "spawned",
         loop'[s] \in {"ending", "gone"} => cancelled'[s],
         Registered(s) => loop'[s] \in {"running", "ending"},
         Alive(s)' => Alive(s)
  PROVE  CoreInv'
  <1> USE DEF IInv, CoreInv, callerVars, gcVars, shutVars
  <1>1. OwnerInv' /\ WaiterHasNotifier'
    BY SMT, SMTT(30) DEF OwnerInv, WaiterHasNotifier, Cleared
  <1>2. \A t \in Sessions : Registered(t)' <=> Registered(t)
    BY Zenon DEF Registered
  <1>3. \A t \in Sessions : cancelled[t] => cancelled'[t]
    BY Zenon
  <1>4. CallerInv'
    BY <1>2, <1>3, Zenon DEF CallerInv
  <1>5. MadeInv'
    BY <1>2, Zenon DEF MadeInv
  <1>6. SessionInv'
    BY <1>2, <1>3, Zenon DEF SessionInv
  <1>7. ReadyIsServed'
    BY Zenon DEF ReadyIsServed, IsReady, Registered
  <1>8. TaskInv'
    BY <1>2, <1>3, Zenon DEF TaskInv, ClearedStaysEmpty, Cleared, TypeOK
  <1>9. \A t \in Sessions : Alive(t)' => Alive(t)
    BY Zenon DEF Alive
  <1>10. NoStraySession'
    BY <1>9, ZenonT(30) DEF NoStraySession, CreatedBy
  <1> QED
    BY <1>1, <1>4, <1>5, <1>6, <1>7, <1>8, <1>10, Zenon

(***************************************************************************)
(* The GC loop, the shutdown or the clock moves; the map, the callers and  *)
(* the receive loops stay as they are.                                     *)
(***************************************************************************)
LEMMA RuntimeMoves ==
  ASSUME IInv, UNCHANGED <<sessions, callerVars, skey, cancelled, loop>>,
         \A s \in Sessions : aborted'[s] => aborted[s] \/ (cancelled[s] /\ ~Registered(s)),
         closed => closed', Cleared' <=> Cleared, TaskInv'
  PROVE  CoreInv'
  <1> USE DEF IInv, CoreInv, callerVars
  <1>1. OwnerInv' /\ WaiterHasNotifier'
    BY ZenonT(30) DEF OwnerInv, WaiterHasNotifier
  <1>2. CallerInv' /\ MadeInv'
    BY Zenon DEF CallerInv, MadeInv, Registered
  <1>3. SessionInv' /\ ReadyIsServed'
    BY Zenon DEF SessionInv, ReadyIsServed, IsReady, Registered
  <1>4. NoStraySession'
    BY Zenon DEF NoStraySession, Alive, CreatedBy
  <1> QED
    BY <1>1, <1>2, <1>3, <1>4, Zenon

(***************************************************************************)
(* A caller of get_or_create_udp_session that owns no creation.            *)
(***************************************************************************)
LEMMA CallerCoreInv ==
  ASSUME IInv, NEW c \in Callers,
         \/ Probe(c) \/ Call(c) \/ LookupClosed(c) \/ LookupReady(c) \/ LookupCreating(c)
         \/ JoinFailedNotify(c) \/ AbortRecvTask(c) \/ Send(c)
         \/ \E k \in Keys : Arrive(c, k) \/ Flush(c, k)
  PROVE  CoreInv'
  <1> USE DEF callerVars, sessionVars, gcVars, shutVars, Return
  <1>0. /\ TypeOK /\ None \notin Callers
        /\ pc[c] \notin {"idle", "stopped"} => key[c] \in Keys
        /\ on[c] # None => pc[c] = "lookup"
    BY UdpSessionsAssumption, Zenon DEF IInv, CoreInv, CallerInv
  <1>1. ASSUME NEW k \in Keys, Arrive(c, k) \/ Flush(c, k) PROVE CoreInv'
    BY <1>0, <1>1, CallerMoves, SMT, SMTT(30) DEF Arrive, Flush, TypeOK
  <1>2. CASE Probe(c)
    BY <1>0, <1>2, CallerMoves, SMT, SMTT(30) DEF Probe, TypeOK
  <1>3. CASE Call(c)
    BY <1>0, <1>3, CallerMoves, SMT, SMTT(30) DEF Call, TypeOK
  <1>4. CASE LookupClosed(c)
    BY <1>0, <1>4, CallerMoves, Zenon DEF LookupClosed, TypeOK
  <1>5. CASE LookupReady(c)
    BY <1>0, <1>5, CallerMoves, Zenon DEF LookupReady, TypeOK
  <1>6. CASE LookupCreating(c)
    BY <1>0, <1>6, CallerMoves, Zenon DEF LookupCreating, TypeOK
  <1>7. CASE JoinFailedNotify(c)
    BY <1>0, <1>7, CallerMoves, Zenon DEF JoinFailedNotify, NotifyWaiters, TypeOK
  <1>8. CASE AbortRecvTask(c)
    <2>1. ses[c] \in Sessions /\ cancelled[ses[c]] /\ ~Registered(ses[c])
      BY <1>8, Zenon DEF AbortRecvTask, IInv, CoreInv, CallerInv
    <2>2. \A s \in Sessions : aborted'[s] => aborted[s] \/ (cancelled[s] /\ ~Registered(s))
      BY <1>0, <1>8, <2>1, Zenon DEF AbortRecvTask, TypeOK
    <2> QED
      BY <1>0, <1>8, <2>2, CallerMoves, Zenon DEF AbortRecvTask, TypeOK
  <1>9. CASE Send(c)
    BY <1>0, <1>9, CallerMoves, Zenon DEF Send, TypeOK
  <1> QED
    BY <1>1, <1>2, <1>3, <1>4, <1>5, <1>6, <1>7, <1>8, <1>9, Zenon

(***************************************************************************)
(* The end of a creation: the entry of the key goes, or becomes Ready.     *)
(***************************************************************************)
LEMMA FinishCoreInv == ASSUME IInv, NEW c \in Callers, Finish(c) PROVE CoreInv'
  <1> USE DEF callerVars, sessionVars, gcVars, shutVars
  <1>0. TypeOK /\ None \notin Callers \cup Sessions /\ Callers \cap Sessions = {}
    BY UdpSessionsAssumption, Zenon DEF IInv
  <1>1. CASE JoinFailed(c)
    <2>1. \A s \in Sessions : cancelled'[s] <=> cancelled[s] \/ (task[c] = "ok" /\ s = ses[c])
      BY <1>1, Zenon DEF JoinFailed
    <2> QED
      BY <1>1, <2>1, EntryRemoved, Zenon DEF JoinFailed
  <1>2. CASE FinishClosed(c) /\ task[c] = "ok"
    <2>1. cancelled' = [t \in Sessions |-> cancelled[t] \/ t \in {ses[c]}]
      BY <1>2, Zenon DEF FinishClosed, Cancel
    <2>2. \A t \in Sessions : cancelled'[t] <=> cancelled[t] \/ (task[c] = "ok" /\ t = ses[c])
      BY <1>2, <2>1, Zenon
    <2> QED
      BY <1>2, <2>2, EntryRemoved, Zenon DEF FinishClosed
  <1>3. CASE FinishClosed(c) /\ task[c] = "err"
    <2>1. \A s \in Sessions : cancelled'[s] <=> cancelled[s] \/ (task[c] = "ok" /\ s = ses[c])
      BY <1>3, Zenon DEF FinishClosed
    <2> QED
      BY <1>3, <2>1, EntryRemoved, Zenon DEF FinishClosed, Return
  <1>4. CASE FinishCancelled(c)
    <2>1. \A s \in Sessions : cancelled'[s] <=> cancelled[s] \/ (task[c] = "ok" /\ s = ses[c])
      BY <1>4, Zenon DEF FinishCancelled
    <2> QED
      BY <1>4, <2>1, EntryRemoved, Zenon DEF FinishCancelled, Return
  <1>5. CASE FinishErr(c)
    <2>1. \A s \in Sessions : cancelled'[s] <=> cancelled[s] \/ (task[c] = "ok" /\ s = ses[c])
      BY <1>5, Zenon DEF FinishErr
    <2> QED
      BY <1>5, <2>1, EntryRemoved, Zenon DEF FinishErr, Return
  <1>6. CASE FinishReady(c)
    <2> USE DEF IInv, CoreInv
    <2>1. /\ pc[c] = "create" /\ task[c] = "ok" /\ ~closed /\ ~cancelled[ses[c]]
          /\ UNCHANGED <<closed, key, ses, sessionVars, gcVars, shutVars>>
      BY <1>6, Zenon DEF FinishReady, MayRegister
    <2>2. /\ key[c] \in Keys /\ sessions[key[c]] = c /\ ~Cleared
          /\ ses[c] \in Sessions /\ skey[ses[c]] = key[c] /\ loop[ses[c]] \notin {"none", "spawned"}
          /\ ~Registered(ses[c]) /\ ~aborted[ses[c]]
      BY <2>1, Zenon DEF OwnerInv, MadeInv, TaskInv, Cleared, SessionInv
    <2>3. \A k \in Keys : sessions'[k] = IF k = key[c] THEN ses[c] ELSE sessions[k]
      BY <1>6, <2>2, Zenon DEF FinishReady, TypeOK
    <2>4. \A d \in Callers : /\ pc'[d] = IF d = c THEN "send" ELSE pc[d]
                             /\ task'[d] = IF d = c THEN "none" ELSE task[d]
                             /\ on'[d] = IF on[d] = c THEN None ELSE on[d]
      BY <1>0, <1>6, Zenon DEF FinishReady, NotifyWaiters, TypeOK
    <2>5. \A s \in Sessions : Registered(s)' <=> Registered(s) \/ s = ses[c]
      BY <1>0, <2>2, <2>3, Zenon DEF Registered
    <2>6. OwnerInv'
      BY <1>0, <2>1, <2>2, <2>3, <2>4, SMT, SMTT(30) DEF OwnerInv, Cleared
    <2>7. CallerInv'
      BY <2>1, <2>2, <2>4, <2>5, Zenon DEF CallerInv
    <2>8. WaiterHasNotifier'
      <3> SUFFICES ASSUME NEW d \in Callers, on'[d] # None
                   PROVE  sessions'[key'[d]] = on'[d] \/ pc'[on'[d]] = "notify"
        BY Zenon DEF WaiterHasNotifier
      <3>1. on'[d] = on[d] /\ on[d] # c /\ on[d] \in Callers
        BY <1>0, <2>4, Zenon DEF TypeOK
      <3>2. key'[d] = key[d] /\ key[d] \in Keys
        BY <2>1, <3>1, Zenon DEF CallerInv
      <3>3. sessions[key[d]] = on[d] \/ pc[on[d]] = "notify"
        BY <3>1, Zenon DEF WaiterHasNotifier
      <3> QED
        BY <2>2, <2>3, <2>4, <3>1, <3>2, <3>3, Zenon
    <2>9. MadeInv'
      <3> SUFFICES ASSUME NEW d \in Callers, d # c, task[d] \in {"ready", "ok"}
                   PROVE  ses[d] # ses[c]
        BY <2>1, <2>4, <2>5, ZenonT(30) DEF MadeInv
      <3> QED
        BY <2>1, <2>2, SMT, SMTT(30) DEF MadeInv, OwnerInv
    <2>10. SessionInv'
      BY <2>1, <2>2, <2>5, Zenon DEF SessionInv
    <2>11. ReadyIsServed'
      BY <1>0, <2>1, <2>2, <2>3, SMT, SMTT(30) DEF ReadyIsServed, IsReady, TypeOK, LoopValues, SessionInv
    <2>12. TaskInv'
      BY <2>1, <2>2, <2>3, <2>5, Zenon DEF TaskInv, ClearedStaysEmpty, Cleared, TypeOK
    <2>13. NoStraySession'
      BY <1>0, <2>1, <2>2, <2>3, <2>4, SMT, SMTT(30) DEF NoStraySession, Alive, CreatedBy, SessionInv
    <2> QED
      BY <2>6, <2>7, <2>8, <2>9, <2>10, <2>11, <2>12, <2>13, Zenon
  <1> QED
    BY <1>1, <1>2, <1>3, <1>4, <1>5, <1>6, Zenon DEF Finish, FinishClosed

(***************************************************************************)
(* The start of a creation and the steps of the spawned create task.       *)
(***************************************************************************)
LEMMA CreateCoreInv ==
  ASSUME IInv, NEW c \in Callers, LookupVacant(c) \/ CreateConnect(c) \/ CreateReady(c)
  PROVE  CoreInv'
  <1> USE DEF callerVars, sessionVars, gcVars, shutVars, IInv, CoreInv
  <1>0. TypeOK /\ None \notin Callers \cup Sessions \cup Keys /\ Callers \cap Sessions = {}
    BY UdpSessionsAssumption, Zenon
  <1>1. CASE LookupVacant(c)
    <2>1. /\ pc[c] = "lookup" /\ on[c] = None /\ ~closed /\ sessions[key[c]] = None /\ key[c] \in Keys
          /\ UNCHANGED <<closed, key, on, ses, sessionVars, gcVars, shutVars>>
      BY <1>1, Zenon DEF LookupVacant, CallerInv
    <2>2. task[c] = "none" /\ ~Cleared
      BY <2>1, Zenon DEF OwnerInv, TaskInv, Cleared
    <2>3. \A k \in Keys : sessions'[k] = IF k = key[c] THEN c ELSE sessions[k]
      BY <1>1, <2>1, Zenon DEF LookupVacant, TypeOK
    <2>4. \A d \in Callers : /\ pc'[d] = IF d = c THEN "create" ELSE pc[d]
                             /\ task'[d] = IF d = c THEN "connect" ELSE task[d]
      BY <1>1, Zenon DEF LookupVacant, TypeOK
    <2>5. \A s \in Sessions : Registered(s)' <=> Registered(s)
      BY <1>0, <2>1, <2>3, Zenon DEF Registered
    <2>6. OwnerInv'
      BY <1>0, <2>1, <2>2, <2>3, <2>4, SMT, SMTT(30) DEF OwnerInv, Cleared
    <2>7. CallerInv'
      BY <2>1, <2>4, <2>5, Zenon DEF CallerInv
    <2>8. WaiterHasNotifier'
      <3> SUFFICES ASSUME NEW d \in Callers, on[d] # None
                   PROVE  sessions'[key[d]] = on[d] \/ pc'[on[d]] = "notify"
        BY <2>1, Zenon DEF WaiterHasNotifier
      <3>1. on[d] \in Callers /\ key[d] \in Keys
        BY Zenon DEF TypeOK, CallerInv
      <3> QED
        BY <2>1, <2>3, <2>4, <3>1, SMT, SMTT(30) DEF WaiterHasNotifier
    <2>9. MadeInv'
      BY <2>1, <2>4, <2>5, Zenon DEF MadeInv
    <2>10. SessionInv' /\ ReadyIsServed'
      BY <1>0, <2>1, <2>3, <2>5, SMT, SMTT(30) DEF SessionInv, ReadyIsServed, IsReady
    <2>11. TaskInv'
      BY <2>1, <2>2, <2>5, Zenon DEF TaskInv, ClearedStaysEmpty, Cleared, TypeOK
    <2>12. NoStraySession'
      BY <1>0, <2>1, <2>2, <2>3, <2>4, SMT, SMTT(30) DEF NoStraySession, Alive, CreatedBy, SessionInv
    <2> QED
      BY <2>6, <2>7, <2>8, <2>9, <2>10, <2>11, <2>12, Zenon
  <1>2. ASSUME UNCHANGED <<now, closed, sessions, pc, key, on, ses, sessionVars, gcVars, shutVars>>,
               \A d \in Callers : d # c => task'[d] = task[d],
               task[c] # "none", task'[c] # "none",
               task[c] \in {"ready", "ok"} => task'[c] \in {"ready", "ok"},
               task'[c] \in {"ready", "ok"} => task[c] \in {"ready", "ok"} /\ loop[ses[c]] # "spawned"
        PROVE  CoreInv'
    <2>1. OwnerInv' /\ WaiterHasNotifier'
      BY <1>2, SMT, SMTT(30) DEF OwnerInv, WaiterHasNotifier, Cleared
    <2>2. CallerInv'
      BY <1>2, Zenon DEF CallerInv, Registered
    <2>3. MadeInv'
      BY <1>2, Zenon DEF MadeInv, Registered
    <2>4. SessionInv' /\ ReadyIsServed'
      BY <1>2, Zenon DEF SessionInv, ReadyIsServed, IsReady, Registered
    <2>5. TaskInv'
      BY <1>2, Zenon DEF TaskInv, ClearedStaysEmpty, Cleared, Registered
    <2>6. NoStraySession'
      BY <1>2, Zenon DEF NoStraySession, Alive, CreatedBy
    <2> QED
      BY <2>1, <2>2, <2>3, <2>4, <2>5, <2>6, Zenon
  <1>3. CASE CreateErr(c) \/ CreatePanic(c)
    BY <1>2, <1>3, Zenon DEF CreateErr, CreatePanic, TypeOK
  <1>4. CASE CreateReady(c)
    BY <1>2, <1>4, Zenon DEF CreateReady, TypeOK
  <1>5. ASSUME NEW s \in Sessions, CreateSpawn(c, s) PROVE CoreInv'
    <2>1. /\ task[c] = "connect" /\ loop[s] = "none" /\ ~Registered(s) /\ key[c] \in Keys
          /\ UNCHANGED <<closed, sessions, pc, key, on, cancelled, aborted, gcVars, shutVars>>
      BY <1>5, Zenon DEF CreateSpawn, SessionInv, OwnerInv
    <2>2. \A d \in Callers : /\ task'[d] = IF d = c THEN "ready" ELSE task[d]
                             /\ ses'[d] = IF d = c THEN s ELSE ses[d]
      BY <1>5, Zenon DEF CreateSpawn, TypeOK
    <2>3. \A t \in Sessions : /\ skey'[t] = IF t = s THEN key[c] ELSE skey[t]
                              /\ loop'[t] = IF t = s THEN "spawned" ELSE loop[t]
      BY <1>5, Zenon DEF CreateSpawn, TypeOK
    <2>4. \A t \in Sessions : Registered(t)' <=> Registered(t)
      BY <2>1, Zenon DEF Registered
    <2>5. OwnerInv' /\ WaiterHasNotifier'
      BY <2>1, <2>2, SMT, SMTT(30) DEF OwnerInv, WaiterHasNotifier, Cleared
    <2>6. CallerInv'
      <3>1. pc[c] \notin {"abort"}
        BY <2>1, Zenon DEF OwnerInv
      <3> QED
        BY <2>1, <2>2, <2>4, <3>1, Zenon DEF CallerInv
    <2>7. MadeInv'
      BY <2>1, <2>2, <2>3, <2>4, SMT, SMTT(30) DEF MadeInv
    <2>8. SessionInv'
      BY <2>1, <2>3, <2>4, Zenon DEF SessionInv
    <2>9. ReadyIsServed'
      BY <2>1, <2>3, Zenon DEF ReadyIsServed, IsReady
    <2>10. TaskInv'
      BY <2>1, <2>3, <2>4, SMT, SMTT(30) DEF TaskInv, ClearedStaysEmpty, Cleared, TypeOK
    <2>11. NoStraySession'
      <3> SUFFICES ASSUME NEW t \in Sessions, Alive(t)'
                   PROVE  (sessions[skey[t]] = t)' \/ \E d \in Callers : CreatedBy(d, t)'
        BY Zenon DEF NoStraySession
      <3>1. CASE t = s
        BY <2>2, <3>1, ZenonT(30) DEF CreatedBy
      <3>2. CASE t # s
        BY <2>1, <2>2, <2>3, <3>2, SMT, SMTT(30) DEF NoStraySession, Alive, CreatedBy
      <3> QED
        BY <3>1, <3>2, Zenon
    <2> QED
      BY <2>5, <2>6, <2>7, <2>8, <2>9, <2>10, <2>11, Zenon
  <1> QED
    BY <1>1, <1>3, <1>4, <1>5, Zenon DEF CreateConnect

(***************************************************************************)
(* The steps of a receive loop preserve the invariant: it is the only task *)
(* that can end a session while its entry is in the map.                   *)
(***************************************************************************)
LEMMA ReceiveCoreInv ==
  ASSUME IInv, NEW s \in Sessions, RecvStep(s) \/ RecvReply(s) \/ RecvStop(s)
  PROVE  CoreInv'
  <1> USE DEF callerVars, sessionVars, gcVars, shutVars
  <1>0. /\ TypeOK /\ Callers \cap Sessions = {} /\ None \notin Callers \cup Sessions
        /\ aborted[s] => cancelled[s] /\ ~Registered(s)
        /\ Registered(s) => loop[s] \in {"running", "ending"}
    BY UdpSessionsAssumption, SMT, SMTT(30) DEF IInv, CoreInv, SessionInv, ReadyIsServed, IsReady, Registered
  <1>1. CASE RecvStart(s)
    BY <1>0, <1>1, LoopMoves, Zenon DEF RecvStart, TypeOK, Alive
  <1>2. CASE RecvReply(s)
    BY <1>0, <1>2, LoopMoves, Zenon DEF RecvReply, TypeOK, Alive
  <1>3. CASE RecvCancelled(s)
    BY <1>0, <1>3, LoopMoves, Zenon DEF RecvCancelled, TypeOK, Alive
  <1>4. CASE RecvStop(s)
    <2>1. cancelled' = [t \in Sessions |-> cancelled[t] \/ t \in {s}]
      BY <1>4, Zenon DEF RecvStop, Cancel
    <2>2. cancelled'[s] /\ \A t \in Sessions \ {s} : cancelled'[t] <=> cancelled[t]
      BY <2>1, Zenon
    <2> QED
      BY <1>0, <1>4, <2>2, LoopMoves, Zenon DEF RecvStop, TypeOK, Alive
  <1>5. CASE RecvAborted(s)
    BY <1>0, <1>5, LoopMoves, Zenon DEF RecvAborted, TypeOK, Alive
  <1>6. CASE RecvExit(s)
    <2> USE DEF IInv, CoreInv
    <2>1. /\ loop[s] = "ending" /\ cancelled[s] /\ skey[s] \in Keys
          /\ UNCHANGED <<closed, callerVars, skey, cancelled, aborted, gcVars, shutVars>>
      BY <1>6, Zenon DEF RecvExit, SessionInv
    <2>2. \A t \in Sessions : loop'[t] = IF t = s THEN "gone" ELSE loop[t]
      BY <1>0, <1>6, Zenon DEF RecvExit, TypeOK
    <2>3. \A k \in Keys : sessions'[k] = IF sessions[k] = s THEN None ELSE sessions[k]
      BY <1>6, Zenon DEF RecvExit, ShouldRemove, ReadyIsServed, IsReady
    <2>4. \A t \in Sessions : Registered(t)' <=> Registered(t) /\ t # s
      BY <1>0, <2>3, Zenon DEF Registered
    <2>5. OwnerInv'
      BY <1>0, <2>1, <2>3, SMT, SMTT(30) DEF OwnerInv, Cleared
    <2>6. WaiterHasNotifier'
      <3> SUFFICES ASSUME NEW d \in Callers, on[d] # None
                   PROVE  sessions'[key[d]] = on[d] \/ pc[on[d]] = "notify"
        BY <2>1, Zenon DEF WaiterHasNotifier
      <3>1. on[d] \in Callers /\ key[d] \in Keys /\ on[d] # s
        BY <1>0, SMT, SMTT(30) DEF TypeOK, CallerInv
      <3> QED
        BY <2>3, <3>1, Zenon DEF WaiterHasNotifier
    <2>7. CallerInv'
      BY <2>1, <2>4, Zenon DEF CallerInv
    <2>8. MadeInv'
      BY <2>1, <2>2, <2>4, Zenon DEF MadeInv
    <2>9. SessionInv'
      BY <2>1, <2>2, <2>4, Zenon DEF SessionInv
    <2>10. ReadyIsServed'
      BY <1>0, <2>1, <2>2, <2>3, SMT, SMTT(30) DEF ReadyIsServed, IsReady
    <2>11. TaskInv'
      BY <2>1, <2>2, <2>3, <2>4, SMT, SMTT(30) DEF TaskInv, ClearedStaysEmpty, Cleared, TypeOK
    <2>12. NoStraySession'
      BY <2>1, <2>2, <2>3, SMT, SMTT(30) DEF NoStraySession, Alive, CreatedBy, SessionInv
    <2> QED
      BY <2>5, <2>6, <2>7, <2>8, <2>9, <2>10, <2>11, <2>12, Zenon
  <1> QED
    BY <1>1, <1>2, <1>3, <1>4, <1>5, <1>6, Zenon DEF RecvStep

(***************************************************************************)
(* The steps of the GC loop preserve the invariant: what it aborts after   *)
(* the lock is released was taken out of the map under the lock.           *)
(***************************************************************************)
LEMMA GcCoreInv == ASSUME IInv, Gc PROVE CoreInv'
  <1> USE DEF callerVars, sessionVars, gcVars, shutVars
  <1>0. TypeOK /\ TaskInv /\ Callers \cap Sessions = {} /\ None \notin Callers \cup Sessions
    BY UdpSessionsAssumption, Zenon DEF IInv, CoreInv
  <1>1. CASE GcWake
    <2>1. TaskInv'
      BY <1>0, <1>1, Zenon DEF GcWake, TaskInv, ClearedStaysEmpty, Cleared, Registered
    <2> QED
      BY <1>1, <2>1, RuntimeMoves, Zenon DEF GcWake, Cleared
  <1>2. CASE GcSnapshot
    <2>1. \A s \in gcSet' : s \in Sessions /\ loop[s] # "none"
      BY <1>2, Zenon DEF GcSnapshot, IInv, CoreInv, SessionInv
    <2>2. gc' \in {"sleep", "collect"} /\ UNCHANGED <<closed, sessions, loop, cancelled, shutVars>>
      BY <1>2, Zenon DEF GcSnapshot
    <2>3. TaskInv'
      BY <1>0, <2>1, <2>2, Zenon DEF TaskInv, ClearedStaysEmpty, Cleared
    <2> QED
      BY <1>2, <2>3, RuntimeMoves, Zenon DEF GcSnapshot, Cleared
  <1>3. CASE GcCollect
    <2> USE DEF IInv, CoreInv
    <2>1. StillExpired \subseteq Sessions
      BY <1>0, Zenon DEF StillExpired, TypeOK
    <2>2. \A t \in Sessions : cancelled'[t] <=> cancelled[t] \/ t \in StillExpired
      BY <1>3, Zenon DEF GcCollect, Cancel
    <2>3. \A k \in Keys : sessions'[k] = IF sessions[k] \in StillExpired THEN None ELSE sessions[k]
      BY <1>3, Zenon DEF GcCollect
    <2>4. /\ gcSet' = StillExpired /\ gc' = "abort"
          /\ UNCHANGED <<closed, callerVars, skey, loop, aborted, shutVars>>
      BY <1>3, Zenon DEF GcCollect
    <2>5. \A t \in Sessions : Registered(t)' <=> Registered(t) /\ t \notin StillExpired
      BY <1>0, <2>3, Zenon DEF Registered
    <2>6. OwnerInv'
      BY <1>0, <2>1, <2>3, <2>4, SMT, SMTT(30) DEF OwnerInv, Cleared
    <2>7. WaiterHasNotifier'
      <3> SUFFICES ASSUME NEW d \in Callers, on[d] # None
                   PROVE  sessions'[key[d]] = on[d] \/ pc[on[d]] = "notify"
        BY <2>4, Zenon DEF WaiterHasNotifier
      <3>1. on[d] \in Callers /\ key[d] \in Keys /\ on[d] \notin StillExpired
        BY <1>0, <2>1, Zenon DEF TypeOK, CallerInv
      <3> QED
        BY <2>3, <3>1, Zenon DEF WaiterHasNotifier
    <2>8. CallerInv'
      BY <2>2, <2>4, <2>5, Zenon DEF CallerInv
    <2>9. MadeInv'
      BY <2>4, <2>5, Zenon DEF MadeInv
    <2>10. SessionInv'
      BY <2>2, <2>4, <2>5, Zenon DEF SessionInv
    <2>11. ReadyIsServed'
      BY <1>0, <2>3, <2>4, Zenon DEF ReadyIsServed, IsReady
    <2>12. TaskInv'
      BY <1>0, <2>1, <2>2, <2>3, <2>4, <2>5, Zenon DEF TaskInv, ClearedStaysEmpty, Cleared, TypeOK
    <2>13. NoStraySession'
      BY <2>2, <2>3, <2>4, ZenonT(30) DEF NoStraySession, Alive, CreatedBy, SessionInv
    <2> QED
      BY <2>6, <2>7, <2>8, <2>9, <2>10, <2>11, <2>12, <2>13, Zenon
  <1>4. CASE GcAbort
    <2>1. \A s \in Sessions : aborted'[s] => aborted[s] \/ (cancelled[s] /\ ~Registered(s))
      BY <1>0, <1>4, Zenon DEF GcAbort, TaskInv
    <2>2. TaskInv'
      BY <1>0, <1>4, Zenon DEF GcAbort, TaskInv, ClearedStaysEmpty, Cleared
    <2> QED
      BY <1>4, <2>1, <2>2, RuntimeMoves, Zenon DEF GcAbort, Cleared
  <1> QED
    BY <1>1, <1>2, <1>3, <1>4, Zenon DEF Gc

(***************************************************************************)
(* The steps of the shutdown preserve the invariant.                       *)
(***************************************************************************)
LEMMA ShutdownCoreInv == ASSUME IInv, StopLoops \/ ShutdownStep \/ Tick PROVE CoreInv'
  <1> USE DEF callerVars, sessionVars, gcVars, shutVars
  <1>0. TypeOK /\ TaskInv /\ Callers \cap Sessions = {} /\ None \notin Callers \cup Sessions
    BY UdpSessionsAssumption, Zenon DEF IInv, CoreInv
  <1>1. CASE StopLoops
    <2> USE DEF IInv, CoreInv
    <2>1. /\ \A d \in Callers : /\ (pc'[d] = pc[d] /\ on'[d] = on[d]) \/ (pc'[d] = "stopped" /\ on'[d] = None)
                                /\ pc[d] = "notify" => pc'[d] = "notify"
          /\ shut = "up" /\ shut' = "loops"
          /\ UNCHANGED <<closed, sessions, key, ses, task, sessionVars, gcVars, drain>>
      BY <1>0, <1>1, Zenon DEF StopLoops, TypeOK
    <2>2. OwnerInv'
      BY <2>1, ZenonT(30) DEF OwnerInv, Cleared
    <2>3. CallerInv'
      BY <2>1, Zenon DEF CallerInv, Registered
    <2>4. WaiterHasNotifier'
      BY <1>0, <2>1, SMT, SMTT(30) DEF WaiterHasNotifier, TypeOK
    <2>5. MadeInv'
      BY <2>1, Zenon DEF MadeInv, Registered
    <2>6. SessionInv' /\ ReadyIsServed'
      BY <2>1, SMT, SMTT(30) DEF SessionInv, ReadyIsServed, IsReady, Registered
    <2>7. TaskInv'
      BY <2>1, Zenon DEF TaskInv, ClearedStaysEmpty, Cleared, Registered
    <2>8. NoStraySession'
      BY <2>1, Zenon DEF NoStraySession, Alive, CreatedBy
    <2> QED
      BY <2>2, <2>3, <2>4, <2>5, <2>6, <2>7, <2>8, Zenon
  <1>2. CASE StopGc
    <2>1. TaskInv'
      BY <1>0, <1>2, Zenon DEF StopGc, TaskInv, ClearedStaysEmpty, Cleared
    <2> QED
      BY <1>2, <2>1, RuntimeMoves, Zenon DEF StopGc, Cleared
  <1>3. CASE Close
    <2>1. TaskInv'
      BY <1>0, <1>3, Zenon DEF Close, TaskInv, ClearedStaysEmpty, Cleared, Registered
    <2> QED
      BY <1>3, <2>1, RuntimeMoves, Zenon DEF Close, Cleared
  <1>4. CASE Clear
    <2> USE DEF IInv, CoreInv
    <2>1. \A s \in Sessions : cancelled'[s] <=> cancelled[s] \/ Registered(s)
      BY <1>4, Zenon DEF Clear, Cancel
    <2>2. \A k \in Keys : sessions'[k] = None
      BY <1>4, Zenon DEF Clear
    <2>3. \A c \in Callers : /\ on'[c] \in {on[c], None}
                             /\ on'[c] # None => \A k \in Keys : sessions[k] # on[c]
      BY <1>0, <1>4, Zenon DEF Clear, NotifyWaiters, Creators, TypeOK
    <2>4. /\ shut = "closing" /\ shut' = "draining"
          /\ UNCHANGED <<closed, pc, key, ses, task, skey, loop, aborted, gcVars>>
      BY <1>4, Zenon DEF Clear
    <2>5. \A s \in Sessions : ~Registered(s)'
      BY <1>0, <2>2, Zenon DEF Registered
    <2>6. OwnerInv' /\ ReadyIsServed'
      BY <1>0, <2>2, <2>4, SMT, SMTT(30) DEF OwnerInv, ReadyIsServed, IsReady, Cleared
    <2>7. WaiterHasNotifier'
      BY <2>3, <2>4, Zenon DEF WaiterHasNotifier, CallerInv
    <2>8. CallerInv' /\ MadeInv'
      BY <2>1, <2>3, <2>4, <2>5, Zenon DEF CallerInv, MadeInv
    <2>9. SessionInv'
      BY <2>1, <2>4, <2>5, Zenon DEF SessionInv
    <2>10. \A s \in drain' : s \in Sessions /\ Registered(s)
      BY <1>4, Zenon DEF Clear
    <2>11. TaskInv'
      BY <1>0, <2>1, <2>2, <2>4, <2>5, <2>10, Zenon DEF TaskInv, ClearedStaysEmpty, Cleared, TypeOK
    <2>12. NoStraySession'
      BY <2>1, <2>4, ZenonT(30) DEF NoStraySession, Alive, CreatedBy, SessionInv, Registered
    <2> QED
      BY <2>6, <2>7, <2>8, <2>9, <2>11, <2>12, Zenon
  <1>5. CASE DrainTimeout
    <2>1. \A s \in drain : cancelled[s] /\ ~Registered(s)
      BY <1>0, <1>5, SMT, SMTT(30) DEF DrainTimeout, TaskInv, ClearedStaysEmpty, Registered, TypeOK
    <2>2. \A s \in Sessions : aborted'[s] => aborted[s] \/ (cancelled[s] /\ ~Registered(s))
      BY <1>5, <2>1, Zenon DEF DrainTimeout
    <2>3. TaskInv'
      BY <1>0, <1>5, Zenon DEF DrainTimeout, TaskInv, ClearedStaysEmpty, Cleared, Registered
    <2> QED
      BY <1>5, <2>2, <2>3, RuntimeMoves, Zenon DEF DrainTimeout, Cleared
  <1>6. CASE Drained
    <2>1. TaskInv'
      BY <1>0, <1>6, Zenon DEF Drained, TaskInv, ClearedStaysEmpty, Cleared, Registered
    <2> QED
      BY <1>6, <2>1, RuntimeMoves, Zenon DEF Drained, Cleared
  <1>7. CASE Tick
    <2>1. TaskInv'
      BY <1>0, <1>7, Zenon DEF Tick, TaskInv, ClearedStaysEmpty, Cleared, Registered
    <2> QED
      BY <1>7, <2>1, RuntimeMoves, Zenon DEF Tick, Cleared
  <1> QED
    BY <1>1, <1>2, <1>3, <1>4, <1>5, <1>6, <1>7, Zenon DEF ShutdownStep

(***************************************************************************)
(* Every step of the system preserves the invariant.                       *)
(***************************************************************************)
LEMMA NextIInv == IInv /\ [Next]_vars => IInv'
  <1> SUFFICES ASSUME IInv, [Next]_vars PROVE IInv'
    BY Zenon
  <1>1. TypeOK'
    BY NextTypeOK, Zenon DEF IInv
  <1>2. CoreInv'
    <2>1. CASE UNCHANGED vars
      <3>1. TaskInv'
        BY <2>1, Zenon DEF vars, gcVars, sessionVars, shutVars, IInv, CoreInv, TaskInv, ClearedStaysEmpty,
                    Cleared, Registered
      <3> QED
        BY <2>1, <3>1, RuntimeMoves, Zenon DEF vars, callerVars, sessionVars, shutVars, Cleared
    <2>2. CASE \E c \in Callers, k \in Keys : Arrive(c, k) \/ Flush(c, k)
      BY <2>2, CallerCoreInv, Zenon
    <2>3. CASE \E c \in Callers : CallerStep(c) \/ CreateConnect(c) \/ CreateReady(c)
      BY <2>3, CallerCoreInv, FinishCoreInv, CreateCoreInv, Zenon DEF CallerStep, Lookup
    <2> QED
      BY <2>1, <2>2, <2>3, ReceiveCoreInv, GcCoreInv, ShutdownCoreInv, Zenon DEF Next
  <1> QED
    BY <1>1, <1>2, Zenon DEF IInv

(***************************************************************************)
(* The invariant holds in every state of every run.                        *)
(***************************************************************************)
THEOREM Invariance == Spec => []IInv
  BY InitIInv, NextIInv, PTL DEF Spec

-----------------------------------------------------------------------------
(* What follows from the invariant. *)

(***************************************************************************)
(* Two live sessions of one key would both be in its one entry, both be    *)
(* made by its one creator, or one of each.                                *)
(***************************************************************************)
LEMMA SingleLive == IInv => SingleLiveSession
  <1> SUFFICES ASSUME IInv, NEW s \in Sessions, NEW t \in Sessions, Alive(s), Alive(t),
                      skey[s] = skey[t]
               PROVE  s = t
    BY Zenon DEF SingleLiveSession
  <1>1. skey[s] \in Keys
    BY Zenon DEF IInv, CoreInv, SessionInv, Alive
  <1>2. CASE sessions[skey[s]] = s /\ sessions[skey[t]] = t
    BY <1>2, Zenon
  <1>3. ASSUME NEW u \in Sessions, NEW v \in Sessions, skey[u] = skey[v], skey[u] \in Keys,
               sessions[skey[u]] = u, NEW c \in Callers, CreatedBy(c, v)
        PROVE  FALSE
    <2>1. task[c] # "none" /\ key[c] = skey[u]
      BY <1>3, Zenon DEF CreatedBy, IInv, CoreInv, MadeInv
    <2>2. sessions[skey[u]] # c
      BY <1>3, UdpSessionsAssumption, Zenon
    <2>3. Cleared
      BY <2>1, <2>2, ZenonT(30) DEF IInv, CoreInv, OwnerInv
    <2>4. sessions[skey[u]] = None
      BY <1>3, <2>3, Zenon DEF IInv, CoreInv, TaskInv, ClearedStaysEmpty, Cleared
    <2> QED
      BY <1>3, <2>4, UdpSessionsAssumption, Zenon
  <1>4. CASE \E c, d \in Callers : CreatedBy(c, s) /\ CreatedBy(d, t)
    BY <1>4, SMT, SMTT(30) DEF CreatedBy, IInv, CoreInv, MadeInv, OwnerInv
  <1> QED
    BY <1>1, <1>2, <1>3, <1>4, Zenon DEF IInv, CoreInv, NoStraySession

(***************************************************************************)
(* A client flow never has two live sessions, a waiter always has a        *)
(* notifier, a Ready entry always has a receive loop, a live session is    *)
(* in the map or with its creator, and a cleared map stays empty: for any  *)
(* number of keys, packet tasks, UDP loops and sessions.                   *)
(***************************************************************************)
THEOREM SingleLiveSessionHolds == Spec => []SingleLiveSession
  BY Invariance, SingleLive, PTL

\* A caller of get_or_create_udp_session never awaits a Notify nobody notifies.
THEOREM WaiterHasNotifierHolds == Spec => []WaiterHasNotifier
  <1>1. IInv => WaiterHasNotifier
    BY Zenon DEF IInv, CoreInv
  <1> QED
    BY <1>1, Invariance, PTL

\* A Ready entry is always removed by a receive loop that still runs.
THEOREM ReadyIsServedHolds == Spec => []ReadyIsServed
  <1>1. IInv => ReadyIsServed
    BY Zenon DEF IInv, CoreInv
  <1> QED
    BY <1>1, Invariance, PTL

\* A live session is in the map or belongs to the caller that creates it.
THEOREM NoStraySessionHolds == Spec => []NoStraySession
  <1>1. IInv => NoStraySession
    BY Zenon DEF IInv, CoreInv
  <1> QED
    BY <1>1, Invariance, PTL

\* Nothing enters the map after UdpRuntime::shutdown has cleared it.
THEOREM ClearedStaysEmptyHolds == Spec => []ClearedStaysEmpty
  <1>1. IInv => ClearedStaysEmpty
    BY Zenon DEF IInv, CoreInv, TaskInv
  <1> QED
    BY <1>1, Invariance, PTL

-----------------------------------------------------------------------------
(* Eviction. *)

\* The clock the GC has read is not ahead of the clock.
GcClockInv == gcNow <= now

(***************************************************************************)
(* The GC works with a time in the past, whatever happens since it read    *)
(* the clock.                                                              *)
(***************************************************************************)
LEMMA GcClock == Spec => []GcClockInv
  <1>1. Init => GcClockInv
    BY SMT, SMTT(30) DEF Init, GcClockInv
  <1>2. TypeOK /\ GcClockInv /\ [Next]_vars => GcClockInv'
    <2> SUFFICES ASSUME TypeOK, GcClockInv, [Next]_vars PROVE GcClockInv'
      BY Zenon
    <2>1. (now' = now /\ gcNow' \in {gcNow, 0, now}) \/ (now' = now + 1 /\ gcNow' = gcNow)
      <3> USE DEF callerVars, sessionVars, gcVars, shutVars
      <3>1. ASSUME NEW c \in Callers, CallerStep(c) \/ CreateConnect(c) \/ CreateReady(c)
                   \/ \E k \in Keys : Arrive(c, k) \/ Flush(c, k)
            PROVE  now' = now /\ gcNow' = gcNow
        <4>1. CASE Lookup(c)
          BY <4>1, Zenon DEF Lookup, LookupClosed, LookupReady, LookupCreating, LookupVacant
        <4>2. CASE Finish(c)
          BY <4>2, Zenon DEF Finish, JoinFailed, FinishClosed, FinishCancelled, FinishReady, FinishErr
        <4>3. CASE Probe(c) \/ Call(c) \/ JoinFailedNotify(c) \/ AbortRecvTask(c) \/ Send(c)
          BY <4>3, Zenon DEF Probe, Call, JoinFailedNotify, AbortRecvTask, Send
        <4>4. CASE CreateConnect(c) \/ CreateReady(c)
          BY <4>4, Zenon DEF CreateConnect, CreateErr, CreatePanic, CreateSpawn, CreateReady
        <4>5. CASE \E k \in Keys : Arrive(c, k) \/ Flush(c, k)
          BY <4>5, Zenon DEF Arrive, Flush
        <4> QED
          BY <3>1, <4>1, <4>2, <4>3, <4>4, <4>5, Zenon DEF CallerStep
      <3>2. ASSUME NEW s \in Sessions, RecvStep(s) \/ RecvReply(s) \/ RecvStop(s)
            PROVE  now' = now /\ gcNow' = gcNow
        BY <3>2, Zenon DEF RecvStep, RecvStart, RecvCancelled, RecvExit, RecvAborted, RecvReply, RecvStop
      <3>3. CASE Gc
        BY <3>3, Zenon DEF Gc, GcWake, GcSnapshot, GcCollect, GcAbort
      <3>4. CASE StopLoops \/ ShutdownStep \/ Tick
        BY <3>4, Zenon DEF StopLoops, ShutdownStep, StopGc, Close, Clear, DrainTimeout, Drained, Tick
      <3>5. CASE UNCHANGED vars
        BY <3>5, Zenon DEF vars
      <3> QED
        BY <3>1, <3>2, <3>3, <3>4, <3>5, Zenon DEF Next
    <2> QED
      BY <2>1, SMT, SMTT(30) DEF TypeOK, GcClockInv
  <1> QED
    BY <1>1, <1>2, TypeCorrect, PTL DEF Spec

(***************************************************************************)
(* The steps that touch the map or a cancellation token.                   *)
(***************************************************************************)
LEMMA MapChanges ==
  ASSUME [Next]_vars
  PROVE  \/ UNCHANGED <<sessions, cancelled, shut>>
         \/ UNCHANGED <<sessions, cancelled>> /\ (StopLoops \/ StopGc \/ Close \/ Drained)
         \/ GcCollect \/ Clear
         \/ \E c \in Callers : Finish(c) \/ LookupVacant(c)
         \/ \E t \in Sessions : RecvExit(t) \/ RecvStop(t)
  <1> USE DEF callerVars, sessionVars, gcVars, shutVars
  <1>1. ASSUME NEW c \in Callers, CallerStep(c) \/ CreateConnect(c) \/ CreateReady(c)
               \/ \E k \in Keys : Arrive(c, k) \/ Flush(c, k)
        PROVE  UNCHANGED <<sessions, cancelled, shut>> \/ Finish(c) \/ LookupVacant(c)
    BY <1>1, Zenon DEF CallerStep, CreateConnect, CreateReady, Arrive, Flush, Probe, Call, Lookup,
                LookupClosed, LookupReady, LookupCreating, JoinFailedNotify, AbortRecvTask,
                Send, CreateErr, CreatePanic, CreateSpawn
  <1>2. ASSUME NEW t \in Sessions, RecvStep(t) \/ RecvReply(t) \/ RecvStop(t)
        PROVE  UNCHANGED <<sessions, cancelled, shut>> \/ RecvExit(t) \/ RecvStop(t)
    BY <1>2, Zenon DEF RecvStep, RecvStart, RecvCancelled, RecvAborted, RecvReply
  <1>3. CASE Gc \/ StopLoops \/ ShutdownStep \/ Tick
    BY <1>3, Zenon DEF Gc, GcWake, GcSnapshot, GcAbort, StopLoops, ShutdownStep, StopGc, Close,
                DrainTimeout, Drained, Tick
  <1>4. CASE UNCHANGED vars
    BY <1>4, Zenon DEF vars
  <1> QED
    BY <1>1, <1>2, <1>3, <1>4, Zenon DEF Next

(***************************************************************************)
(* Only the GC takes a live session out of the map of an open runtime, and *)
(* only one that was idle long enough.                                     *)
(***************************************************************************)
LEMMA EvictionStep ==
  ASSUME IInv, GcClockInv, [Next]_vars, NEW s \in Sessions,
         Registered(s), ~Registered(s)', Alive(s), ~closed
  PROVE  lastSeen[s] + Timeout <= now
  <1> USE UdpSessionsAssumption
      DEF callerVars, sessionVars, gcVars, shutVars, Registered, IsReady, TypeOK
  <1>1. CASE GcCollect
    <2>1. s \in StillExpired
      BY <1>1, ZenonT(30) DEF GcCollect, StillExpired, IInv
    <2>2. SaturatingSub(gcNow, lastSeen[s]) >= Timeout
      BY <2>1, Zenon DEF StillExpired, Expired
    <2>3. lastSeen[s] \in Nat /\ gcNow \in Nat /\ now \in Nat
      BY Zenon DEF IInv
    <2> QED
      BY <2>2, <2>3, SMT, SMTT(30) DEF SaturatingSub, GcClockInv
  <1>2. CASE \E t \in Sessions : RecvExit(t)
    BY <1>2, SMT, SMTT(30) DEF RecvExit, ShouldRemove, Alive, IInv, CoreInv, SessionInv
  <1>3. CASE Clear
    BY <1>3, Zenon DEF Clear, IInv, CoreInv, TaskInv
  <1>4. CASE \E c \in Callers : Finish(c)
    <2> PICK c \in Callers : Finish(c)
      BY <1>4, Zenon
    <2>1. key[c] \in Keys /\ sessions[key[c]] = c
      BY Zenon DEF Finish, JoinFailed, FinishClosed, FinishCancelled, FinishReady, FinishErr, IInv, CoreInv,
             OwnerInv, CallerInv, TaskInv, Cleared
    <2>2. \A k \in Keys : k # key[c] => sessions'[k] = sessions[k]
      BY Zenon DEF Finish, JoinFailed, FinishClosed, FinishCancelled, FinishReady, FinishErr, IInv
    <2> QED
      BY <2>1, <2>2, Zenon
  <1>5. CASE \E c \in Callers : LookupVacant(c)
    <2> PICK c \in Callers : LookupVacant(c)
      BY <1>5, Zenon
    <2>1. sessions[key[c]] = None /\ \A k \in Keys : k # key[c] => sessions'[k] = sessions[k]
      BY Zenon DEF LookupVacant, IInv
    <2> QED
      BY <2>1, Zenon
  <1>6. CASE UNCHANGED sessions \/ \E t \in Sessions : RecvStop(t)
    BY <1>6, ZenonT(30) DEF RecvStop
  <1> QED
    BY <1>1, <1>2, <1>3, <1>4, <1>5, <1>6, MapChanges, Zenon

(***************************************************************************)
(* Until the shutdown, cleanup_expired_sessions evicts a session with a    *)
(* working receive loop only after udp_session_timeout_secs of silence.    *)
(***************************************************************************)
THEOREM EvictedOnlyIdleHolds == Spec => EvictedOnlyIdle
  <1>1. IInv /\ GcClockInv /\ [Next]_vars =>
           [\A s \in Sessions :
               Registered(s) /\ ~Registered(s)' /\ Alive(s) /\ ~closed
                   => lastSeen[s] + Timeout <= now]_vars
    BY EvictionStep, Zenon
  <1> QED
    BY <1>1, Invariance, GcClock, PTL DEF Spec, EvictedOnlyIdle

-----------------------------------------------------------------------------
(* UdpRuntime implements SessionRegistry. *)

(***************************************************************************)
(* A step that changes no Ready entry, no token and not whether the map is *)
(* cleared is a stuttering step of the registry.                           *)
(***************************************************************************)
LEMMA QuietStep ==
  ASSUME \A k \in Keys : sessions'[k] = sessions[k] \/ (sessions[k] \notin Sessions /\ sessions'[k] \notin Sessions),
         UNCHANGED cancelled, Cleared' <=> Cleared
  PROVE  UNCHANGED Registry!vars
  <1>1. \A s \in Sessions : Registered(s)' <=> Registered(s)
    BY Zenon DEF Registered
  <1>2. \A k \in Keys : /\ IsReady(k)' <=> IsReady(k)
                        /\ IsReady(k) => sessions'[k] = sessions[k]
    BY Zenon DEF IsReady
  <1> QED
    BY <1>1, <1>2, Zenon DEF Registry!vars, Cleared

(***************************************************************************)
(* A new UdpRuntime is an empty, open registry.                            *)
(***************************************************************************)
LEMMA RegistryInit == Init => Registry!Init
  BY UdpSessionsAssumption, SMT, SMTT(30) DEF Init, Registry!Init, IsReady, Registered

(***************************************************************************)
(* Every step of UdpRuntime is a step of the registry or a stutter.        *)
(***************************************************************************)
LEMMA RegistryStep ==
  ASSUME IInv, [Next]_vars
  PROVE  [Registry!Next]_(Registry!vars)
  <1> USE UdpSessionsAssumption DEF callerVars, sessionVars, gcVars, shutVars, TypeOK
  <1>1. CASE UNCHANGED <<sessions, cancelled, shut>>
    BY <1>1, QuietStep, Zenon DEF Cleared
  <1>2. CASE UNCHANGED <<sessions, cancelled>> /\ (StopLoops \/ StopGc \/ Close \/ Drained)
    BY <1>2, QuietStep, Zenon DEF Cleared, StopLoops, StopGc, Close, Drained
  <1>3. CASE \E c \in Callers : LookupVacant(c)
    <2> PICK c \in Callers : LookupVacant(c)
      BY <1>3, Zenon
    <2>1. \A k \in Keys : sessions'[k] = sessions[k] \/ (sessions[k] \notin Sessions /\ sessions'[k] \notin Sessions)
      BY Zenon DEF LookupVacant, IInv
    <2> QED
      BY <2>1, QuietStep, Zenon DEF LookupVacant, Cleared
  <1>4. CASE \E c \in Callers : FinishReady(c)
    <2> PICK c \in Callers : FinishReady(c)
      BY <1>4, Zenon
    <2>1. key[c] \in Keys /\ ses[c] \in Sessions /\ sessions[key[c]] = c
      BY Zenon DEF FinishReady, MayRegister, IInv, CoreInv, CallerInv, OwnerInv, MadeInv, TaskInv, Cleared
    <2>2. ~Registered(ses[c]) /\ ~cancelled[ses[c]]
      BY Zenon DEF FinishReady, MayRegister, IInv, CoreInv, MadeInv
    <2>3. sessions' = [sessions EXCEPT ![key[c]] = ses[c]] /\ UNCHANGED <<cancelled, shut>>
      BY Zenon DEF FinishReady
    <2>4. ~Cleared
      BY Zenon DEF FinishReady, MayRegister, Cleared, IInv, CoreInv, TaskInv
    <2>5. \A s \in Sessions : Registered(s)' <=> Registered(s) \/ s = ses[c]
      BY <2>1, <2>3, SMT, SMTT(30) DEF Registered, IInv
    <2>6. PICK k \in Keys, s \in Sessions : k = key[c] /\ s = ses[c]
      BY <2>1, Zenon
    <2> DEFINE Reg  == [j \in Keys |-> IF IsReady(j) THEN sessions[j] ELSE None]
               Life == [t \in Sessions |-> IF cancelled[t] THEN "dead"
                                           ELSE IF Registered(t) THEN "live" ELSE "fresh"]
    <2>7. Reg[k] = None /\ Reg' = [Reg EXCEPT ![k] = s]
      <3>1. sessions \in [Keys -> Callers \cup Sessions \cup {None}] /\ sessions[k] \notin Sessions
        <4>1. sessions \in [Keys -> Callers \cup Sessions \cup {None}]
          BY Zenon DEF IInv, TypeOK
        <4> QED
          BY <2>1, <2>6, <4>1, UdpSessionsAssumption, Zenon
      <3>2. \A j \in Keys : sessions'[j] = IF j = k THEN s ELSE sessions[j]
        BY <2>3, <2>6, <3>1, Zenon
      <3> QED
        BY <2>6, <3>1, <3>2, Zenon DEF IsReady
    <2>8. Life[s] = "fresh" /\ Life' = [Life EXCEPT ![s] = "live"]
      <3> HIDE DEF Registered
      <3> QED
        BY <2>2, <2>3, <2>5, <2>6, Zenon
    <2>9. shut \notin {"draining", "down"} /\ (shut \notin {"draining", "down"})'
      BY <2>3, <2>4, Zenon DEF Cleared
    <2>10. Registry!Publish(k, s)
      BY <2>7, <2>8, <2>9, ZenonT(30) DEF Registry!Publish
    <2> QED
      BY <2>10, Zenon DEF Registry!Next
  <1>5. CASE \E c \in Callers : JoinFailed(c) \/ FinishCancelled(c) \/ FinishErr(c)
    <2> PICK c \in Callers : JoinFailed(c) \/ FinishCancelled(c) \/ FinishErr(c)
      BY <1>5, Zenon
    <2>1. key[c] \in Keys /\ (sessions[key[c]] = c \/ sessions[key[c]] = None)
      BY Zenon DEF JoinFailed, FinishCancelled, FinishErr, IInv, CoreInv, CallerInv, OwnerInv, TaskInv, Cleared,
             ClearedStaysEmpty
    <2>2. sessions' = [sessions EXCEPT ![key[c]] = None] /\ UNCHANGED <<cancelled, shut>>
      BY Zenon DEF JoinFailed, FinishCancelled, FinishErr
    <2>3. \A k \in Keys : sessions'[k] = sessions[k] \/ (sessions[k] \notin Sessions /\ sessions'[k] \notin Sessions)
      BY <2>1, <2>2, SMT, SMTT(30) DEF IInv
    <2> QED
      BY <2>2, <2>3, QuietStep, Zenon DEF Cleared
  <1>6. CASE \E c \in Callers : FinishClosed(c)
    <2> PICK c \in Callers : FinishClosed(c)
      BY <1>6, Zenon
    <2>1. key[c] \in Keys /\ (sessions[key[c]] = c \/ sessions[key[c]] = None)
      BY Zenon DEF FinishClosed, IInv, CoreInv, CallerInv, OwnerInv, TaskInv, Cleared, ClearedStaysEmpty
    <2>2. sessions' = [sessions EXCEPT ![key[c]] = None] /\ UNCHANGED shut
      BY Zenon DEF FinishClosed
    <2>3. \A k \in Keys : sessions'[k] = sessions[k] \/ (sessions[k] \notin Sessions /\ sessions'[k] \notin Sessions)
      BY <2>1, <2>2, SMT, SMTT(30) DEF IInv
    <2>4. CASE UNCHANGED cancelled
      BY <2>2, <2>3, <2>4, QuietStep, Zenon DEF Cleared
    <2>5. CASE task[c] = "ok" /\ ~cancelled[ses[c]]
      <3>1. PICK s \in Sessions : s = ses[c]
        BY <2>5, Zenon DEF IInv, CoreInv, MadeInv
      <3>2. \A t \in Sessions : cancelled'[t] <=> cancelled[t] \/ t = s
        BY <2>5, <3>1, ZenonT(30) DEF FinishClosed, Cancel
      <3>3. \A t \in Sessions : Registered(t)' <=> Registered(t)
        BY <2>3, Zenon DEF Registered
      <3>4. \A k \in Keys : /\ IsReady(k)' <=> IsReady(k)
                            /\ IsReady(k) => sessions'[k] = sessions[k]
        BY <2>3, Zenon DEF IsReady
      <3>5. Registry!Die(s)
        BY <2>2, <2>5, <3>1, <3>2, <3>3, <3>4, SMT, SMTT(30) DEF Registry!Die
      <3> QED
        BY <3>5, Zenon DEF Registry!Next
    <2>6. CASE task[c] = "ok" /\ cancelled[ses[c]]
      <3>1. cancelled' = cancelled
        BY <2>6, SMT, SMTT(30) DEF FinishClosed, Cancel, IInv
      <3> QED
        BY <2>4, <3>1, Zenon
    <2> QED
      BY <2>4, <2>5, <2>6, Zenon DEF FinishClosed
  <1>7. CASE \E s \in Sessions : RecvStop(s)
    <2> PICK s \in Sessions : RecvStop(s)
      BY <1>7, Zenon
    <2>1. \A t \in Sessions : cancelled'[t] <=> cancelled[t] \/ t = s
      BY ZenonT(30) DEF RecvStop, Cancel
    <2>2. UNCHANGED <<sessions, shut>> /\ ~cancelled[s]
      BY Zenon DEF RecvStop
    <2>3. Registry!Die(s)
      BY <2>1, <2>2, ZenonT(30) DEF Registry!Die, Registered, IsReady
    <2> QED
      BY <2>3, Zenon DEF Registry!Next
  <1>8. CASE \E s \in Sessions : RecvExit(s)
    <2> PICK s \in Sessions : RecvExit(s)
      BY <1>8, Zenon
    <2>1. skey[s] \in Keys /\ cancelled[s]
      BY Zenon DEF RecvExit, IInv, CoreInv, SessionInv
    <2>2. UNCHANGED <<cancelled, shut>>
      BY Zenon DEF RecvExit
    <2>3. CASE sessions[skey[s]] # s
      <3>1. \A k \in Keys : sessions'[k] = sessions[k]
        BY <2>3, Zenon DEF RecvExit, ShouldRemove, IInv
      <3> QED
        BY <2>2, <3>1, QuietStep, Zenon DEF Cleared
    <2>4. CASE sessions[skey[s]] = s
      <3>1. \A k \in Keys : sessions[k] = s <=> k = skey[s]
        BY <2>1, <2>4, SMT, SMTT(30) DEF IInv, CoreInv, ReadyIsServed, IsReady
      <3>2. \A k \in Keys : sessions'[k] = IF sessions[k] = s THEN None ELSE sessions[k]
        BY <2>4, <3>1, Zenon DEF RecvExit, ShouldRemove
      <3>3. \A t \in Sessions : t # s => (Registered(t)' <=> Registered(t))
        BY <3>2, Zenon DEF Registered
      <3>4. Registry!Evict({s})
        BY <2>1, <2>2, <2>4, <3>2, <3>3, Zenon DEF Registry!Evict, IsReady
      <3> QED
        BY <3>4, Zenon DEF Registry!Next
    <2> QED
      BY <2>3, <2>4, Zenon
  <1>9. CASE GcCollect
    <2>1. StillExpired \subseteq Sessions /\ \A s \in StillExpired : skey[s] \in Keys /\ sessions[skey[s]] = s
      BY <1>9, Zenon DEF GcCollect, StillExpired, ShouldRemove, IInv, CoreInv, TaskInv, SessionInv
    <2>2. \A k \in Keys : sessions'[k] = IF sessions[k] \in StillExpired THEN None ELSE sessions[k]
      BY <1>9, Zenon DEF GcCollect
    <2>3. \A s \in Sessions : cancelled'[s] <=> cancelled[s] \/ s \in StillExpired
      BY <1>9, ZenonT(30) DEF GcCollect, Cancel
    <2>4. \A s \in Sessions : s \notin StillExpired => (Registered(s)' <=> Registered(s))
      BY <2>2, Zenon DEF Registered
    <2>5. UNCHANGED shut
      BY <1>9, Zenon DEF GcCollect
    <2>6. PICK S \in SUBSET Sessions : S = StillExpired
      BY <2>1, Zenon
    <2>7. Registry!Evict(S)
      BY <2>1, <2>2, <2>3, <2>4, <2>5, <2>6, SMT, SMTT(30) DEF Registry!Evict, IsReady
    <2> QED
      BY <2>7, Zenon DEF Registry!Next
  <1>10. CASE Clear
    <2>1. \A k \in Keys : sessions'[k] = None
      BY <1>10, Zenon DEF Clear
    <2>2. \A s \in Sessions : cancelled'[s] <=> cancelled[s] \/ Registered(s)
      BY <1>10, ZenonT(30) DEF Clear, Cancel
    <2>3. \A s \in Sessions : ~Registered(s)'
      BY <2>1, Zenon DEF Registered
    <2>4. shut = "closing" /\ shut' = "draining"
      BY <1>10, Zenon DEF Clear
    <2>5. Registry!Seal
      BY <2>1, <2>2, <2>3, <2>4, SMT, SMTT(30) DEF Registry!Seal, IsReady, Registered
    <2> QED
      BY <2>5, Zenon DEF Registry!Next
  <1> QED
    BY <1>1, <1>2, <1>3, <1>4, <1>5, <1>6, <1>7, <1>8, <1>9, <1>10, MapChanges, Zenon DEF Finish

(***************************************************************************)
(* The detailed registry implements the abstract one: users of UdpRuntime  *)
(* may reason with Publish, Die, Evict and Seal alone.                     *)
(***************************************************************************)
THEOREM Refinement == Spec => ImplementsRegistry
  BY RegistryInit, RegistryStep, Invariance, PTL DEF Spec, ImplementsRegistry, Registry!Spec

=============================================================================
