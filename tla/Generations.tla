---------------------------- MODULE Generations ----------------------------
(***************************************************************************)
(* Generations of the proxy (src/main.rs, src/state.rs, TaskGuard in       *)
(* src/util.rs, FakeUdpManager in src/udp/fake.rs).                        *)
(*                                                                         *)
(* An AppState is one generation of the service: its sockets, its tasks    *)
(* and the guards that stop them.  SIGHUP builds and starts a new          *)
(* generation beside the old one, swaps it in and retires the old one;     *)
(* a failure rolls the new one back.  Connections accepted by a retired    *)
(* generation live on and keep it alive; it is dropped with its last Arc.  *)
(* Ctrl-C stops the signal handlers and then the current generation.       *)
(*                                                                         *)
(* A step of the model is a stretch of code between two points at which    *)
(* another thread, an await or an abort can intervene.  The tasks of a     *)
(* guard are one task, except the TCP handlers, which are connections.     *)
(* Deadlines are not measured: whoever is awaited may end in time or be    *)
(* aborted.                                                                *)
(***************************************************************************)
EXTENDS Naturals, Sequences, FiniteSets

CONSTANTS
    Conns,      \* TCP connections, each accepted once
    MaxGens,    \* bound on the generations built (the first one included)
    Configs     \* what the configuration file may say at the start and at the
                \* reloads that follow: sequences of sets of optional tasks

\* Tasks that exist only if the configuration asks for them.
Optional == {"udp_listeners", "port_forwards", "health_check",
             "relative_score", "score_debug_printer"}

ASSUME ConfigAssumption ==
    /\ MaxGens \in Nat \ {0}
    /\ Configs \subseteq UNION {[1 .. n -> SUBSET Optional] : n \in 1 .. MaxGens}

Gens == 1 .. MaxGens

(***************************************************************************)
(* shutdown_for_reload stops the guards in this order.  "udp" stands for   *)
(* the receive loops of the UDP sessions (UdpRuntime::shutdown), whose     *)
(* last two steps close and clear the manager of fake sockets.             *)
(***************************************************************************)

\* Mutation of ReloadStages: the fake sockets go before the receive loops.
FakeSocketsFirst == <<"tcp_listeners", "udp_listeners", "port_forwards", "udp_gc",
                      "fake_close", "fake_clear", "udp",
                      "upstream_scores", "health_check">>

ReloadStages == <<"tcp_listeners", "udp_listeners", "port_forwards", "udp_gc",
                  "udp", "fake_close", "fake_clear",
                  "upstream_scores", "health_check">>

\* Mutation of ExitStages: the handlers are stopped before the listeners.
HandlersFirst == <<"tcp_handlers">> \o ReloadStages

\* shutdown_for_exit also stops the accepted connections.
ExitStages == Append(ReloadStages, "tcp_handlers")

\* The single tasks of a generation, and those that hold an Arc<AppState>.
Tasks == {"tcp_listeners", "udp_listeners", "port_forwards", "udp_gc", "udp",
          "upstream_scores", "health_check", "relative_score", "score_debug_printer"}
ArcTasks == Tasks \ {"upstream_scores", "score_debug_printer"}
Guards == Tasks \cup {"tcp_handlers"}

ASSUME ConnsAssumption == Conns \cap Tasks = {}

\* Loops that accept TCP connections, and loops that create UDP sessions.
Acceptors == {"tcp_listeners", "port_forwards"}
UdpLoops == {"udp_listeners", "port_forwards"}

VARIABLES
    built,      \* generations built so far
    cfg,        \* the configuration of each generation
    current,    \* the generation in the ArcSwap
    served,     \* generations that have been current
    task,       \* the tasks that run, of each generation
    cancelled,  \* guards whose token is cancelled, of each generation
    conn,       \* the connections: generation, acceptor and state
    stray,      \* a receive loop outside the session map, "evicted" or "orphan", or
                \* a task for a packet whose UDP loop is gone, "packet"; or "none"
    fakeClosed, \* generations whose fake socket manager is closed
    fakeSock,   \* generations that hold a fake socket
    reply,      \* where the receive loops of each generation are in get_or_create
    dropped,    \* generations whose AppState has been dropped
    done,       \* the shutdown each generation has been through
    sd,         \* the shutdown that is running: generation, stages left, awaited tasks
    main,       \* program counter of main
    hup,        \* program counter of the SIGHUP handler
    hupNew,     \* new_arc of reload_config (0: none)
    hupOld      \* old_arc of reload_config (0: none)

genVars == <<built, cfg, current, served, dropped, done>>
taskVars == <<task, cancelled, conn, stray>>
fakeVars == <<fakeClosed, fakeSock, reply>>
ctlVars == <<sd, main, hup, hupNew, hupOld>>
vars == <<genVars, taskVars, fakeVars, ctlVars>>

NoShutdown == [gen |-> 0, left |-> <<>>, wait |-> {}]

(***************************************************************************)
(* What is alive.                                                          *)
(***************************************************************************)
Running(g, k) == k \in task[g]
ConnsOf(g, st) == {c \in Conns : conn[c].gen = g /\ conn[c].st = st}
LiveConns(g) == ConnsOf(g, "accepted") \cup ConnsOf(g, "running")

\* The handles a guard holds.
Handles(g, k) ==
    IF k = "tcp_handlers" THEN ConnsOf(g, "running")
    ELSE IF k \in Tasks /\ Running(g, k) THEN {k} ELSE {}

\* Whether a task or a handler with this handle has ended.
Ended(g, t) == IF t \in Conns THEN conn[t].st = "ended" ELSE ~Running(g, t)

\* Mutation of Held: the handlers hold no Arc.
HeldWithoutHandlers(g) ==
    \/ current = g
    \/ g \in {hupNew, hupOld}
    \/ \E k \in ArcTasks : Running(g, k)
    \/ stray[g] # "none"

\* Somebody holds an Arc of the generation: it is not dropped.
Held(g) ==
    \/ current = g
    \/ g \in {hupNew, hupOld}
    \/ \E k \in ArcTasks : Running(g, k)
    \/ stray[g] # "none"
    \/ LiveConns(g) # {}

Init ==
    /\ built = 1
    /\ cfg \in Configs
    /\ current = 1
    /\ served = {1}
    /\ task = [g \in Gens |-> {}]
    /\ cancelled = [g \in Gens |-> {}]
    /\ conn = [c \in Conns |-> [gen |-> 0, via |-> "none", st |-> "none"]]
    /\ stray = [g \in Gens |-> "none"]
    /\ fakeClosed = {}
    /\ fakeSock = {}
    /\ reply = [g \in Gens |-> [udp |-> "idle", stray |-> "idle"]]
    /\ dropped = {}
    /\ done = [g \in Gens |-> "no"]
    /\ sd = NoShutdown
    /\ main = "listeners"
    /\ hup = "idle"
    /\ hupNew = 0
    /\ hupOld = 0

(***************************************************************************)
(* spawn_all_tasks, for the first generation by main and for a new one by  *)
(* the SIGHUP handler.  It has no await: an abort cannot stop it half way, *)
(* but the tasks it has spawned run at once.                               *)
(***************************************************************************)
Spawn(g, ks) == task' = [task EXCEPT ![g] = @ \cup ks]

\* spawn_listener_tasks: the TCP sockets are bound and served before the UDP
\* sockets are bound; either may fail.
SpawnListeners(g, ok) ==
    \/ ok /\ Spawn(g, {"tcp_listeners"} \cup (cfg[g] \cap {"udp_listeners"}))
    \/ ~ok /\ UNCHANGED task
    \/ ~ok /\ "udp_listeners" \in cfg[g] /\ Spawn(g, {"tcp_listeners"})

\* spawn_port_forward_tasks binds every socket before it spawns any task.
SpawnPortForwards(g, ok) ==
    \/ ok /\ Spawn(g, cfg[g] \cap {"port_forwards"})
    \/ ~ok /\ "port_forwards" \in cfg[g] /\ UNCHANGED task

\* The rest of spawn_all_tasks cannot fail.
SpawnRest(g) ==
    Spawn(g, {"upstream_scores", "udp_gc"}
             \cup (cfg[g] \cap {"health_check", "relative_score", "score_debug_printer"}))

MainSpawn ==
    /\ \/ /\ main = "listeners"
          /\ \E ok \in BOOLEAN : SpawnListeners(1, ok) /\ main' = IF ok THEN "forwards" ELSE "failed"
       \/ /\ main = "forwards"
          /\ \E ok \in BOOLEAN : SpawnPortForwards(1, ok) /\ main' = IF ok THEN "rest" ELSE "failed"
       \/ /\ main = "rest"
          /\ SpawnRest(1)
          /\ main' = "serving"
    /\ UNCHANGED <<genVars, cancelled, conn, stray, fakeVars, sd, hup, hupNew, hupOld>>

(***************************************************************************)
(* reload_config.  A configuration that cannot be read, parsed, validated  *)
(* or built leaves everything as it was.                                   *)
(***************************************************************************)
HupSignal ==
    /\ main \in {"serving", "stop_stats"}
    /\ hup = "idle"
    /\ hup' = "building"
    /\ UNCHANGED <<genVars, taskVars, fakeVars, sd, main, hupNew, hupOld>>

BuildFails ==
    /\ hup = "building"
    /\ hup' = "idle"
    /\ UNCHANGED <<genVars, taskVars, fakeVars, sd, main, hupNew, hupOld>>

Build ==
    /\ hup = "building"
    /\ built < Len(cfg)
    /\ built' = built + 1
    /\ hupNew' = built + 1
    /\ hup' = "listeners"
    /\ UNCHANGED <<cfg, current, served, dropped, done, taskVars, fakeVars, sd, main, hupOld>>

\* The new generation runs beside the old one; a failure starts the rollback.
HupSpawn ==
    /\ \/ /\ hup = "listeners"
          /\ \E ok \in BOOLEAN :
                /\ SpawnListeners(hupNew, ok)
                /\ hup' = IF ok THEN "forwards" ELSE "rollback"
                /\ sd' = IF ok THEN sd ELSE [gen |-> hupNew, left |-> ExitStages, wait |-> {}]
       \/ /\ hup = "forwards"
          /\ \E ok \in BOOLEAN :
                /\ SpawnPortForwards(hupNew, ok)
                /\ hup' = IF ok THEN "rest" ELSE "rollback"
                /\ sd' = IF ok THEN sd ELSE [gen |-> hupNew, left |-> ExitStages, wait |-> {}]
       \/ /\ hup = "rest"
          /\ SpawnRest(hupNew)
          /\ hup' = "swap"
          /\ UNCHANGED sd
    /\ UNCHANGED <<genVars, cancelled, conn, stray, fakeVars, main, hupNew, hupOld>>

\* Mutation of Swap: the wrong generation is retired.
RetireNew ==
    /\ hup = "swap"
    /\ hupOld' = current
    /\ sd' = [gen |-> hupNew, left |-> ReloadStages, wait |-> {}]
    /\ current' = hupNew
    /\ served' = served \cup {hupNew}
    /\ hup' = "retiring"
    /\ UNCHANGED <<built, cfg, dropped, done, taskVars, fakeVars, main, hupNew>>

\* The new generation is swapped in and the shutdown of the old one begins.
Swap ==
    /\ hup = "swap"
    /\ hupOld' = current
    /\ sd' = [gen |-> current, left |-> ReloadStages, wait |-> {}]
    /\ current' = hupNew
    /\ served' = served \cup {hupNew}
    /\ hup' = "retiring"
    /\ UNCHANGED <<built, cfg, dropped, done, taskVars, fakeVars, main, hupNew>>

(***************************************************************************)
(* TaskGuard::shutdown, guard after guard.  It cancels the token, takes    *)
(* the handles out of the guard and awaits each; past the deadline a task  *)
(* is aborted and joined.  A task spawned after the handles were taken is  *)
(* cancelled by its token but awaited by nobody.                           *)
(***************************************************************************)
ShutdownStage ==
    /\ sd.gen # 0
    /\ sd.wait = {}
    /\ sd.left # <<>>
    /\ LET g == sd.gen
           k == Head(sd.left)
       IN /\ cancelled' = [cancelled EXCEPT ![g] = @ \cup ({k} \cap Guards)]
          /\ fakeClosed' = IF k = "fake_close" THEN fakeClosed \cup {g} ELSE fakeClosed
          /\ fakeSock' = IF k = "fake_clear" THEN fakeSock \ {g} ELSE fakeSock
          /\ sd' = [sd EXCEPT !.left = Tail(@), !.wait = Handles(g, k)]
    /\ UNCHANGED <<genVars, task, conn, stray, reply, main, hup, hupNew, hupOld>>

AwaitTask(t) ==
    /\ t \in sd.wait
    /\ Ended(sd.gen, t)
    /\ sd' = [sd EXCEPT !.wait = @ \ {t}]
    /\ UNCHANGED <<genVars, taskVars, fakeVars, main, hup, hupNew, hupOld>>

\* A task can be aborted at an await only: not between accept and the spawn of
\* the handler, nor inside get_or_create of the fake sockets.
AtAwait(g, t) ==
    /\ \A c \in Conns : ~(conn[c].gen = g /\ conn[c].via = t /\ conn[c].st = "accepted")
    /\ t = "udp" => reply[g]["udp"] = "idle"

\* The tasks for the packets of a UDP loop are detached: they may outlive it.
LeavesPackets(g, k) ==
    \/ UNCHANGED stray
    \/ k \in UdpLoops /\ stray[g] = "none" /\ stray' = [stray EXCEPT ![g] = "packet"]

\* An aborted UDP loop may also leave the task that creates a session behind:
\* the session starts a receive loop that no registry knows.
AbortTask(t) ==
    LET g == sd.gen
    IN /\ t \in sd.wait
       /\ ~Ended(g, t)
       /\ AtAwait(g, t)
       /\ IF t \in Conns
          THEN conn' = [conn EXCEPT ![t].st = "ended"] /\ UNCHANGED task
          ELSE task' = [task EXCEPT ![g] = @ \ {t}] /\ UNCHANGED conn
       /\ \/ LeavesPackets(g, t)
          \/ t \in UdpLoops /\ stray[g] = "none" /\ stray' = [stray EXCEPT ![g] = "orphan"]
       /\ sd' = [sd EXCEPT !.wait = @ \ {t}]
       /\ UNCHANGED <<genVars, cancelled, fakeVars, main, hup, hupNew, hupOld>>

ShutdownOver == sd.gen # 0 /\ sd.left = <<>> /\ sd.wait = {}

\* reload_config returns, after the shutdown of the old generation or after
\* the rollback; its Arcs go.
HupReturns ==
    /\ hup \in {"retiring", "rollback"}
    /\ ShutdownOver
    /\ done' = [done EXCEPT ![sd.gen] = IF hup = "rollback" THEN "exit" ELSE "reload"]
    /\ sd' = NoShutdown
    /\ hup' = "idle"
    /\ hupNew' = 0
    /\ hupOld' = 0
    /\ UNCHANGED <<built, cfg, current, served, dropped, taskVars, fakeVars, main>>

(***************************************************************************)
(* The tasks of a generation.                                              *)
(***************************************************************************)
\* tcp_accept_loop and run_tcp_port_forward: accept returns a connection ...
Accept(g, k, c) ==
    /\ Running(g, k)
    /\ k \notin cancelled[g]
    /\ conn[c].st = "none"
    /\ \A d \in Conns : ~(conn[d].gen = g /\ conn[d].via = k /\ conn[d].st = "accepted")
    /\ conn' = [conn EXCEPT ![c] = [gen |-> g, via |-> k, st |-> "accepted"]]
    /\ UNCHANGED <<genVars, task, cancelled, stray, fakeVars, ctlVars>>

\* ... and TaskGuard::spawn starts its handler.  The guard may have been
\* cancelled in between.
SpawnHandler(c) ==
    /\ conn[c].st = "accepted"
    /\ conn' = [conn EXCEPT ![c].st = "running"]
    /\ UNCHANGED <<genVars, task, cancelled, stray, fakeVars, ctlVars>>

\* A handler ends with its relay, or because it is cancelled.
HandlerEnds(c) ==
    /\ conn[c].st = "running"
    /\ conn' = [conn EXCEPT ![c].st = "ended"]
    /\ UNCHANGED <<genVars, task, cancelled, stray, fakeVars, ctlVars>>

\* A cancelled task leaves its loop.
TaskEnds(g, k) ==
    /\ Running(g, k)
    /\ k \in cancelled[g]
    /\ AtAwait(g, k)
    /\ task' = [task EXCEPT ![g] = @ \ {k}]
    /\ LeavesPackets(g, k)
    /\ UNCHANGED <<genVars, cancelled, conn, fakeVars, ctlVars>>

\* An accept error ends a TCP port forward for good; the TPROXY accept loop
\* only logs it.
PortForwardFails(g) ==
    /\ Running(g, "port_forwards")
    /\ AtAwait(g, "port_forwards")
    /\ task' = [task EXCEPT ![g] = @ \ {"port_forwards"}]
    /\ LeavesPackets(g, "port_forwards")
    /\ UNCHANGED <<genVars, cancelled, conn, fakeVars, ctlVars>>

\* A packet opens a session and its receive loop, also after its UDP loop has
\* ended; a receive loop ends by itself on an error.
OpenSession(g) ==
    /\ stray[g] = "packet" \/ \E k \in UdpLoops : Running(g, k)
    /\ ~Running(g, "udp")
    /\ "udp" \notin cancelled[g]
    /\ Spawn(g, {"udp"})
    /\ UNCHANGED <<genVars, cancelled, conn, stray, fakeVars, ctlVars>>

SessionEnds(g) ==
    /\ Running(g, "udp")
    /\ reply[g]["udp"] = "idle"
    /\ task' = [task EXCEPT ![g] = @ \ {"udp"}]
    /\ UNCHANGED <<genVars, cancelled, conn, stray, fakeVars, ctlVars>>

\* The GC loop takes an idle session out of the map and cancels its receive
\* loop, which nobody awaits; it may still be in the middle of a reply.
EvictSession(g) ==
    /\ Running(g, "udp_gc")
    /\ Running(g, "udp")
    /\ stray[g] = "none"
    /\ task' = [task EXCEPT ![g] = @ \ {"udp"}]
    /\ stray' = [stray EXCEPT ![g] = "evicted"]
    /\ reply' = [reply EXCEPT ![g] = [udp |-> "idle", stray |-> @["udp"]]]
    /\ UNCHANGED <<genVars, cancelled, conn, fakeClosed, fakeSock, ctlVars>>

\* A packet that has created a session when the runtime is closed cancels it
\* again; its receive loop has run by then.
LateSession(g) ==
    /\ stray[g] = "packet"
    /\ "udp" \in cancelled[g]
    /\ stray' = [stray EXCEPT ![g] = "evicted"]
    /\ UNCHANGED <<genVars, task, cancelled, conn, fakeVars, ctlVars>>

StrayEnds(g) ==
    /\ stray[g] # "none"
    /\ reply[g]["stray"] = "idle"
    /\ stray' = [stray EXCEPT ![g] = "none"]
    /\ UNCHANGED <<genVars, task, cancelled, conn, fakeVars, ctlVars>>

(***************************************************************************)
(* FakeUdpManager::get_or_create, for a reply of a receive loop.  A closed *)
(* manager refuses and a socket it holds is used, neither with an effect   *)
(* here.  Otherwise a socket is created; closed is read again, which       *)
(* decides; and the socket is inserted.                                    *)
(***************************************************************************)
ReplyStarts(g, w) ==
    /\ IF w = "udp" THEN Running(g, "udp") ELSE stray[g] \in {"evicted", "orphan"}
    /\ reply[g][w] = "idle"
    /\ g \notin fakeClosed \cup fakeSock
    /\ reply' = [reply EXCEPT ![g][w] = "inserting"]
    /\ UNCHANGED <<genVars, taskVars, fakeClosed, fakeSock, ctlVars>>

ReplyInserts(g, w) ==
    /\ reply[g][w] = "inserting"
    /\ fakeSock' = fakeSock \cup {g}
    /\ reply' = [reply EXCEPT ![g][w] = "idle"]
    /\ UNCHANGED <<genVars, taskVars, fakeClosed, ctlVars>>

\* cleanup_expired, called by the GC loop.
FakeExpires(g) ==
    /\ Running(g, "udp_gc")
    /\ g \in fakeSock
    /\ fakeSock' = fakeSock \ {g}
    /\ UNCHANGED <<genVars, taskVars, fakeClosed, reply, ctlVars>>

(***************************************************************************)
(* The last Arc of a generation goes: its fake sockets are closed and each *)
(* TaskGuard cancels its token when it is dropped.                         *)
(***************************************************************************)

\* Mutation of DropState: the guards have no Drop.
DropGuardsSilently(g) ==
    /\ g <= built
    /\ g \notin dropped
    /\ ~Held(g)
    /\ dropped' = dropped \cup {g}
    /\ fakeSock' = fakeSock \ {g}
    /\ UNCHANGED <<built, cfg, current, served, done, taskVars, fakeClosed, reply, ctlVars>>

DropState(g) ==
    /\ g <= built
    /\ g \notin dropped
    /\ ~Held(g)
    /\ dropped' = dropped \cup {g}
    /\ cancelled' = [cancelled EXCEPT ![g] = Guards]
    /\ fakeSock' = fakeSock \ {g}
    /\ UNCHANGED <<built, cfg, current, served, done, task, conn, stray, fakeClosed, reply, ctlVars>>

(***************************************************************************)
(* Ctrl-C: the stats listener, the SIGHUP handler and the SIGUSR1 handler  *)
(* are stopped, then the generation that is current by then.               *)
(***************************************************************************)
CtrlC ==
    /\ main = "serving"
    /\ main' = "stop_stats"
    /\ UNCHANGED <<genVars, taskVars, fakeVars, sd, hup, hupNew, hupOld>>

\* The token of the SIGHUP guard is cancelled; the handler sees it between
\* two reloads.
StopSighup ==
    /\ main = "stop_stats"
    /\ main' = "stop_sighup"
    /\ UNCHANGED <<genVars, taskVars, fakeVars, sd, hup, hupNew, hupOld>>

HupEnds ==
    /\ main = "stop_sighup"
    /\ hup = "idle"
    /\ hup' = "ended"
    /\ main' = "stop_usr1"
    /\ UNCHANGED <<genVars, taskVars, fakeVars, sd, hupNew, hupOld>>

\* Ten seconds later the reload is aborted where it awaits, and the shutdown
\* it was running stops half way.
AbortHup ==
    /\ main = "stop_sighup"
    /\ hup \in {"building", "rollback", "retiring"}
    /\ hup' = "ended"
    /\ hupNew' = 0
    /\ hupOld' = 0
    /\ sd' = NoShutdown
    /\ main' = "stop_usr1"
    /\ UNCHANGED <<genVars, taskVars, fakeVars>>

ExitShutdown ==
    /\ main = "stop_usr1"
    /\ sd' = [gen |-> current, left |-> ExitStages, wait |-> {}]
    /\ main' = "exiting"
    /\ UNCHANGED <<genVars, taskVars, fakeVars, hup, hupNew, hupOld>>

Exit ==
    /\ main = "exiting"
    /\ ShutdownOver
    /\ done' = [done EXCEPT ![sd.gen] = "exit"]
    /\ sd' = NoShutdown
    /\ main' = "exited"
    /\ UNCHANGED <<built, cfg, current, served, dropped, taskVars, fakeVars, hup, hupNew, hupOld>>

\* Once main has returned the runtime stops every task.
Alive == main \notin {"failed", "exited"}

TaskStep(g) ==
    \/ \E k \in Tasks : TaskEnds(g, k)
    \/ \E k \in Acceptors, c \in Conns : Accept(g, k, c)
    \/ PortForwardFails(g)
    \/ OpenSession(g) \/ SessionEnds(g) \/ EvictSession(g)
    \/ LateSession(g) \/ StrayEnds(g)
    \/ \E w \in {"udp", "stray"} : ReplyStarts(g, w) \/ ReplyInserts(g, w)
    \/ FakeExpires(g)
    \/ DropState(g)

HupStep == HupSignal \/ BuildFails \/ Build \/ HupSpawn \/ Swap \/ HupReturns

MainStep == MainSpawn \/ CtrlC \/ StopSighup \/ HupEnds \/ AbortHup \/ ExitShutdown \/ Exit

ShutdownStep == ShutdownStage \/ \E t \in Tasks \cup Conns : AwaitTask(t) \/ AbortTask(t)

Next ==
    /\ Alive
    /\ \/ MainStep
       \/ HupStep
       \/ ShutdownStep
       \/ \E g \in Gens : TaskStep(g)
       \/ \E c \in Conns : SpawnHandler(c) \/ HandlerEnds(c)

Spec == Init /\ [][Next]_vars

(***************************************************************************)
(* Fairness.  Every thread that can run does; deadlines pass; a cancelled  *)
(* task reaches its select.  Nothing obliges a connection to end, a signal *)
(* to arrive or an orphaned receive loop to stop.  Wind-down steps are     *)
(* taken a bounded number of times each, so that one condition for all of  *)
(* them is enough.                                                         *)
(***************************************************************************)
WindDown ==
    \/ HupSpawn \/ Swap \/ HupReturns
    \/ ShutdownStep
    \/ \E g \in Gens :
          \/ \E k \in Tasks : TaskEnds(g, k)
          \/ DropState(g)
    \/ \E c \in Conns : SpawnHandler(c)

Fairness ==
    /\ WF_vars(Alive /\ WindDown)
    /\ \A g \in Gens :
          /\ WF_vars(Alive /\ \E w \in {"udp", "stray"} : ReplyInserts(g, w))
          /\ WF_vars(Alive /\ stray[g] \in {"packet", "evicted"} /\ StrayEnds(g))

FairSpec == Spec /\ Fairness

-----------------------------------------------------------------------------
(***************************************************************************)
(* Properties.                                                             *)
(***************************************************************************)
TypeOK ==
    /\ built \in Gens
    /\ cfg \in Configs
    /\ current \in Gens
    /\ served \subseteq Gens
    /\ task \in [Gens -> SUBSET Tasks]
    /\ cancelled \in [Gens -> SUBSET Guards]
    /\ conn \in [Conns -> [gen : 0 .. MaxGens, via : Acceptors \cup {"none"},
                           st : {"none", "accepted", "running", "ended"}]]
    /\ stray \in [Gens -> {"none", "packet", "evicted", "orphan"}]
    /\ fakeClosed \subseteq Gens
    /\ fakeSock \subseteq Gens
    /\ reply \in [Gens -> [udp : {"idle", "inserting"}, stray : {"idle", "inserting"}]]
    /\ dropped \subseteq Gens
    /\ done \in [Gens -> {"no", "reload", "exit"}]
    /\ sd.gen \in 0 .. MaxGens /\ sd.wait \subseteq Tasks \cup Conns
    /\ hupNew \in 0 .. MaxGens /\ hupOld \in 0 .. MaxGens
    /\ main \in {"listeners", "forwards", "rest", "serving", "stop_stats", "stop_sighup",
                 "stop_usr1", "exiting", "exited", "failed"}
    /\ hup \in {"idle", "building", "listeners", "forwards", "rest", "swap", "retiring",
                "rollback", "ended"}

(***************************************************************************)
(* From the start until Ctrl-C has stopped the signal handlers, the        *)
(* current generation accepts connections: neither a reload nor its        *)
(* rollback, aborted or not, leaves a moment without a listener            *)
(* (reload_config: "失败时 rollback，新 generation 自己清理，旧服务不动").      *)
(***************************************************************************)
AlwaysServing ==
    main \in {"serving", "stop_stats", "stop_sighup", "stop_usr1"} =>
        /\ Running(current, "tcp_listeners")
        /\ "tcp_listeners" \notin cancelled[current]
        /\ current \notin dropped

(***************************************************************************)
(* A generation whose shutdown is over is quiet: its listeners, port       *)
(* forwards, GC, registered receive loops, score tasks and health checks   *)
(* have ended and no connection is on the way to a handler; after          *)
(* shutdown_for_exit no handler runs either, late ones included.           *)
(***************************************************************************)
ShutdownIsComplete ==
    \A g \in Gens : done[g] # "no" =>
        /\ \A k \in Tasks \ {"relative_score", "score_debug_printer"} : ~Running(g, k)
        /\ ConnsOf(g, "accepted") = {}
        /\ done[g] = "exit" => ConnsOf(g, "running") = {}

(***************************************************************************)
(* A reload never cancels a connection that a current generation has       *)
(* accepted ("reload 时不断已有 TCP 连接"): not by stopping the handlers, and *)
(* not by dropping the generation under them.                              *)
(***************************************************************************)
ReloadKeepsConnections ==
    \A c \in Conns :
        conn[c].st = "running" /\ conn[c].gen \in served /\ main # "exiting" /\ Alive =>
            /\ "tcp_handlers" \notin cancelled[conn[c].gen]
            /\ conn[c].gen \notin dropped

(***************************************************************************)
(* Once the fake socket manager is closed, a socket enters it only from a  *)
(* receive loop outside the session map that had checked before the close: *)
(* the registered ones have been joined (UdpRuntime::shutdown).            *)
(***************************************************************************)
NoSocketAfterClose ==
    [][\A g \in fakeClosed : g \in fakeSock' \ fakeSock => reply[g]["stray"] = "inserting"]_vars

(***************************************************************************)
(* A retired generation is released: as soon as no connection and no       *)
(* orphaned receive loop holds it, its AppState is dropped and the tasks   *)
(* that shutdown_for_reload leaves running end.  Only a generation with    *)
(* relative scoring is an exception (AuxiliaryTasksEnd).                   *)
(***************************************************************************)
RetiredIsReleased ==
    \A g \in Gens :
        (done[g] # "no" /\ ~Running(g, "relative_score")) ~>
            \/ g \in dropped /\ \A k \in Tasks : ~Running(g, k)
            \/ LiveConns(g) # {} \/ stray[g] = "orphan"
            \/ main # "serving"

(***************************************************************************)
(* shutdown_for_reload stops the listeners, the UDP runtime and the        *)
(* auxiliary tasks ("停止当前 generation 的 listener、UDP runtime 和辅助任务"):  *)
(* the relative scoring task of a retired generation ends.                 *)
(***************************************************************************)
AuxiliaryTasksEnd ==
    \A g \in Gens : done[g] = "reload" ~> ~Running(g, "relative_score") \/ main # "serving"

=============================================================================
