-------------------------- MODULE GenerationsProofs -------------------------
(***************************************************************************)
(* Safety of Generations, for any number of reloads, any configurations    *)
(* and any connections: the service never has a gap, a reload never cuts a *)
(* connection, and a shutdown leaves nothing behind.                       *)
(***************************************************************************)
EXTENDS Generations, TLAPS

-----------------------------------------------------------------------------
(* The facts about sequences that are used below. *)

LEMMA SeqDef == \A S : Seq(S) = UNION {[1 .. n -> S] : n \in Nat}
BY SMT, SMTT(30)

LEMMA LenProperties ==
    ASSUME NEW S, NEW seq \in Seq(S)
    PROVE  Len(seq) \in Nat /\ seq \in [1 .. Len(seq) -> S] /\ DOMAIN seq = 1 .. Len(seq)
BY SMT, SMTT(30)

-----------------------------------------------------------------------------
\* A generation that accepts connections.
Listening(g) ==
    /\ "tcp_listeners" \in task[g]
    /\ "tcp_listeners" \notin cancelled[g]
    /\ g \notin dropped

StageNames == Guards \cup {"fake_close", "fake_clear"}

Shape ==
    /\ cfg \in Configs
    /\ built \in Gens /\ current \in Gens
    /\ task \in [Gens -> SUBSET Tasks]
    /\ cancelled \in [Gens -> SUBSET Guards]
    /\ dropped \subseteq Gens
    /\ sd \in [gen : {0} \cup Gens, left : Seq(StageNames), wait : SUBSET (Tasks \cup Conns)]
    /\ sd.gen = 0 => sd.wait = {}

Starting == {"listeners", "forwards", "rest", "failed"}
Spawning == {"listeners", "forwards", "rest", "swap"}

\* Where main and the SIGHUP handler can be at the same time, and whom the
\* shutdown under way is for: before the exit, never the current generation.
Control ==
    /\ main \in Starting => hup = "idle" /\ current = 1
    /\ main \in {"stop_usr1", "exiting", "exited"} => hup = "ended"
    /\ hup \notin {"rollback", "retiring"} /\ main # "exiting" => sd.gen = 0
    /\ hup \in Spawning \cup {"rollback"} => hupNew \in Gens /\ hupNew <= built /\ hupNew # current
    /\ hup = "rollback" => sd.gen = hupNew
    /\ hup = "retiring" => sd.gen \in Gens /\ sd.gen # current
    /\ sd.gen <= built
    /\ current <= built

\* A generation that is built is untouched until it is started, and listens
\* from then on until its shutdown begins.
Serving ==
    /\ main = "listeners" => "tcp_listeners" \notin cancelled[1] /\ 1 \notin dropped
    /\ main \in {"forwards", "rest", "serving", "stop_stats", "stop_sighup", "stop_usr1"} =>
          Listening(current)
    /\ hup = "listeners" => "tcp_listeners" \notin cancelled[hupNew] /\ hupNew \notin dropped
    /\ hup \in {"forwards", "rest", "swap"} => Listening(hupNew)
    /\ \A g \in Gens : g > built => cancelled[g] = {} /\ g \notin dropped

ServeInv == Shape /\ Control /\ Serving

\* There are no more generations than configurations.
LEMMA BuiltBound == ASSUME Shape, built < Len(cfg) PROVE built + 1 \in Gens
<1>1. PICK n \in 1 .. MaxGens : cfg \in [1 .. n -> SUBSET Optional]
  BY ConfigAssumption, SMT, SMTT(30) DEF Shape
<1>2. MaxGens \in Nat /\ n \in Nat
  BY <1>1, ConfigAssumption, SMT, SMTT(30)
<1>3. cfg \in Seq(SUBSET Optional)
  BY <1>1, <1>2, SeqDef, Zenon
<1>4. Len(cfg) \in Nat /\ DOMAIN cfg = 1 .. Len(cfg) /\ DOMAIN cfg = 1 .. n
  BY <1>1, <1>3, LenProperties, Zenon
<1>5. Len(cfg) <= n
  <2>1. n \in 1 .. Len(cfg)
    BY <1>1, <1>2, <1>4, SMT, SMTT(30)
  <2>2. Len(cfg) \in 1 .. n
    BY <1>2, <1>4, <2>1, SMT, SMTT(30)
  <2> QED
    BY <2>2, SMT, SMTT(30)
<1> QED
  BY <1>2, <1>4, <1>5, SMT, SMTT(30) DEF Shape, Gens

LEMMA StagesType == ReloadStages \in Seq(StageNames) /\ ExitStages \in Seq(StageNames)
<1>1. \A i \in 1 .. 9 : ReloadStages[i] \in StageNames
  BY SMT, SMTT(30) DEF ReloadStages, StageNames, Guards, Tasks
<1>2. Len(ReloadStages) = 9 /\ DOMAIN ReloadStages = 1 .. 9
  BY SMT, SMTT(30) DEF ReloadStages
<1>3. ReloadStages \in [1 .. 9 -> StageNames]
  BY <1>1, <1>2, SMT, SMTT(30) DEF ReloadStages
<1>4. ReloadStages \in Seq(StageNames)
  BY <1>3, SeqDef, ZenonT(30)
<1>5. "tcp_handlers" \in StageNames
  BY Zenon DEF StageNames, Guards
<1> QED
  BY <1>4, <1>5, SMT, SMTT(30) DEF ExitStages

LEMMA InitServe == Init => ServeInv
<1> SUFFICES ASSUME Init PROVE ServeInv
  BY Zenon
<1>1. MaxGens \in Nat /\ 1 \in Gens
  BY ConfigAssumption, SMT, SMTT(30) DEF Gens
<1>2. Shape
  BY <1>1, SMT, SMTT(30) DEF Init, Shape, NoShutdown
<1>3. Control
  BY <1>1, SMT, SMTT(30) DEF Init, Control, Starting, Spawning, NoShutdown
<1>4. Serving
  BY <1>1, Zenon DEF Init, Serving
<1> QED
  BY <1>2, <1>3, <1>4, Zenon DEF ServeInv

-----------------------------------------------------------------------------
\* The tasks that run, and the tasks that spawn_all_tasks adds.
LEMMA TasksStep ==
    ASSUME Shape, NEW g \in Gens, TaskStep(g), ~DropState(g)
    PROVE /\ UNCHANGED <<genVars, cancelled, ctlVars>>
          /\ task' \in [Gens -> SUBSET Tasks]
          /\ \A x \in Gens : Listening(x) => Listening(x)'
<1>1. CASE \E k \in Tasks : TaskEnds(g, k)
  BY <1>1, SMT, SMTT(30) DEF TaskEnds, Shape, Listening, genVars
<1>2. CASE \E k \in Acceptors, c \in Conns : Accept(g, k, c)
  BY <1>2, Zenon DEF Accept, Shape, Listening, genVars
<1>3. CASE PortForwardFails(g) \/ SessionEnds(g) \/ EvictSession(g)
  BY <1>3, SMT, SMTT(30) DEF PortForwardFails, SessionEnds, EvictSession, Shape, Listening, genVars
<1>4. CASE OpenSession(g)
  <2>1. "udp" \in Tasks
    BY Zenon DEF Tasks
  <2> QED
    BY <1>4, <2>1, Zenon DEF OpenSession, Spawn, Shape, Listening, genVars
<1>5. CASE LateSession(g) \/ StrayEnds(g) \/ FakeExpires(g) \/ \E w \in {"udp", "stray"} : ReplyStarts(g, w) \/ ReplyInserts(g, w)
  BY <1>5, Zenon DEF LateSession, StrayEnds, FakeExpires, ReplyStarts, ReplyInserts, Shape, Listening, genVars, taskVars
<1> QED
  BY <1>1, <1>2, <1>3, <1>4, <1>5, Zenon DEF TaskStep

LEMMA HandlersStep ==
    ASSUME Shape, NEW c \in Conns, SpawnHandler(c) \/ HandlerEnds(c)
    PROVE /\ UNCHANGED <<genVars, cancelled, ctlVars>>
          /\ task' \in [Gens -> SUBSET Tasks]
          /\ \A x \in Gens : Listening(x) => Listening(x)'
BY Zenon DEF SpawnHandler, HandlerEnds, Shape, Listening, genVars

\* Such steps keep the invariant.
LEMMA QuietStep ==
    ASSUME ServeInv, UNCHANGED <<genVars, cancelled, ctlVars>>,
           task' \in [Gens -> SUBSET Tasks],
           \A x \in Gens : Listening(x) => Listening(x)'
    PROVE ServeInv'
<1>1. UNCHANGED <<built, cfg, current, dropped, cancelled, sd, main, hup, hupNew>>
  BY Zenon DEF genVars, ctlVars
<1>2. Shape' /\ Control'
  BY <1>1, Zenon DEF ServeInv, Shape, Control, Gens
<1>3. current \in Gens /\ (hup \in {"forwards", "rest", "swap"} => hupNew \in Gens)
  BY Zenon DEF ServeInv, Shape, Control, Spawning
<1>4. Serving'
  BY <1>1, <1>3, Zenon DEF ServeInv, Serving
<1> QED
  BY <1>2, <1>4, Zenon DEF ServeInv

LEMMA DropServe ==
    ASSUME ServeInv, NEW g \in Gens, DropState(g)
    PROVE ServeInv'
<1>1. /\ UNCHANGED <<built, cfg, current, task, sd, main, hup, hupNew>>
      /\ dropped' = dropped \cup {g} /\ cancelled' = [cancelled EXCEPT ![g] = Guards]
      /\ g <= built /\ g # current /\ g # hupNew
  BY Zenon DEF DropState, ctlVars, Held
<1>2. built \in Nat /\ \A x \in Gens : x > built => x # g
  BY <1>1, ConfigAssumption, SMT, SMTT(30) DEF ServeInv, Shape, Gens
<1>3. Shape' /\ Control'
  BY <1>1, Zenon DEF ServeInv, Shape, Control
<1>4. \A x \in Gens : x # g => cancelled'[x] = cancelled[x] /\ (x \in dropped' <=> x \in dropped)
  BY <1>1, Zenon DEF ServeInv, Shape
<1>5. current \in Gens /\ (hup \in Spawning => hupNew \in Gens) /\ 1 \in Gens
  BY ConfigAssumption, SMT, SMTT(30) DEF ServeInv, Shape, Control, Gens
<1>6. main = "listeners" => g # 1
  BY <1>1, Zenon DEF ServeInv, Control, Starting
<1>7. Serving'
  BY <1>1, <1>2, <1>4, <1>5, <1>6, Zenon DEF ServeInv, Serving, Listening, Spawning
<1> QED
  BY <1>3, <1>7, Zenon DEF ServeInv

LEMMA SpawnType == ASSUME Shape, NEW g \in Gens, NEW ks \in SUBSET Tasks, Spawn(g, ks)
                   PROVE /\ task' \in [Gens -> SUBSET Tasks]
                         /\ ks \subseteq task'[g]
                         /\ \A x \in Gens : task[x] \subseteq task'[x]
BY Zenon DEF Shape, Spawn

\* What a listener spawn does: on success the TCP listener runs.
LEMMA ListenersType ==
    ASSUME Shape, NEW g \in Gens, NEW ok \in BOOLEAN, SpawnListeners(g, ok)
    PROVE /\ task' \in [Gens -> SUBSET Tasks]
          /\ ok => "tcp_listeners" \in task'[g]
          /\ \A x \in Gens : task[x] \subseteq task'[x]
<1>1. {"tcp_listeners"} \cup (cfg[g] \cap {"udp_listeners"}) \in SUBSET Tasks
  BY Zenon DEF Tasks
<1>2. {"tcp_listeners"} \in SUBSET Tasks
  BY Zenon DEF Tasks
<1>3. CASE Spawn(g, {"tcp_listeners"} \cup (cfg[g] \cap {"udp_listeners"}))
  BY <1>1, <1>3, SpawnType, Zenon
<1>4. CASE ~ok /\ Spawn(g, {"tcp_listeners"})
  BY <1>2, <1>4, SpawnType, Zenon
<1>5. CASE ~ok /\ UNCHANGED task
  BY <1>5, Zenon DEF Shape
<1> QED
  BY <1>3, <1>4, <1>5, Zenon DEF SpawnListeners

LEMMA ForwardsType ==
    ASSUME Shape, NEW g \in Gens,
           SpawnRest(g) \/ \E ok \in BOOLEAN : SpawnPortForwards(g, ok)
    PROVE /\ task' \in [Gens -> SUBSET Tasks]
          /\ \A x \in Gens : task[x] \subseteq task'[x]
<1>1. cfg[g] \cap {"port_forwards"} \in SUBSET Tasks
  BY Zenon DEF Tasks
<1>2. {"upstream_scores", "udp_gc"}
      \cup (cfg[g] \cap {"health_check", "relative_score", "score_debug_printer"}) \in SUBSET Tasks
  BY Zenon DEF Tasks
<1>3. CASE SpawnRest(g)
  BY <1>2, <1>3, SpawnType, Zenon DEF SpawnRest
<1>4. CASE Spawn(g, cfg[g] \cap {"port_forwards"})
  BY <1>1, <1>4, SpawnType, Zenon
<1>5. CASE UNCHANGED task
  BY <1>5, Zenon DEF Shape
<1> QED
  BY <1>3, <1>4, <1>5, Zenon DEF SpawnPortForwards

LEMMA MainSpawnServe == ServeInv /\ MainSpawn => ServeInv'
<1> SUFFICES ASSUME ServeInv, MainSpawn PROVE ServeInv'
  BY Zenon
<1>1. UNCHANGED <<built, cfg, current, dropped, cancelled, sd, hup, hupNew>>
  BY Zenon DEF MainSpawn, genVars
<1>2. /\ main \in {"listeners", "forwards", "rest"} /\ hup = "idle" /\ current = 1 /\ 1 \in Gens
      /\ main' \in {"forwards", "rest", "serving", "failed"}
  BY ConfigAssumption, SMT, SMTT(30) DEF MainSpawn, ServeInv, Control, Starting, Gens
<1>3. /\ task' \in [Gens -> SUBSET Tasks]
      /\ main = "listeners" /\ main' # "failed" => "tcp_listeners" \in task'[1]
      /\ \A x \in Gens : task[x] \subseteq task'[x]
  <2>1. CASE main = "listeners"
    <3>1. PICK ok \in BOOLEAN : SpawnListeners(1, ok) /\ main' = IF ok THEN "forwards" ELSE "failed"
      BY <2>1, Zenon DEF MainSpawn
    <3> QED
      BY <1>2, <3>1, ListenersType, Zenon DEF ServeInv
  <2>2. CASE main # "listeners"
    <3>1. SpawnRest(1) \/ \E ok \in BOOLEAN : SpawnPortForwards(1, ok)
      BY <2>2, Zenon DEF MainSpawn
    <3> QED
      BY <1>2, <2>2, <3>1, ForwardsType, Zenon DEF ServeInv
  <2> QED
    BY <2>1, <2>2, Zenon
<1>4. Shape' /\ Control'
  BY <1>1, <1>2, <1>3, Zenon DEF ServeInv, Shape, Control, Starting, Spawning
<1>5. main' # "failed" => Listening(1)'
  BY <1>1, <1>2, <1>3, Zenon DEF ServeInv, Serving, Listening
<1>6. Serving'
  BY <1>1, <1>2, <1>5, Zenon DEF ServeInv, Serving
<1> QED
  BY <1>4, <1>6, Zenon DEF ServeInv

LEMMA HupSpawnServe == ServeInv /\ HupSpawn => ServeInv'
<1> SUFFICES ASSUME ServeInv, HupSpawn PROVE ServeInv'
  BY Zenon
<1>1. UNCHANGED <<built, cfg, current, dropped, cancelled, main, hupNew>>
  BY Zenon DEF HupSpawn, genVars
<1>2. /\ hup \in {"listeners", "forwards", "rest"}
      /\ hupNew \in Gens /\ hupNew # current /\ hupNew <= built /\ current \in Gens
      /\ main \notin Starting /\ main \notin {"stop_usr1", "exiting", "exited"} /\ sd.gen = 0
  BY Zenon DEF HupSpawn, ServeInv, Control, Starting, Spawning, Shape
<1>3. /\ task' \in [Gens -> SUBSET Tasks]
      /\ hup = "listeners" /\ hup' # "rollback" => "tcp_listeners" \in task'[hupNew]
      /\ \A x \in Gens : task[x] \subseteq task'[x]
      /\ \/ hup' \in {"forwards", "rest", "swap"} /\ sd' = sd
         \/ hup' = "rollback" /\ sd' = [gen |-> hupNew, left |-> ExitStages, wait |-> {}]
  <2>1. CASE hup = "listeners"
    <3>1. PICK ok \in BOOLEAN :
             /\ SpawnListeners(hupNew, ok)
             /\ hup' = IF ok THEN "forwards" ELSE "rollback"
             /\ sd' = IF ok THEN sd ELSE [gen |-> hupNew, left |-> ExitStages, wait |-> {}]
      BY <2>1, Zenon DEF HupSpawn
    <3> QED
      BY <1>2, <3>1, ListenersType, Zenon DEF ServeInv
  <2>2. CASE hup # "listeners"
    <3>1. /\ SpawnRest(hupNew) \/ \E ok \in BOOLEAN : SpawnPortForwards(hupNew, ok)
          /\ \/ hup' \in {"forwards", "rest", "swap"} /\ sd' = sd
             \/ hup' = "rollback" /\ sd' = [gen |-> hupNew, left |-> ExitStages, wait |-> {}]
      BY <2>2, ZenonT(30) DEF HupSpawn
    <3> QED
      BY <1>2, <2>2, <3>1, ForwardsType, Zenon DEF ServeInv
  <2> QED
    BY <2>1, <2>2, Zenon
<1>4. Shape'
  BY <1>1, <1>2, <1>3, StagesType, SMT, SMTT(30) DEF ServeInv, Shape
<1>5. Control'
  BY <1>1, <1>2, <1>3, SMT, SMTT(30) DEF ServeInv, Control, Starting, Spawning
<1>6. hup' # "rollback" => Listening(hupNew)'
  BY <1>1, <1>2, <1>3, Zenon DEF ServeInv, Serving, Listening
<1>7. Listening(current) => Listening(current)'
  BY <1>1, <1>2, <1>3, Zenon DEF Listening
<1>8. Serving'
  BY <1>1, <1>2, <1>3, <1>6, <1>7, Zenon DEF ServeInv, Serving, Starting
<1> QED
  BY <1>4, <1>5, <1>8, Zenon DEF ServeInv

\* The rest of reload_config.
LEMMA ReloadServe == ServeInv /\ (HupSignal \/ BuildFails \/ Build \/ Swap \/ HupReturns) => ServeInv'
<1> SUFFICES ASSUME ServeInv, HupSignal \/ BuildFails \/ Build \/ Swap \/ HupReturns PROVE ServeInv'
  BY Zenon
<1>1. UNCHANGED <<cfg, dropped, task, cancelled, main>>
  BY Zenon DEF HupSignal, BuildFails, Build, Swap, HupReturns, genVars, taskVars
<1>2. MaxGens \in Nat /\ built \in Nat /\ built \in Gens /\ current \in Gens /\ current <= built
  BY ConfigAssumption, SMT, SMTT(30) DEF ServeInv, Shape, Gens, Control
<1>3. CASE HupSignal \/ BuildFails
  <2>1. /\ UNCHANGED <<built, current, sd, hupNew>> /\ hup' \in {"idle", "building"}
        /\ hup \in {"idle", "building"}
        /\ hup' = "building" => main \in {"serving", "stop_stats"}
    BY <1>3, Zenon DEF HupSignal, BuildFails, genVars
  <2>2. Shape'
    BY <1>1, <2>1, Zenon DEF ServeInv, Shape
  <2>3. Control'
    BY <1>1, <2>1, Zenon DEF ServeInv, Control, Starting, Spawning
  <2>4. Serving'
    BY <1>1, <2>1, Zenon DEF ServeInv, Serving, Listening
  <2> QED
    BY <2>2, <2>3, <2>4, Zenon DEF ServeInv
<1>4. CASE Build
  <2>1. /\ UNCHANGED <<current, sd>> /\ hup = "building" /\ hup' = "listeners"
        /\ built' = built + 1 /\ hupNew' = built + 1
    BY <1>4, Zenon DEF Build
  <2>2. built + 1 \in Gens
    BY <1>4, BuiltBound, Zenon DEF Build, ServeInv
  <2>3. Shape'
    BY <1>1, <2>1, <2>2, Zenon DEF ServeInv, Shape
  <2>4. sd.gen \in Nat /\ sd.gen <= built
    BY SMT, SMTT(30) DEF ServeInv, Shape, Control, Gens
  <2>5. Control'
    BY <1>1, <1>2, <2>1, <2>2, <2>4, SMT, SMTT(30) DEF ServeInv, Control, Starting, Spawning
  <2>6. cancelled[built + 1] = {} /\ built + 1 \notin dropped
    BY <1>2, <2>2, SMT, SMTT(30) DEF ServeInv, Serving
  <2>7. \A g \in Gens : g > built + 1 => g > built
    BY <1>2, SMT, SMTT(30) DEF Gens
  <2>8. Serving'
    BY <1>1, <2>1, <2>6, <2>7, Zenon DEF ServeInv, Serving, Listening
  <2> QED
    BY <2>3, <2>5, <2>8, Zenon DEF ServeInv
<1>5. CASE Swap
  <2>1. /\ UNCHANGED <<built, hupNew>> /\ hup = "swap" /\ hup' = "retiring" /\ current' = hupNew
        /\ sd' = [gen |-> current, left |-> ReloadStages, wait |-> {}]
    BY <1>5, Zenon DEF Swap
  <2>2. hupNew \in Gens /\ hupNew # current /\ hupNew <= built /\ Listening(hupNew)
    BY <2>1, Zenon DEF ServeInv, Control, Serving, Spawning
  <2>3. main \notin Starting /\ main \notin {"stop_usr1", "exiting", "exited"}
    BY <2>1, Zenon DEF ServeInv, Control
  <2>4. Shape'
    BY <1>1, <1>2, <2>1, <2>2, StagesType, Zenon DEF ServeInv, Shape
  <2>5. Control'
    BY <1>1, <1>2, <2>1, <2>2, <2>3, Zenon DEF Control, Starting, Spawning
  <2>6. Serving'
    BY <1>1, <2>1, <2>2, <2>3, Zenon DEF ServeInv, Serving, Listening, Starting
  <2> QED
    BY <2>4, <2>5, <2>6, Zenon DEF ServeInv
<1>6. CASE HupReturns
  <2>1. /\ UNCHANGED <<built, current>> /\ sd' = NoShutdown /\ hup' = "idle"
        /\ hup \in {"retiring", "rollback"}
    BY <1>6, Zenon DEF HupReturns
  <2>2. main \notin {"stop_usr1", "exiting", "exited"} /\ main \notin Starting
    BY <2>1, Zenon DEF ServeInv, Control
  <2>3. Shape'
    BY <1>1, <2>1, SMT, SMTT(30) DEF ServeInv, Shape, NoShutdown
  <2>4. Control'
    BY <1>1, <1>2, <2>1, <2>2, SMT, SMTT(30) DEF ServeInv, Control, Starting, Spawning, NoShutdown
  <2>5. Serving'
    BY <1>1, <2>1, Zenon DEF ServeInv, Serving, Listening
  <2> QED
    BY <2>3, <2>4, <2>5, Zenon DEF ServeInv
<1> QED
  BY <1>3, <1>4, <1>5, <1>6, Zenon

\* A shutdown takes tasks and tokens of its own generation only.
LEMMA ShutdownFrame ==
    ASSUME Shape, ShutdownStep
    PROVE /\ UNCHANGED <<built, cfg, current, served, dropped, done, main, hup, hupNew, hupOld>>
          /\ sd.gen \in Gens
          /\ sd' \in [gen : {0} \cup Gens, left : Seq(StageNames), wait : SUBSET (Tasks \cup Conns)]
          /\ sd'.gen = sd.gen
          /\ task' \in [Gens -> SUBSET Tasks] /\ cancelled' \in [Gens -> SUBSET Guards]
          /\ \A x \in Gens : x # sd.gen => task'[x] = task[x] /\ cancelled'[x] = cancelled[x]
<1>1. sd \in [gen : {0} \cup Gens, left : Seq(StageNames), wait : SUBSET (Tasks \cup Conns)]
  BY Zenon DEF Shape
<1>2. CASE ShutdownStage
  <2>1. /\ sd.gen \in Gens /\ sd.left # <<>>
        /\ cancelled' = [cancelled EXCEPT ![sd.gen] = @ \cup ({Head(sd.left)} \cap Guards)]
        /\ sd' = [sd EXCEPT !.left = Tail(@), !.wait = Handles(sd.gen, Head(sd.left))]
        /\ UNCHANGED <<genVars, task, main, hup, hupNew, hupOld>>
    BY <1>1, <1>2, Zenon DEF ShutdownStage
  <2>2. Handles(sd.gen, Head(sd.left)) \subseteq Tasks \cup Conns
    BY Zenon DEF Handles, ConnsOf
  <2>3. Tail(sd.left) \in Seq(StageNames)
    BY <1>1, <2>1, SMT, SMTT(30)
  <2>4. /\ sd' \in [gen : {0} \cup Gens, left : Seq(StageNames), wait : SUBSET (Tasks \cup Conns)]
        /\ sd'.gen = sd.gen
    BY <1>1, <2>1, <2>2, <2>3, ZenonT(30)
  <2> QED
    BY <2>1, <2>4, Zenon DEF Shape, genVars
<1>3. CASE \E t \in Tasks \cup Conns : AwaitTask(t)
  <2>1. PICK t \in Tasks \cup Conns : AwaitTask(t)
    BY <1>3, Zenon
  <2>2. /\ t \in sd.wait /\ sd' = [sd EXCEPT !.wait = @ \ {t}]
        /\ UNCHANGED <<genVars, task, cancelled, main, hup, hupNew, hupOld>>
    BY <2>1, Zenon DEF AwaitTask, taskVars
  <2>3. /\ sd.gen \in Gens /\ sd'.gen = sd.gen
        /\ sd' \in [gen : {0} \cup Gens, left : Seq(StageNames), wait : SUBSET (Tasks \cup Conns)]
    BY <1>1, <2>2, Zenon DEF Shape
  <2> QED
    BY <2>2, <2>3, Zenon DEF Shape, genVars
<1>4. CASE \E t \in Tasks \cup Conns : AbortTask(t)
  <2>1. PICK t \in Tasks \cup Conns : AbortTask(t)
    BY <1>4, Zenon
  <2>2. /\ task' \in {task, [task EXCEPT ![sd.gen] = @ \ {t}]}
        /\ t \in sd.wait /\ sd' = [sd EXCEPT !.wait = @ \ {t}]
        /\ UNCHANGED <<genVars, cancelled, main, hup, hupNew, hupOld>>
    BY <2>1, Zenon DEF AbortTask
  <2>3. /\ sd.gen \in Gens /\ sd'.gen = sd.gen
        /\ sd' \in [gen : {0} \cup Gens, left : Seq(StageNames), wait : SUBSET (Tasks \cup Conns)]
    BY <1>1, <2>2, Zenon DEF Shape
  <2> QED
    BY <2>2, <2>3, ZenonT(30) DEF Shape, genVars
<1> QED
  BY <1>2, <1>3, <1>4, Zenon DEF ShutdownStep

LEMMA ShutdownServe == ServeInv /\ ShutdownStep => ServeInv'
<1> SUFFICES ASSUME ServeInv, ShutdownStep PROVE ServeInv'
  BY Zenon
<1>1. /\ UNCHANGED <<built, cfg, current, dropped, main, hup, hupNew>>
      /\ sd.gen \in Gens /\ sd'.gen = sd.gen
      /\ sd' \in [gen : {0} \cup Gens, left : Seq(StageNames), wait : SUBSET (Tasks \cup Conns)]
      /\ task' \in [Gens -> SUBSET Tasks] /\ cancelled' \in [Gens -> SUBSET Guards]
      /\ \A x \in Gens : x # sd.gen => task'[x] = task[x] /\ cancelled'[x] = cancelled[x]
  BY ShutdownFrame, Zenon DEF ServeInv
<1>2. sd.gen # 0 /\ MaxGens \in Nat /\ built \in Nat /\ current \in Gens
  BY <1>1, ConfigAssumption, SMT, SMTT(30) DEF Gens, ServeInv, Shape
<1>3. Shape'
  BY <1>1, <1>2, Zenon DEF ServeInv, Shape
<1>4. Control'
  BY <1>1, Zenon DEF ServeInv, Control
<1>5. hup \in {"rollback", "retiring"} \/ main = "exiting"
  BY <1>2, Zenon DEF ServeInv, Control
<1>6. hup \notin Spawning /\ (main # "exiting" => sd.gen # current /\ main \notin Starting)
  BY <1>2, <1>5, Zenon DEF ServeInv, Control, Spawning
<1>7. \A g \in Gens : g > built => g # sd.gen
  BY <1>2, SMT, SMTT(30) DEF ServeInv, Control, Gens
<1>8. Serving'
  BY <1>1, <1>2, <1>6, <1>7, Zenon DEF ServeInv, Serving, Listening, Spawning, Starting
<1> QED
  BY <1>3, <1>4, <1>8, Zenon DEF ServeInv

\* Ctrl-C: the exit shutdown begins when main no longer promises to serve.
LEMMA ExitServe ==
    ServeInv /\ (CtrlC \/ StopSighup \/ HupEnds \/ AbortHup \/ ExitShutdown \/ Exit) => ServeInv'
<1> SUFFICES ASSUME ServeInv, CtrlC \/ StopSighup \/ HupEnds \/ AbortHup \/ ExitShutdown \/ Exit
             PROVE ServeInv'
  BY Zenon
<1>1. UNCHANGED <<built, cfg, current, dropped, task, cancelled>>
  BY Zenon DEF CtrlC, StopSighup, HupEnds, AbortHup, ExitShutdown, Exit, genVars, taskVars
<1>2. current \in Gens /\ current <= built /\ built \in Gens /\ MaxGens \in Nat
  BY ConfigAssumption, Zenon DEF ServeInv, Shape, Control
<1>3. CASE CtrlC \/ StopSighup
  <2>1. /\ UNCHANGED <<sd, hup, hupNew>>
        /\ main \in {"serving", "stop_stats"} /\ main' \in {"stop_stats", "stop_sighup"}
    BY <1>3, Zenon DEF CtrlC, StopSighup
  <2>2. Shape' /\ Control'
    BY <1>1, <2>1, Zenon DEF ServeInv, Shape, Control, Starting
  <2>3. Serving'
    BY <1>1, <2>1, Zenon DEF ServeInv, Serving, Listening
  <2> QED
    BY <2>2, <2>3, Zenon DEF ServeInv
<1>4. CASE HupEnds \/ AbortHup
  <2>1. /\ main = "stop_sighup" /\ main' = "stop_usr1" /\ hup' = "ended"
        /\ (sd' = sd /\ hup = "idle") \/ sd' = NoShutdown
    BY <1>4, Zenon DEF HupEnds, AbortHup
  <2>2. sd'.gen = 0
    BY <2>1, SMT, SMTT(30) DEF ServeInv, Control, NoShutdown
  <2>5. Shape'
    <3>1. CASE sd' = sd
      BY <1>1, <3>1, Zenon DEF ServeInv, Shape
    <3>2. CASE sd' = NoShutdown
      BY <1>1, <3>2, SMT, SMTT(30) DEF ServeInv, Shape, NoShutdown
    <3> QED
      BY <2>1, <3>1, <3>2, Zenon
  <2>3. Control'
    BY <1>1, <1>2, <2>1, <2>2, SMT, SMTT(30) DEF ServeInv, Control, Starting, Spawning, Gens
  <2>4. Serving'
    BY <1>1, <2>1, Zenon DEF ServeInv, Serving, Listening
  <2> QED
    BY <2>3, <2>4, <2>5, Zenon DEF ServeInv
<1>5. CASE ExitShutdown
  <2>1. /\ main = "stop_usr1" /\ main' = "exiting" /\ UNCHANGED <<hup, hupNew>>
        /\ sd' = [gen |-> current, left |-> ExitStages, wait |-> {}] /\ hup = "ended"
    BY <1>5, Zenon DEF ExitShutdown, ServeInv, Control
  <2>2. Shape'
    BY <1>1, <1>2, <2>1, StagesType, Zenon DEF ServeInv, Shape
  <2>3. Control'
    BY <1>1, <1>2, <2>1, Zenon DEF Control, Starting, Spawning
  <2>4. Serving'
    BY <1>1, <2>1, Zenon DEF ServeInv, Serving, Listening
  <2> QED
    BY <2>2, <2>3, <2>4, Zenon DEF ServeInv
<1>6. CASE Exit
  <2>1. /\ main = "exiting" /\ main' = "exited" /\ UNCHANGED <<hup, hupNew>>
        /\ sd' = NoShutdown /\ hup = "ended"
    BY <1>6, Zenon DEF Exit, ServeInv, Control
  <2>2. Shape'
    BY <1>1, <2>1, SMT, SMTT(30) DEF ServeInv, Shape, NoShutdown
  <2>3. Control'
    BY <1>1, <1>2, <2>1, SMT, SMTT(30) DEF Control, Starting, Spawning, NoShutdown, Gens
  <2>4. Serving'
    BY <1>1, <2>1, Zenon DEF ServeInv, Serving, Listening
  <2> QED
    BY <2>2, <2>3, <2>4, Zenon DEF ServeInv
<1> QED
  BY <1>3, <1>4, <1>5, <1>6, Zenon

LEMMA NextServe == ServeInv /\ [Next]_vars => ServeInv'
<1> SUFFICES ASSUME ServeInv, [Next]_vars PROVE ServeInv'
  BY Zenon
<1>1. CASE MainStep
  BY <1>1, MainSpawnServe, ExitServe, Zenon DEF MainStep
<1>2. CASE HupStep
  BY <1>2, HupSpawnServe, ReloadServe, Zenon DEF HupStep
<1>3. CASE \E g \in Gens : TaskStep(g)
  <2>1. PICK g \in Gens : TaskStep(g)
    BY <1>3, Zenon
  <2>2. CASE DropState(g)
    BY <2>2, DropServe, Zenon
  <2>3. CASE ~DropState(g)
    BY <2>1, <2>3, TasksStep, QuietStep, Zenon DEF ServeInv
  <2> QED
    BY <2>2, <2>3, Zenon
<1>4. CASE \E c \in Conns : SpawnHandler(c) \/ HandlerEnds(c)
  BY <1>4, HandlersStep, QuietStep, Zenon DEF ServeInv
<1>5. CASE UNCHANGED vars
  <2>1. UNCHANGED <<genVars, cancelled, ctlVars, task>>
    BY <1>5, Zenon DEF vars, taskVars
  <2> QED
    BY <2>1, QuietStep, Zenon DEF ServeInv, Shape, Listening, genVars
<1> QED
  BY <1>1, <1>2, <1>3, <1>4, <1>5, ShutdownServe, Zenon DEF Next

\* From the start until Ctrl-C has stopped the signal handlers, the current
\* generation accepts connections (AlwaysServing).
THEOREM AlwaysServingHolds == Spec => []AlwaysServing
<1>1. ServeInv => AlwaysServing
  BY Zenon DEF ServeInv, Serving, Listening, AlwaysServing, Running
<1> QED
  BY <1>1, InitServe, NextServe, PTL DEF Spec

-----------------------------------------------------------------------------
(***************************************************************************)
(* Connections across a reload.                                            *)
(***************************************************************************)
Live == {"accepted", "running"}

ConnShape ==
    /\ conn \in [Conns -> [gen : 0 .. MaxGens, via : Acceptors \cup {"none"},
                           st : {"none", "accepted", "running", "ended"}]]
    /\ stray \in [Gens -> {"none", "packet", "evicted", "orphan"}]
    /\ served \subseteq Gens

\* Nobody holds an Arc of the generation.
Free(g) ==
    /\ g \notin {current, hupNew, hupOld}
    /\ \A k \in ArcTasks : k \notin task[g]
    /\ stray[g] = "none"
    /\ \A c \in Conns : conn[c].gen = g => conn[c].st \notin Live

\* The handlers of a generation that has served are cancelled by its drop only,
\* until the exit; a generation under construction has not served yet, and the
\* shutdown of a retired one does not come to the handlers.
Handlers ==
    /\ \A g \in served : g <= built
    /\ hup \in Spawning \cup {"rollback"} => hupNew \notin served
    /\ hup \in Spawning => "tcp_handlers" \notin cancelled[hupNew]
    /\ hup = "retiring" => \A i \in 1 .. Len(sd.left) : sd.left[i] # "tcp_handlers"
    /\ main \notin {"failed", "exiting", "exited"} =>
          \A g \in served : "tcp_handlers" \notin cancelled[g] \/ g \in dropped

KeepInv == ServeInv /\ ConnShape /\ (\A g \in dropped : Free(g)) /\ Handlers

LEMMA FreeIsNotHeld == ASSUME NEW g PROVE Free(g) <=> ~Held(g)
<1>1. LiveConns(g) = {} <=> \A c \in Conns : conn[c].gen = g => conn[c].st \notin Live
  BY Zenon DEF LiveConns, ConnsOf, Live
<1> QED
  BY <1>1, ZenonT(30) DEF Free, Held, Running

LEMMA InitKeep == Init => KeepInv
<1> SUFFICES ASSUME Init PROVE KeepInv
  BY Zenon
<1>1. MaxGens \in Nat /\ 1 \in Gens
  BY ConfigAssumption, SMT, SMTT(30) DEF Gens
<1>2. ConnShape
  BY <1>1, SMT, SMTT(30) DEF Init, ConnShape
<1>3. Handlers
  BY <1>1, SMT, SMTT(30) DEF Init, Handlers, Spawning
<1>4. dropped = {}
  BY Zenon DEF Init
<1> QED
  BY <1>2, <1>3, <1>4, InitServe, Zenon DEF KeepInv

\* The stages of shutdown_for_reload.
LEMMA ReloadSparesHandlers == \A i \in 1 .. Len(ReloadStages) : ReloadStages[i] # "tcp_handlers"
BY SMT, SMTT(30) DEF ReloadStages

LEMMA TailSpares ==
    ASSUME NEW s \in Seq(StageNames), s # <<>>, \A i \in 1 .. Len(s) : s[i] # "tcp_handlers"
    PROVE /\ Head(s) # "tcp_handlers"
          /\ \A i \in 1 .. Len(Tail(s)) : Tail(s)[i] # "tcp_handlers"
<1>1. Len(s) \in Nat /\ Len(s) > 0 /\ Head(s) = s[1]
  BY SMT, SMTT(30)
<1>2. Len(Tail(s)) = Len(s) - 1 /\ \A i \in 1 .. Len(s) - 1 : Tail(s)[i] = s[i + 1]
  BY <1>1, SMT, SMTT(30)
<1>3. \A i \in 1 .. Len(s) - 1 : i + 1 \in 1 .. Len(s)
  BY <1>1, SMT, SMTT(30)
<1> QED
  BY <1>1, <1>2, <1>3, SMT, SMTT(30)

\* A dropped generation stays free while the tasks run: whatever could hold it
\* again would have to run in it.
LEMMA LeftPackets ==
    ASSUME KeepInv, NEW g, NEW k, LeavesPackets(g, k), k \in UdpLoops => k \in task[g], NEW x \in dropped
    PROVE stray'[x] = "none"
<1>1. Free(x) /\ x \in Gens /\ stray \in [Gens -> {"none", "packet", "evicted", "orphan"}]
  BY Zenon DEF KeepInv, ServeInv, Shape, ConnShape
<1>2. CASE UNCHANGED stray
  BY <1>1, <1>2, Zenon DEF Free
<1>3. CASE k \in UdpLoops /\ stray' = [stray EXCEPT ![g] = "packet"]
  <2>1. k \in ArcTasks /\ k \in task[g]
    BY <1>3, Zenon DEF UdpLoops, ArcTasks, Tasks
  <2>2. x # g
    BY <1>1, <2>1, Zenon DEF Free
  <2> QED
    BY <1>1, <1>3, <2>2, Zenon DEF Free
<1> QED
  BY <1>2, <1>3, Zenon DEF LeavesPackets

LEMMA TasksKeepFree ==
    ASSUME KeepInv, NEW g \in Gens, TaskStep(g), NEW x \in dropped
    PROVE Free(x)'
<1>1. Free(x) /\ x \in Gens
  BY Zenon DEF KeepInv, ServeInv, Shape
<1>2. UNCHANGED ctlVars /\ current' = current
  BY Zenon DEF TaskStep, TaskEnds, Accept, PortForwardFails, OpenSession, SessionEnds, EvictSession,
         LateSession, StrayEnds, ReplyStarts, ReplyInserts, FakeExpires, DropState, genVars
<1>3. Acceptors \subseteq ArcTasks /\ UdpLoops \subseteq ArcTasks /\ "udp" \in ArcTasks
  BY Zenon DEF Acceptors, UdpLoops, ArcTasks, Tasks
<1>4. task \in [Gens -> SUBSET Tasks] /\ stray \in [Gens -> {"none", "packet", "evicted", "orphan"}]
  BY Zenon DEF KeepInv, ServeInv, Shape, ConnShape
<1>5. CASE (\E k \in Tasks : TaskEnds(g, k)) \/ PortForwardFails(g) \/ SessionEnds(g)
  <2>1. conn' = conn /\ task'[x] \subseteq task[x]
    BY <1>1, <1>4, <1>5, Zenon DEF TaskEnds, PortForwardFails, SessionEnds
  <2>2. stray'[x] = "none"
    <3>1. CASE SessionEnds(g)
      BY <1>1, <3>1, Zenon DEF SessionEnds, Free
    <3>2. CASE (\E k \in Tasks : TaskEnds(g, k)) \/ PortForwardFails(g)
      <4>1. PICK k \in Tasks : k \in task[g] /\ LeavesPackets(g, k)
        BY <3>2, Zenon DEF TaskEnds, PortForwardFails, Running, Tasks
      <4> QED
        BY <4>1, LeftPackets, Zenon
    <3> QED
      BY <1>5, <3>1, <3>2, Zenon
  <2> QED
    BY <1>1, <1>2, <2>1, <2>2, Zenon DEF Free, ctlVars
<1>6. CASE \E k \in Acceptors, c \in Conns : Accept(g, k, c)
  <2>1. PICK k \in Acceptors, c \in Conns : Accept(g, k, c)
    BY <1>6, Zenon
  <2>2. k \in task[g] /\ UNCHANGED <<task, stray>>
        /\ conn' = [conn EXCEPT ![c] = [gen |-> g, via |-> k, st |-> "accepted"]]
    BY <2>1, ZenonT(30) DEF Accept, Running
  <2>3. x # g
    BY <1>1, <1>3, <2>2, Zenon DEF Free
  <2>4. \A d \in Conns : conn'[d].gen = x => conn'[d] = conn[d]
    BY <2>2, <2>3, Zenon DEF KeepInv, ConnShape
  <2> QED
    BY <1>1, <1>2, <2>2, <2>4, ZenonT(30) DEF Free, ctlVars
<1>7. CASE OpenSession(g) \/ EvictSession(g) \/ LateSession(g)
  <2>1. x # g
    <3>1. CASE OpenSession(g) \/ EvictSession(g)
      <4>1. stray[g] = "packet" \/ \E k \in ArcTasks : k \in task[g]
        BY <1>3, <3>1, Zenon DEF OpenSession, EvictSession, Running
      <4> QED
        BY <1>1, <4>1, Zenon DEF Free
    <3>2. CASE LateSession(g)
      BY <1>1, <3>2, Zenon DEF LateSession, Free
    <3> QED
      BY <1>7, <3>1, <3>2, Zenon
  <2>2. task'[x] = task[x] /\ stray'[x] = stray[x] /\ UNCHANGED conn
    BY <1>1, <1>4, <1>7, <2>1, Zenon DEF OpenSession, EvictSession, LateSession, Spawn
  <2> QED
    BY <1>1, <1>2, <2>2, Zenon DEF Free, ctlVars
<1>8. CASE StrayEnds(g)
  <2>1. stray'[x] \in {stray[x], "none"} /\ UNCHANGED <<task, conn>>
    BY <1>1, <1>4, <1>8, Zenon DEF StrayEnds
  <2> QED
    BY <1>1, <1>2, <2>1, Zenon DEF Free, ctlVars
<1>9. CASE \/ \E w \in {"udp", "stray"} : ReplyStarts(g, w) \/ ReplyInserts(g, w)
           \/ FakeExpires(g) \/ DropState(g)
  <2>1. UNCHANGED <<task, stray, conn>>
    BY <1>9, Zenon DEF ReplyStarts, ReplyInserts, FakeExpires, DropState, taskVars
  <2> QED
    BY <1>1, <1>2, <2>1, Zenon DEF Free, ctlVars
<1> QED
  BY <1>5, <1>6, <1>7, <1>8, <1>9, Zenon DEF TaskStep

LEMMA HandlersKeepFree ==
    ASSUME KeepInv, NEW c \in Conns, SpawnHandler(c) \/ HandlerEnds(c), NEW x \in dropped
    PROVE Free(x)'
<1>1. Free(x) /\ conn \in [Conns -> [gen : 0 .. MaxGens, via : Acceptors \cup {"none"},
                                    st : {"none", "accepted", "running", "ended"}]]
  BY Zenon DEF KeepInv, ConnShape
<1>2. UNCHANGED <<current, hupNew, hupOld, task, stray>>
  BY Zenon DEF SpawnHandler, HandlerEnds, genVars, ctlVars
<1>3. \A d \in Conns : /\ conn'[d].gen = conn[d].gen
                       /\ conn'[d].st \in Live => conn[d].st \in Live
  BY <1>1, SMT, SMTT(30) DEF SpawnHandler, HandlerEnds, Live
<1> QED
  BY <1>1, <1>2, <1>3, Zenon DEF Free

LEMMA SpawnKeepsFree ==
    ASSUME KeepInv, MainSpawn \/ HupSpawn, NEW x \in dropped
    PROVE Free(x)'
<1>1. Free(x) /\ x \in Gens /\ task \in [Gens -> SUBSET Tasks]
  BY Zenon DEF KeepInv, ServeInv, Shape
<1>2. UNCHANGED <<current, hupNew, hupOld, stray, conn>>
  BY Zenon DEF MainSpawn, HupSpawn, genVars
<1>3. PICK g \in {current, hupNew} : task' = task \/ \E ks : task' = [task EXCEPT ![g] = @ \cup ks]
  <2>1. MainSpawn => current = 1
    BY Zenon DEF MainSpawn, KeepInv, ServeInv, Control, Starting
  <2>2. CASE MainSpawn
    BY <2>1, <2>2, ZenonT(30) DEF MainSpawn, SpawnListeners, SpawnPortForwards, SpawnRest, Spawn
  <2>3. CASE HupSpawn
    BY <2>3, ZenonT(30) DEF HupSpawn, SpawnListeners, SpawnPortForwards, SpawnRest, Spawn
  <2> QED
    BY <2>2, <2>3, Zenon
<1>4. x # g
  BY <1>1, Zenon DEF Free
<1>5. task'[x] = task[x]
  BY <1>1, <1>3, <1>4, Zenon
<1> QED
  BY <1>1, <1>2, <1>5, Zenon DEF Free

\* The Arcs of reload_config are those of generations that are not dropped.
LEMMA ControlKeepsFree ==
    ASSUME KeepInv, NEW x \in dropped,
           \/ HupSignal \/ BuildFails \/ Build \/ Swap \/ HupReturns
           \/ CtrlC \/ StopSighup \/ HupEnds \/ AbortHup \/ ExitShutdown \/ Exit
    PROVE Free(x)'
<1>1. Free(x) /\ x \in Gens /\ x # 0
  <2>1. Free(x) /\ x \in Gens
    BY Zenon DEF KeepInv, ServeInv, Shape
  <2>2. \A g \in Gens : g # 0
    BY ConfigAssumption, SMT, SMTT(30) DEF Gens
  <2> QED
    BY <2>1, <2>2, Zenon
<1>2. UNCHANGED <<task, stray, conn>>
  BY Zenon DEF HupSignal, BuildFails, Build, Swap, HupReturns, CtrlC, StopSighup, HupEnds, AbortHup,
         ExitShutdown, Exit, taskVars
<1>3. CASE Build
  <2>1. x # built + 1
    BY <1>1, ConfigAssumption, SMT, SMTT(30) DEF KeepInv, ServeInv, Serving, Shape, Gens
  <2> QED
    BY <1>1, <1>2, <1>3, <2>1, ZenonT(30) DEF Build, Free
<1>4. CASE ~Build
  <2>1. {current', hupNew', hupOld'} \subseteq {current, hupNew, hupOld, 0}
    BY <1>4, ZenonT(30) DEF HupSignal, BuildFails, Swap, HupReturns, CtrlC, StopSighup, HupEnds, AbortHup,
         ExitShutdown, Exit, genVars
  <2> QED
    BY <1>1, <1>2, <2>1, Zenon DEF Free
<1> QED
  BY <1>3, <1>4, Zenon

LEMMA ShutdownKeepsFree ==
    ASSUME KeepInv, ShutdownStep, NEW x \in dropped
    PROVE Free(x)'
<1>1. /\ Free(x) /\ x \in Gens /\ task \in [Gens -> SUBSET Tasks]
      /\ stray \in [Gens -> {"none", "packet", "evicted", "orphan"}]
      /\ conn \in [Conns -> [gen : 0 .. MaxGens, via : Acceptors \cup {"none"},
                             st : {"none", "accepted", "running", "ended"}]]
  BY Zenon DEF KeepInv, ServeInv, Shape, ConnShape
<1>2. UNCHANGED <<current, hupNew, hupOld>>
  BY ShutdownFrame, Zenon DEF KeepInv, ServeInv
<1>3. CASE ShutdownStage \/ \E t \in Tasks \cup Conns : AwaitTask(t)
  <2>1. UNCHANGED <<task, stray, conn>>
    BY <1>3, Zenon DEF ShutdownStage, AwaitTask, taskVars
  <2> QED
    BY <1>1, <1>2, <2>1, Zenon DEF Free
<1>4. CASE \E t \in Tasks \cup Conns : AbortTask(t)
  <2>1. PICK t \in Tasks \cup Conns : AbortTask(t)
    BY <1>4, Zenon
  <2>2. task'[x] \subseteq task[x]
    BY <1>1, <2>1, SMT, SMTT(30) DEF AbortTask
  <2>3. \A d \in Conns : conn'[d].gen = conn[d].gen /\ (conn'[d].st = conn[d].st \/ conn'[d].st = "ended")
    BY <1>1, <2>1, SMT, SMTT(30) DEF AbortTask
  <2>4. stray'[x] = "none"
    <3>1. t \in UdpLoops => t \in ArcTasks /\ t \in task[sd.gen]
      <4>1. t \in UdpLoops => t \in ArcTasks /\ t \notin Conns
        BY ConnsAssumption, Zenon DEF UdpLoops, ArcTasks, Tasks
      <4> QED
        BY <2>1, <4>1, Zenon DEF AbortTask, Ended, Running
    <3>2. CASE LeavesPackets(sd.gen, t)
      BY <3>1, <3>2, LeftPackets, Zenon
    <3>3. CASE t \in UdpLoops /\ stray' = [stray EXCEPT ![sd.gen] = "orphan"]
      <4>1. x # sd.gen
        BY <1>1, <3>1, <3>3, Zenon DEF Free
      <4> QED
        BY <1>1, <3>3, <4>1, Zenon DEF Free
    <3> QED
      BY <2>1, <3>2, <3>3, Zenon DEF AbortTask
  <2> QED
    BY <1>1, <1>2, <2>2, <2>3, <2>4, Zenon DEF Free, Live
<1> QED
  BY <1>3, <1>4, Zenon DEF ShutdownStep

LEMMA NextFree == KeepInv /\ [Next]_vars => \A x \in dropped' : Free(x)'
<1> SUFFICES ASSUME KeepInv, [Next]_vars PROVE \A x \in dropped' : Free(x)'
  BY Zenon
<1>1. CASE \E g \in Gens : DropState(g)
  <2>1. PICK g \in Gens : DropState(g)
    BY <1>1, Zenon
  <2>2. dropped' = dropped \cup {g} /\ UNCHANGED <<current, hupNew, hupOld, task, stray, conn>> /\ Free(g)
    BY <2>1, FreeIsNotHeld, Zenon DEF DropState, ctlVars
  <2> QED
    BY <2>2, Zenon DEF KeepInv, Free
<1>2. CASE ~\E g \in Gens : DropState(g)
  <2>1. dropped' = dropped
    BY <1>2, ZenonT(60) DEF Next, MainStep, HupStep, ShutdownStep, TaskStep, MainSpawn, CtrlC, StopSighup,
         HupEnds, AbortHup, ExitShutdown, Exit, HupSignal, BuildFails, Build, HupSpawn, Swap, HupReturns,
         ShutdownStage, AwaitTask, AbortTask, TaskEnds, Accept, PortForwardFails, OpenSession,
         SessionEnds, EvictSession, LateSession, StrayEnds, ReplyStarts, ReplyInserts, FakeExpires,
         SpawnHandler, HandlerEnds, genVars, vars
  <2>2. ASSUME NEW x \in dropped PROVE Free(x)'
    <3>1. CASE UNCHANGED vars
      BY <3>1, Zenon DEF vars, genVars, taskVars, ctlVars, KeepInv, Free
    <3>2. CASE MainStep \/ HupStep
      BY <3>2, SpawnKeepsFree, ControlKeepsFree, Zenon DEF MainStep, HupStep
    <3> QED
      BY <3>1, <3>2, ShutdownKeepsFree, TasksKeepFree, HandlersKeepFree, Zenon DEF Next
  <2> QED
    BY <2>1, <2>2, Zenon
<1> QED
  BY <1>1, <1>2, Zenon

LEMMA NextConnShape == KeepInv /\ [Next]_vars => ConnShape'
<1> SUFFICES ASSUME KeepInv, [Next]_vars PROVE ConnShape'
  BY Zenon
<1>1. ConnShape /\ Shape /\ MaxGens \in Nat
  BY ConfigAssumption, Zenon DEF KeepInv, ServeInv
<1>2. CASE MainStep \/ (HupStep /\ ~Swap) \/ UNCHANGED vars
  <2>1. UNCHANGED <<conn, stray, served>>
    BY <1>2, ZenonT(30) DEF MainStep, HupStep, MainSpawn, CtrlC, StopSighup, HupEnds, AbortHup, ExitShutdown,
         Exit, HupSignal, BuildFails, Build, HupSpawn, HupReturns, genVars, taskVars, vars
  <2> QED
    BY <1>1, <2>1, Zenon DEF ConnShape
<1>3. CASE Swap
  <2>1. hupNew \in Gens
    BY <1>3, Zenon DEF Swap, KeepInv, ServeInv, Control, Spawning
  <2> QED
    BY <1>1, <1>3, <2>1, Zenon DEF Swap, ConnShape, taskVars
<1>4. CASE ShutdownStep
  <2>1. served' = served /\ sd.gen \in Gens
    BY <1>1, <1>4, ShutdownFrame, Zenon
  <2>2. CASE ShutdownStage \/ \E t \in Tasks \cup Conns : AwaitTask(t)
    BY <1>1, <2>1, <2>2, Zenon DEF ShutdownStage, AwaitTask, taskVars, ConnShape
  <2>3. CASE \E t \in Tasks \cup Conns : AbortTask(t)
    BY <1>1, <2>1, <2>3, SMT, SMTT(30) DEF AbortTask, LeavesPackets, ConnShape
  <2> QED
    BY <1>4, <2>2, <2>3, Zenon DEF ShutdownStep
<1>5. ASSUME NEW g \in Gens, TaskStep(g) PROVE ConnShape'
  <2>1. served' = served
    BY <1>5, ZenonT(30) DEF TaskStep, TaskEnds, Accept, PortForwardFails, OpenSession, SessionEnds, EvictSession,
         LateSession, StrayEnds, ReplyStarts, ReplyInserts, FakeExpires, DropState, genVars
  <2>2. CASE \E k \in Acceptors, c \in Conns : Accept(g, k, c)
    <3>1. g \in 0 .. MaxGens
      BY <1>1, SMT, SMTT(30) DEF Gens
    <3> QED
      BY <1>1, <2>1, <2>2, <3>1, SMT, SMTT(30) DEF Accept, ConnShape
  <2>3. CASE \/ EvictSession(g) \/ LateSession(g) \/ StrayEnds(g)
             \/ (\E k \in Tasks : TaskEnds(g, k)) \/ PortForwardFails(g)
    <3>1. UNCHANGED conn /\ (UNCHANGED stray \/ \E v \in {"none", "packet", "evicted"} : stray' = [stray EXCEPT ![g] = v])
      BY <2>3, Zenon DEF EvictSession, LateSession, StrayEnds, TaskEnds, PortForwardFails, LeavesPackets
    <3> QED
      BY <1>1, <2>1, <3>1, Zenon DEF ConnShape
  <2>4. CASE \/ \E w \in {"udp", "stray"} : ReplyStarts(g, w) \/ ReplyInserts(g, w)
             \/ OpenSession(g) \/ SessionEnds(g) \/ FakeExpires(g) \/ DropState(g)
    <3>1. UNCHANGED <<conn, stray>>
      BY <2>4, Zenon DEF OpenSession, SessionEnds, ReplyStarts, ReplyInserts,
                  FakeExpires, DropState, taskVars
    <3> QED
      BY <1>1, <2>1, <3>1, Zenon DEF ConnShape
  <2> QED
    BY <1>5, <2>2, <2>3, <2>4, Zenon DEF TaskStep
<1>6. ASSUME NEW c \in Conns, SpawnHandler(c) \/ HandlerEnds(c) PROVE ConnShape'
  BY <1>1, <1>6, SMT, SMTT(30) DEF SpawnHandler, HandlerEnds, ConnShape, genVars
<1> QED
  BY <1>2, <1>3, <1>4, <1>5, <1>6, Zenon DEF Next, HupStep

\* Steps that touch none of what Handlers is about.
LEMMA QuietHandlers ==
    ASSUME Handlers, UNCHANGED <<served, built, hup, hupNew, sd, cancelled, main, dropped>>
    PROVE Handlers'
BY Zenon DEF Handlers

LEMMA ReloadHandlers == KeepInv /\ HupStep => Handlers'
<1> SUFFICES ASSUME KeepInv, HupStep PROVE Handlers'
  BY Zenon
<1>a. UNCHANGED <<cancelled, main, dropped>>
  BY ZenonT(30) DEF HupStep, HupSignal, BuildFails, Build, HupSpawn, Swap, HupReturns, genVars, taskVars
<1>b. Handlers /\ built \in Gens /\ served \subseteq Gens
  BY Zenon DEF KeepInv, ServeInv, Shape, ConnShape
<1>1. /\ Handlers /\ MaxGens \in Nat /\ built \in Nat /\ built \in Gens /\ served \subseteq Gens
      /\ UNCHANGED <<cancelled, main, dropped>>
  BY <1>a, <1>b, ConfigAssumption, SMT, SMTT(30) DEF Gens
<1>2. CASE HupSignal \/ BuildFails \/ HupReturns
  <2>1. UNCHANGED <<served, built>> /\ hup' \in {"idle", "building"}
    BY <1>2, Zenon DEF HupSignal, BuildFails, HupReturns, genVars
  <2> QED
    BY <1>1, <2>1, Zenon DEF Handlers, Spawning
<1>3. CASE Build
  <2>1. served' = served /\ built' = built + 1 /\ hupNew' = built + 1 /\ hup' = "listeners"
    BY <1>3, Zenon DEF Build
  <2>2. \A g \in served : g <= built + 1 /\ g # built + 1
    BY <1>1, SMT, SMTT(30) DEF Handlers, Gens
  <2>3. built + 1 \in Gens
    BY <1>3, BuiltBound, Zenon DEF Build, KeepInv, ServeInv
  <2>4. cancelled[built + 1] = {}
    BY <1>1, <2>3, SMT, SMTT(30) DEF KeepInv, ServeInv, Serving
  <2> QED
    BY <1>1, <2>1, <2>2, <2>4, Zenon DEF Handlers
<1>4. CASE HupSpawn
  <2>1. /\ UNCHANGED <<served, built, hupNew>> /\ hup \in Spawning
        /\ hup' \in {"forwards", "rest", "swap", "rollback"}
    BY <1>4, Zenon DEF HupSpawn, genVars, Spawning
  <2> QED
    BY <1>1, <2>1, Zenon DEF Handlers, Spawning
<1>5. CASE Swap
  <2>1. /\ served' = served \cup {hupNew} /\ hup = "swap" /\ hup' = "retiring"
        /\ sd' = [gen |-> current, left |-> ReloadStages, wait |-> {}] /\ UNCHANGED built
    BY <1>5, Zenon DEF Swap
  <2>2. hupNew <= built /\ "tcp_handlers" \notin cancelled[hupNew]
    BY <2>1, Zenon DEF KeepInv, ServeInv, Control, Handlers, Spawning
  <2>3. sd'.left = ReloadStages
    BY <2>1, Zenon
  <2> QED
    BY <1>1, <2>1, <2>2, <2>3, ReloadSparesHandlers, Zenon DEF Handlers, Spawning
<1> QED
  BY <1>2, <1>3, <1>4, <1>5, Zenon DEF HupStep

LEMMA MainHandlers == KeepInv /\ MainStep => Handlers'
<1> SUFFICES ASSUME KeepInv, MainStep PROVE Handlers'
  BY Zenon
<1>1. Handlers /\ UNCHANGED <<served, built, cancelled, dropped>>
  BY Zenon DEF KeepInv, MainStep, MainSpawn, CtrlC, StopSighup, HupEnds, AbortHup, ExitShutdown, Exit,
         genVars, taskVars
<1>2. CASE MainSpawn \/ CtrlC \/ StopSighup
  <2>1. UNCHANGED <<sd, hup, hupNew>> /\ main \notin {"failed", "exiting", "exited"}
    BY <1>2, Zenon DEF MainSpawn, CtrlC, StopSighup
  <2> QED
    BY <1>1, <2>1, Zenon DEF Handlers
<1>3. CASE HupEnds \/ AbortHup \/ ExitShutdown \/ Exit
  <2>1. hup' = "ended" /\ (main' \in {"exiting", "exited"} \/ main = "stop_sighup")
    BY <1>3, Zenon DEF HupEnds, AbortHup, ExitShutdown, Exit, KeepInv, ServeInv, Control
  <2> QED
    BY <1>1, <2>1, Zenon DEF Handlers, Spawning
<1> QED
  BY <1>2, <1>3, Zenon DEF MainStep

LEMMA ShutdownHandlers == KeepInv /\ ShutdownStep => Handlers'
<1> SUFFICES ASSUME KeepInv, ShutdownStep PROVE Handlers'
  BY Zenon
<1>a. Shape
  BY Zenon DEF KeepInv, ServeInv
<1>b. UNCHANGED <<built, served, dropped, main, hup, hupNew>> /\ sd.gen \in 1 .. MaxGens
  BY <1>a, ShutdownFrame, ZenonT(30) DEF Gens
<1>1. /\ UNCHANGED <<built, served, dropped, main, hup, hupNew>>
      /\ sd.gen \in Gens /\ sd.gen # 0
  BY <1>b, ConfigAssumption, SMT, SMTT(30) DEF Gens
<1>2. Handlers /\ sd \in [gen : {0} \cup Gens, left : Seq(StageNames), wait : SUBSET (Tasks \cup Conns)]
  BY Zenon DEF KeepInv, ServeInv, Shape
<1>3. CASE ShutdownStage
  <2>1. /\ sd.left # <<>> /\ sd'.left = Tail(sd.left)
        /\ cancelled' = [cancelled EXCEPT ![sd.gen] = @ \cup ({Head(sd.left)} \cap Guards)]
    BY <1>2, <1>3, Zenon DEF ShutdownStage
  <2>2. hup = "retiring" =>
            /\ Head(sd.left) # "tcp_handlers"
            /\ \A i \in 1 .. Len(sd'.left) : sd'.left[i] # "tcp_handlers"
    BY <1>2, <2>1, TailSpares, Zenon DEF Handlers
  <2>3. hup \in {"rollback", "retiring"} \/ main = "exiting"
    BY <1>1, Zenon DEF KeepInv, ServeInv, Control
  <2>4. /\ hup = "rollback" => sd.gen \notin served
        /\ hup \notin Spawning \/ main = "exiting"
        /\ main = "exiting" => hup = "ended"
    BY <1>2, <2>3, Zenon DEF KeepInv, ServeInv, Control, Handlers, Spawning
  <2>5. main # "exiting" => \A g \in served : "tcp_handlers" \in cancelled'[g] => "tcp_handlers" \in cancelled[g]
    <3>1. ASSUME main # "exiting", NEW g \in served, "tcp_handlers" \in cancelled'[g]
          PROVE "tcp_handlers" \in cancelled[g]
      <4>1. g \in Gens /\ cancelled \in [Gens -> SUBSET Guards]
        BY Zenon DEF KeepInv, ServeInv, Shape, ConnShape
      <4>2. CASE g # sd.gen
        BY <2>1, <3>1, <4>1, <4>2, Zenon
      <4>3. CASE g = sd.gen
        <5>1. hup = "retiring"
          BY <2>3, <2>4, <3>1, <4>3, Zenon
        <5> QED
          BY <2>1, <2>2, <3>1, <4>1, <4>3, <5>1, Zenon
      <4> QED
        BY <4>2, <4>3, Zenon
    <3> QED
      BY <3>1, Zenon
  <2> QED
    BY <1>1, <1>2, <2>2, <2>4, <2>5, Zenon DEF Handlers, Spawning
<1>4. CASE \E t \in Tasks \cup Conns : AwaitTask(t) \/ AbortTask(t)
  <2>1. cancelled' = cancelled /\ sd'.left = sd.left
    BY <1>2, <1>4, Zenon DEF AwaitTask, AbortTask, taskVars
  <2> QED
    BY <1>1, <1>2, <2>1, Zenon DEF Handlers
<1> QED
  BY <1>3, <1>4, Zenon DEF ShutdownStep

LEMMA NextHandlers == KeepInv /\ [Next]_vars => Handlers'
<1> SUFFICES ASSUME KeepInv, [Next]_vars PROVE Handlers'
  BY Zenon
<1>1. Handlers
  BY Zenon DEF KeepInv
<1>2. ASSUME NEW g \in Gens, TaskStep(g) PROVE Handlers'
  <2>1. CASE DropState(g)
    <3>1. /\ UNCHANGED <<served, built, hup, hupNew, sd, main>>
          /\ dropped' = dropped \cup {g} /\ cancelled' = [cancelled EXCEPT ![g] = Guards]
          /\ g # hupNew
      BY <2>1, Zenon DEF DropState, ctlVars, Held
    <3>2. \A x \in Gens : x # g => cancelled'[x] = cancelled[x]
      BY <3>1, Zenon DEF KeepInv, ServeInv, Shape
    <3>3. served \subseteq Gens /\ (hup \in Spawning => hupNew \in Gens)
      BY Zenon DEF KeepInv, ServeInv, Control, ConnShape
    <3> QED
      BY <1>1, <3>1, <3>2, <3>3, Zenon DEF Handlers
  <2>2. CASE ~DropState(g)
    BY <1>1, <1>2, <2>2, TasksStep, QuietHandlers, Zenon DEF KeepInv, ServeInv, genVars, ctlVars
  <2> QED
    BY <2>1, <2>2, Zenon
<1>3. ASSUME NEW c \in Conns, SpawnHandler(c) \/ HandlerEnds(c) PROVE Handlers'
  BY <1>1, <1>3, HandlersStep, QuietHandlers, Zenon DEF KeepInv, ServeInv, genVars, ctlVars
<1>4. CASE UNCHANGED vars
  BY <1>1, <1>4, QuietHandlers, Zenon DEF vars, genVars, taskVars, ctlVars
<1> QED
  BY <1>2, <1>3, <1>4, ReloadHandlers, MainHandlers, ShutdownHandlers, Zenon DEF Next

LEMMA NextKeep == KeepInv /\ [Next]_vars => KeepInv'
BY NextServe, NextConnShape, NextFree, NextHandlers, Zenon DEF KeepInv

\* A reload never cancels a connection that a current generation has accepted,
\* nor drops the generation under it (ReloadKeepsConnections).
THEOREM ReloadKeepsConnectionsHolds == Spec => []ReloadKeepsConnections
<1>1. KeepInv => ReloadKeepsConnections
  <2> SUFFICES ASSUME KeepInv, NEW c \in Conns, conn[c].st = "running", conn[c].gen \in served,
                      main # "exiting", Alive
               PROVE /\ "tcp_handlers" \notin cancelled[conn[c].gen]
                     /\ conn[c].gen \notin dropped
    BY Zenon DEF ReloadKeepsConnections
  <2>1. conn[c].gen \notin dropped
    BY Zenon DEF KeepInv, Free, Live
  <2>2. "tcp_handlers" \notin cancelled[conn[c].gen]
    BY <2>1, Zenon DEF KeepInv, Handlers, Alive
  <2> QED
    BY <2>1, <2>2, Zenon
<1> QED
  BY <1>1, InitKeep, NextKeep, PTL DEF Spec

-----------------------------------------------------------------------------
(***************************************************************************)
(* Types: what the two invariants leave open.                              *)
(***************************************************************************)
MainPlaces == {"listeners", "forwards", "rest", "serving", "stop_stats", "stop_sighup",
               "stop_usr1", "exiting", "exited", "failed"}
HupPlaces == {"idle", "building", "listeners", "forwards", "rest", "swap", "retiring",
              "rollback", "ended"}
Replies == [udp : {"idle", "inserting"}, stray : {"idle", "inserting"}]

FakeType == fakeClosed \subseteq Gens /\ fakeSock \subseteq Gens /\ reply \in [Gens -> Replies]

CtlType ==
    /\ done \in [Gens -> {"no", "reload", "exit"}]
    /\ hupNew \in 0 .. MaxGens /\ hupOld \in 0 .. MaxGens
    /\ main \in MainPlaces /\ hup \in HupPlaces

LEMMA InitTypes == Init => FakeType /\ CtlType
<1>1. MaxGens \in Nat
  BY ConfigAssumption, Zenon
<1> QED
  BY <1>1, SMT, SMTT(30) DEF Init, FakeType, CtlType, Replies, MainPlaces, HupPlaces

LEMMA NextFakeType == KeepInv /\ FakeType /\ [Next]_vars => FakeType'
<1> SUFFICES ASSUME KeepInv, FakeType, [Next]_vars PROVE FakeType'
  BY Zenon
<1>1. ASSUME NEW g \in Gens, TaskStep(g) PROVE FakeType'
  <2>1. CASE UNCHANGED fakeVars
    BY <2>1, Zenon DEF fakeVars, FakeType
  <2>2. CASE EvictSession(g)
    BY <2>2, Zenon DEF EvictSession, FakeType, Replies
  <2>3. ASSUME NEW w \in {"udp", "stray"}, ReplyStarts(g, w) \/ ReplyInserts(g, w) PROVE FakeType'
    <3>1. CASE w = "udp"
      BY <2>3, <3>1, SMT, SMTT(30) DEF ReplyStarts, ReplyInserts, FakeType, Replies
    <3>2. CASE w = "stray"
      BY <2>3, <3>2, SMT, SMTT(30) DEF ReplyStarts, ReplyInserts, FakeType, Replies
    <3> QED
      BY <3>1, <3>2, Zenon
  <2>4. CASE FakeExpires(g) \/ DropState(g)
    BY <2>4, Zenon DEF FakeExpires, DropState, FakeType
  <2>5. CASE (\E k \in Tasks : TaskEnds(g, k)) \/ (\E k \in Acceptors, c \in Conns : Accept(g, k, c))
    BY <2>1, <2>5, Zenon DEF TaskEnds, Accept
  <2>6. CASE PortForwardFails(g) \/ OpenSession(g) \/ SessionEnds(g) \/ LateSession(g) \/ StrayEnds(g)
    BY <2>1, <2>6, Zenon DEF PortForwardFails, OpenSession, SessionEnds, LateSession, StrayEnds
  <2> QED
    BY <1>1, <2>2, <2>3, <2>4, <2>5, <2>6, Zenon DEF TaskStep
<1>2. CASE ShutdownStage
  <2>1. sd.gen \in Gens
    BY <1>2, Zenon DEF ShutdownStage, KeepInv, ServeInv, Shape
  <2>2. fakeClosed' \subseteq fakeClosed \cup {sd.gen} /\ fakeSock' \subseteq fakeSock /\ reply' = reply
    BY <1>2, Zenon DEF ShutdownStage
  <2> QED
    BY <2>1, <2>2, Zenon DEF FakeType
<1>3. ASSUME NEW t, AwaitTask(t) \/ AbortTask(t) PROVE FakeType'
  BY <1>3, Zenon DEF AwaitTask, AbortTask, fakeVars, FakeType
<1>4. CASE MainStep
  <2>1. UNCHANGED fakeVars
    BY <1>4, Zenon DEF MainStep, MainSpawn, CtrlC, StopSighup, HupEnds, AbortHup, ExitShutdown, Exit
  <2> QED
    BY <2>1, Zenon DEF fakeVars, FakeType
<1>5. CASE HupStep
  <2>1. UNCHANGED fakeVars
    BY <1>5, Zenon DEF HupStep, HupSignal, BuildFails, Build, HupSpawn, Swap, HupReturns
  <2> QED
    BY <2>1, Zenon DEF fakeVars, FakeType
<1>6. ASSUME NEW c \in Conns, SpawnHandler(c) \/ HandlerEnds(c) PROVE FakeType'
  BY <1>6, Zenon DEF SpawnHandler, HandlerEnds, fakeVars, FakeType
<1>7. CASE UNCHANGED vars
  BY <1>7, Zenon DEF vars, fakeVars, FakeType
<1> QED
  BY <1>1, <1>2, <1>3, <1>4, <1>5, <1>6, <1>7, Zenon DEF Next, ShutdownStep

LEMMA NextCtlType == KeepInv /\ CtlType /\ [Next]_vars => CtlType'
<1> SUFFICES ASSUME KeepInv, CtlType, [Next]_vars PROVE CtlType'
  BY Zenon
<1>0. /\ MaxGens \in Nat /\ Gens = 1 .. MaxGens /\ current \in Gens
      /\ sd.gen \in {0} \cup Gens
  BY ConfigAssumption, Zenon DEF KeepInv, ServeInv, Shape, Gens
<1>1. ASSUME UNCHANGED <<done, main, hup, hupNew, hupOld>> PROVE CtlType'
  BY <1>1, Zenon DEF CtlType
<1>2. CASE MainSpawn \/ CtrlC \/ StopSighup \/ HupEnds \/ AbortHup \/ ExitShutdown
  <2>1. done' = done
    BY <1>2, Zenon DEF MainSpawn, CtrlC, StopSighup, HupEnds, AbortHup, ExitShutdown, genVars
  <2>2. hupNew' \in {0, hupNew} /\ hupOld' \in {0, hupOld} /\ hup' \in {hup, "ended"}
    BY <1>2, Zenon DEF MainSpawn, CtrlC, StopSighup, HupEnds, AbortHup, ExitShutdown
  <2>3. main' \in MainPlaces
    BY <1>2, Zenon DEF MainSpawn, CtrlC, StopSighup, HupEnds, AbortHup, ExitShutdown, MainPlaces
  <2> QED
    BY <1>0, <2>1, <2>2, <2>3, SMT, SMTT(30) DEF CtlType, HupPlaces
<1>3. CASE Exit
  BY <1>0, <1>3, Zenon DEF Exit, ShutdownOver, CtlType, MainPlaces
<1>4. CASE HupSignal \/ BuildFails \/ HupSpawn
  <2>1. UNCHANGED <<done, main, hupNew, hupOld>>
    BY <1>4, Zenon DEF HupSignal, BuildFails, HupSpawn, genVars
  <2>2. hup' \in HupPlaces
    BY <1>4, Zenon DEF HupSignal, BuildFails, HupSpawn, HupPlaces
  <2> QED
    BY <2>1, <2>2, Zenon DEF CtlType
<1>5. CASE Build
  <2>1. built + 1 \in Gens
    BY <1>5, BuiltBound, Zenon DEF Build, KeepInv, ServeInv
  <2> QED
    BY <1>0, <1>5, <2>1, SMT, SMTT(30) DEF Build, CtlType, HupPlaces
<1>6. CASE Swap
  BY <1>0, <1>6, SMT, SMTT(30) DEF Swap, CtlType, HupPlaces
<1>7. CASE HupReturns
  BY <1>0, <1>7, SMT, SMTT(30) DEF HupReturns, ShutdownOver, CtlType, HupPlaces
<1>8. CASE ShutdownStep
  BY <1>1, <1>8, Zenon DEF ShutdownStep, ShutdownStage, AwaitTask, AbortTask, genVars
<1>9. ASSUME NEW g \in Gens, TaskStep(g) PROVE CtlType'
  <2>1. CASE DropState(g)
    BY <1>1, <2>1, Zenon DEF DropState, ctlVars
  <2>2. CASE ~DropState(g)
    BY <1>1, <1>9, <2>2, TasksStep, Zenon DEF KeepInv, ServeInv, genVars, ctlVars
  <2> QED
    BY <2>1, <2>2, Zenon
<1>10. ASSUME NEW c \in Conns, SpawnHandler(c) \/ HandlerEnds(c) PROVE CtlType'
  BY <1>1, <1>10, Zenon DEF SpawnHandler, HandlerEnds, genVars, ctlVars
<1>11. CASE UNCHANGED vars
  BY <1>1, <1>11, Zenon DEF vars, genVars, ctlVars
<1> QED
  BY <1>2, <1>3, <1>4, <1>5, <1>6, <1>7, <1>8, <1>9, <1>10, <1>11, Zenon DEF Next, MainStep, HupStep

\* The variables of the generations keep their types (TypeOK).
THEOREM TypeCorrect == Spec => []TypeOK
<1>1. Init => KeepInv /\ FakeType /\ CtlType
  BY InitKeep, InitTypes, Zenon
<1>2. KeepInv /\ FakeType /\ CtlType /\ [Next]_vars => (KeepInv /\ FakeType /\ CtlType)'
  BY NextKeep, NextFakeType, NextCtlType, Zenon
<1>3. KeepInv /\ FakeType /\ CtlType => TypeOK
  <2> SUFFICES ASSUME KeepInv, FakeType, CtlType PROVE TypeOK
    BY Zenon
  <2>1. sd.gen \in 0 .. MaxGens /\ sd.wait \subseteq Tasks \cup Conns
    BY ConfigAssumption, SMT, SMTT(30) DEF KeepInv, ServeInv, Shape, Gens
  <2> QED
    BY <2>1, Zenon DEF TypeOK, KeepInv, ServeInv, Shape, ConnShape, FakeType, Replies, CtlType, MainPlaces, HupPlaces
<1> QED
  BY <1>1, <1>2, <1>3, PTL DEF Spec

-----------------------------------------------------------------------------
(***************************************************************************)
(* When a shutdown is over the generation is quiet, and a closed manager   *)
(* of fake sockets gets no socket from a registered receive loop.  Both    *)
(* rest on the order of the stages.                                        *)
(***************************************************************************)
\* The tasks whose guards shutdown_for_reload stops.
Stoppable == Tasks \ {"relative_score", "score_debug_printer"}

\* A task of the generation that is shut down has ended, or is awaited.
Stopped(k) == k \in cancelled[sd.gen] /\ (k \in task[sd.gen] => k \in sd.wait)

\* It has, or its stage is among the next n.
Due(k, n) == Stopped(k) \/ \E i \in 1 .. n : sd.left[i] = k

\* The stages to come cover all tasks; the receive loops end before the fake
\* sockets are closed, and the accept loops before the handlers.
Ordered ==
    sd.gen # 0 =>
        /\ \A k \in Stoppable : Due(k, Len(sd.left))
        /\ \A j \in 1 .. Len(sd.left) : sd.left[j] = "fake_close" => Due("udp", j - 1)
        /\ \A j \in 1 .. Len(sd.left) : sd.left[j] = "tcp_handlers" =>
              \A k \in Acceptors : Due(k, j - 1)

\* A connection between accept and the spawn of its handler keeps the accept
\* loop from ending.
Accepting ==
    \A c \in Conns : conn[c].st = "accepted" =>
        /\ conn[c].gen \in Gens /\ conn[c].via \in Acceptors
        /\ conn[c].via \in task[conn[c].gen]

\* shutdown_for_exit, also as a rollback: once the stage of the handlers is
\* past nothing accepts any more and all handlers are awaited.
Emptied ==
    sd.gen # 0 /\ (main = "exiting" \/ hup = "rollback") =>
        \/ \E i \in 1 .. Len(sd.left) : sd.left[i] = "tcp_handlers"
        \/ /\ \A k \in Acceptors : k \in cancelled[sd.gen] /\ k \notin task[sd.gen]
           /\ ConnsOf(sd.gen, "running") \subseteq sd.wait

\* A generation that is being started has not been shut down.
Young ==
    /\ main \in Starting => \A g \in Gens : done[g] = "no"
    /\ hup \in Spawning => done[hupNew] = "no"
    /\ \A g \in Gens : g > built => done[g] = "no"

Quiet ==
    \A g \in Gens : done[g] # "no" =>
        /\ \A k \in Stoppable : k \in cancelled[g] /\ k \notin task[g]
        /\ done[g] = "exit" => ConnsOf(g, "running") = {}

\* A registered receive loop does not end inside get_or_create, and has ended
\* when the manager is closed.
Closed ==
    \A g \in Gens :
        /\ reply[g]["udp"] = "inserting" => "udp" \in task[g]
        /\ g \in fakeClosed => "udp" \in cancelled[g] /\ "udp" \notin task[g]

DownInv == KeepInv /\ FakeType /\ CtlType /\ Ordered /\ Accepting /\ Emptied /\ Young /\ Quiet /\ Closed

-----------------------------------------------------------------------------
\* The types that most steps need.
LEMMA Types ==
    ASSUME DownInv
    PROVE /\ task \in [Gens -> SUBSET Tasks] /\ cancelled \in [Gens -> SUBSET Guards]
          /\ conn \in [Conns -> [gen : 0 .. MaxGens, via : Acceptors \cup {"none"},
                                 st : {"none", "accepted", "running", "ended"}]]
          /\ sd \in [gen : {0} \cup Gens, left : Seq(StageNames), wait : SUBSET (Tasks \cup Conns)]
          /\ sd.gen = 0 => sd.wait = {}
          /\ reply \in [Gens -> Replies] /\ done \in [Gens -> {"no", "reload", "exit"}]
BY Zenon DEF DownInv, KeepInv, ServeInv, Shape, ConnShape, FakeType, CtlType

LEMMA InitDown == Init => DownInv
<1> SUFFICES ASSUME Init PROVE DownInv
  BY Zenon
<1>1. sd.gen = 0
  BY Zenon DEF Init, NoShutdown
<1>2. \A c \in Conns : conn[c].st = "none"
  BY Zenon DEF Init
<1>3. \A g \in Gens : done[g] = "no" /\ reply[g]["udp"] = "idle"
  BY Zenon DEF Init
<1>4. Ordered /\ Emptied
  BY <1>1, Zenon DEF Ordered, Emptied
<1>5. Accepting /\ Young /\ Quiet
  BY <1>2, <1>3, Zenon DEF Init, Accepting, Young, Quiet, Spawning
<1>6. Closed
  BY <1>3, Zenon DEF Init, Closed
<1> QED
  BY <1>4, <1>5, <1>6, InitKeep, InitTypes, Zenon DEF DownInv

-----------------------------------------------------------------------------
(***************************************************************************)
(* Steps that start no task under a cancelled token, and no handler but    *)
(* that of an accepted connection.                                         *)
(***************************************************************************)
Grow ==
    /\ \A x \in Gens : cancelled[x] \subseteq cancelled'[x]
    /\ \A x \in Gens : \A k \in Tasks : k \in task'[x] => k \in task[x] \/ k \notin cancelled[x]

Moves ==
    \A c \in Conns : conn'[c].st = "running" =>
        conn[c].st \in {"accepted", "running"} /\ conn'[c].gen = conn[c].gen

LEMMA TaskGrow ==
    ASSUME DownInv, NEW g \in Gens, TaskStep(g)
    PROVE Grow /\ Moves /\ UNCHANGED <<ctlVars, built, done, fakeClosed>>
<1>0. /\ task \in [Gens -> SUBSET Tasks] /\ cancelled \in [Gens -> SUBSET Guards]
      /\ conn \in [Conns -> [gen : 0 .. MaxGens, via : Acceptors \cup {"none"},
                             st : {"none", "accepted", "running", "ended"}]]
  BY Types, Zenon
<1> USE DEF Grow, Moves, genVars, taskVars, fakeVars
<1>1. ASSUME NEW k \in Tasks, TaskEnds(g, k) PROVE Grow /\ Moves /\ UNCHANGED <<ctlVars, built, done, fakeClosed>>
  BY <1>0, <1>1, Zenon DEF TaskEnds
<1>2. ASSUME NEW k \in Acceptors, NEW c \in Conns, Accept(g, k, c)
      PROVE Grow /\ Moves /\ UNCHANGED <<ctlVars, built, done, fakeClosed>>
  BY <1>0, <1>2, Zenon DEF Accept
<1>3. CASE PortForwardFails(g) \/ SessionEnds(g) \/ EvictSession(g)
  BY <1>0, <1>3, Zenon DEF PortForwardFails, SessionEnds, EvictSession
<1>4. CASE OpenSession(g)
  BY <1>0, <1>4, Zenon DEF OpenSession, Spawn
<1>5. CASE LateSession(g) \/ StrayEnds(g) \/ FakeExpires(g) \/ \E w \in {"udp", "stray"} : ReplyStarts(g, w) \/ ReplyInserts(g, w)
  BY <1>0, <1>5, Zenon DEF LateSession, StrayEnds, FakeExpires, ReplyStarts, ReplyInserts
<1>6. CASE DropState(g)
  BY <1>0, <1>6, Zenon DEF DropState
<1> QED
  BY <1>1, <1>2, <1>3, <1>4, <1>5, <1>6, Zenon DEF TaskStep

LEMMA HandlerGrow ==
    ASSUME DownInv, NEW c \in Conns, SpawnHandler(c) \/ HandlerEnds(c)
    PROVE Grow /\ Moves /\ UNCHANGED <<ctlVars, built, done, fakeClosed, task, cancelled, fakeVars>>
<1>0. conn \in [Conns -> [gen : 0 .. MaxGens, via : Acceptors \cup {"none"},
                          st : {"none", "accepted", "running", "ended"}]]
  BY Types, Zenon
<1> QED
  BY <1>0, SMT, SMTT(30) DEF SpawnHandler, HandlerEnds, Grow, Moves, genVars, fakeVars

\* Where nothing accepts no handler starts.
LEMMA NoNewHandler ==
    ASSUME DownInv, Moves, NEW x \in Gens, \A k \in Acceptors : k \notin task[x]
    PROVE ConnsOf(x, "running")' \subseteq ConnsOf(x, "running")
BY Zenon DEF DownInv, Accepting, Moves, ConnsOf

LEMMA StoppedStays ==
    ASSUME DownInv, Grow, sd.gen # 0, sd' = sd, NEW k \in Tasks, Stopped(k)
    PROVE Stopped(k)'
<1>1. sd.gen \in Gens
  BY Types, Zenon
<1> QED
  BY <1>1, Zenon DEF Grow, Stopped

LEMMA QuietKept ==
    ASSUME DownInv, Grow, Moves, UNCHANGED done
    PROVE Quiet'
<1> SUFFICES ASSUME NEW g \in Gens, done[g] # "no"
             PROVE /\ \A k \in Stoppable : k \in cancelled'[g] /\ k \notin task'[g]
                   /\ done[g] = "exit" => ConnsOf(g, "running")' = {}
  BY Zenon DEF Quiet
<1>1. Acceptors \subseteq Stoppable /\ Stoppable \subseteq Tasks
  BY Zenon DEF Acceptors, Tasks, Stoppable
<1>2. /\ \A k \in Stoppable : k \in cancelled[g] /\ k \notin task[g]
      /\ done[g] = "exit" => ConnsOf(g, "running") = {}
  BY Zenon DEF DownInv, Quiet
<1>3. \A k \in Stoppable : k \in cancelled'[g] /\ k \notin task'[g]
  BY <1>1, <1>2, Zenon DEF Grow
<1>4. ConnsOf(g, "running")' \subseteq ConnsOf(g, "running")
  BY <1>1, <1>2, NoNewHandler, Zenon
<1> QED
  BY <1>2, <1>3, <1>4, Zenon

LEMMA CalmStep ==
    ASSUME DownInv, Grow, Moves, UNCHANGED <<ctlVars, built, done>>
    PROVE Ordered' /\ Emptied' /\ Young' /\ Quiet'
<1>0. Acceptors \subseteq Tasks /\ Acceptors \subseteq Stoppable /\ Stoppable \subseteq Tasks /\ "udp" \in Tasks
  BY Zenon DEF Acceptors, Tasks, Stoppable
<1>1. UNCHANGED <<sd, main, hup, hupNew>>
  BY Zenon DEF ctlVars
<1>2. Ordered'
  <2> SUFFICES ASSUME sd.gen # 0 PROVE Ordered'
    BY <1>1, Zenon DEF Ordered
  <2>1. ASSUME NEW k \in Tasks, NEW n, Due(k, n) PROVE Due(k, n)'
    BY <1>1, <2>1, StoppedStays, Zenon DEF Due
  <2> QED
    BY <1>0, <1>1, <2>1, Zenon DEF DownInv, Ordered
<1>3. Emptied'
  <2> SUFFICES ASSUME sd.gen # 0, main = "exiting" \/ hup = "rollback",
                      ~\E i \in 1 .. Len(sd.left) : sd.left[i] = "tcp_handlers"
               PROVE /\ \A k \in Acceptors : k \in cancelled'[sd.gen] /\ k \notin task'[sd.gen]
                     /\ ConnsOf(sd.gen, "running")' \subseteq sd.wait
    BY <1>1, Zenon DEF Emptied
  <2>1. sd.gen \in Gens
    BY Types, Zenon
  <2>2. /\ \A k \in Acceptors : k \in cancelled[sd.gen] /\ k \notin task[sd.gen]
        /\ ConnsOf(sd.gen, "running") \subseteq sd.wait
    BY Zenon DEF DownInv, Emptied
  <2>3. \A k \in Acceptors : k \in cancelled'[sd.gen] /\ k \notin task'[sd.gen]
    BY <1>0, <2>1, <2>2, Zenon DEF Grow
  <2>4. ConnsOf(sd.gen, "running")' \subseteq ConnsOf(sd.gen, "running")
    BY <1>1, <2>1, <2>2, NoNewHandler, Zenon DEF ConnsOf
  <2> QED
    BY <2>2, <2>3, <2>4, Zenon
<1>4. Young'
  BY <1>1, Zenon DEF DownInv, Young
<1>5. Quiet'
  BY QuietKept, Zenon
<1> QED
  BY <1>2, <1>3, <1>4, <1>5, Zenon

-----------------------------------------------------------------------------
(***************************************************************************)
(* The accept loops.                                                       *)
(***************************************************************************)
\* A task ends where no connection is on the way to its handler.
LEMMA AcceptingKept ==
    ASSUME DownInv, conn' = conn, NEW g \in Gens, NEW t,
           task' = [task EXCEPT ![g] = @ \ {t}], t \in Acceptors => AtAwait(g, t)
    PROVE Accepting'
<1>0. task \in [Gens -> SUBSET Tasks]
  BY Types, Zenon
<1> SUFFICES ASSUME NEW c \in Conns, conn[c].st = "accepted"
             PROVE /\ conn[c].gen \in Gens /\ conn[c].via \in Acceptors
                   /\ conn[c].via \in task'[conn[c].gen]
  BY Zenon DEF Accepting
<1>1. /\ conn[c].gen \in Gens /\ conn[c].via \in Acceptors
      /\ conn[c].via \in task[conn[c].gen]
  BY Zenon DEF DownInv, Accepting
<1>2. ~(conn[c].gen = g /\ conn[c].via = t)
  BY <1>1, Zenon DEF AtAwait
<1> QED
  BY <1>0, <1>1, <1>2, Zenon

\* No task ends and no connection is accepted.
LEMMA AcceptingGrows ==
    ASSUME DownInv, \A x \in Gens : task[x] \subseteq task'[x],
           \A c \in Conns : conn'[c].st = "accepted" => conn'[c] = conn[c]
    PROVE Accepting'
BY Zenon DEF DownInv, Accepting

LEMMA TaskAccepting ==
    ASSUME DownInv, NEW g \in Gens, TaskStep(g)
    PROVE Accepting'
<1>0. /\ task \in [Gens -> SUBSET Tasks]
      /\ conn \in [Conns -> [gen : 0 .. MaxGens, via : Acceptors \cup {"none"},
                             st : {"none", "accepted", "running", "ended"}]]
  BY Types, Zenon
<1>1. ASSUME NEW k \in Tasks, TaskEnds(g, k) PROVE Accepting'
  BY <1>1, AcceptingKept, Zenon DEF TaskEnds
<1>2. ASSUME NEW k \in Acceptors, NEW c \in Conns, Accept(g, k, c) PROVE Accepting'
  <2>1. /\ conn' = [conn EXCEPT ![c] = [gen |-> g, via |-> k, st |-> "accepted"]]
        /\ task' = task /\ k \in task[g]
    BY <1>2, Zenon DEF Accept, Running
  <2> SUFFICES ASSUME NEW d \in Conns, conn'[d].st = "accepted"
               PROVE /\ conn'[d].gen \in Gens /\ conn'[d].via \in Acceptors
                     /\ conn'[d].via \in task[conn'[d].gen]
    BY <2>1, Zenon DEF Accepting
  <2>2. CASE d = c
    BY <1>0, <2>1, <2>2, Zenon
  <2>3. CASE d # c
    BY <1>0, <2>1, <2>3, Zenon DEF DownInv, Accepting
  <2> QED
    BY <2>2, <2>3, Zenon
<1>3. CASE PortForwardFails(g)
  BY <1>3, AcceptingKept, Zenon DEF PortForwardFails
<1>4. CASE SessionEnds(g) \/ EvictSession(g)
  <2>1. "udp" \notin Acceptors
    BY Zenon DEF Acceptors
  <2> QED
    BY <1>4, <2>1, AcceptingKept, Zenon DEF SessionEnds, EvictSession
<1>5. CASE OpenSession(g)
  BY <1>0, <1>5, AcceptingGrows, Zenon DEF OpenSession, Spawn
<1>6. CASE LateSession(g) \/ StrayEnds(g) \/ FakeExpires(g) \/ DropState(g)
           \/ \E w \in {"udp", "stray"} : ReplyStarts(g, w) \/ ReplyInserts(g, w)
  BY <1>6, AcceptingGrows, Zenon DEF LateSession, StrayEnds, FakeExpires, DropState, ReplyStarts, ReplyInserts, taskVars
<1> QED
  BY <1>1, <1>2, <1>3, <1>4, <1>5, <1>6, Zenon DEF TaskStep

LEMMA HandlerAccepting ==
    ASSUME DownInv, NEW c \in Conns, SpawnHandler(c) \/ HandlerEnds(c)
    PROVE Accepting'
<1>1. conn \in [Conns -> [gen : 0 .. MaxGens, via : Acceptors \cup {"none"},
                          st : {"none", "accepted", "running", "ended"}]]
  BY Types, Zenon
<1> QED
  BY <1>1, AcceptingGrows, Zenon DEF SpawnHandler, HandlerEnds

-----------------------------------------------------------------------------
(***************************************************************************)
(* The fake sockets.                                                       *)
(***************************************************************************)
\* What starts and ends leaves a registered receive loop that is inside
\* get_or_create alone.
LEMMA ClosedKept ==
    ASSUME DownInv, Grow, UNCHANGED fakeClosed,
           \A x \in Gens : reply'[x]["udp"] = "inserting" => "udp" \in task'[x]
    PROVE Closed'
<1>1. "udp" \in Tasks
  BY Zenon DEF Tasks
<1> QED
  BY <1>1, Zenon DEF DownInv, Closed, Grow

LEMMA TaskClosed ==
    ASSUME DownInv, NEW g \in Gens, TaskStep(g)
    PROVE Closed'
<1>0. task \in [Gens -> SUBSET Tasks] /\ reply \in [Gens -> Replies]
  BY Types, Zenon
<1> SUFFICES \A x \in Gens : reply'[x]["udp"] = "inserting" => "udp" \in task'[x]
  BY TaskGrow, ClosedKept, Zenon
<1>1. \A x \in Gens : reply[x]["udp"] = "inserting" => "udp" \in task[x]
  BY Zenon DEF DownInv, Closed
<1>2. ASSUME NEW k \in Tasks, TaskEnds(g, k)
      PROVE \A x \in Gens : reply'[x]["udp"] = "inserting" => "udp" \in task'[x]
  <2>1. /\ task' = [task EXCEPT ![g] = @ \ {k}] /\ reply' = reply
        /\ k = "udp" => reply[g]["udp"] = "idle"
    BY <1>2, Zenon DEF TaskEnds, AtAwait, fakeVars
  <2> QED
    BY <1>0, <1>1, <2>1, Zenon
<1>3. CASE \E k \in Acceptors, c \in Conns : Accept(g, k, c)
  BY <1>1, <1>3, Zenon DEF Accept, fakeVars
<1>4. CASE PortForwardFails(g)
  BY <1>0, <1>1, <1>4, Zenon DEF PortForwardFails, fakeVars
<1>5. CASE SessionEnds(g)
  BY <1>0, <1>1, <1>5, Zenon DEF SessionEnds, fakeVars
<1>6. CASE EvictSession(g)
  BY <1>0, <1>1, <1>6, Zenon DEF EvictSession, Replies
<1>7. CASE OpenSession(g)
  BY <1>0, <1>1, <1>7, Zenon DEF OpenSession, Spawn, fakeVars
<1>8. ASSUME NEW w \in {"udp", "stray"}, ReplyStarts(g, w) \/ ReplyInserts(g, w)
      PROVE \A x \in Gens : reply'[x]["udp"] = "inserting" => "udp" \in task'[x]
  <2>1. task' = task
    BY <1>8, Zenon DEF ReplyStarts, ReplyInserts, taskVars
  <2>2. CASE w = "udp"
    BY <1>0, <1>1, <1>8, <2>1, <2>2, Zenon DEF ReplyStarts, ReplyInserts, Running, Replies
  <2>3. CASE w = "stray"
    BY <1>0, <1>1, <1>8, <2>1, <2>3, SMT, SMTT(30) DEF ReplyStarts, ReplyInserts, Replies
  <2> QED
    BY <2>2, <2>3, Zenon
<1>9. CASE LateSession(g) \/ StrayEnds(g) \/ FakeExpires(g) \/ DropState(g)
  BY <1>1, <1>9, Zenon DEF LateSession, StrayEnds, FakeExpires, DropState, taskVars, fakeVars
<1> QED
  BY <1>2, <1>3, <1>4, <1>5, <1>6, <1>7, <1>8, <1>9, Zenon DEF TaskStep

LEMMA HandlerClosed ==
    ASSUME DownInv, NEW c \in Conns, SpawnHandler(c) \/ HandlerEnds(c)
    PROVE Closed'
<1>1. UNCHANGED <<task, cancelled, fakeVars>>
  BY HandlerGrow, Zenon
<1> QED
  BY <1>1, Zenon DEF fakeVars, DownInv, Closed

-----------------------------------------------------------------------------
(***************************************************************************)
(* A shutdown that is running: the next stage, and a task that is awaited. *)
(***************************************************************************)
LEMMA StageFacts ==
    ASSUME DownInv, ShutdownStage
    PROVE /\ sd.gen \in Gens /\ sd.wait = {} /\ Len(sd.left) \in Nat /\ Len(sd.left) > 0
          /\ sd'.gen = sd.gen /\ sd'.wait = Handles(sd.gen, sd.left[1])
          /\ Len(sd'.left) = Len(sd.left) - 1
          /\ \A i \in 1 .. Len(sd.left) - 1 : sd'.left[i] = sd.left[i + 1]
          /\ \A x \in Gens : cancelled[x] \subseteq cancelled'[x]
          /\ sd.left[1] \in Tasks => sd.left[1] \in cancelled'[sd.gen]
          /\ UNCHANGED <<genVars, task, conn, reply, main, hup, hupNew>>
          /\ fakeClosed' = IF sd.left[1] = "fake_close" THEN fakeClosed \cup {sd.gen} ELSE fakeClosed
<1>1. /\ sd \in [gen : {0} \cup Gens, left : Seq(StageNames), wait : SUBSET (Tasks \cup Conns)]
      /\ cancelled \in [Gens -> SUBSET Guards]
  BY Types, Zenon
<1>2. /\ sd.gen \in Gens /\ sd.wait = {} /\ sd.left \in Seq(StageNames) /\ sd.left # <<>>
  BY <1>1, Zenon DEF ShutdownStage
<1>3. Len(sd.left) \in Nat /\ Len(sd.left) > 0 /\ Head(sd.left) = sd.left[1]
  BY <1>2, SMT, SMTT(30)
<1>4. /\ Len(Tail(sd.left)) = Len(sd.left) - 1
      /\ \A i \in 1 .. Len(sd.left) - 1 : Tail(sd.left)[i] = sd.left[i + 1]
  BY <1>2, <1>3, SMT, SMTT(30)
<1>5. sd' = [sd EXCEPT !.left = Tail(@), !.wait = Handles(sd.gen, sd.left[1])]
  BY <1>3, Zenon DEF ShutdownStage
<1>6. sd'.gen = sd.gen /\ sd'.left = Tail(sd.left) /\ sd'.wait = Handles(sd.gen, sd.left[1])
  BY <1>1, <1>5, ZenonT(30)
<1>7. cancelled' = [cancelled EXCEPT ![sd.gen] = @ \cup ({sd.left[1]} \cap Guards)]
  BY <1>3, Zenon DEF ShutdownStage
<1>8. sd.left[1] \in Tasks => sd.left[1] \in cancelled'[sd.gen]
  BY <1>1, <1>2, <1>7, Zenon DEF Guards
<1>9. \A x \in Gens : cancelled[x] \subseteq cancelled'[x]
  BY <1>1, <1>7, Zenon
<1>10. /\ UNCHANGED <<genVars, task, conn, reply, main, hup, hupNew>>
       /\ fakeClosed' = IF sd.left[1] = "fake_close" THEN fakeClosed \cup {sd.gen} ELSE fakeClosed
  BY <1>3, Zenon DEF ShutdownStage
<1> QED
  BY <1>2, <1>3, <1>4, <1>6, <1>8, <1>9, <1>10, Zenon

LEMMA StageDue ==
    ASSUME DownInv, ShutdownStage, NEW k \in Tasks, NEW n \in 1 .. Len(sd.left), Due(k, n)
    PROVE Due(k, n - 1)'
<1>1. k # "tcp_handlers"
  BY Zenon DEF Tasks
<1>2. CASE Stopped(k)
  BY <1>2, StageFacts, Zenon DEF Stopped, Due
<1>3. CASE sd.left[1] = k
  <2>1. k \in task[sd.gen] => k \in Handles(sd.gen, k)
    BY <1>1, Zenon DEF Handles, Running
  <2> QED
    BY <1>3, <2>1, StageFacts, Zenon DEF Stopped, Due
<1>4. ASSUME NEW i \in 1 .. n, sd.left[i] = k, i # 1 PROVE Due(k, n - 1)'
  <2>1. Len(sd.left) \in Nat /\ i - 1 \in 1 .. n - 1 /\ i - 1 \in 1 .. Len(sd.left) - 1 /\ (i - 1) + 1 = i
    BY <1>4, StageFacts, SMT, SMTT(30)
  <2>2. sd'.left[i - 1] = k
    BY <1>4, <2>1, StageFacts, Zenon
  <2> QED
    BY <2>1, <2>2, Zenon DEF Due
<1> QED
  BY <1>2, <1>3, <1>4, Zenon DEF Due

LEMMA StageDown ==
    ASSUME DownInv, ShutdownStage
    PROVE Ordered' /\ Accepting' /\ Emptied' /\ Young' /\ Quiet' /\ Closed'
<1>0. Acceptors \subseteq Tasks /\ Acceptors \subseteq Stoppable /\ Stoppable \subseteq Tasks /\ "udp" \in Tasks
  BY Zenon DEF Acceptors, Tasks, Stoppable
<1>1. sd.gen # 0 /\ Len(sd.left) \in Nat /\ Len(sd.left) > 0
  BY StageFacts, Zenon DEF ShutdownStage
<1>2. Ordered'
  <2>1. ASSUME NEW k \in Stoppable PROVE Due(k, Len(sd.left))'
    <3>1. Due(k, Len(sd.left))
      BY <1>1, Zenon DEF DownInv, Ordered
    <3>2. Len(sd.left)' = Len(sd.left) - 1
      BY StageFacts, Zenon
    <3> QED
      BY <1>0, <1>1, <3>1, <3>2, StageDue, SMT, SMTT(30) DEF Due
  <2>2. ASSUME NEW j \in 1 .. Len(sd'.left), NEW k \in Tasks,
               sd'.left[j] \in {"fake_close", "tcp_handlers"},
               \A i \in 1 .. Len(sd.left) : sd.left[i] = sd'.left[j] => Due(k, i - 1)
        PROVE Due(k, j - 1)'
    <3>1. j \in 1 .. Len(sd.left) - 1 /\ j + 1 \in 1 .. Len(sd.left) /\ sd.left[j + 1] = sd'.left[j]
      BY <1>1, StageFacts, SMT, SMTT(30)
    <3>2. Due(k, j)
      BY <1>1, <2>2, <3>1, SMT, SMTT(30)
    <3> QED
      BY <1>1, <3>1, <3>2, StageDue, SMT, SMTT(30)
  <2> QED
    BY <1>0, <1>1, <2>1, <2>2, Zenon DEF DownInv, Ordered
<1>3. Accepting'
  BY StageFacts, AcceptingGrows, Zenon
<1>4. Emptied'
  <2> SUFFICES ASSUME main = "exiting" \/ hup = "rollback",
                      ~\E i \in 1 .. Len(sd'.left) : sd'.left[i] = "tcp_handlers"
               PROVE /\ \A k \in Acceptors : k \in cancelled'[sd.gen] /\ k \notin task[sd.gen]
                     /\ ConnsOf(sd.gen, "running") \subseteq sd'.wait
    BY StageFacts, Zenon DEF Emptied, ConnsOf
  <2>1. CASE sd.left[1] = "tcp_handlers"
    <3>1. \A k \in Acceptors : Due(k, 0)
      BY <1>1, <2>1, SMT, SMTT(30) DEF DownInv, Ordered
    <3>2. \A k \in Acceptors : Stopped(k)
      BY <3>1, SMT, SMTT(30) DEF Due
    <3>3. sd'.wait = ConnsOf(sd.gen, "running")
      BY <2>1, StageFacts, Zenon DEF Handles
    <3> QED
      BY <3>2, <3>3, StageFacts, Zenon DEF Stopped
  <2>2. CASE sd.left[1] # "tcp_handlers"
    <3>1. ~\E i \in 1 .. Len(sd.left) : sd.left[i] = "tcp_handlers"
      <4> SUFFICES ASSUME NEW i \in 1 .. Len(sd.left), sd.left[i] = "tcp_handlers" PROVE FALSE
        BY Zenon
      <4>1. i - 1 \in 1 .. Len(sd.left) - 1 /\ (i - 1) + 1 = i
        BY <1>1, <2>2, SMT, SMTT(30)
      <4> QED
        BY <4>1, StageFacts, Zenon
    <3>2. /\ \A k \in Acceptors : k \in cancelled[sd.gen] /\ k \notin task[sd.gen]
          /\ ConnsOf(sd.gen, "running") \subseteq sd.wait
      BY <1>1, <3>1, Zenon DEF DownInv, Emptied
    <3> QED
      BY <3>2, StageFacts, Zenon
  <2> QED
    BY <2>1, <2>2, Zenon
<1>5. Young'
  BY StageFacts, Zenon DEF DownInv, Young, genVars
<1>6. Quiet'
  BY StageFacts, QuietKept, Zenon DEF Grow, Moves, genVars
<1>7. Closed'
  <2>1. \A x \in Gens : reply'[x]["udp"] = "inserting" => "udp" \in task'[x]
    BY StageFacts, Zenon DEF DownInv, Closed
  <2>2. CASE sd.left[1] # "fake_close"
    BY <2>1, <2>2, StageFacts, ClosedKept, Zenon DEF Grow
  <2>3. CASE sd.left[1] = "fake_close"
    <3>1. Due("udp", 0)
      <4>1. 1 \in 1 .. Len(sd.left) /\ 1 - 1 = 0
        BY <1>1, SMT, SMTT(30)
      <4>2. \A j \in 1 .. Len(sd.left) : sd.left[j] = "fake_close" => Due("udp", j - 1)
        BY <1>1, Zenon DEF DownInv, Ordered
      <4>3. Due("udp", 1 - 1)
        BY <2>3, <4>1, <4>2, Zenon
      <4> QED
        BY <4>1, <4>3, Zenon
    <3>2. "udp" \in cancelled[sd.gen] /\ "udp" \notin task[sd.gen]
      BY <3>1, StageFacts, SMT, SMTT(30) DEF Due, Stopped
    <3> QED
      BY <2>1, <2>3, <3>2, StageFacts, Zenon DEF DownInv, Closed
  <2> QED
    BY <2>2, <2>3, Zenon
<1> QED
  BY <1>2, <1>3, <1>4, <1>5, <1>6, <1>7, Zenon

\* An awaited task or handler has ended, or is aborted.
LEMMA AwaitDown ==
    ASSUME DownInv, NEW t \in Tasks \cup Conns, AwaitTask(t) \/ AbortTask(t)
    PROVE Ordered' /\ Accepting' /\ Emptied' /\ Young' /\ Quiet' /\ Closed'
<1>0. /\ task \in [Gens -> SUBSET Tasks] /\ cancelled \in [Gens -> SUBSET Guards]
      /\ conn \in [Conns -> [gen : 0 .. MaxGens, via : Acceptors \cup {"none"},
                             st : {"none", "accepted", "running", "ended"}]]
      /\ sd \in [gen : {0} \cup Gens, left : Seq(StageNames), wait : SUBSET (Tasks \cup Conns)]
      /\ sd.gen = 0 => sd.wait = {}
  BY Types, Zenon
<1>1. t \in sd.wait /\ sd' = [sd EXCEPT !.wait = @ \ {t}]
  BY Zenon DEF AwaitTask, AbortTask
<1>2. sd.gen \in Gens /\ sd.gen # 0 /\ sd'.gen = sd.gen /\ sd'.left = sd.left /\ sd'.wait = sd.wait \ {t}
  BY <1>0, <1>1, Zenon DEF Gens
<1>3. UNCHANGED <<cancelled, fakeVars, genVars, main, hup, hupNew>>
  BY Zenon DEF AwaitTask, AbortTask, taskVars
<1>4. t \in Conns => t \notin Tasks
  BY ConnsAssumption, Zenon
<1>5. /\ \A x \in Gens : \A k \in Tasks : k \in task'[x] => k \in task[x]
      /\ t \in Tasks => t \notin task'[sd.gen]
  BY <1>0, <1>2, <1>4, SMT, SMTT(30) DEF AwaitTask, AbortTask, Ended, Running, taskVars
<1>6. /\ \A c \in Conns : conn'[c] = conn[c] \/ (c = t /\ conn'[c].st = "ended")
      /\ t \in Conns => conn'[t].st = "ended"
  BY <1>0, <1>4, SMT, SMTT(30) DEF AwaitTask, AbortTask, Ended, taskVars
<1>7. Grow /\ Moves
  BY <1>3, <1>5, <1>6, Zenon DEF Grow, Moves
<1>8. Ordered'
  <2>1. ASSUME NEW k \in Tasks, Stopped(k) PROVE Stopped(k)'
    BY <1>2, <1>3, <1>5, <2>1, Zenon DEF Stopped
  <2>2. ASSUME NEW k \in Tasks, NEW n, Due(k, n) PROVE Due(k, n)'
    BY <1>2, <2>1, <2>2, Zenon DEF Due
  <2>3. Stoppable \subseteq Tasks /\ Acceptors \subseteq Tasks /\ "udp" \in Tasks
    BY Zenon DEF Stoppable, Acceptors, Tasks
  <2> QED
    BY <1>2, <2>2, <2>3, Zenon DEF DownInv, Ordered
<1>9. Accepting'
  <2>1. CASE task' = task
    BY <1>6, <2>1, AcceptingGrows, Zenon
  <2>2. CASE task' # task
    <3>1. AbortTask(t) /\ t \notin Conns
      BY <2>2, Zenon DEF AwaitTask, AbortTask, taskVars
    <3> QED
      BY <1>2, <3>1, AcceptingKept, Zenon DEF AbortTask
  <2> QED
    BY <2>1, <2>2, Zenon
<1>10. Emptied'
  <2> SUFFICES ASSUME main = "exiting" \/ hup = "rollback",
                      ~\E i \in 1 .. Len(sd.left) : sd.left[i] = "tcp_handlers"
               PROVE /\ \A k \in Acceptors : k \in cancelled[sd.gen] /\ k \notin task'[sd.gen]
                     /\ ConnsOf(sd.gen, "running")' \subseteq sd.wait \ {t}
    BY <1>2, <1>3, Zenon DEF Emptied
  <2>1. /\ \A k \in Acceptors : k \in cancelled[sd.gen] /\ k \notin task[sd.gen]
        /\ ConnsOf(sd.gen, "running") \subseteq sd.wait
    BY <1>2, Zenon DEF DownInv, Emptied
  <2>2. \A k \in Acceptors : k \notin task'[sd.gen]
    BY <1>2, <1>5, <2>1, Zenon DEF Acceptors, Tasks
  <2>3. ConnsOf(sd.gen, "running")' \subseteq ConnsOf(sd.gen, "running") \ {t}
    BY <1>2, <1>6, Zenon DEF ConnsOf
  <2> QED
    BY <2>1, <2>2, <2>3, Zenon
<1>11. Young'
  BY <1>3, Zenon DEF DownInv, Young, genVars
<1>12. Quiet'
  BY <1>3, <1>7, QuietKept, Zenon DEF genVars
<1>13. Closed'
  <2>1. \A x \in Gens : reply[x]["udp"] = "inserting" => "udp" \in task[x]
    BY Zenon DEF DownInv, Closed
  <2>2. CASE task' = task
    BY <1>3, <1>7, <2>1, <2>2, ClosedKept, Zenon DEF fakeVars
  <2>3. CASE task' # task
    <3>1. /\ task' = [task EXCEPT ![sd.gen] = @ \ {t}]
          /\ t = "udp" => reply[sd.gen]["udp"] = "idle"
      BY <2>3, Zenon DEF AwaitTask, AbortTask, AtAwait, taskVars
    <3>2. \A x \in Gens : reply[x]["udp"] = "inserting" => "udp" \in task'[x]
      BY <1>0, <1>2, <2>1, <3>1, Zenon
    <3> QED
      BY <1>3, <1>7, <3>2, ClosedKept, Zenon DEF fakeVars
  <2> QED
    BY <2>2, <2>3, Zenon
<1> QED
  BY <1>8, <1>9, <1>10, <1>11, <1>12, <1>13, Zenon

-----------------------------------------------------------------------------
(***************************************************************************)
(* Shutdowns begin and end, tasks are spawned.                             *)
(***************************************************************************)
\* The order of the stages: all tasks, the receive loops before the fake
\* sockets, the accept loops before the handlers.
LEMMA StagesOrder ==
    ASSUME NEW S \in {ReloadStages, ExitStages}
    PROVE /\ \A k \in Stoppable : \E i \in 1 .. Len(S) : S[i] = k
          /\ \A j \in 1 .. Len(S) : S[j] = "fake_close" => \E i \in 1 .. j - 1 : S[i] = "udp"
          /\ \A j \in 1 .. Len(S) : S[j] = "tcp_handlers" =>
                \A k \in Acceptors : \E i \in 1 .. j - 1 : S[i] = k
<1>1. /\ Len(S) \in {9, 10} /\ (Len(S) = 10 => S[10] = "tcp_handlers")
      /\ S[1] = "tcp_listeners" /\ S[2] = "udp_listeners" /\ S[3] = "port_forwards"
      /\ S[4] = "udp_gc" /\ S[5] = "udp" /\ S[6] = "fake_close" /\ S[7] = "fake_clear"
      /\ S[8] = "upstream_scores" /\ S[9] = "health_check"
  BY SMT, SMTT(30) DEF ReloadStages, ExitStages
<1>2. \A j \in 1 .. Len(S) : \/ j = 1 \/ j = 2 \/ j = 3 \/ j = 4 \/ j = 5
                              \/ j = 6 \/ j = 7 \/ j = 8 \/ j = 9 \/ j = 10
  <2> TAKE j \in 1 .. Len(S)
  <2> DEFINE n == Len(S)
  <2>1. n \in {9, 10} /\ j \in 1 .. n
    BY <1>1, Zenon
  <2> HIDE DEF n
  <2> QED
    BY <2>1, SMT, SMTT(30)
<1>3. \A k \in Stoppable : \E i \in 1 .. Len(S) : S[i] = k
  <2> TAKE k \in Stoppable
  <2>1. k \in {S[1], S[2], S[3], S[4], S[5], S[8], S[9]}
    BY <1>1, Zenon DEF Stoppable, Tasks
  <2>2. \A i \in {1, 2, 3, 4, 5, 8, 9} : i \in 1 .. Len(S)
    BY <1>1, SMT, SMTT(30)
  <2> QED
    BY <2>1, <2>2, Zenon
<1>4. \A j \in 1 .. Len(S) : S[j] = "fake_close" => \E i \in 1 .. j - 1 : S[i] = "udp"
  <2> TAKE j \in 1 .. Len(S)
  <2> HAVE S[j] = "fake_close"
  <2>1. j = 6
    BY <1>1, <1>2, SMT, SMTT(30)
  <2> QED
    BY <1>1, <2>1, SMT, SMTT(30)
<1>5. \A j \in 1 .. Len(S) : S[j] = "tcp_handlers" => \A k \in Acceptors : \E i \in 1 .. j - 1 : S[i] = k
  <2> TAKE j \in 1 .. Len(S)
  <2> HAVE S[j] = "tcp_handlers"
  <2>1. j = 10
    BY <1>1, <1>2, Zenon
  <2>2. 1 \in 1 .. j - 1 /\ 3 \in 1 .. j - 1
    BY <2>1, SMT, SMTT(30)
  <2> QED
    BY <1>1, <2>2, Zenon DEF Acceptors
<1> QED
  BY <1>3, <1>4, <1>5, Zenon

LEMMA BeginOrdered ==
    ASSUME NEW g, NEW S \in {ReloadStages, ExitStages}, sd' = [gen |-> g, left |-> S, wait |-> {}]
    PROVE Ordered'
<1>1. sd'.left = S
  BY Zenon
<1> QED
  BY <1>1, StagesOrder, SMT, SMTT(30) DEF Ordered, Due

LEMMA BeginEmptied ==
    ASSUME NEW g, sd' = [gen |-> g, left |-> ExitStages, wait |-> {}]
    PROVE Emptied'
<1>1. Len(ExitStages) = 10 /\ ExitStages[10] = "tcp_handlers"
  BY SMT, SMTT(30) DEF ReloadStages, ExitStages
<1>2. sd'.left = ExitStages /\ 10 \in 1 .. Len(ExitStages)
  BY <1>1, SMT, SMTT(30)
<1>3. \E i \in 1 .. Len(sd'.left) : sd'.left[i] = "tcp_handlers"
  BY <1>1, <1>2, Zenon
<1> QED
  BY <1>3, Zenon DEF Emptied

\* What spawn_all_tasks does: it starts tasks of one generation, never a receive
\* loop.
LEMMA SpawnFrame ==
    ASSUME DownInv, NEW g \in Gens,
           \/ \E ok \in BOOLEAN : SpawnListeners(g, ok) \/ SpawnPortForwards(g, ok)
           \/ SpawnRest(g)
    PROVE /\ \A x \in Gens : task[x] \subseteq task'[x]
          /\ \A x \in Gens : x # g => task'[x] = task[x]
          /\ \A x \in Gens : "udp" \in task'[x] => "udp" \in task[x]
<1>1. task \in [Gens -> SUBSET Tasks]
  BY Types, Zenon
<1>2. \/ task' = task
      \/ \E ks : "udp" \notin ks /\ task' = [task EXCEPT ![g] = @ \cup ks]
  BY Zenon DEF SpawnListeners, SpawnPortForwards, SpawnRest, Spawn
<1> QED
  BY <1>1, <1>2, Zenon

\* A generation under construction has not been shut down: what is spawned in
\* it disturbs nothing.
LEMMA SpawnDown ==
    ASSUME DownInv, NEW g \in Gens, done[g] = "no",
           \/ \E ok \in BOOLEAN : SpawnListeners(g, ok) \/ SpawnPortForwards(g, ok)
           \/ SpawnRest(g),
           UNCHANGED <<genVars, cancelled, conn, stray, fakeVars>>
    PROVE Accepting' /\ Quiet' /\ Closed'
<1>1. /\ \A x \in Gens : task[x] \subseteq task'[x]
      /\ \A x \in Gens : x # g => task'[x] = task[x]
      /\ \A x \in Gens : "udp" \in task'[x] => "udp" \in task[x]
  BY SpawnFrame, Zenon
<1>2. Accepting'
  BY <1>1, AcceptingGrows, Zenon
<1>3. Quiet'
  BY <1>1, Zenon DEF DownInv, Quiet, ConnsOf, genVars
<1>4. Closed'
  BY <1>1, Zenon DEF DownInv, Closed, fakeVars
<1> QED
  BY <1>2, <1>3, <1>4, Zenon

\* Where no task, token or connection changes.
LEMMA StillDown ==
    ASSUME DownInv, UNCHANGED <<task, cancelled, conn, reply, fakeClosed>>
    PROVE Accepting' /\ Closed' /\ (UNCHANGED done => Quiet')
BY Zenon DEF DownInv, Accepting, Closed, Quiet, ConnsOf

LEMMA SameShutdown ==
    ASSUME DownInv, UNCHANGED <<sd, task, cancelled, conn>>,
           main' = "exiting" \/ hup' = "rollback" => main = "exiting" \/ hup = "rollback"
    PROVE Ordered' /\ Emptied'
<1>1. \A k, n : Due(k, n)' <=> Due(k, n)
  BY Zenon DEF Due, Stopped
<1>2. Ordered'
  BY <1>1, Zenon DEF DownInv, Ordered
<1>3. Emptied'
  BY Zenon DEF DownInv, Emptied, ConnsOf
<1> QED
  BY <1>2, <1>3, Zenon

LEMMA MainSpawnDown ==
    ASSUME DownInv, MainSpawn
    PROVE Ordered' /\ Accepting' /\ Emptied' /\ Young' /\ Quiet' /\ Closed'
<1>1. /\ main \in Starting /\ main' \in Starting \cup {"serving"}
      /\ UNCHANGED <<genVars, cancelled, conn, stray, fakeVars, sd, hup, hupNew>>
  BY Zenon DEF MainSpawn, Starting
<1>2. 1 \in Gens /\ done[1] = "no"
  BY <1>1, ConfigAssumption, SMT, SMTT(30) DEF Gens, DownInv, Young
<1>3. sd.gen = 0 /\ hup = "idle"
  BY <1>1, Zenon DEF DownInv, KeepInv, ServeInv, Control, Starting
<1>4. \/ \E ok \in BOOLEAN : SpawnListeners(1, ok) \/ SpawnPortForwards(1, ok)
      \/ SpawnRest(1)
  BY Zenon DEF MainSpawn
<1>5. Accepting' /\ Quiet' /\ Closed'
  BY <1>1, <1>2, <1>4, SpawnDown, Zenon
<1>6. Ordered' /\ Emptied'
  BY <1>1, <1>3, Zenon DEF Ordered, Emptied
<1>7. Young'
  BY <1>1, <1>3, Zenon DEF DownInv, Young, Spawning, genVars
<1> QED
  BY <1>5, <1>6, <1>7, Zenon

LEMMA HupSpawnDown ==
    ASSUME DownInv, HupSpawn
    PROVE Ordered' /\ Accepting' /\ Emptied' /\ Young' /\ Quiet' /\ Closed'
<1>1. /\ hup \in Spawning /\ hup' \in Spawning \cup {"rollback"}
      /\ UNCHANGED <<genVars, cancelled, conn, stray, fakeVars, main, hupNew>>
  BY Zenon DEF HupSpawn, Spawning
<1>2. \/ hup' \in Spawning /\ sd' = sd
      \/ hup' = "rollback" /\ sd' = [gen |-> hupNew, left |-> ExitStages, wait |-> {}]
  BY Zenon DEF HupSpawn, Spawning
<1>3. hupNew \in Gens /\ done[hupNew] = "no"
  BY <1>1, Zenon DEF DownInv, Young, KeepInv, ServeInv, Control
<1>4. sd.gen = 0 /\ main # "exiting"
  BY <1>1, Zenon DEF DownInv, KeepInv, ServeInv, Control, Spawning
<1>5. \/ \E ok \in BOOLEAN : SpawnListeners(hupNew, ok) \/ SpawnPortForwards(hupNew, ok)
      \/ SpawnRest(hupNew)
  BY Zenon DEF HupSpawn
<1>6. Accepting' /\ Quiet' /\ Closed'
  BY <1>1, <1>3, <1>5, SpawnDown, Zenon
<1>7. Ordered' /\ Emptied'
  <2>1. CASE sd' = sd
    BY <1>4, <2>1, Zenon DEF Ordered, Emptied
  <2>2. CASE sd' = [gen |-> hupNew, left |-> ExitStages, wait |-> {}]
    BY <2>2, BeginOrdered, BeginEmptied, Zenon
  <2> QED
    BY <1>2, <2>1, <2>2, Zenon
<1>8. Young'
  BY <1>1, <1>3, Zenon DEF DownInv, Young, genVars
<1> QED
  BY <1>6, <1>7, <1>8, Zenon

\* The steps of main and of the SIGHUP handler that touch no task.
LEMMA ControlDown ==
    ASSUME DownInv,
           \/ HupSignal \/ BuildFails \/ Build \/ Swap
           \/ CtrlC \/ StopSighup \/ HupEnds \/ AbortHup \/ ExitShutdown
    PROVE Ordered' /\ Accepting' /\ Emptied' /\ Young' /\ Quiet' /\ Closed'
<1>1. UNCHANGED <<done, taskVars, fakeVars>>
  BY Zenon DEF HupSignal, BuildFails, Build, Swap, CtrlC, StopSighup, HupEnds, AbortHup, ExitShutdown, genVars
<1>2. Accepting' /\ Quiet' /\ Closed'
  BY <1>1, StillDown, Zenon DEF taskVars, fakeVars
<1>3. CASE HupSignal \/ BuildFails \/ CtrlC \/ StopSighup \/ HupEnds
  <2>1. /\ UNCHANGED <<sd, hupNew, built>>
        /\ main' = main \/ main' \in {"stop_stats", "stop_sighup", "stop_usr1"}
        /\ hup' = hup \/ hup' \in {"idle", "building", "ended"}
    BY <1>3, Zenon DEF HupSignal, BuildFails, CtrlC, StopSighup, HupEnds, genVars
  <2>2. Ordered' /\ Emptied'
    BY <1>1, <2>1, SameShutdown, Zenon DEF taskVars
  <2>3. Young'
    BY <1>1, <2>1, Zenon DEF DownInv, Young, Starting, Spawning
  <2> QED
    BY <1>2, <2>2, <2>3, Zenon
<1>4. CASE Build
  <2>1. /\ UNCHANGED <<sd, main>> /\ hup = "building" /\ hup' = "listeners"
        /\ built' = built + 1 /\ hupNew' = built + 1 /\ built < Len(cfg)
    BY <1>4, Zenon DEF Build
  <2>2. built + 1 \in Gens /\ built \in Nat
    BY <2>1, BuiltBound, ConfigAssumption, SMT, SMTT(30) DEF DownInv, KeepInv, ServeInv, Shape, Gens
  <2>3. Ordered' /\ Emptied'
    BY <1>1, <2>1, SameShutdown, Zenon DEF taskVars
  <2>4. \A g \in Gens : g > built + 1 => g > built
    BY <2>2, SMT, SMTT(30) DEF Gens
  <2>5. Young'
    BY <1>1, <2>1, <2>2, <2>4, SMT, SMTT(30) DEF DownInv, Young
  <2> QED
    BY <1>2, <2>3, <2>5, Zenon
<1>5. CASE Swap
  <2>1. /\ sd' = [gen |-> current, left |-> ReloadStages, wait |-> {}]
        /\ hup = "swap" /\ hup' = "retiring" /\ UNCHANGED <<main, built>>
    BY <1>5, Zenon DEF Swap
  <2>2. main # "exiting"
    BY <2>1, Zenon DEF DownInv, KeepInv, ServeInv, Control
  <2>3. Ordered' /\ Emptied'
    BY <2>1, <2>2, BeginOrdered, Zenon DEF Emptied
  <2>4. Young'
    BY <1>1, <2>1, Zenon DEF DownInv, Young, Spawning
  <2> QED
    BY <1>2, <2>3, <2>4, Zenon
<1>6. CASE AbortHup
  <2>1. sd'.gen = 0 /\ hup' = "ended" /\ main' = "stop_usr1" /\ built' = built
    BY <1>6, Zenon DEF AbortHup, NoShutdown, genVars
  <2> QED
    BY <1>1, <1>2, <2>1, Zenon DEF DownInv, Ordered, Emptied, Young, Starting, Spawning
<1>7. CASE ExitShutdown
  <2>1. /\ sd' = [gen |-> current, left |-> ExitStages, wait |-> {}]
        /\ main' = "exiting" /\ UNCHANGED <<hup, hupNew, built>>
    BY <1>7, Zenon DEF ExitShutdown, genVars
  <2>2. Ordered' /\ Emptied'
    BY <2>1, BeginOrdered, BeginEmptied, Zenon
  <2>3. Young'
    BY <1>1, <2>1, Zenon DEF DownInv, Young, Starting
  <2> QED
    BY <1>2, <2>2, <2>3, Zenon
<1> QED
  BY <1>3, <1>4, <1>5, <1>6, <1>7, Zenon

\* A shutdown is over: all its tasks have ended.
LEMMA OverDown ==
    ASSUME DownInv, HupReturns \/ Exit
    PROVE Ordered' /\ Accepting' /\ Emptied' /\ Young' /\ Quiet' /\ Closed'
<1>0. /\ sd \in [gen : {0} \cup Gens, left : Seq(StageNames), wait : SUBSET (Tasks \cup Conns)]
      /\ done \in [Gens -> {"no", "reload", "exit"}]
  BY Types, Zenon
<1>1. /\ sd.gen \in Gens /\ sd.left = <<>> /\ sd.wait = {} /\ sd.gen # 0
      /\ UNCHANGED <<taskVars, fakeVars, built>> /\ sd'.gen = 0
  BY <1>0, SMT, SMTT(30) DEF HupReturns, Exit, ShutdownOver, NoShutdown
<1>2. PICK v : /\ done' = [done EXCEPT ![sd.gen] = v]
               /\ v = "exit" => main = "exiting" \/ hup = "rollback"
  BY Zenon DEF HupReturns, Exit
<1>3. Len(sd.left) = 0
  BY <1>1, Zenon
<1>4. \A k \in Stoppable : k \in cancelled[sd.gen] /\ k \notin task[sd.gen]
  BY <1>1, <1>3, SMT, SMTT(30) DEF DownInv, Ordered, Due, Stopped
<1>5. v = "exit" => ConnsOf(sd.gen, "running") = {}
  BY <1>1, <1>2, <1>3, SMT, SMTT(30) DEF DownInv, Emptied
<1>6. Quiet'
  <2> SUFFICES ASSUME NEW g \in Gens, done'[g] # "no"
               PROVE /\ \A k \in Stoppable : k \in cancelled[g] /\ k \notin task[g]
                     /\ done'[g] = "exit" => ConnsOf(g, "running") = {}
    BY <1>1, Zenon DEF Quiet, ConnsOf, taskVars
  <2>1. CASE g = sd.gen
    BY <1>0, <1>2, <1>4, <1>5, <2>1, Zenon
  <2>2. CASE g # sd.gen
    BY <1>0, <1>1, <1>2, <2>2, Zenon DEF DownInv, Quiet
  <2> QED
    BY <2>1, <2>2, Zenon
<1>7. Accepting' /\ Closed'
  BY <1>1, StillDown, Zenon DEF taskVars, fakeVars
<1>8. Ordered' /\ Emptied'
  BY <1>1, Zenon DEF Ordered, Emptied
<1>9. Young'
  <2>1. hup' \notin Spawning /\ main' \notin Starting
    BY <1>1, Zenon DEF HupReturns, Exit, DownInv, KeepInv, ServeInv, Control, Starting, Spawning
  <2>2. built \in Nat /\ sd.gen \in Nat /\ sd.gen <= built
    <3>1. built \in Gens /\ sd.gen \in Gens /\ sd.gen <= built
      BY <1>1, Zenon DEF DownInv, KeepInv, ServeInv, Shape, Control
    <3> QED
      BY <3>1, ConfigAssumption, SMT, SMTT(30) DEF Gens
  <2>3. \A g \in Gens : g > built => g # sd.gen
    BY <2>2, SMT, SMTT(30) DEF Gens
  <2> QED
    BY <1>0, <1>1, <1>2, <2>1, <2>3, Zenon DEF DownInv, Young
<1> QED
  BY <1>6, <1>7, <1>8, <1>9, Zenon

LEMMA NextDown == DownInv /\ [Next]_vars => DownInv'
<1> SUFFICES ASSUME DownInv, [Next]_vars PROVE DownInv'
  BY Zenon
<1>1. KeepInv' /\ FakeType' /\ CtlType'
  BY NextKeep, NextFakeType, NextCtlType, Zenon DEF DownInv
<1> SUFFICES Ordered' /\ Accepting' /\ Emptied' /\ Young' /\ Quiet' /\ Closed'
  BY <1>1, Zenon DEF DownInv
<1>2. CASE MainStep
  BY <1>2, MainSpawnDown, ControlDown, OverDown, Zenon DEF MainStep
<1>3. CASE HupStep
  BY <1>3, HupSpawnDown, ControlDown, OverDown, Zenon DEF HupStep
<1>4. CASE ShutdownStep
  BY <1>4, StageDown, AwaitDown, Zenon DEF ShutdownStep
<1>5. ASSUME NEW g \in Gens, TaskStep(g)
      PROVE Ordered' /\ Accepting' /\ Emptied' /\ Young' /\ Quiet' /\ Closed'
  <2>1. Ordered' /\ Emptied' /\ Young' /\ Quiet'
    BY <1>5, TaskGrow, CalmStep, Zenon
  <2> QED
    BY <1>5, <2>1, TaskAccepting, TaskClosed, Zenon
<1>6. ASSUME NEW c \in Conns, SpawnHandler(c) \/ HandlerEnds(c)
      PROVE Ordered' /\ Accepting' /\ Emptied' /\ Young' /\ Quiet' /\ Closed'
  <2>1. Ordered' /\ Emptied' /\ Young' /\ Quiet'
    BY <1>6, HandlerGrow, CalmStep, Zenon
  <2> QED
    BY <1>6, <2>1, HandlerAccepting, HandlerClosed, Zenon
<1>7. CASE UNCHANGED vars
  <2>1. Grow /\ Moves /\ UNCHANGED <<ctlVars, built, done>>
    BY <1>7, Zenon DEF vars, genVars, taskVars, Grow, Moves
  <2>2. Accepting' /\ Closed'
    BY <1>7, StillDown, Zenon DEF vars, taskVars, fakeVars
  <2> QED
    BY <2>1, <2>2, CalmStep, Zenon
<1> QED
  BY <1>2, <1>3, <1>4, <1>5, <1>6, <1>7, Zenon DEF Next

-----------------------------------------------------------------------------
\* A generation whose shutdown is over is quiet (ShutdownIsComplete).
THEOREM ShutdownIsCompleteHolds == Spec => []ShutdownIsComplete
<1>1. DownInv => ShutdownIsComplete
  <2> SUFFICES ASSUME DownInv, NEW g \in Gens, done[g] # "no"
               PROVE /\ \A k \in Tasks \ {"relative_score", "score_debug_printer"} : k \notin task[g]
                     /\ ConnsOf(g, "accepted") = {}
                     /\ done[g] = "exit" => ConnsOf(g, "running") = {}
    BY Zenon DEF ShutdownIsComplete, Running
  <2>1. /\ \A k \in Stoppable : k \notin task[g]
        /\ done[g] = "exit" => ConnsOf(g, "running") = {}
    BY Zenon DEF DownInv, Quiet
  <2>2. Acceptors \subseteq Stoppable
    BY Zenon DEF Acceptors, Stoppable, Tasks
  <2>3. ConnsOf(g, "accepted") = {}
    BY <2>1, <2>2, Zenon DEF DownInv, Accepting, ConnsOf
  <2> QED
    BY <2>1, <2>3, Zenon DEF Stoppable
<1> QED
  BY <1>1, InitDown, NextDown, PTL DEF Spec

\* Only a receive loop outside the session map can insert a socket into a closed
\* manager (NoSocketAfterClose).
THEOREM NoSocketAfterCloseHolds == Spec => NoSocketAfterClose
<1>1. ASSUME DownInv, [Next]_vars
      PROVE [\A g \in fakeClosed : g \in fakeSock' \ fakeSock => reply[g]["stray"] = "inserting"]_vars
  <2> SUFFICES ASSUME ~UNCHANGED vars, NEW g \in fakeClosed, g \in fakeSock' \ fakeSock
               PROVE reply[g]["stray"] = "inserting"
    BY Zenon
  <2>1. g \in Gens /\ reply[g]["udp"] # "inserting"
    BY <1>1, Zenon DEF DownInv, FakeType, Closed
  <2>2. PICK x \in Gens : \E w \in {"udp", "stray"} : ReplyInserts(x, w)
    <3>1. CASE MainStep
      BY <3>1, Zenon DEF MainStep, MainSpawn, CtrlC, StopSighup, HupEnds, AbortHup, ExitShutdown, Exit, fakeVars
    <3>2. CASE HupStep
      BY <3>2, Zenon DEF HupStep, HupSignal, BuildFails, Build, HupSpawn, Swap, HupReturns, fakeVars
    <3>3. CASE ShutdownStep
      BY <3>3, Zenon DEF ShutdownStep, ShutdownStage, AwaitTask, AbortTask, fakeVars
    <3>4. CASE \E c \in Conns : SpawnHandler(c) \/ HandlerEnds(c)
      BY <3>4, Zenon DEF SpawnHandler, HandlerEnds, fakeVars
    <3>5. CASE \E x \in Gens : TaskStep(x)
      <4>1. PICK x \in Gens : TaskStep(x)
        BY <3>5, Zenon
      <4>2. \E w \in {"udp", "stray"} : ReplyInserts(x, w)
        BY <4>1, Zenon DEF TaskStep, TaskEnds, Accept, PortForwardFails, OpenSession, SessionEnds, EvictSession,
                    LateSession, StrayEnds, ReplyStarts, FakeExpires, DropState, fakeVars
      <4> QED
        BY <4>2, Zenon
    <3> QED
      BY <1>1, <3>1, <3>2, <3>3, <3>4, <3>5, Zenon DEF Next
  <2>3. PICK w \in {"udp", "stray"} : reply[x][w] = "inserting" /\ fakeSock' = fakeSock \cup {x}
    BY <2>2, Zenon DEF ReplyInserts
  <2>4. x = g
    BY <2>3, Zenon
  <2> QED
    BY <2>1, <2>3, <2>4, Zenon
<1> QED
  BY <1>1, InitDown, NextDown, PTL DEF Spec, NoSocketAfterClose

=============================================================================
