--------------------------- MODULE UpstreamScores ---------------------------
(***************************************************************************)
(* The scores of one Upstream (src/upstream.rs) and the tasks that write   *)
(* them concurrently through relaxed atomics: the throughput sampler, the  *)
(* listener for QUIC reports, the health check, the relative scoring task, *)
(* and the TCP handlers that penalise an upstream they cannot reach.       *)
(*                                                                         *)
(* A step is a load, or stores that follow one another without a load;     *)
(* the tasks interleave between steps.  Rates are in KiB per second and    *)
(* scores are integers, as in the code up to the rounding of its floats.   *)
(***************************************************************************)
EXTENDS Naturals, FiniteSets, FiniteSetsExt

CONSTANTS
    Conns,          \* connections through this upstream
    Chunk,          \* KiB that a connection moves at a time, 16 or more
    Reports,        \* QUIC reports: records of rtt, loss (percent) and mtu
    Relative,       \* values of enable_relative_scoring to look at
    RelScores,      \* what relative_score may return
    Weight,         \* quic_weight
    Stale,          \* quic_stale_secs
    FailThreshold,  \* health_check_fail_threshold
    Start,          \* the first second of the run
    Period,         \* seconds between two ticks
    MaxChunks,      \* bound on what a connection moves in one direction
    MaxOps          \* bound on ticks, connections, reports, samples, checks, penalties

DEFAULT_SCORE == 75
MINIMAL_SCORE == 10
Links == {"uplink", "downlink"}
Directions == {"recv", "sent"}

ASSUME ScoreAssumption ==
    /\ Chunk \in Nat /\ Chunk >= 16
    /\ Reports \subseteq [rtt : Nat, loss : Nat, mtu : Nat]
    /\ Relative \subseteq BOOLEAN
    /\ RelScores \subseteq 0 .. 1000
    /\ Weight \in 0 .. 100
    /\ Stale \in Nat \ {0}
    /\ FailThreshold \in Nat \ {0}
    /\ Start \in Nat \ {0}
    /\ Period \in Nat /\ MaxChunks \in Nat /\ MaxOps \in Nat

VARIABLES
    now, ops,
    relative,       \* enable_relative_scoring
    tcp, tcpInit,   \* tcp_score, tcp_score_initialized
    quic, at,       \* score and last update of each link
    failures,       \* health_failures
    rateAt, probeAt,    \* last updates of throughput_rate_mibs, probe_quality
    maxQ,           \* max_q_ema > 0 in the relative scoring task
    live,           \* in each direction, chunks moved by each tracked connection
    total, checked, \* last_total_recv and last_total_sent, last_check_secs
    infoInit,       \* tcp_info_initialized
    sampler,        \* local state of run_score_task
    listener,       \* local state of run_upstream_stats_listener
    rescorer,       \* local state of run_relative_score_task
    penalty,        \* stores done by a penalize under way, for a handler and the health check
    clean,          \* history: no other score was stored since the last penalize began
    moved, recent,  \* history: chunks moved since the snapshot of the last sample, of this
                    \* one, in each direction
    sample          \* history: what the last sample measured and what it should have

timeVars == <<now, ops, relative>>
scoreVars == <<tcp, tcpInit, quic, at>>
connVars == <<live, total, checked, infoInit, moved, recent, sample>>
localVars == <<sampler, listener, rescorer>>
scoringVars == <<timeVars, scoreVars, failures, rateAt, probeAt, maxQ, connVars, localVars, penalty, clean>>

Idle == [pc |-> "idle"]
Nothing == [d \in Directions |-> 0]

ScoresInit ==
    /\ now = Start /\ ops = 0
    /\ relative \in Relative
    /\ tcp = DEFAULT_SCORE /\ tcpInit = FALSE
    /\ quic = [l \in Links |-> DEFAULT_SCORE]
    /\ at = [l \in Links |-> 0]
    /\ failures = 0
    /\ rateAt = 0 /\ probeAt = 0 /\ maxQ = FALSE
    /\ live = [d \in Directions |-> [c \in {} |-> 0]]
    /\ total = Nothing /\ checked = 0 /\ infoInit = FALSE
    /\ sampler = Idle /\ listener = Idle /\ rescorer = Idle
    /\ penalty = [p \in {"handler", "health"} |-> 0]
    /\ clean = FALSE
    /\ moved = Nothing /\ recent = Nothing
    /\ sample = [measured |-> 0, actual |-> 0, foreign |-> 0]

\* One more operation, while the bound allows it.
Begin == ops < MaxOps /\ ops' = ops + 1

(***************************************************************************)
(* The scores a pick reads.                                                *)
(***************************************************************************)
Since(t) == IF now > t THEN now - t ELSE 0

\* The decayed score of a link; a link without a report has none.
Decayed(l) ==
    IF Since(at[l]) >= Stale THEN MINIMAL_SCORE
    ELSE LET d == (quic[l] * (Stale - Since(at[l]))) \div Stale
         IN IF d > MINIMAL_SCORE THEN d ELSE MINIMAL_SCORE

QuicScore ==
    CASE at["uplink"] > 0 /\ at["downlink"] > 0 -> (Decayed("uplink") + Decayed("downlink")) \div 2
      [] at["uplink"] > 0 /\ at["downlink"] = 0 -> Decayed("uplink")
      [] at["uplink"] = 0 /\ at["downlink"] > 0 -> Decayed("downlink")
      [] OTHER -> DEFAULT_SCORE

Score ==
    LET quicValid == \E l \in Links : at[l] > 0
    IN CASE tcpInit /\ quicValid -> (tcp * (100 - Weight) + QuicScore * Weight) \div 100
         [] ~tcpInit /\ quicValid -> QuicScore
         [] tcpInit /\ ~quicValid -> tcp
         [] OTHER -> DEFAULT_SCORE

(***************************************************************************)
(* Time, and the connections that are tracked during their relay.          *)
(***************************************************************************)
Tick ==
    /\ Begin
    /\ now' = now + Period
    /\ UNCHANGED <<relative, scoreVars, failures, rateAt, probeAt, maxQ, connVars, localVars, penalty, clean>>

Tracked == DOMAIN live["recv"]

Track(c) ==
    /\ c \notin Tracked
    /\ Begin
    /\ live' = [d \in Directions |-> [k \in Tracked \cup {c} |-> IF k = c THEN 0 ELSE live[d][k]]]
    /\ UNCHANGED <<now, relative, scoreVars, failures, rateAt, probeAt, maxQ, total, checked, infoInit, moved,
                   recent, sample, localVars, penalty, clean>>

Transfer(c, d) ==
    /\ c \in Tracked /\ live[d][c] < MaxChunks
    /\ live' = [live EXCEPT ![d][c] = @ + 1]
    /\ moved' = [moved EXCEPT ![d] = @ + 1]
    /\ recent' = [recent EXCEPT ![d] = @ + 1]
    /\ UNCHANGED <<timeVars, scoreVars, failures, rateAt, probeAt, maxQ, total, checked, infoInit, sample,
                   localVars, penalty, clean>>

\* The token is dropped and the socket closed.
Untrack(c) ==
    /\ c \in Tracked
    /\ live' = [d \in Directions |-> [k \in Tracked \ {c} |-> live[d][k]]]
    /\ UNCHANGED <<timeVars, scoreVars, failures, rateAt, probeAt, maxQ, total, checked, infoInit, moved,
                   recent, sample, localVars, penalty, clean>>

(***************************************************************************)
(* penalize: three groups of stores.                                       *)
(***************************************************************************)
\* Mutation of PenalisedLinks: one link keeps its score.
UplinkOnly == [quic EXCEPT !["uplink"] = DEFAULT_SCORE]

PenalisedLinks == [l \in Links |-> DEFAULT_SCORE]

Penalize(p) ==
    \/ /\ penalty[p] = 1
       /\ quic' = PenalisedLinks
       /\ penalty' = [penalty EXCEPT ![p] = 2]
       /\ UNCHANGED <<timeVars, tcp, tcpInit, at, failures, rateAt, probeAt, maxQ, connVars, localVars, clean>>
    \/ /\ penalty[p] = 2
       /\ at' = [l \in Links |-> now]
       /\ penalty' = [penalty EXCEPT ![p] = 0]
       /\ UNCHANGED <<timeVars, tcp, tcpInit, quic, failures, rateAt, probeAt, maxQ, connVars, localVars, clean>>

\* The first stores, as part of the step that decides on the penalty.
BeginPenalty(p) ==
    /\ tcp' = DEFAULT_SCORE /\ tcpInit' = TRUE
    /\ penalty' = [penalty EXCEPT ![p] = 1]
    /\ clean' = TRUE

\* A handler could not connect.
ConnectFailed ==
    /\ penalty["handler"] = 0
    /\ Begin
    /\ BeginPenalty("handler")
    /\ UNCHANGED <<now, relative, quic, at, failures, rateAt, probeAt, maxQ, connVars, localVars>>

(***************************************************************************)
(* run_score_task: every two seconds, what the tracked connections moved.  *)
(***************************************************************************)
\* A chunk is at least 16 KiB, the least that counts as traffic.
ThroughputScore(kib, secs) ==
    LET rate == kib \div secs
    IN CASE rate >= 51200 -> 1000
         [] rate >= 10240 /\ rate < 51200 -> 800 + ((rate - 10240) * 200) \div 40960
         [] rate >= 5120 /\ rate < 10240 -> 600 + ((rate - 5120) * 200) \div 5120
         [] rate >= 1024 /\ rate < 5120 -> 300 + ((rate - 1024) * 300) \div 4096
         [] rate >= 103 /\ rate < 1024 -> 100 + ((rate - 102) * 200) \div 922
         [] OTHER -> (rate * 100) \div 103

\* The sampler on its way through the descriptors of its snapshot.
Reading(todo, alive, sum, foreign) ==
    [pc |-> "read", todo |-> todo, alive |-> alive, sum |-> sum, foreign |-> foreign]

\* Under the lock: the connections whose token is alive.
SamplerSnapshot ==
    /\ sampler.pc = "idle"
    /\ Tracked # {}
    /\ Begin
    /\ sampler' = Reading(Tracked, FALSE, Nothing, Nothing)
    /\ recent' = Nothing
    /\ UNCHANGED <<now, relative, scoreVars, failures, rateAt, probeAt, maxQ, live, total, checked, infoInit,
                   moved, sample, listener, rescorer, penalty, clean>>

Plus(f, g) == [d \in Directions |-> f[d] + g[d]]
Both(f) == f["recv"] + f["sent"]

\* Outside the lock, descriptor by descriptor: the byte counters of these
\* connections.  The number of a socket closed meanwhile stands for none, or
\* for another one by now (foreign is history: what such a socket had moved).
SamplerReads(c) ==
    /\ sampler.pc = "read" /\ c \in sampler.todo
    /\ LET todo == sampler.todo \ {c}
       IN \/ /\ c \in Tracked
             /\ sampler' = Reading(todo, TRUE, Plus(sampler.sum, [d \in Directions |-> live[d][c]]), sampler.foreign)
          \/ /\ c \notin Tracked
             /\ sampler' = Reading(todo, sampler.alive, sampler.sum, sampler.foreign)
          \/ /\ c \notin Tracked
             /\ \E other \in [Directions -> 0 .. MaxChunks] :
                   sampler' = Reading(todo, TRUE, Plus(sampler.sum, other), Plus(sampler.foreign, other))
    /\ UNCHANGED <<timeVars, scoreVars, failures, rateAt, probeAt, maxQ, connVars, listener, rescorer,
                   penalty, clean>>

\* Mutation of Delta: abs_diff in the place of saturating_sub.
AbsoluteDelta(sum) ==
    Both([d \in Directions |-> IF sum[d] > total[d] THEN sum[d] - total[d] ELSE total[d] - sum[d]])

\* Each direction for itself: one may have lost a connection that the other
\* never heard of.
Delta(sum) == Both([d \in Directions |-> IF sum[d] > total[d] THEN sum[d] - total[d] ELSE 0])

\* The totals are swapped for the new ones; the first sample has nothing to
\* compare with, and without an answer (alive == 0) there is no sample.
SamplerSwaps ==
    /\ sampler.pc = "read" /\ sampler.todo = {}
    /\ IF sampler.alive
       THEN /\ total' = sampler.sum
            /\ checked' = now
            /\ infoInit' = TRUE
            /\ moved' = recent
            /\ sample' = [measured |-> IF infoInit THEN Delta(sampler.sum) ELSE 0,
                          actual |-> Both(moved), foreign |-> Both(sampler.foreign)]
            /\ sampler' = IF infoInit /\ Delta(sampler.sum) > 0
                          THEN [pc |-> "load", kib |-> Delta(sampler.sum) * Chunk,
                                secs |-> Max({1, Since(checked)})]
                          ELSE Idle
       ELSE /\ sampler' = Idle
            /\ UNCHANGED <<total, checked, infoInit, moved, sample>>
    /\ UNCHANGED <<timeVars, scoreVars, failures, rateAt, probeAt, maxQ, live, recent, listener, rescorer,
                   penalty, clean>>

\* Relative mode only records the rate.
SamplerLoads ==
    /\ sampler.pc = "load"
    /\ IF relative
       THEN sampler' = Idle /\ rateAt' = now
       ELSE /\ sampler' = [pc |-> "store",
                            score |-> (tcp * 5 + ThroughputScore(sampler.kib, sampler.secs) * 5) \div 10]
            /\ UNCHANGED rateAt
    /\ UNCHANGED <<timeVars, scoreVars, failures, probeAt, maxQ, connVars, listener, rescorer, penalty, clean>>

SamplerStores ==
    /\ sampler.pc = "store"
    /\ tcp' = sampler.score /\ tcpInit' = TRUE
    /\ clean' = FALSE
    /\ sampler' = Idle
    /\ UNCHANGED <<timeVars, quic, at, failures, rateAt, probeAt, maxQ, connVars, listener, rescorer, penalty>>

(***************************************************************************)
(* run_upstream_stats_listener: one report at a time.                      *)
(***************************************************************************)
LossPenalty(loss) ==
    CASE loss = 0 -> 0 [] loss \in 1 .. 2 -> 60 [] loss \in 3 .. 5 -> 200
      [] loss \in 6 .. 10 -> 500 [] loss \in 11 .. 20 -> 750 [] OTHER -> 900

RttPenalty(rtt) ==
    CASE rtt <= 80 -> 0 [] rtt \in 81 .. 150 -> 40 [] rtt \in 151 .. 250 -> 100
      [] rtt \in 251 .. 400 -> 180 [] OTHER -> 300

MtuPenalty(mtu) ==
    CASE mtu >= 1400 -> 0 [] mtu \in 1300 .. 1399 -> 60 [] mtu \in 1280 .. 1299 -> 120
      [] mtu \in 1200 .. 1279 -> 250 [] OTHER -> 450

CalcQuicScore(r) ==
    LET lost == LossPenalty(r.loss) + RttPenalty(r.rtt) + MtuPenalty(r.mtu)
    IN IF lost > 950 THEN 50 ELSE 1000 - lost

\* set_probe_quality: the quality is remembered, the time of the link renewed.
RecordProbe(l) ==
    /\ at' = [at EXCEPT ![l] = now]
    /\ probeAt' = now

\* A report for one link; in relative mode it is only remembered
\* (set_probe_quality), otherwise a link is updated at most every 5 seconds.
Report(r, l) ==
    /\ listener.pc = "idle"
    /\ Begin
    /\ IF relative
       THEN RecordProbe(l) /\ UNCHANGED listener
       ELSE /\ listener' = IF Since(at[l]) < 5 THEN Idle
                           ELSE [pc |-> "swap", link |-> l, last |-> at[l], now |-> now,
                                 raw |-> CalcQuicScore(r)]
            /\ UNCHANGED <<at, probeAt>>
    /\ UNCHANGED <<now, relative, tcp, tcpInit, quic, failures, rateAt, maxQ, connVars, sampler, rescorer,
                   penalty, clean>>

\* compare_exchange on the time, then the load of the old score.
ListenerSwaps ==
    /\ listener.pc = "swap"
    /\ IF at[listener.link] = listener.last
       THEN /\ at' = [at EXCEPT ![listener.link] = listener.now]
            /\ listener' = [pc |-> "load", link |-> listener.link, raw |-> listener.raw]
       ELSE listener' = Idle /\ UNCHANGED at
    /\ UNCHANGED <<timeVars, tcp, tcpInit, quic, failures, rateAt, probeAt, maxQ, connVars, sampler, rescorer,
                   penalty, clean>>

ListenerLoads ==
    /\ listener.pc = "load"
    /\ listener' = [pc |-> "store", link |-> listener.link,
                    score |-> (quic[listener.link] * 3 + listener.raw * 7) \div 10]
    /\ UNCHANGED <<timeVars, scoreVars, failures, rateAt, probeAt, maxQ, connVars, sampler, rescorer, penalty,
                   clean>>

ListenerStores ==
    /\ listener.pc = "store"
    /\ quic' = [quic EXCEPT ![listener.link] = listener.score]
    /\ clean' = FALSE
    /\ listener' = Idle
    /\ UNCHANGED <<timeVars, tcp, tcpInit, at, failures, rateAt, probeAt, maxQ, connVars, sampler, rescorer,
                   penalty>>

(***************************************************************************)
(* run_health_check_task: an upstream that answers again is given a fresh  *)
(* score, one that has just failed often enough is penalised.              *)
(***************************************************************************)
HealthAlive ==
    /\ penalty["health"] = 0
    /\ Begin
    /\ failures' = 0
    /\ IF failures >= FailThreshold
       THEN tcp' = 300 /\ tcpInit' = TRUE /\ clean' = FALSE
       ELSE UNCHANGED <<tcp, tcpInit, clean>>
    /\ UNCHANGED <<now, relative, quic, at, rateAt, probeAt, maxQ, connVars, localVars, penalty>>

HealthDead ==
    /\ penalty["health"] = 0
    /\ Begin
    /\ failures' = failures + 1
    /\ IF failures + 1 = FailThreshold
       THEN BeginPenalty("health")
       ELSE UNCHANGED <<tcp, tcpInit, penalty, clean>>
    /\ UNCHANGED <<now, relative, quic, at, rateAt, probeAt, maxQ, connVars, localVars>>

(***************************************************************************)
(* run_relative_score_task, for this upstream.                             *)
(***************************************************************************)
FreshAt(t) == t > 0 /\ Since(t) < Stale

\* Another upstream may have made max_q_ema positive.
RescoreSnapshot ==
    /\ relative /\ rescorer.pc = "idle"
    /\ Begin
    /\ \E others \in BOOLEAN : maxQ' = (maxQ \/ others \/ FreshAt(probeAt))
    /\ rescorer' = [pc |-> "quic", hasRate |-> FreshAt(rateAt), hasQ |-> FreshAt(probeAt)]
    /\ UNCHANGED <<now, relative, scoreVars, failures, rateAt, probeAt, connVars, sampler, listener, penalty,
                   clean>>

RescoreQuic ==
    /\ rescorer.pc = "quic"
    /\ IF maxQ /\ rescorer.hasQ
       THEN /\ \E s \in RelScores : quic' = [l \in Links |-> s]
            /\ clean' = FALSE
       ELSE UNCHANGED <<quic, clean>>
    /\ rescorer' = [rescorer EXCEPT !.pc = "tcp"]
    /\ UNCHANGED <<timeVars, tcp, tcpInit, at, failures, rateAt, probeAt, maxQ, connVars, sampler, listener,
                   penalty>>

\* Blend with the old score, or seed a score that has never been set.
RescoreLoads ==
    /\ rescorer.pc = "tcp"
    /\ \/ /\ rescorer.hasRate
          /\ \E s \in RelScores : rescorer' = [pc |-> "store", score |-> (tcp + s) \div 2]
       \/ /\ ~rescorer.hasRate /\ ~tcpInit /\ maxQ
          /\ \E s \in IF rescorer.hasQ THEN RelScores ELSE {500} : rescorer' = [pc |-> "store", score |-> s]
       \/ /\ ~rescorer.hasRate /\ (tcpInit \/ ~maxQ)
          /\ rescorer' = Idle
    /\ UNCHANGED <<timeVars, scoreVars, failures, rateAt, probeAt, maxQ, connVars, sampler, listener, penalty,
                   clean>>

RescoreStores ==
    /\ rescorer.pc = "store"
    /\ tcp' = rescorer.score /\ tcpInit' = TRUE
    /\ clean' = FALSE
    /\ rescorer' = Idle
    /\ UNCHANGED <<timeVars, quic, at, failures, rateAt, probeAt, maxQ, connVars, sampler, listener, penalty>>

ScoresNext ==
    \/ Tick
    \/ \E c \in Conns : Track(c) \/ Untrack(c) \/ \E d \in Directions : Transfer(c, d)
    \/ ConnectFailed \/ \E p \in DOMAIN penalty : Penalize(p)
    \/ SamplerSnapshot \/ \E c \in Conns : SamplerReads(c)
    \/ SamplerSwaps \/ SamplerLoads \/ SamplerStores
    \/ \E r \in Reports, l \in Links : Report(r, l)
    \/ ListenerSwaps \/ ListenerLoads \/ ListenerStores
    \/ HealthAlive \/ HealthDead
    \/ RescoreSnapshot \/ RescoreQuic \/ RescoreLoads \/ RescoreStores

ScoresSpec == ScoresInit /\ [][ScoresNext]_scoringVars

-----------------------------------------------------------------------------
(***************************************************************************)
(* Properties.                                                             *)
(***************************************************************************)
(***************************************************************************)
(* A penalised upstream weighs no more than a new one until somebody       *)
(* stores another score: penalize resets every score and refreshes both    *)
(* times, so that no older, better report shows through, whatever runs     *)
(* beside it and however late its stores come.                             *)
(***************************************************************************)
PenaltyHolds == clean /\ (\A p \in DOMAIN penalty : penalty[p] = 0) => Score <= DEFAULT_SCORE

(***************************************************************************)
(* A sample of run_score_task never takes an upstream for faster than it   *)
(* is: it measures at most what its connections have moved, in the two     *)
(* directions together, since the snapshot of the last sample, although    *)
(* connections come and go between two samples and between two readings    *)
(* of one.  A descriptor that was reused between the snapshot and its      *)
(* reading adds no more than what its new socket has moved, to this sample *)
(* and to no later one.                                                    *)
(***************************************************************************)
RateNotOverestimated == sample.measured <= sample.actual + sample.foreign

=============================================================================
