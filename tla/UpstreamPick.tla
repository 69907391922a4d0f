---------------------------- MODULE UpstreamPick ----------------------------
(***************************************************************************)
(* The choice of an upstream (UpstreamSet::pick_weighted in                *)
(* src/upstream.rs) and the statistics of the picks (PickStats), composed  *)
(* with the scores of module UpstreamScores.  One upstream of the group,   *)
(* Scored, has the scores of that module, which change while a pick reads  *)
(* them; the others have constant ones.                                    *)
(***************************************************************************)
EXTENDS UpstreamScores, Sequences

CONSTANTS
    Scored, Others,     \* the upstreams of the group
    OtherScore,         \* effective scores of the others
    Gain,               \* gain of Scored, in percent
    Tolerance,          \* upstream_switch_tolerance
    Window,             \* pick_stats_window_secs
    None

Group == {Scored} \cup Others
Bucket == Max({1, Min({10, Window})})

ASSUME PickAssumption ==
    /\ Scored \notin Others /\ None \notin Group
    /\ OtherScore \in [Others -> 1 .. 10000000]
    /\ Gain \in Nat \ {0} /\ Tolerance \in Nat

ASSUME WindowAssumption == Window \in Nat \ {0}

VARIABLES
    current,    \* current[group]
    picker,     \* local state of a pick
    buckets,    \* PickStatsInner.buckets
    totals      \* PickStatsInner.totals

pickVars == <<current, picker, buckets, totals>>
vars == <<scoringVars, pickVars>>

Init ==
    /\ ScoresInit
    /\ current = None
    /\ picker = Idle
    /\ buckets = <<>>
    /\ totals = [u \in Group |-> 0]

\* effective_score_at: between 1 and 10 million.
Effective(u) == IF u = Scored THEN Min({10000000, Max({1, (Score * Gain) \div 100})}) ELSE OtherScore[u]

Uninitialized(u) == u = Scored /\ ~tcpInit

(***************************************************************************)
(* PickStats::record_at: buckets that have left the window go, the pick is *)
(* counted in the bucket of its time, or in the newest one when the clock  *)
(* has been set back.                                                      *)
(***************************************************************************)
Left(b) == b.start + Bucket <= now - Min({now, Window})

\* Buckets are removed from the front as long as they have left the window.
FirstKept ==
    LET kept == {i \in DOMAIN buckets : ~Left(buckets[i])}
    IN IF kept = {} THEN Len(buckets) + 1 ELSE Min(kept)

Counted(bs, u) == SumFunction([i \in DOMAIN bs |-> bs[i].counts[u]])

\* Mutation of Opened: a bucket is opened whenever its time differs.
OpenedByTime(bs) ==
    LET start == (now \div Bucket) * Bucket
    IN IF bs # <<>> /\ bs[Len(bs)].start = start THEN bs
       ELSE Append(bs, [start |-> start, counts |-> [u \in Group |-> 0]])

\* The buckets with one for the present time, unless a later one exists.
Opened(bs) ==
    LET start == (now \div Bucket) * Bucket
    IN IF bs # <<>> /\ bs[Len(bs)].start >= start THEN bs
       ELSE Append(bs, [start |-> start, counts |-> [u \in Group |-> 0]])

Record(u) ==
    LET gone == SubSeq(buckets, 1, FirstKept - 1)
        open == Opened(SubSeq(buckets, FirstKept, Len(buckets)))
    IN /\ buckets' = [open EXCEPT ![Len(open)].counts[u] = @ + 1]
       /\ totals' = [v \in Group |->
              (totals[v] - Min({totals[v], Counted(gone, v)})) + IF v = u THEN 1 ELSE 0]

(***************************************************************************)
(* pick_weighted.                                                          *)
(***************************************************************************)
Choose(u) ==
    /\ current' = u
    /\ Record(u)
    /\ picker' = Idle

\* A single candidate is taken; an upstream without samples is explored now
\* and then; otherwise the best candidate is looked for.
PickBest(items) ==
    /\ picker.pc = "idle"
    /\ Begin
    /\ \/ Cardinality(items) = 1 /\ \E u \in items : Choose(u)
       \/ Cardinality(items) > 1 /\ \E u \in items : Uninitialized(u) /\ Choose(u)
       \/ /\ Cardinality(items) > 1
          /\ \E b \in items :
                /\ \A u \in items : Effective(u) <= Effective(b)
                /\ picker' = [pc |-> "sticky", items |-> items, best |-> b, bestEff |-> Effective(b)]
          /\ UNCHANGED <<current, buckets, totals>>
    /\ UNCHANGED <<now, relative, scoreVars, failures, rateAt, probeAt, maxQ, connVars, localVars, penalty, clean>>

Beaten == picker.best # current /\ picker.bestEff > Effective(current) + Tolerance

\* The current upstream is kept unless the best one beats it clearly.
PickSticky ==
    /\ picker.pc = "sticky"
    /\ IF Tolerance > 0 /\ current \in picker.items /\ ~Beaten
       THEN Choose(current)
       ELSE picker' = [pc |-> "choose", items |-> picker.items] /\ UNCHANGED <<current, buckets, totals>>
    /\ UNCHANGED scoringVars

\* Weights are squares of effective scores; a positive one may win.
PickWeighted ==
    /\ picker.pc = "choose"
    /\ \E u \in picker.items : Effective(u) * Effective(u) > 0 /\ Choose(u)
    /\ UNCHANGED scoringVars

\* The clock of now_secs is set back.
ClockSetBack ==
    /\ Begin
    /\ now > 2 * Period
    /\ now' = now - 2 * Period
    /\ UNCHANGED <<relative, scoreVars, failures, rateAt, probeAt, maxQ, connVars, localVars, penalty, clean, pickVars>>

Next ==
    \/ ScoresNext /\ UNCHANGED pickVars
    \/ \E items \in (SUBSET Group) \ {{}} : PickBest(items)
    \/ PickSticky \/ PickWeighted
    \/ ClockSetBack

Spec == Init /\ [][Next]_vars

-----------------------------------------------------------------------------
(***************************************************************************)
(* The statistics of the picks agree with themselves: the totals that are  *)
(* logged are the sums over the buckets, the buckets are in the order of   *)
(* time and no more than the window needs, also after the clock was set    *)
(* back ("pick stats total must cover expired bucket").                    *)
(***************************************************************************)
StatsConsistent ==
    /\ \A u \in Group : totals[u] = Counted(buckets, u)
    /\ \A i, j \in DOMAIN buckets : i < j => buckets[i].start < buckets[j].start
    /\ Len(buckets) <= (Window \div Bucket) + 2

=============================================================================
