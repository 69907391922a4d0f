--------------------------- MODULE UpstreamProofs ---------------------------
(***************************************************************************)
(* Theorems about UpstreamPick: PenaltyHolds, RateNotOverestimated and     *)
(* StatsConsistent, for any weights, ages and windows, any connections and *)
(* upstreams, and any number of tasks that store scores beside each other. *)
(***************************************************************************)
EXTENDS UpstreamPick, FiniteSetTheorems, WellFoundedInduction, TLAPS

-----------------------------------------------------------------------------
(* The facts about sequences that are used below. *)

LEMMA SubSeqProperties ==
    ASSUME NEW S, NEW s, NEW m \in Int, NEW n \in Int, \A i \in m .. n : s[i] \in S
    PROVE  /\ SubSeq(s, m, n) \in Seq(S)
           /\ Len(SubSeq(s, m, n)) = IF m <= n THEN n - m + 1 ELSE 0
           /\ \A i \in 1 .. n - m + 1 : SubSeq(s, m, n)[i] = s[m + i - 1]
BY SMT, SMTT(30)

LEMMA AppendProperties ==
    ASSUME NEW S, NEW seq \in Seq(S), NEW e \in S
    PROVE  /\ Append(seq, e) \in Seq(S) /\ Append(seq, e) # <<>>
           /\ Len(Append(seq, e)) = Len(seq) + 1
           /\ \A i \in 1 .. Len(seq) : Append(seq, e)[i] = seq[i]
           /\ Append(seq, e)[Len(seq) + 1] = e
BY SMT, SMTT(30)

-----------------------------------------------------------------------------
(***************************************************************************)
(* Sums over finite sets.                                                  *)
(***************************************************************************)
\* One pair for each unit of each value that is added up.
Units(f, S) == UNION {{x} \X (1 .. f[x]) : x \in S}

\* The equation of the fold behind SumFunctionOnSet.
Folded(f, S, it) ==
    [s \in SUBSET S |->
        IF s = {} THEN 0 ELSE f[CHOOSE x \in s : TRUE] + it[s \ {CHOOSE x \in s : TRUE}]]

\* Of the subsets of a finite set, one is minimal.
LEMMA LeastSubset ==
    ASSUME NEW S, IsFiniteSet(S), NEW T, T \subseteq SUBSET S, T # {}
    PROVE \E s \in T : \A t \in T : t \subseteq s => t = s
<1>1. IsWellFoundedOn(StrictSubsetOrdering(S), SUBSET S)
  BY FS_StrictSubsetOrderingWellFounded, FS_FiniteSubsetsOfFinite, Zenon
<1>2. PICK s \in T : \A t \in T : ~(<<t, s>> \in StrictSubsetOrdering(S))
  BY <1>1, WFMin, Zenon
<1>3. ASSUME NEW t \in T, t \subseteq s PROVE t = s
  BY <1>2, <1>3, Zenon DEF StrictSubsetOrdering
<1> QED
  BY <1>3, Zenon

LEMMA UnitsSplit ==
    ASSUME NEW f, NEW S, NEW x \in S
    PROVE /\ Units(f, S) = Units(f, S \ {x}) \cup ({x} \X (1 .. f[x]))
          /\ Units(f, S \ {x}) \cap ({x} \X (1 .. f[x])) = {}
BY SMT, SMTT(30) DEF Units

LEMMA UnitsOfOne ==
    ASSUME NEW x, NEW n \in Nat
    PROVE IsFiniteSet({x} \X (1 .. n)) /\ Cardinality({x} \X (1 .. n)) = n
<1>1. IsFiniteSet({x}) /\ Cardinality({x}) = 1
  BY FS_Singleton, Zenon
<1>2. IsFiniteSet(1 .. n) /\ Cardinality(1 .. n) = IF 1 > n THEN 0 ELSE n - 1 + 1
  <2>1. 1 \in Int /\ n \in Int
    BY SMT, SMTT(30)
  <2> QED
    BY <2>1, FS_Interval, Zenon
<1>3. Cardinality(1 .. n) = n
  BY <1>2, SMT, SMTT(30)
<1>4. /\ IsFiniteSet({x} \X (1 .. n))
      /\ Cardinality({x} \X (1 .. n)) = Cardinality({x}) * Cardinality(1 .. n)
  BY <1>1, <1>2, FS_Product, Zenon
<1> QED
  BY <1>1, <1>3, <1>4, SMT, SMTT(30)

LEMMA UnitsFinite ==
    ASSUME NEW S, IsFiniteSet(S), NEW f, \A x \in S : f[x] \in Nat
    PROVE \A s \in SUBSET S : IsFiniteSet(Units(f, s))
<1> DEFINE T == {s \in SUBSET S : ~IsFiniteSet(Units(f, s))}
<1> SUFFICES ASSUME T # {} PROVE FALSE
  BY Zenon
<1>0. T \subseteq SUBSET S
  BY Zenon
<1>1. PICK s \in T : \A t \in T : t \subseteq s => t = s
  <2> HIDE DEF T
  <2> QED
    BY <1>0, LeastSubset, SMT, SMTT(30)
<1>2. s # {}
  <2>1. Units(f, {}) = {}
    BY Zenon DEF Units
  <2> QED
    BY <2>1, FS_EmptySet, Zenon
<1>3. PICK x \in s : TRUE
  BY <1>2, Zenon
<1>4. IsFiniteSet(Units(f, s \ {x}))
  BY <1>1, <1>3, SMT, SMTT(30)
<1>5. IsFiniteSet({x} \X (1 .. f[x]))
  BY UnitsOfOne, <1>3, Zenon
<1>6. IsFiniteSet(Units(f, s \ {x}) \cup ({x} \X (1 .. f[x])))
  BY <1>4, <1>5, FS_Union, Zenon
<1> QED
  BY <1>6, UnitsSplit, Zenon

LEMMA UnitsCounted ==
    ASSUME NEW S, IsFiniteSet(S), NEW f, \A x \in S : f[x] \in Nat,
           NEW s \in SUBSET S, NEW x \in s
    PROVE Cardinality(Units(f, s)) = f[x] + Cardinality(Units(f, s \ {x}))
<1>1. IsFiniteSet(Units(f, s \ {x}))
  BY UnitsFinite, Zenon
<1>2. IsFiniteSet({x} \X (1 .. f[x])) /\ Cardinality({x} \X (1 .. f[x])) = f[x]
  BY UnitsOfOne, Zenon
<1>3. Cardinality(Units(f, s)) = Cardinality(Units(f, s \ {x})) + f[x] - Cardinality({})
  BY <1>1, <1>2, UnitsSplit, FS_Union, SMT, SMTT(30)
<1>4. Cardinality({}) = 0
  BY FS_EmptySet, Zenon
<1>5. Cardinality(Units(f, s \ {x})) \in Nat
  BY <1>1, FS_CardinalityType, Zenon
<1> QED
  BY <1>3, <1>4, <1>5, SMT, SMTT(30)

\* A sum over a finite set counts units.
LEMMA SumIsCount ==
    ASSUME NEW S, IsFiniteSet(S), NEW f, \A x \in S : f[x] \in Nat
    PROVE SumFunctionOnSet(f, S) = Cardinality(Units(f, S))
<1> DEFINE count == [s \in SUBSET S |-> Cardinality(Units(f, s))]
           fold == CHOOSE it : it = Folded(f, S, it)
<1>1. SumFunctionOnSet(f, S) = fold[S]
  BY Zenon DEF SumFunctionOnSet, FoldFunctionOnSet, MapThenFoldSet, Folded
<1>2. Cardinality(Units(f, {})) = 0
  <2>1. Units(f, {}) = {}
    BY Zenon DEF Units
  <2> QED
    BY <2>1, FS_EmptySet, Zenon
<1>3. ASSUME NEW s \in SUBSET S, s # {}
      PROVE /\ (CHOOSE x \in s : TRUE) \in s
            /\ count[s] = f[CHOOSE x \in s : TRUE] + count[s \ {CHOOSE x \in s : TRUE}]
  <2> DEFINE x == CHOOSE y \in s : TRUE
  <2>1. x \in s
    BY <1>3, Zenon
  <2> HIDE DEF x
  <2>2. count[s] = Cardinality(Units(f, s)) /\ count[s \ {x}] = Cardinality(Units(f, s \ {x}))
    BY Zenon
  <2>3. Cardinality(Units(f, s)) = f[x] + Cardinality(Units(f, s \ {x}))
    BY <2>1, UnitsCounted, SMT, SMTT(30)
  <2>4. count[s] = f[x] + count[s \ {x}]
    BY <2>2, <2>3, Zenon
  <2> QED
    BY <2>1, <2>4, Zenon DEF x
<1>4. count = Folded(f, S, count)
  BY <1>2, <1>3, Zenon DEF Folded
<1> HIDE DEF count
<1>5. fold = Folded(f, S, fold)
  BY <1>4, Zenon
<1> HIDE DEF fold
<1> DEFINE T == {s \in SUBSET S : fold[s] # count[s]}
<1>6. T = {}
  <2> SUFFICES ASSUME T # {} PROVE FALSE
    BY Zenon
  <2>0. T \subseteq SUBSET S
    BY Zenon
  <2>1. PICK s \in T : \A t \in T : t \subseteq s => t = s
    <3> HIDE DEF T
    <3> QED
      BY <2>0, LeastSubset, SMT, SMTT(30)
  <2>2. s # {}
    BY <1>2, <1>5, Zenon DEF Folded, count
  <2>3. fold[s] = f[CHOOSE x \in s : TRUE] + fold[s \ {CHOOSE x \in s : TRUE}]
    BY <1>5, <2>2, Zenon DEF Folded
  <2>4. fold[s \ {CHOOSE x \in s : TRUE}] = count[s \ {CHOOSE x \in s : TRUE}]
    BY <1>3, <2>1, <2>2, SMT, SMTT(30)
  <2> QED
    BY <1>3, <2>2, <2>3, <2>4, Zenon
<1> QED
  BY <1>1, <1>6, Zenon DEF count

LEMMA SumType ==
    ASSUME NEW S, IsFiniteSet(S), NEW f, \A x \in S : f[x] \in Nat
    PROVE SumFunctionOnSet(f, S) \in Nat
BY SumIsCount, UnitsFinite, FS_CardinalityType, Zenon

LEMMA SumEmpty == \A f : SumFunctionOnSet(f, {}) = 0
<1> TAKE f
<1>1. Units(f, {}) = {} /\ IsFiniteSet({}) /\ Cardinality({}) = 0
  BY FS_EmptySet, Zenon DEF Units
<1> QED
  BY <1>1, SumIsCount, Zenon

LEMMA SumRemove ==
    ASSUME NEW S, IsFiniteSet(S), NEW f, \A x \in S : f[x] \in Nat, NEW x \in S
    PROVE SumFunctionOnSet(f, S) = f[x] + SumFunctionOnSet(f, S \ {x})
<1>1. IsFiniteSet(S \ {x})
  BY FS_Subset, Zenon
<1> QED
  BY <1>1, SumIsCount, UnitsCounted, SMT, SMTT(30)

LEMMA SumSame ==
    ASSUME NEW S, IsFiniteSet(S), NEW f, \A x \in S : f[x] \in Nat, NEW g, \A x \in S : g[x] = f[x]
    PROVE SumFunctionOnSet(g, S) = SumFunctionOnSet(f, S)
<1>1. Units(g, S) = Units(f, S)
  BY Zenon DEF Units
<1>2. \A x \in S : g[x] \in Nat
  BY Zenon
<1> QED
  BY <1>1, <1>2, SumIsCount, Zenon

LEMMA SumUnion ==
    ASSUME NEW S, IsFiniteSet(S), NEW T, IsFiniteSet(T), S \cap T = {},
           NEW f, \A x \in S \cup T : f[x] \in Nat
    PROVE SumFunctionOnSet(f, S \cup T) = SumFunctionOnSet(f, S) + SumFunctionOnSet(f, T)
<1>1. Units(f, S \cup T) = Units(f, S) \cup Units(f, T) /\ Units(f, S) \cap Units(f, T) = {}
  BY SMT, SMTT(30) DEF Units
<1>2. IsFiniteSet(S \cup T)
  BY FS_Union, Zenon
<1>3. IsFiniteSet(Units(f, S)) /\ IsFiniteSet(Units(f, T))
  BY UnitsFinite, Zenon
<1>4. Cardinality(Units(f, S) \cup Units(f, T))
        = Cardinality(Units(f, S)) + Cardinality(Units(f, T)) - Cardinality(Units(f, S) \cap Units(f, T))
  BY <1>3, FS_Union, Zenon
<1>5. Cardinality({}) = 0 /\ Cardinality(Units(f, S)) \in Nat /\ Cardinality(Units(f, T)) \in Nat
  BY <1>3, FS_EmptySet, FS_CardinalityType, Zenon
<1>6. (\A x \in S : f[x] \in Nat) /\ (\A x \in T : f[x] \in Nat)
  BY Zenon
<1>7. /\ SumFunctionOnSet(f, S) = Cardinality(Units(f, S))
      /\ SumFunctionOnSet(f, T) = Cardinality(Units(f, T))
      /\ SumFunctionOnSet(f, S \cup T) = Cardinality(Units(f, S \cup T))
  BY <1>2, <1>6, SumIsCount, Zenon
<1>8. Cardinality(Units(f, S \cup T)) = Cardinality(Units(f, S)) + Cardinality(Units(f, T)) - Cardinality({})
  BY <1>1, <1>4, Zenon
<1> QED
  BY <1>5, <1>7, <1>8, SMT, SMTT(30)

\* A sum over the end of a sequence, which the counting starts again at 1.
LEMMA SumShifted ==
    ASSUME NEW k \in Nat, NEW n \in Nat, NEW f, \A i \in (k + 1) .. (k + n) : f[i] \in Nat,
           NEW g, \A i \in 1 .. n : g[i] = f[k + i]
    PROVE SumFunctionOnSet(g, 1 .. n) = SumFunctionOnSet(f, (k + 1) .. (k + n))
<1> DEFINE P == Units(g, 1 .. n)
           Q == Units(f, (k + 1) .. (k + n))
           shift == [p \in P |-> <<k + p[1], p[2]>>]
<1>0. \A i \in 1 .. n : g[i] \in Nat /\ k + i \in (k + 1) .. (k + n)
  BY SMT, SMTT(30)
<1>1. P = {p \in Nat \X Nat : p[1] \in 1 .. n /\ p[2] \in 1 .. g[p[1]]}
  BY <1>0, SMT, SMTT(30) DEF Units
<1>2. Q = {q \in Nat \X Nat : q[1] \in (k + 1) .. (k + n) /\ q[2] \in 1 .. f[q[1]]}
  BY SMT, SMTT(30) DEF Units
<1> HIDE DEF P, Q
<1>3. ASSUME NEW p \in P
      PROVE <<k + p[1], p[2]>> \in Q /\ p[1] \in Nat /\ p = <<p[1], p[2]>>
  BY <1>1, <1>2, SMT, SMTT(30)
<1>4. shift \in [P -> Q]
  BY <1>3, Zenon
<1>5. \A p, r \in P : shift[p] = shift[r] => p = r
  <2> SUFFICES ASSUME NEW p \in P, NEW r \in P, shift[p] = shift[r] PROVE p = r
    BY Zenon
  <2>1. p[1] \in Nat /\ r[1] \in Nat /\ p = <<p[1], p[2]>> /\ r = <<r[1], r[2]>>
    BY <1>3, Zenon
  <2>2. <<k + p[1], p[2]>> = <<k + r[1], r[2]>>
    BY Zenon
  <2>3. k + p[1] = k + r[1] /\ p[2] = r[2]
    BY <2>2, Zenon
  <2>4. p[1] = r[1]
    BY <2>1, <2>3, SMT, SMTT(30)
  <2> QED
    BY <2>1, <2>3, <2>4, Zenon
<1>6. \A q \in Q : \E p \in P : shift[p] = q
  <2> SUFFICES ASSUME NEW q \in Q PROVE \E p \in P : shift[p] = q
    BY Zenon
  <2>1. q[1] \in (k + 1) .. (k + n) /\ q[2] \in 1 .. f[q[1]] /\ q = <<q[1], q[2]>> /\ q[2] \in Nat
    BY <1>2, SMT, SMTT(30)
  <2>2. PICK i \in 1 .. n : q[1] = k + i
    <3>1. q[1] - k \in 1 .. n /\ q[1] = k + (q[1] - k)
      BY <2>1, SMT, SMTT(30)
    <3> QED
      BY <3>1, Zenon
  <2>3. <<i, q[2]>> \in P
    BY <1>1, <2>1, <2>2, SMT, SMTT(30)
  <2>4. shift[<<i, q[2]>>] = q
    BY <2>1, <2>2, <2>3, Zenon
  <2> QED
    BY <2>3, <2>4, Zenon
<1>7. ExistsBijection(P, Q)
  BY <1>4, <1>5, <1>6, ZenonT(30) DEF ExistsBijection, Bijection, Injection, Surjection, IsInjective
<1>8. IsFiniteSet(1 .. n) /\ IsFiniteSet((k + 1) .. (k + n))
  BY FS_Interval, SMT, SMTT(30)
<1>9. IsFiniteSet(P)
  BY <1>0, <1>8, UnitsFinite, Zenon DEF P
<1>10. Cardinality(P) = Cardinality(Q)
  BY <1>7, <1>9, FS_Bijection, Zenon
<1> QED
  BY <1>0, <1>8, <1>10, SumIsCount, Zenon DEF P, Q

-----------------------------------------------------------------------------
(***************************************************************************)
(* Penalties: the inductive invariant.                                     *)
(***************************************************************************)
Penalisers == {"handler", "health"}

\* Times are natural numbers, also the one the listener is about to store.
Clocks ==
    /\ now \in Nat
    /\ at \in [Links -> Nat]
    /\ listener.pc = "swap" => listener.now \in Nat

\* As long as no other score was stored, the first stores of a penalty stand,
\* and the scores of the links once nobody has those stores ahead.
Penalised ==
    /\ penalty \in [Penalisers -> 0 .. 2]
    /\ clean => tcp = DEFAULT_SCORE /\ tcpInit = TRUE
    /\ clean /\ (\A p \in Penalisers : penalty[p] # 1) => \A l \in Links : quic[l] = DEFAULT_SCORE

PenaltyInv == Clocks /\ Penalised

\* Where the tasks are, from the records that describe them.
LEMMA PcOf ==
    /\ Idle.pc = "idle"
    /\ \A a, b : [pc |-> "store", link |-> a, score |-> b].pc = "store"
    /\ \A a, b : [pc |-> "load", kib |-> a, secs |-> b].pc = "load"
BY Zenon DEF Idle

-----------------------------------------------------------------------------
(***************************************************************************)
(* What a pick reads of a penalised upstream.                              *)
(***************************************************************************)
\* A score decays towards the least score, never beyond what it was.
LEMMA DecayBounded ==
    ASSUME Clocks, NEW l \in Links, quic[l] = DEFAULT_SCORE
    PROVE Decayed(l) \in 0 .. DEFAULT_SCORE
<1>1. Stale \in Nat /\ Stale > 0
  BY ScoreAssumption, SMT, SMTT(30)
<1>2. Since(at[l]) \in Nat
  BY SMT, SMTT(30) DEF Clocks, Since
<1>3. CASE Since(at[l]) >= Stale
  BY <1>3, SMT, SMTT(30) DEF Decayed, MINIMAL_SCORE, DEFAULT_SCORE
<1>4. CASE ~(Since(at[l]) >= Stale)
  <2> DEFINE left == Stale - Since(at[l])
             d == (quic[l] * left) \div Stale
  <2>1. left \in Nat /\ left <= Stale
    BY <1>1, <1>2, <1>4, SMT, SMTT(30)
  <2> HIDE DEF left
  <2>2. 75 * left \in Nat /\ 75 * left <= 75 * Stale
    BY <1>1, <2>1, SMT, SMTT(30)
  <2>3. (75 * left) \div Stale \in 0 .. 75
    BY <1>1, <2>2, SMT, SMTT(30)
  <2>4. d \in 0 .. 75
    BY <2>3, Zenon DEF DEFAULT_SCORE
  <2>5. Decayed(l) = IF d > MINIMAL_SCORE THEN d ELSE MINIMAL_SCORE
    BY <1>4, Zenon DEF Decayed, left
  <2> QED
    BY <2>4, <2>5, SMT, SMTT(30) DEF MINIMAL_SCORE, DEFAULT_SCORE
<1> QED
  BY <1>3, <1>4, Zenon

LEMMA QuicScoreBounded ==
    ASSUME Clocks, \A l \in Links : quic[l] = DEFAULT_SCORE
    PROVE QuicScore \in 0 .. DEFAULT_SCORE
<1>1. Decayed("uplink") \in 0 .. DEFAULT_SCORE /\ Decayed("downlink") \in 0 .. DEFAULT_SCORE
  BY DecayBounded, Zenon DEF Links
<1> DEFINE mean == (Decayed("uplink") + Decayed("downlink")) \div 2
<1>2. mean \in 0 .. DEFAULT_SCORE
  BY <1>1, SMT, SMTT(30) DEF DEFAULT_SCORE
<1>3. at["uplink"] > 0 \/ at["uplink"] = 0
  BY SMT, SMTT(30) DEF Clocks, Links
<1>4. at["downlink"] > 0 \/ at["downlink"] = 0
  BY SMT, SMTT(30) DEF Clocks, Links
<1>5. DEFAULT_SCORE \in 0 .. DEFAULT_SCORE
  BY SMT, SMTT(30) DEF DEFAULT_SCORE
<1> HIDE DEF mean
<1> QED
  BY <1>1, <1>2, <1>3, <1>4, <1>5, ZenonT(30) DEF QuicScore, mean

LEMMA ScoreBounded ==
    ASSUME PenaltyInv, clean, \A p \in Penalisers : penalty[p] = 0
    PROVE Score <= DEFAULT_SCORE
<1>1. tcp = DEFAULT_SCORE /\ tcpInit = TRUE /\ QuicScore \in 0 .. DEFAULT_SCORE
  BY QuicScoreBounded, SMT, SMTT(30) DEF PenaltyInv, Penalised
<1> DEFINE blend == (tcp * (100 - Weight) + QuicScore * Weight) \div 100
<1>2. blend <= DEFAULT_SCORE /\ blend \in Nat
  <2>1. Weight \in 0 .. 100
    BY ScoreAssumption, ZenonT(30)
  <2>2. QuicScore * Weight \in Nat /\ QuicScore * Weight <= 75 * Weight
    BY <1>1, <2>1, SMT, SMTT(30) DEF DEFAULT_SCORE
  <2> QED
    BY <1>1, <2>1, <2>2, SMT, SMTT(30) DEF DEFAULT_SCORE
<1>3. Score = blend \/ Score = tcp
  <2> HIDE DEF blend
  <2> QED
    BY <1>1, ZenonT(30) DEF Score, blend
<1>4. tcp <= DEFAULT_SCORE
  BY <1>1, SMT, SMTT(30) DEF DEFAULT_SCORE
<1> HIDE DEF blend
<1> QED
  BY <1>2, <1>3, <1>4, Zenon

-----------------------------------------------------------------------------
(***************************************************************************)
(* The invariant is inductive.                                             *)
(***************************************************************************)
LEMMA InitPenalty == ScoresInit => PenaltyInv
<1>1. Start \in Nat
  BY ScoreAssumption, ZenonT(30)
<1> QED
  BY <1>1, SMT, SMTT(30) DEF ScoresInit, PenaltyInv, Clocks, Penalised, Penalisers, Idle

\* Who stores a score says so, and who does not leaves the penalty alone.
LEMMA KeepsPenalised ==
    ASSUME Penalised, UNCHANGED penalty,
           clean' = FALSE \/ (clean' = clean /\ UNCHANGED <<tcp, tcpInit, quic>>)
    PROVE Penalised'
<1>1. CASE clean' = FALSE
  BY <1>1, Zenon DEF Penalised
<1>2. CASE clean' = clean /\ UNCHANGED <<tcp, tcpInit, quic>>
  BY <1>2, Zenon DEF Penalised
<1> QED
  BY <1>1, <1>2, ZenonT(30)

LEMMA KeepsClocks ==
    ASSUME Clocks, UNCHANGED <<now, at, listener>>
    PROVE Clocks'
BY Zenon DEF Clocks

LEMMA PenalizeStep ==
    ASSUME PenaltyInv, NEW p \in Penalisers, Penalize(p)
    PROVE PenaltyInv'
<1> USE DEF PenaltyInv
<1>1. now \in Nat /\ UNCHANGED <<now, listener, tcp, tcpInit, clean>>
  BY Zenon DEF Clocks, Penalize, timeVars, localVars
<1>2. CASE penalty[p] = 1
  <2>1. /\ quic' = [l \in Links |-> DEFAULT_SCORE] /\ UNCHANGED at
        /\ penalty' = [penalty EXCEPT ![p] = 2]
    BY <1>2, SMT, SMTT(30) DEF Penalize, PenalisedLinks
  <2>2. penalty' \in [Penalisers -> 0 .. 2]
    BY <2>1, SMT, SMTT(30) DEF Penalised
  <2>3. \A l \in Links : quic'[l] = DEFAULT_SCORE
    BY <2>1, Zenon
  <2> QED
    BY <1>1, <2>1, <2>2, <2>3, ZenonT(30) DEF Clocks, Penalised
<1>3. CASE penalty[p] = 2
  <2>1. /\ at' = [l \in Links |-> now] /\ UNCHANGED quic
        /\ penalty' = [penalty EXCEPT ![p] = 0]
    BY <1>3, SMT, SMTT(30) DEF Penalize
  <2>2. penalty' \in [Penalisers -> 0 .. 2] /\ at' \in [Links -> Nat]
    BY <1>1, <2>1, SMT, SMTT(30) DEF Penalised
  <2>3. (\A q \in Penalisers : penalty'[q] # 1) => \A q \in Penalisers : penalty[q] # 1
    BY <1>3, <2>1, SMT, SMTT(30) DEF Penalised
  <2> QED
    BY <1>1, <2>1, <2>2, <2>3, ZenonT(30) DEF Clocks, Penalised
<1> QED
  BY <1>2, <1>3, Zenon DEF Penalize

\* A penalty begins: its stores on the links are still ahead.
LEMMA BeginPenaltyStep ==
    ASSUME Penalised, NEW p \in Penalisers, BeginPenalty(p)
    PROVE Penalised'
<1>1. penalty' \in [Penalisers -> 0 .. 2] /\ penalty'[p] = 1
  BY SMT, SMTT(30) DEF Penalised, BeginPenalty
<1> QED
  BY <1>1, Zenon DEF Penalised, BeginPenalty

LEMMA FailureStep == PenaltyInv /\ (ConnectFailed \/ HealthDead \/ HealthAlive) => PenaltyInv'
<1> SUFFICES ASSUME PenaltyInv, ConnectFailed \/ HealthDead \/ HealthAlive PROVE PenaltyInv'
  BY Zenon
<1>1. Clocks'
  BY KeepsClocks, Zenon DEF ConnectFailed, HealthDead, HealthAlive, localVars, PenaltyInv
<1>2. CASE ConnectFailed \/ (HealthDead /\ failures + 1 = FailThreshold)
  BY <1>1, <1>2, BeginPenaltyStep, ZenonT(30) DEF ConnectFailed, HealthDead, PenaltyInv, Penalisers
<1>3. CASE HealthAlive \/ (HealthDead /\ failures + 1 # FailThreshold)
  BY <1>1, <1>3, KeepsPenalised, ZenonT(30) DEF HealthAlive, HealthDead, PenaltyInv
<1> QED
  BY <1>2, <1>3, Zenon

LEMMA TrafficStep ==
    ASSUME PenaltyInv, Tick \/ \E c \in Conns : Track(c) \/ Untrack(c) \/ \E d \in Directions : Transfer(c, d)
    PROVE PenaltyInv'
<1>1. UNCHANGED <<tcp, tcpInit, quic, at, listener, penalty, clean>> /\ now' \in {now, now + Period}
  BY ZenonT(30) DEF Tick, Track, Transfer, Untrack, timeVars, scoreVars, localVars
<1>2. now' \in Nat
  BY <1>1, ScoreAssumption, SMT, SMTT(30) DEF PenaltyInv, Clocks
<1> QED
  BY <1>1, <1>2, KeepsPenalised, Zenon DEF PenaltyInv, Clocks

LEMMA SamplerStep ==
    ASSUME PenaltyInv,
           SamplerSnapshot \/ (\E c \in Conns : SamplerReads(c)) \/ SamplerSwaps \/ SamplerLoads \/ SamplerStores
    PROVE PenaltyInv'
<1>1. UNCHANGED <<now, at, listener, penalty>>
  BY ZenonT(30) DEF SamplerSnapshot, SamplerReads, SamplerSwaps, SamplerLoads, SamplerStores, timeVars, scoreVars
<1>2. clean' = FALSE \/ (clean' = clean /\ UNCHANGED <<tcp, tcpInit, quic>>)
  BY ZenonT(30) DEF SamplerSnapshot, SamplerReads, SamplerSwaps, SamplerLoads, SamplerStores, scoreVars
<1> QED
  BY <1>1, <1>2, KeepsPenalised, KeepsClocks, ZenonT(30) DEF PenaltyInv

LEMMA RescoreStep ==
    ASSUME PenaltyInv, RescoreSnapshot \/ RescoreQuic \/ RescoreLoads \/ RescoreStores
    PROVE PenaltyInv'
<1>1. UNCHANGED <<now, at, listener, penalty>>
  BY Zenon DEF RescoreSnapshot, RescoreQuic, RescoreLoads, RescoreStores, timeVars, scoreVars
<1>2. clean' = FALSE \/ (clean' = clean /\ UNCHANGED <<tcp, tcpInit, quic>>)
  BY Zenon DEF RescoreSnapshot, RescoreQuic, RescoreLoads, RescoreStores, scoreVars
<1> QED
  BY <1>1, <1>2, KeepsPenalised, KeepsClocks, ZenonT(30) DEF PenaltyInv

\* The times that the listener stores: the clock at the report, or now.
LEMMA ListenerStep ==
    ASSUME PenaltyInv,
           \/ \E r \in Reports, l \in Links : Report(r, l)
           \/ ListenerSwaps \/ ListenerLoads \/ ListenerStores
    PROVE PenaltyInv'
<1> USE DEF PenaltyInv
<1>1. UNCHANGED <<now, penalty>> /\ now \in Nat
  BY Zenon DEF Report, ListenerSwaps, ListenerLoads, ListenerStores, timeVars, Clocks
<1>2. clean' = FALSE \/ (clean' = clean /\ UNCHANGED <<tcp, tcpInit, quic>>)
  BY Zenon DEF Report, ListenerSwaps, ListenerLoads, ListenerStores, scoreVars
<1>3. Penalised'
  BY <1>1, <1>2, KeepsPenalised, ZenonT(30)
<1>4. CASE \E r \in Reports, l \in Links : Report(r, l)
  <2>1. PICK r \in Reports, l \in Links : Report(r, l)
    BY <1>4, Zenon
  <2>2. at' \in [Links -> Nat]
    BY <1>1, <2>1, Zenon DEF Report, RecordProbe, Clocks
  <2>3. listener' = listener \/ listener' = Idle
        \/ listener' = [pc |-> "swap", link |-> l, last |-> at[l], now |-> now, raw |-> CalcQuicScore(r)]
    BY <2>1, ZenonT(30) DEF Report
  <2>4. listener'.pc = "swap" => listener'.now \in Nat
    BY <1>1, <2>3, SMT, SMTT(30) DEF Clocks, Idle
  <2> QED
    BY <1>1, <1>3, <2>2, <2>4, ZenonT(30) DEF Clocks
<1>5. CASE ListenerSwaps
  <2>1. listener.now \in Nat /\ listener'.pc # "swap"
    BY <1>5, SMT, SMTT(30) DEF ListenerSwaps, Clocks, Idle
  <2>2. at' \in [Links -> Nat]
    BY <1>5, <2>1, Zenon DEF ListenerSwaps, Clocks
  <2> QED
    BY <1>1, <1>3, <2>1, <2>2, ZenonT(30) DEF Clocks
<1>6. CASE ListenerLoads \/ ListenerStores
  <2>1. listener'.pc # "swap" /\ UNCHANGED at
    <3>1. UNCHANGED at
      BY <1>6, Zenon DEF ListenerLoads, ListenerStores, scoreVars
    <3>2. \/ listener' = Idle
          \/ listener' = [pc |-> "store", link |-> listener.link,
                          score |-> (quic[listener.link] * 3 + listener.raw * 7) \div 10]
      BY <1>6, Zenon DEF ListenerLoads, ListenerStores
    <3> QED
      BY <3>1, <3>2, PcOf, Zenon
  <2> QED
    BY <1>1, <1>3, <2>1, ZenonT(30) DEF Clocks
<1> QED
  BY <1>4, <1>5, <1>6, Zenon

LEMMA NextPenalty == PenaltyInv /\ [ScoresNext]_scoringVars => PenaltyInv'
<1> SUFFICES ASSUME PenaltyInv, [ScoresNext]_scoringVars PROVE PenaltyInv'
  BY Zenon
<1>1. CASE \E p \in DOMAIN penalty : Penalize(p)
  <2>1. DOMAIN penalty = Penalisers
    BY Zenon DEF PenaltyInv, Penalised
  <2> QED
    BY <1>1, <2>1, PenalizeStep, ZenonT(30)
<1>2. CASE UNCHANGED scoringVars
  BY <1>2, KeepsPenalised, KeepsClocks, Zenon
     DEF scoringVars, timeVars, scoreVars, localVars, PenaltyInv
<1> QED
  BY <1>1, <1>2, TrafficStep, FailureStep, SamplerStep, ListenerStep, RescoreStep, ZenonT(30) DEF ScoresNext

-----------------------------------------------------------------------------
(***************************************************************************)
(* What the connections moved, and what a sample measures of it.           *)
(***************************************************************************)
\* The chunks that connections have moved: a finite sum of natural numbers.
Counters(f) == IsFiniteSet(DOMAIN f) /\ \A c \in DOMAIN f : f[c] \in Nat

Amounts == [Directions -> Nat]

\* The same connections are tracked in both directions.
Traffic ==
    /\ DOMAIN live = Directions
    /\ \A d \in Directions : DOMAIN live[d] = Tracked /\ Counters(live[d])
    /\ total \in Amounts /\ moved \in Amounts /\ recent \in Amounts
    /\ infoInit \in BOOLEAN
    /\ sampler.pc = "read" => sampler.sum \in Amounts /\ sampler.foreign \in Amounts

\* What the tracked connections outside of S have moved in a direction.
Outside(d, S) == SumFunctionOnSet(live[d], Tracked \ S)

\* During a reading: what the readings so far do not account for was moved
\* since the snapshot, and what they and those to come see beyond the last
\* total was moved since the snapshot before, or by a foreign socket.
ReadingInv(d) ==
    /\ Outside(d, sampler.todo) <= recent[d] + sampler.sum[d]
    /\ infoInit => sampler.sum[d] + Outside(d, Tracked \ sampler.todo)
                      <= total[d] + moved[d] + sampler.foreign[d]

RateInv ==
    /\ Traffic
    /\ \A d \in Directions : /\ sampler.pc = "read" => ReadingInv(d)
                             /\ infoInit => Outside(d, {}) <= total[d] + moved[d]
    /\ RateNotOverestimated

LEMMA InitRate == ScoresInit => RateInv
<1> SUFFICES ASSUME ScoresInit PROVE RateInv
  BY Zenon
<1>1. sampler.pc # "read" /\ ~infoInit
  BY Zenon DEF ScoresInit, Idle
<1>2. Traffic
  <2>1. live = [d \in Directions |-> [c \in {} |-> 0]] /\ "recv" \in Directions
    BY Zenon DEF ScoresInit, Directions
  <2>2. DOMAIN live = Directions /\ \A d \in Directions : DOMAIN live[d] = {}
    BY <2>1, Zenon
  <2>3. Tracked = {} /\ IsFiniteSet({})
    BY <2>1, <2>2, FS_EmptySet, Zenon DEF Tracked
  <2>4. Nothing \in Amounts
    BY SMT, SMTT(30) DEF Nothing, Amounts
  <2> QED
    BY <1>1, <2>2, <2>3, <2>4, Zenon DEF ScoresInit, Traffic, Counters
<1>3. RateNotOverestimated
  BY SMT, SMTT(30) DEF ScoresInit, RateNotOverestimated
<1> QED
  BY <1>1, <1>2, <1>3, Zenon DEF RateInv

\* A part of the sum over tracked connections.
LEMMA PartOfTraffic ==
    ASSUME NEW f, Counters(f), NEW S, S \subseteq DOMAIN f
    PROVE IsFiniteSet(S) /\ (\A c \in S : f[c] \in Nat) /\ SumFunctionOnSet(f, S) \in Nat
<1>1. IsFiniteSet(S) /\ \A c \in S : f[c] \in Nat
  BY FS_Subset, Zenon DEF Counters
<1> QED
  BY <1>1, SumType, Zenon

\* The sum over a part grows by at most what one connection moves.
LEMMA SumTracked ==
    ASSUME NEW f, NEW g, Counters(f), NEW c, c \notin DOMAIN f, NEW S,
           DOMAIN g = DOMAIN f \cup {c}, g[c] = 0, \A k \in DOMAIN f : g[k] = f[k]
    PROVE SumFunctionOnSet(g, DOMAIN g \ S) = SumFunctionOnSet(f, DOMAIN f \ S)
<1> DEFINE D == DOMAIN f \ S
           E == DOMAIN g \ S
<1>1. IsFiniteSet(D) /\ \A k \in D : f[k] \in Nat
  BY PartOfTraffic, Zenon
<1>2. \A k \in D : g[k] = f[k]
  BY Zenon
<1>3. SumFunctionOnSet(g, D) = SumFunctionOnSet(f, D)
  BY <1>1, <1>2, SumSame, ZenonT(30)
<1>4. CASE c \in S
  BY <1>3, <1>4, Zenon
<1>5. CASE c \notin S
  <2>1. E = D \cup {c} /\ c \in E /\ E \ {c} = D /\ g[c] = 0
    BY <1>5, Zenon
  <2>2. IsFiniteSet(E)
    BY <1>1, <2>1, FS_AddElement, SMT, SMTT(30)
  <2>3. \A k \in E : g[k] \in Nat
    <3>1. \A k \in D \cup {c} : g[k] \in Nat
      BY <1>1, <1>2, SMT, SMTT(30)
    <3> QED
      BY <2>1, <3>1, Zenon
  <2> HIDE DEF D, E
  <2>4. SumFunctionOnSet(g, E) = g[c] + SumFunctionOnSet(g, E \ {c})
    BY <2>1, <2>2, <2>3, SumRemove, Zenon
  <2>5. SumFunctionOnSet(f, D) \in Nat
    BY <1>1, SumType, Zenon
  <2> QED
    BY <1>3, <2>1, <2>4, <2>5, SMT, SMTT(30) DEF D, E
<1> QED
  BY <1>4, <1>5, Zenon

LEMMA SumTransferred ==
    ASSUME NEW f, NEW g, Counters(f), NEW c \in DOMAIN f, NEW S, g = [f EXCEPT ![c] = @ + 1]
    PROVE SumFunctionOnSet(g, DOMAIN g \ S) <= SumFunctionOnSet(f, DOMAIN f \ S) + 1
<1> DEFINE D == DOMAIN f \ S
<1>1. IsFiniteSet(D) /\ (\A k \in D : f[k] \in Nat) /\ SumFunctionOnSet(f, D) \in Nat
  BY PartOfTraffic, Zenon
<1>2. DOMAIN g = DOMAIN f /\ g[c] = f[c] + 1 /\ \A k \in D \ {c} : g[k] = f[k]
  BY Zenon
<1>3. \A k \in D : g[k] \in Nat
  BY <1>1, <1>2, SMT, SMTT(30)
<1>4. CASE c \notin S
  <2> DEFINE R == D \ {c}
  <2>1. IsFiniteSet(R) /\ (\A k \in R : f[k] \in Nat) /\ SumFunctionOnSet(f, R) \in Nat
    BY PartOfTraffic, Zenon
  <2>2. SumFunctionOnSet(g, R) = SumFunctionOnSet(f, R)
    BY <1>2, <2>1, SumSame, Zenon
  <2>3. c \in D
    BY <1>4, Zenon
  <2> HIDE DEF D
  <2>4. SumFunctionOnSet(g, D) = g[c] + SumFunctionOnSet(g, R)
    BY <1>1, <1>3, <2>3, SumRemove, Zenon
  <2>5. SumFunctionOnSet(f, D) = f[c] + SumFunctionOnSet(f, R)
    BY <1>1, <2>3, SumRemove, Zenon
  <2>6. SumFunctionOnSet(g, D) = SumFunctionOnSet(f, D) + 1
    BY <1>1, <1>2, <2>1, <2>2, <2>3, <2>4, <2>5, SMT, SMTT(30)
  <2> QED
    BY <1>1, <1>2, <2>6, SMT, SMTT(30) DEF D
<1>5. CASE c \in S
  <2>1. D \ {c} = D
    BY <1>5, Zenon
  <2>2. SumFunctionOnSet(g, D) = SumFunctionOnSet(f, D)
    BY <1>1, <1>2, <2>1, SumSame, ZenonT(30)
  <2> QED
    BY <1>1, <1>2, <2>2, SMT, SMTT(30)
<1> QED
  BY <1>4, <1>5, Zenon

LEMMA SumUntracked ==
    ASSUME NEW f, NEW g, Counters(f), NEW c \in DOMAIN f, NEW S, g = [k \in DOMAIN f \ {c} |-> f[k]]
    PROVE SumFunctionOnSet(g, DOMAIN g \ S) <= SumFunctionOnSet(f, DOMAIN f \ S)
<1> DEFINE D == DOMAIN f \ S
           R == D \ {c}
<1>1. IsFiniteSet(D) /\ (\A k \in D : f[k] \in Nat) /\ SumFunctionOnSet(f, D) \in Nat
  BY PartOfTraffic, Zenon
<1>2. IsFiniteSet(R) /\ (\A k \in R : f[k] \in Nat) /\ SumFunctionOnSet(f, R) \in Nat
  BY PartOfTraffic, Zenon
<1>3. DOMAIN g \ S = R /\ \A k \in R : g[k] = f[k]
  BY Zenon
<1>4. SumFunctionOnSet(g, R) = SumFunctionOnSet(f, R)
  BY <1>2, <1>3, SumSame, ZenonT(30)
<1>5. CASE c \in S
  <2>1. R = D
    BY <1>5, Zenon
  <2> QED
    BY <1>1, <1>3, <1>4, <2>1, SMT, SMTT(30)
<1>6. CASE c \notin S
  <2>1. c \in D /\ f[c] \in Nat
    BY <1>1, <1>6, ZenonT(30)
  <2> HIDE DEF D
  <2>2. SumFunctionOnSet(f, D) = f[c] + SumFunctionOnSet(f, R)
    BY <1>1, <2>1, SumRemove, Zenon
  <2>3. SumFunctionOnSet(f, R) <= SumFunctionOnSet(f, D)
    BY <1>2, <2>1, <2>2, SMT, SMTT(30)
  <2> QED
    BY <1>3, <1>4, <2>3, Zenon DEF D
<1> QED
  BY <1>5, <1>6, Zenon

\* Steps that leave the connections and the sample alone.
LEMMA QuietRate ==
    ASSUME RateInv, UNCHANGED connVars, sampler' = sampler \/ sampler'.pc # "read"
    PROVE RateInv'
<1>1. UNCHANGED <<live, total, infoInit, moved, recent, sample, Tracked>>
  BY Zenon DEF connVars, Tracked
<1>2. Traffic' /\ RateNotOverestimated'
  BY <1>1, ZenonT(30) DEF RateInv, Traffic, RateNotOverestimated
<1>3. ASSUME NEW d \in Directions
      PROVE /\ sampler'.pc = "read" => ReadingInv(d)'
            /\ infoInit' => Outside(d, {})' <= total'[d] + moved'[d]
  BY <1>1, ZenonT(30) DEF RateInv, ReadingInv, Outside
<1> QED
  BY <1>2, <1>3, Zenon DEF RateInv

\* What is outside of a set is a number, before a step and after it.
LEMMA OutsideType ==
    ASSUME Traffic, NEW d \in Directions, NEW S
    PROVE Outside(d, S) \in Nat
BY PartOfTraffic, Zenon DEF Traffic, Outside

LEMMA OutsideTypeNext ==
    ASSUME Traffic', NEW d \in Directions, NEW S
    PROVE SumFunctionOnSet(live'[d], Tracked' \ S) \in Nat
BY PartOfTraffic, Zenon DEF Traffic

\* The sums grow by no more than what is counted as moved meanwhile.
LEMMA GrownRate ==
    ASSUME RateInv, Traffic', UNCHANGED <<total, infoInit, sample, sampler>>, NEW e \in Amounts,
           \A d \in Directions : moved'[d] = moved[d] + e[d] /\ recent'[d] = recent[d] + e[d],
           \A d \in Directions : \A S :
              SumFunctionOnSet(live'[d], Tracked' \ S) <= SumFunctionOnSet(live[d], Tracked \ S) + e[d]
    PROVE RateInv'
<1>0. Traffic /\ RateNotOverestimated'
  BY Zenon DEF RateInv, RateNotOverestimated
<1>1. ASSUME NEW d \in Directions
      PROVE /\ sampler'.pc = "read" => ReadingInv(d)'
            /\ infoInit' => Outside(d, {})' <= total'[d] + moved'[d]
  <2>1. /\ total[d] \in Nat /\ moved[d] \in Nat /\ recent[d] \in Nat /\ e[d] \in Nat
        /\ sampler.pc = "read" => sampler.sum[d] \in Nat /\ sampler.foreign[d] \in Nat
    BY <1>0, Zenon DEF Traffic, Amounts
  <2>2. ASSUME NEW S
        PROVE /\ Outside(d, S) \in Nat /\ SumFunctionOnSet(live'[d], Tracked' \ S) \in Nat
              /\ SumFunctionOnSet(live'[d], Tracked' \ S) <= Outside(d, S) + e[d]
    BY <1>0, OutsideType, OutsideTypeNext, Zenon DEF Outside
  <2>3. ASSUME infoInit' PROVE Outside(d, {})' <= total'[d] + moved'[d]
    <3> DEFINE old == Outside(d, {})
               new == SumFunctionOnSet(live'[d], Tracked' \ {})
    <3>1. old \in Nat /\ new \in Nat /\ new <= old + e[d] /\ old <= total[d] + moved[d]
      BY <2>2, <2>3, Zenon DEF RateInv
    <3> HIDE DEF old, new
    <3>2. new <= total'[d] + moved'[d]
      BY <2>1, <3>1, SMT, SMTT(30)
    <3> QED
      BY <3>2, Zenon DEF new, Outside
  <2>4. ASSUME sampler'.pc = "read" PROVE ReadingInv(d)'
    <3>0. sampler.pc = "read" /\ ReadingInv(d)
      BY <2>4, Zenon DEF RateInv
    <3>1. Outside(d, sampler.todo)' <= recent'[d] + sampler'.sum[d]
      <4> DEFINE old == Outside(d, sampler.todo)
                 new == SumFunctionOnSet(live'[d], Tracked' \ sampler.todo)
      <4>1. old \in Nat /\ new \in Nat /\ new <= old + e[d] /\ old <= recent[d] + sampler.sum[d]
        BY <2>2, <3>0, Zenon DEF ReadingInv
      <4> HIDE DEF old, new
      <4>2. new <= recent'[d] + sampler.sum[d]
        BY <2>1, <3>0, <4>1, SMT, SMTT(30)
      <4> QED
        BY <4>2, Zenon DEF new, Outside
    <3>2. ASSUME infoInit'
          PROVE sampler'.sum[d] + Outside(d, Tracked \ sampler.todo)' <= total'[d] + moved'[d] + sampler'.foreign[d]
      <4> DEFINE S == (Tracked \cup Tracked') \ sampler.todo
                 old == Outside(d, S)
                 new == SumFunctionOnSet(live'[d], Tracked' \ S)
      <4>1. old \in Nat /\ new \in Nat /\ new <= old + e[d]
        BY <2>2, Zenon
      <4>2. /\ Tracked \ S = Tracked \ (Tracked \ sampler.todo)
            /\ Tracked' \ S = Tracked' \ (Tracked' \ sampler.todo)
        BY Zenon
      <4>3. old = Outside(d, Tracked \ sampler.todo) /\ new = Outside(d, Tracked \ sampler.todo)'
        BY <4>2, Zenon DEF Outside
      <4>4. sampler.sum[d] + old <= total[d] + moved[d] + sampler.foreign[d]
        BY <3>0, <3>2, <4>3, Zenon DEF ReadingInv
      <4> HIDE DEF old, new, S
      <4>5. sampler.sum[d] + new <= total[d] + moved'[d] + sampler.foreign[d]
        BY <2>1, <3>0, <4>1, <4>4, SMT, SMTT(30)
      <4> QED
        BY <4>3, <4>5, Zenon
    <3> QED
      BY <3>1, <3>2, Zenon DEF ReadingInv
  <2> QED
    BY <2>3, <2>4, Zenon
<1> QED
  BY <1>0, <1>1, Zenon DEF RateInv

LEMMA TrackRate ==
    ASSUME RateInv, NEW c, Track(c)
    PROVE RateInv'
<1>1. /\ c \notin Tracked /\ Traffic
      /\ live' = [d \in Directions |-> [k \in Tracked \cup {c} |-> IF k = c THEN 0 ELSE live[d][k]]]
      /\ UNCHANGED <<total, infoInit, sample, sampler>> /\ UNCHANGED <<moved, recent>>
  BY Zenon DEF Track, localVars, RateInv
<1>2. /\ DOMAIN live' = Directions
      /\ \A d \in Directions : /\ live'[d] = [k \in Tracked \cup {c} |-> IF k = c THEN 0 ELSE live[d][k]]
                               /\ DOMAIN live'[d] = Tracked \cup {c}
  BY <1>1, Zenon
<1>3. Tracked' = Tracked \cup {c}
  BY <1>2, Zenon DEF Tracked, Directions
<1>4. Traffic'
  <2>1. ASSUME NEW d \in Directions PROVE Counters(live'[d])
    <3>1. DOMAIN live[d] = Tracked /\ IsFiniteSet(Tracked) /\ \A k \in Tracked : live[d][k] \in Nat
      BY <1>1, Zenon DEF Traffic, Counters
    <3>2. IsFiniteSet(Tracked \cup {c})
      BY <3>1, FS_AddElement, Zenon
    <3>3. \A k \in Tracked \cup {c} : live'[d][k] \in Nat
      BY <1>2, <3>1, SMT, SMTT(30)
    <3> QED
      BY <1>2, <3>2, <3>3, Zenon DEF Counters
  <2> QED
    BY <1>1, <1>2, <1>3, <2>1, ZenonT(30) DEF Traffic
<1>5. Nothing \in Amounts /\ \A d \in Directions : Nothing[d] = 0
  BY SMT, SMTT(30) DEF Nothing, Amounts
<1>6. ASSUME NEW d \in Directions, NEW S
      PROVE SumFunctionOnSet(live'[d], Tracked' \ S) <= SumFunctionOnSet(live[d], Tracked \ S) + Nothing[d]
  <2>1. SumFunctionOnSet(live'[d], Tracked' \ S) = SumFunctionOnSet(live[d], Tracked \ S)
    <3>1. Counters(live[d]) /\ DOMAIN live[d] = Tracked /\ DOMAIN live'[d] = Tracked'
      BY <1>1, <1>2, <1>3, Zenon DEF Traffic
    <3>2. /\ c \notin DOMAIN live[d] /\ DOMAIN live'[d] = DOMAIN live[d] \cup {c}
          /\ live'[d][c] = 0 /\ \A k \in DOMAIN live[d] : live'[d][k] = live[d][k]
      <4>1. live'[d] = [k \in Tracked \cup {c} |-> IF k = c THEN 0 ELSE live[d][k]] /\ c \notin Tracked
        BY <1>1, <1>2, Zenon
      <4> QED
        BY <3>1, <4>1, SMT, SMTT(30)
    <3>3. SumFunctionOnSet(live'[d], DOMAIN live'[d] \ S) = SumFunctionOnSet(live[d], DOMAIN live[d] \ S)
      BY <3>1, <3>2, SumTracked, SMT, SMTT(30)
    <3> QED
      BY <3>1, <3>3, Zenon
  <2>2. SumFunctionOnSet(live[d], Tracked \ S) \in Nat
    BY <1>1, OutsideType, Zenon DEF Outside
  <2> QED
    BY <1>5, <2>1, <2>2, SMT, SMTT(30)
<1>7. \A d \in Directions : moved'[d] = moved[d] + Nothing[d] /\ recent'[d] = recent[d] + Nothing[d]
  BY <1>1, <1>5, SMT, SMTT(30) DEF Traffic, Amounts
<1> QED
  BY <1>1, <1>4, <1>5, <1>6, <1>7, GrownRate, ZenonT(30)

LEMMA UntrackRate ==
    ASSUME RateInv, NEW c, Untrack(c)
    PROVE RateInv'
<1>1. /\ c \in Tracked /\ Traffic
      /\ live' = [d \in Directions |-> [k \in Tracked \ {c} |-> live[d][k]]]
      /\ UNCHANGED <<total, infoInit, sample, sampler>> /\ UNCHANGED <<moved, recent>>
  BY Zenon DEF Untrack, localVars, RateInv
<1>2. /\ DOMAIN live' = Directions
      /\ \A d \in Directions : /\ live'[d] = [k \in Tracked \ {c} |-> live[d][k]]
                               /\ DOMAIN live'[d] = Tracked \ {c}
  BY <1>1, Zenon
<1>3. Tracked' = Tracked \ {c}
  BY <1>2, Zenon DEF Tracked, Directions
<1>4. Traffic'
  <2>1. ASSUME NEW d \in Directions PROVE Counters(live'[d])
    <3>1. DOMAIN live[d] = Tracked /\ IsFiniteSet(Tracked) /\ \A k \in Tracked : live[d][k] \in Nat
      BY <1>1, Zenon DEF Traffic, Counters
    <3>2. IsFiniteSet(Tracked \ {c})
      BY <3>1, FS_Subset, Zenon
    <3>3. \A k \in Tracked \ {c} : live'[d][k] \in Nat
      BY <1>2, <3>1, SMT, SMTT(30)
    <3> QED
      BY <1>2, <3>2, <3>3, Zenon DEF Counters
  <2> QED
    BY <1>1, <1>2, <1>3, <2>1, ZenonT(30) DEF Traffic
<1>5. Nothing \in Amounts /\ \A d \in Directions : Nothing[d] = 0
  BY SMT, SMTT(30) DEF Nothing, Amounts
<1>6. ASSUME NEW d \in Directions, NEW S
      PROVE SumFunctionOnSet(live'[d], Tracked' \ S) <= SumFunctionOnSet(live[d], Tracked \ S) + Nothing[d]
  <2>1. SumFunctionOnSet(live'[d], Tracked' \ S) <= SumFunctionOnSet(live[d], Tracked \ S)
    <3>1. Counters(live[d]) /\ DOMAIN live[d] = Tracked /\ DOMAIN live'[d] = Tracked'
      BY <1>1, <1>2, <1>3, Zenon DEF Traffic
    <3> QED
      BY <1>1, <1>2, <3>1, SumUntracked, ZenonT(30)
  <2>2. SumFunctionOnSet(live[d], Tracked \ S) \in Nat
    BY <1>1, OutsideType, Zenon DEF Outside
  <2>3. SumFunctionOnSet(live[d], Tracked \ S) + Nothing[d] = SumFunctionOnSet(live[d], Tracked \ S)
    BY <1>5, <2>2, SMT, SMTT(30)
  <2> QED
    BY <2>1, <2>3, Zenon
<1>7. \A d \in Directions : moved'[d] = moved[d] + Nothing[d] /\ recent'[d] = recent[d] + Nothing[d]
  BY <1>1, <1>5, SMT, SMTT(30) DEF Traffic, Amounts
<1> QED
  BY <1>1, <1>4, <1>5, <1>6, <1>7, GrownRate, ZenonT(30)

LEMMA TransferRate ==
    ASSUME RateInv, NEW c, NEW way \in Directions, Transfer(c, way)
    PROVE RateInv'
<1> DEFINE e == [d \in Directions |-> IF d = way THEN 1 ELSE 0]
<1>1. /\ c \in Tracked /\ Traffic
      /\ live' = [live EXCEPT ![way][c] = @ + 1]
      /\ moved' = [moved EXCEPT ![way] = @ + 1] /\ recent' = [recent EXCEPT ![way] = @ + 1]
      /\ UNCHANGED <<total, infoInit, sample, sampler>>
  BY Zenon DEF Transfer, localVars, RateInv
<1>2. /\ DOMAIN live' = Directions
      /\ live'[way] = [live[way] EXCEPT ![c] = @ + 1]
      /\ \A d \in Directions \ {way} : live'[d] = live[d]
  <2>1. DOMAIN live = Directions
    BY <1>1, Zenon DEF Traffic
  <2>2. live'[way] = [live[way] EXCEPT ![c] = @ + 1]
    BY <1>1, <2>1, Zenon
  <2>3. \A d \in Directions \ {way} : live'[d] = live[d]
    BY <1>1, <2>1, Zenon
  <2>4. DOMAIN live' = Directions
    BY <1>1, <2>1, Zenon
  <2> QED
    BY <2>2, <2>3, <2>4, Zenon
<1>3. \A d \in Directions : DOMAIN live'[d] = Tracked
  BY <1>1, <1>2, Zenon DEF Traffic
<1>4. Tracked' = Tracked
  BY <1>3, Zenon DEF Tracked, Directions
<1>5. e \in Amounts /\ \A d \in Directions : e[d] = IF d = way THEN 1 ELSE 0
  BY SMT, SMTT(30) DEF Amounts
<1> HIDE DEF e
<1>6. /\ moved' \in Amounts /\ recent' \in Amounts
      /\ \A d \in Directions : moved'[d] = moved[d] + e[d] /\ recent'[d] = recent[d] + e[d]
  BY <1>1, <1>5, SMT, SMTT(30) DEF Traffic, Amounts
<1>7. Traffic'
  <2>1. ASSUME NEW d \in Directions PROVE Counters(live'[d])
    <3>1. DOMAIN live[d] = Tracked /\ IsFiniteSet(Tracked) /\ \A k \in Tracked : live[d][k] \in Nat
      BY <1>1, Zenon DEF Traffic, Counters
    <3>2. CASE d # way
      BY <1>2, <1>3, <3>1, <3>2, Zenon DEF Counters
    <3>3. CASE d = way
      <4>1. \A k \in Tracked : live'[way][k] \in Nat
        BY <1>1, <1>2, <3>1, <3>3, SMT, SMTT(30)
      <4> QED
        BY <1>3, <3>1, <3>3, <4>1, Zenon DEF Counters
    <3> QED
      BY <3>2, <3>3, Zenon
  <2> QED
    BY <1>1, <1>2, <1>3, <1>4, <1>6, <2>1, ZenonT(30) DEF Traffic
<1>8. ASSUME NEW d \in Directions, NEW S
      PROVE SumFunctionOnSet(live'[d], Tracked' \ S) <= SumFunctionOnSet(live[d], Tracked \ S) + e[d]
  <2>1. Counters(live[d]) /\ DOMAIN live[d] = Tracked /\ DOMAIN live'[d] = Tracked'
    BY <1>1, <1>3, <1>4, Zenon DEF Traffic
  <2>2. CASE d = way
    <3>1. SumFunctionOnSet(live'[d], Tracked' \ S) <= SumFunctionOnSet(live[d], Tracked \ S) + 1
      BY <1>1, <1>2, <2>1, <2>2, SumTransferred, ZenonT(30)
    <3> QED
      BY <1>5, <2>2, <3>1, Zenon
  <2>3. CASE d # way
    <3>1. SumFunctionOnSet(live[d], Tracked \ S) \in Nat
      BY <1>1, OutsideType, Zenon DEF Outside
    <3>2. live'[d] = live[d] /\ e[d] = 0
      BY <1>2, <1>5, <2>3, Zenon
    <3> QED
      BY <1>4, <3>1, <3>2, SMT, SMTT(30)
  <2> QED
    BY <2>2, <2>3, Zenon
<1> QED
  BY <1>1, <1>5, <1>6, <1>7, <1>8, GrownRate, ZenonT(30)

LEMMA SnapshotRate ==
    ASSUME RateInv, SamplerSnapshot
    PROVE RateInv'
<1>1. /\ sampler' = Reading(Tracked, FALSE, Nothing, Nothing)
      /\ recent' = Nothing /\ UNCHANGED <<live, total, infoInit, moved, sample, Tracked>> /\ Traffic
  BY Zenon DEF SamplerSnapshot, RateInv, Reading, Tracked
<1>2. /\ sampler'.pc = "read" /\ sampler'.todo = Tracked /\ sampler'.alive = FALSE
      /\ sampler'.sum = Nothing /\ sampler'.foreign = Nothing
  BY <1>1, Zenon DEF Reading
<1>3. Nothing \in Amounts /\ \A d \in Directions : Nothing[d] = 0
  BY SMT, SMTT(30) DEF Nothing, Amounts
<1>4. Traffic' /\ RateNotOverestimated'
  BY <1>1, <1>2, <1>3, ZenonT(30) DEF Traffic, RateInv, RateNotOverestimated
<1>5. ASSUME NEW d \in Directions
      PROVE ReadingInv(d)' /\ (infoInit' => Outside(d, {})' <= total'[d] + moved'[d])
  <2>1. Tracked \ Tracked = {} /\ Tracked \ (Tracked \ Tracked) = Tracked \ {}
    BY Zenon
  <2>2. /\ Outside(d, sampler.todo)' = 0
        /\ Outside(d, Tracked \ sampler.todo)' = Outside(d, {})
        /\ Outside(d, {})' = Outside(d, {})
    BY <1>1, <1>2, <2>1, SumEmpty, Zenon DEF Outside
  <2>3. Outside(d, {}) \in Nat /\ total[d] \in Nat /\ moved[d] \in Nat
    BY <1>1, OutsideType, Zenon DEF Traffic, Amounts
  <2>4. infoInit => Outside(d, {}) <= total[d] + moved[d]
    BY Zenon DEF RateInv
  <2>5. recent'[d] = 0 /\ sampler'.sum[d] = 0 /\ sampler'.foreign[d] = 0
    BY <1>1, <1>2, <1>3, Zenon
  <2>6. /\ 0 <= recent'[d] + sampler'.sum[d]
        /\ infoInit => sampler'.sum[d] + Outside(d, {}) <= total[d] + moved[d] + sampler'.foreign[d]
    BY <2>3, <2>4, <2>5, SMT, SMTT(30)
  <2> QED
    BY <1>1, <2>2, <2>4, <2>6, ZenonT(30) DEF ReadingInv
<1> QED
  BY <1>4, <1>5, Zenon DEF RateInv

\* The sum of two amounts.
LEMMA PlusFacts ==
    ASSUME NEW f \in Amounts, NEW g \in Amounts
    PROVE Plus(f, g) \in Amounts /\ \A d \in Directions : Plus(f, g)[d] = f[d] + g[d]
BY SMT, SMTT(30) DEF Amounts, Plus

\* One descriptor: its own socket's counters, none, or a foreign socket's.
LEMMA ReadsRate ==
    ASSUME RateInv, NEW c, SamplerReads(c)
    PROVE RateInv'
<1>1. sampler.pc = "read" /\ c \in sampler.todo /\ UNCHANGED <<live, total, infoInit, moved, recent, sample>>
  BY Zenon DEF SamplerReads, connVars
<1>2. Traffic /\ Tracked' = Tracked /\ RateNotOverestimated'
  BY <1>1, Zenon DEF RateInv, Tracked, RateNotOverestimated
<1>3. sampler.sum \in Amounts /\ sampler.foreign \in Amounts
  BY <1>1, <1>2, Zenon DEF Traffic
<1>5. Nothing \in Amounts /\ \A d \in Directions : Nothing[d] = 0
  BY SMT, SMTT(30) DEF Nothing, Amounts
<1>6. ASSUME NEW seen \in Amounts, NEW stray \in Amounts, NEW alive,
             sampler' = Reading(sampler.todo \ {c}, alive, seen, stray),
             \A d \in Directions : /\ ReadingInv(d)'
                                   /\ UNCHANGED Outside(d, {})
      PROVE RateInv'
  <2>1. sampler'.sum = seen /\ sampler'.foreign = stray
    BY <1>6, Zenon DEF Reading
  <2>2. Traffic'
    BY <1>1, <1>2, <2>1, ZenonT(30) DEF Traffic
  <2> QED
    BY <1>1, <1>2, <1>6, <2>2, ZenonT(30) DEF RateInv
<1>7. \A d \in Directions : UNCHANGED Outside(d, {})
  BY <1>1, <1>2, Zenon DEF Outside
<1>8. ASSUME c \in Tracked,
             sampler' = Reading(sampler.todo \ {c}, TRUE, Plus(sampler.sum, [d \in Directions |-> live[d][c]]),
                                sampler.foreign)
      PROVE RateInv'
  <2> DEFINE own == [d \in Directions |-> live[d][c]]
             seen == Plus(sampler.sum, own)
  <2>1. own \in Amounts /\ \A d \in Directions : own[d] = live[d][c]
    <3>1. \A d \in Directions : live[d][c] \in Nat
      BY <1>2, <1>8, Zenon DEF Traffic, Counters
    <3> QED
      BY <3>1, SMT, SMTT(30) DEF Amounts
  <2>2. sampler' = Reading(sampler.todo \ {c}, TRUE, seen, sampler.foreign)
    BY <1>8, Zenon
  <2> HIDE DEF own
  <2>3. seen \in Amounts /\ \A d \in Directions : seen[d] = sampler.sum[d] + live[d][c]
    <3>1. seen \in Amounts /\ \A d \in Directions : seen[d] = sampler.sum[d] + own[d]
      BY <1>3, <2>1, PlusFacts, Zenon
    <3> QED
      BY <2>1, <3>1, Zenon
  <2> HIDE DEF seen
  <2>4. sampler'.todo = sampler.todo \ {c} /\ sampler'.sum = seen /\ sampler'.foreign = sampler.foreign
    BY <2>2, Zenon DEF Reading
  <2>5. ASSUME NEW d \in Directions PROVE ReadingInv(d)'
    <3> DEFINE done == Tracked \ sampler.todo
               ahead == Tracked \ (Tracked \ sampler.todo)
               D == Tracked \ (sampler.todo \ {c})
               A == Tracked \ (Tracked \ (sampler.todo \ {c}))
    <3>1. /\ c \in D /\ D \ {c} = done /\ c \in ahead /\ ahead \ {c} = A
          /\ D \subseteq Tracked /\ ahead \subseteq Tracked
      BY <1>1, <1>8, Zenon
    <3>2. Counters(live[d]) /\ DOMAIN live[d] = Tracked /\ live[d][c] \in Nat
      BY <1>2, <1>8, Zenon DEF Traffic, Counters
    <3> HIDE DEF done, ahead, D, A
    <3>3. /\ IsFiniteSet(D) /\ \A x \in D : live[d][x] \in Nat
          /\ IsFiniteSet(ahead) /\ \A x \in ahead : live[d][x] \in Nat
      BY <3>1, <3>2, PartOfTraffic, Zenon
    <3>4. /\ SumFunctionOnSet(live[d], D) = live[d][c] + SumFunctionOnSet(live[d], done)
          /\ SumFunctionOnSet(live[d], ahead) = live[d][c] + SumFunctionOnSet(live[d], A)
      BY <3>1, <3>3, SumRemove, Zenon
    <3>5. SumFunctionOnSet(live[d], done) \in Nat /\ SumFunctionOnSet(live[d], A) \in Nat
      <4>1. done \subseteq DOMAIN live[d] /\ A \subseteq DOMAIN live[d]
        BY <3>1, <3>2, Zenon
      <4> QED
        BY <3>2, <4>1, PartOfTraffic, Zenon
    <3>6. /\ SumFunctionOnSet(live[d], done) <= recent[d] + sampler.sum[d]
          /\ infoInit => sampler.sum[d] + SumFunctionOnSet(live[d], ahead)
                            <= total[d] + moved[d] + sampler.foreign[d]
      BY <1>1, Zenon DEF RateInv, ReadingInv, Outside, done, ahead
    <3>7. /\ sampler.sum[d] \in Nat /\ sampler.foreign[d] \in Nat /\ seen[d] = sampler.sum[d] + live[d][c]
          /\ recent[d] \in Nat /\ total[d] \in Nat /\ moved[d] \in Nat
      BY <1>2, <1>3, <2>3, Zenon DEF Traffic, Amounts
    <3>8. /\ SumFunctionOnSet(live[d], D) <= recent[d] + seen[d]
          /\ infoInit => seen[d] + SumFunctionOnSet(live[d], A) <= total[d] + moved[d] + sampler.foreign[d]
      BY <3>2, <3>4, <3>5, <3>6, <3>7, SMT, SMTT(30)
    <3> QED
      BY <1>1, <1>2, <2>4, <3>8, ZenonT(30) DEF ReadingInv, Outside, D, A
  <2> QED
    BY <1>3, <1>6, <1>7, <2>2, <2>3, <2>5, Zenon
<1>9. ASSUME c \notin Tracked, NEW other \in Amounts, NEW alive,
             sampler' = Reading(sampler.todo \ {c}, alive, Plus(sampler.sum, other), Plus(sampler.foreign, other))
      PROVE RateInv'
  <2> DEFINE seen == Plus(sampler.sum, other)
             stray == Plus(sampler.foreign, other)
  <2>1. /\ seen \in Amounts /\ \A d \in Directions : seen[d] = sampler.sum[d] + other[d]
        /\ stray \in Amounts /\ \A d \in Directions : stray[d] = sampler.foreign[d] + other[d]
    BY <1>3, PlusFacts, Zenon
  <2> HIDE DEF seen, stray
  <2>2. sampler'.todo = sampler.todo \ {c} /\ sampler'.sum = seen /\ sampler'.foreign = stray
    BY <1>9, Zenon DEF Reading, seen, stray
  <2>3. ASSUME NEW d \in Directions PROVE ReadingInv(d)'
    <3> DEFINE done == Outside(d, sampler.todo)
               ahead == Outside(d, Tracked \ sampler.todo)
    <3>1. /\ Tracked \ (sampler.todo \ {c}) = Tracked \ sampler.todo
          /\ Tracked \ (Tracked \ (sampler.todo \ {c})) = Tracked \ (Tracked \ sampler.todo)
      BY <1>9, Zenon
    <3>2. Outside(d, sampler.todo)' = done /\ Outside(d, Tracked \ sampler.todo)' = ahead
      BY <1>1, <1>2, <2>2, <3>1, Zenon DEF Outside
    <3>3. done \in Nat /\ ahead \in Nat
      BY <1>2, OutsideType, Zenon
    <3>4. /\ done <= recent[d] + sampler.sum[d]
          /\ (infoInit => sampler.sum[d] + ahead <= total[d] + moved[d] + sampler.foreign[d])
      BY <1>1, Zenon DEF RateInv, ReadingInv
    <3> HIDE DEF done, ahead
    <3>5. /\ sampler.sum[d] \in Nat /\ sampler.foreign[d] \in Nat /\ other[d] \in Nat
          /\ recent[d] \in Nat /\ total[d] \in Nat /\ moved[d] \in Nat
          /\ seen[d] = sampler.sum[d] + other[d] /\ stray[d] = sampler.foreign[d] + other[d]
      BY <1>2, <1>3, <2>1, Zenon DEF Traffic, Amounts
    <3>6. done <= recent[d] + seen[d] /\ (infoInit => seen[d] + ahead <= total[d] + moved[d] + stray[d])
      BY <3>3, <3>4, <3>5, SMT, SMTT(30)
    <3> QED
      BY <1>1, <2>2, <3>2, <3>6, ZenonT(30) DEF ReadingInv
  <2> QED
    BY <1>6, <1>7, <1>9, <2>1, <2>3, Zenon DEF seen, stray
<1>10. ASSUME c \notin Tracked,
              sampler' = Reading(sampler.todo \ {c}, sampler.alive, sampler.sum, sampler.foreign)
       PROVE RateInv'
  <2>1. Plus(sampler.sum, Nothing) = sampler.sum /\ Plus(sampler.foreign, Nothing) = sampler.foreign
    BY <1>3, <1>5, SMT, SMTT(30) DEF Plus, Amounts
  <2> QED
    BY <1>5, <1>9, <1>10, <2>1, Zenon
<1>11. ASSUME c \notin Tracked, NEW other \in [Directions -> 0 .. MaxChunks],
              sampler' = Reading(sampler.todo \ {c}, TRUE, Plus(sampler.sum, other), Plus(sampler.foreign, other))
       PROVE RateInv'
  <2>1. other \in Amounts
    BY SMT, SMTT(30) DEF Amounts
  <2> QED
    BY <1>9, <1>11, <2>1, Zenon
<1> QED
  BY <1>8, <1>10, <1>11, ZenonT(30) DEF SamplerReads

\* The swap: every descriptor has been read.
LEMMA SwapsRate ==
    ASSUME RateInv, SamplerSwaps
    PROVE RateInv'
<1>1. sampler.pc = "read" /\ sampler.todo = {} /\ UNCHANGED <<live, recent>> /\ Traffic
  BY Zenon DEF SamplerSwaps, RateInv
<1>2. CASE ~sampler.alive
  <2>1. sampler' = Idle /\ UNCHANGED <<total, checked, infoInit, moved, sample>>
    BY <1>2, Zenon DEF SamplerSwaps
  <2>2. UNCHANGED connVars /\ sampler'.pc # "read"
    BY <1>1, <2>1, PcOf, Zenon DEF connVars
  <2> QED
    BY <2>2, QuietRate, Zenon
<1>3. CASE sampler.alive
  <2>1. /\ total' = sampler.sum /\ infoInit' = TRUE /\ moved' = recent
        /\ sample' = [measured |-> IF infoInit THEN Delta(sampler.sum) ELSE 0,
                      actual |-> Both(moved), foreign |-> Both(sampler.foreign)]
        /\ \/ sampler' = Idle
           \/ sampler' = [pc |-> "load", kib |-> Delta(sampler.sum) * Chunk, secs |-> Max({1, Since(checked)})]
    BY <1>3, ZenonT(30) DEF SamplerSwaps
  <2>2. sampler'.pc # "read"
    BY <2>1, PcOf, Zenon
  <2>3. sampler.sum \in Amounts /\ sampler.foreign \in Amounts /\ Tracked' = Tracked
    BY <1>1, Zenon DEF Traffic, Tracked
  <2>4. Traffic'
    BY <1>1, <2>1, <2>2, <2>3, ZenonT(30) DEF Traffic
  <2>5. ASSUME NEW d \in Directions
        PROVE /\ Outside(d, {})' <= total'[d] + moved'[d]
              /\ infoInit => sampler.sum[d] <= total[d] + moved[d] + sampler.foreign[d]
    <3>1. /\ sampler.sum[d] \in Nat /\ sampler.foreign[d] \in Nat /\ recent[d] \in Nat
          /\ total[d] \in Nat /\ moved[d] \in Nat
      BY <1>1, <2>3, Zenon DEF Traffic, Amounts
    <3>2. Outside(d, {}) \in Nat /\ Outside(d, {})' = Outside(d, {})
      BY <1>1, <2>3, OutsideType, Zenon DEF Outside
    <3>3. Tracked \ (Tracked \ {}) = {}
      BY Zenon
    <3>4. Outside(d, Tracked \ {}) = 0
      BY <3>3, SumEmpty, Zenon DEF Outside
    <3>5. /\ Outside(d, {}) <= recent[d] + sampler.sum[d]
          /\ infoInit => sampler.sum[d] + Outside(d, Tracked \ {}) <= total[d] + moved[d] + sampler.foreign[d]
      BY <1>1, Zenon DEF RateInv, ReadingInv
    <3>6. /\ Outside(d, {}) <= sampler.sum[d] + recent[d]
          /\ infoInit => sampler.sum[d] <= total[d] + moved[d] + sampler.foreign[d]
      BY <3>1, <3>2, <3>4, <3>5, SMT, SMTT(30)
    <3> QED
      BY <2>1, <3>2, <3>6, Zenon
  <2>6. RateNotOverestimated'
    <3>1. /\ sample'.measured = IF infoInit THEN Delta(sampler.sum) ELSE 0
          /\ sample'.actual = Both(moved) /\ sample'.foreign = Both(sampler.foreign)
      BY <2>1, Zenon
    <3>2. Both(moved) \in Nat /\ Both(sampler.foreign) \in Nat
      BY <1>1, <2>3, SMT, SMTT(30) DEF Both, Traffic, Amounts, Directions
    <3>3. ASSUME infoInit PROVE Delta(sampler.sum) <= Both(moved) + Both(sampler.foreign)
      <4> DEFINE delta(d) == IF sampler.sum[d] > total[d] THEN sampler.sum[d] - total[d] ELSE 0
      <4>1. ASSUME NEW d \in Directions
            PROVE /\ delta(d) \in Nat /\ moved[d] \in Nat /\ sampler.foreign[d] \in Nat
                  /\ delta(d) <= moved[d] + sampler.foreign[d]
        <5>1. /\ sampler.sum[d] \in Nat /\ sampler.foreign[d] \in Nat /\ total[d] \in Nat /\ moved[d] \in Nat
          BY <1>1, <2>3, Zenon DEF Traffic, Amounts
        <5> QED
          BY <2>5, <3>3, <5>1, SMT, SMTT(30)
      <4>2. Delta(sampler.sum) = delta("recv") + delta("sent")
        BY Zenon DEF Delta, Both, Directions
      <4> HIDE DEF delta
      <4>3. "recv" \in Directions /\ "sent" \in Directions
        BY Zenon DEF Directions
      <4> QED
        BY <4>1, <4>2, <4>3, SMT, SMTT(30) DEF Both
    <3> QED
      BY <3>1, <3>2, <3>3, SMT, SMTT(30) DEF RateNotOverestimated
  <2> QED
    BY <2>2, <2>4, <2>5, <2>6, Zenon DEF RateInv
<1> QED
  BY <1>2, <1>3, Zenon

-----------------------------------------------------------------------------
(***************************************************************************)
(* The statistics of the picks.                                            *)
(***************************************************************************)
LEMMA MinOfTwo ==
    ASSUME NEW a \in Nat, NEW b \in Nat
    PROVE Min({a, b}) = IF a <= b THEN a ELSE b
BY SMT, SMTT(30) DEF Min

LEMMA MaxOfTwo ==
    ASSUME NEW a \in Nat, NEW b \in Nat
    PROVE Max({a, b}) = IF a >= b THEN a ELSE b
BY SMT, SMTT(30) DEF Max

LEMMA MinOfInterval ==
    ASSUME NEW n \in Nat, NEW S, S \subseteq 1 .. n, S # {}
    PROVE Min(S) \in S
<1> DEFINE T == {1 .. x : x \in S}
           N == 1 .. n
<1>0. IsFiniteSet(N)
  BY FS_Interval, SMT, SMTT(30)
<1>1. T \subseteq SUBSET N /\ T # {}
  <2>1. \A x \in S : 1 .. x \in SUBSET N
    BY SMT, SMTT(30)
  <2>2. T \subseteq SUBSET N
    BY <2>1, Zenon
  <2>3. PICK x \in S : TRUE
    BY Zenon
  <2>4. 1 .. x \in T
    BY Zenon
  <2> QED
    BY <2>2, <2>4, Zenon
<1>2. PICK s \in T : \A t \in T : t \subseteq s => t = s
  <2> HIDE DEF T, N
  <2> QED
    BY <1>0, <1>1, LeastSubset, SMT, SMTT(30)
<1>3. PICK m \in S : s = 1 .. m
  BY <1>2, Zenon
<1>4. ASSUME NEW x \in S, ~(m <= x) PROVE FALSE
  <2>1. x \in Nat /\ m \in Nat /\ x < m
    BY <1>4, SMT, SMTT(30)
  <2>2. 1 .. x \subseteq 1 .. m /\ m \in 1 .. m /\ m \notin 1 .. x
    BY <1>4, <2>1, SMT, SMTT(30)
  <2> QED
    BY <1>2, <1>3, <2>2, Zenon
<1> QED
  BY <1>4, ZenonT(30) DEF Min

LEMMA BucketPositive == Bucket \in Nat /\ Bucket >= 1 /\ Window \in Nat /\ Window >= 1
<1>1. Window \in Nat /\ Window >= 1
  BY WindowAssumption, SMT, SMTT(30)
<1>2. Min({10, Window}) \in Nat
  BY <1>1, MinOfTwo, SMT, SMTT(30)
<1>3. Max({1, Min({10, Window})}) = IF 1 >= Min({10, Window}) THEN 1 ELSE Min({10, Window})
  BY <1>2, MaxOfTwo, Zenon
<1> QED
  BY <1>1, <1>2, <1>3, SMT, SMTT(30) DEF Bucket

(***************************************************************************)
(* Buckets in the order of time, each at a multiple of its length.         *)
(***************************************************************************)
BucketType == [start : Nat, counts : [Group -> Nat]]

InOrder(bs) ==
    /\ bs \in Seq(BucketType)
    /\ \A i \in 1 .. Len(bs) : (bs[i].start \div Bucket) * Bucket = bs[i].start
    /\ \A i, j \in 1 .. Len(bs) : i < j => bs[i].start + (j - i) * Bucket <= bs[j].start

StatsInv ==
    /\ now \in Nat
    /\ picker.pc \in {"sticky", "choose"} => picker.items \subseteq Group
    /\ InOrder(buckets)
    /\ Len(buckets) <= (Window \div Bucket) + 2
    /\ totals \in [Group -> Nat]
    /\ \A u \in Group : totals[u] = Counted(buckets, u)

LEMMA BucketFields ==
    ASSUME NEW bs, InOrder(bs)
    PROVE /\ Len(bs) \in Nat
          /\ \A i \in 1 .. Len(bs) :
                bs[i] \in BucketType /\ bs[i].start \in Nat /\ \A u \in Group : bs[i].counts[u] \in Nat
<1>1. bs \in Seq(BucketType)
  BY Zenon DEF InOrder
<1>2. Len(bs) \in Nat /\ \A i \in 1 .. Len(bs) : bs[i] \in BucketType
  BY <1>1, SMT, SMTT(30)
<1> QED
  BY <1>2, Zenon DEF BucketType

LEMMA OrderKept ==
    ASSUME NEW bs, InOrder(bs), NEW k \in 1 .. Len(bs) + 1
    PROVE /\ InOrder(SubSeq(bs, k, Len(bs)))
          /\ Len(SubSeq(bs, k, Len(bs))) = Len(bs) - k + 1
          /\ \A i \in 1 .. Len(bs) - k + 1 : SubSeq(bs, k, Len(bs))[i] = bs[k - 1 + i]
<1> DEFINE kept == SubSeq(bs, k, Len(bs))
           m == Len(bs) - k + 1
<1>1. bs \in Seq(BucketType) /\ Len(bs) \in Nat /\ \A i \in k .. Len(bs) : bs[i] \in BucketType
  BY BucketFields, SMT, SMTT(30) DEF InOrder
<1>2. /\ m \in Nat /\ kept \in Seq(BucketType) /\ Len(kept) = m
      /\ \A i \in 1 .. m : kept[i] = bs[k + i - 1]
  <2>1. k \in Int /\ Len(bs) \in Int /\ m \in Nat
    BY <1>1, SMT, SMTT(30)
  <2>2. /\ kept \in Seq(BucketType)
        /\ Len(kept) = IF k <= Len(bs) THEN Len(bs) - k + 1 ELSE 0
        /\ \A i \in 1 .. Len(bs) - k + 1 : kept[i] = bs[k + i - 1]
    BY <1>1, <2>1, SubSeqProperties, SMT, SMTT(30)
  <2> QED
    BY <1>1, <2>1, <2>2, SMT, SMTT(30)
<1>3. \A i \in 1 .. m : kept[i] = bs[k - 1 + i] /\ k - 1 + i \in 1 .. Len(bs)
  BY <1>1, <1>2, SMT, SMTT(30)
<1> HIDE DEF kept
<1>4. \A i \in 1 .. m : (kept[i].start \div Bucket) * Bucket = kept[i].start
  BY <1>3, Zenon DEF InOrder
<1>5. ASSUME NEW i \in 1 .. m, NEW j \in 1 .. m, i < j
      PROVE kept[i].start + (j - i) * Bucket <= kept[j].start
  <2>1. k - 1 + i < k - 1 + j /\ (k - 1 + j) - (k - 1 + i) = j - i
    BY <1>5, <1>1, SMT, SMTT(30)
  <2>2. bs[k - 1 + i].start + ((k - 1 + j) - (k - 1 + i)) * Bucket <= bs[k - 1 + j].start
    BY <1>3, <2>1, Zenon DEF InOrder
  <2> QED
    BY <1>3, <2>1, <2>2, ZenonT(30)
<1> QED
  BY <1>2, <1>3, <1>4, <1>5, ZenonT(30) DEF InOrder, kept

\* A new bucket comes at least one length after the last one.
LEMMA OrderOpened ==
    ASSUME NEW bs, InOrder(bs), now \in Nat
    PROVE /\ InOrder(Opened(bs)) /\ Opened(bs) # <<>>
          /\ \/ Opened(bs) = bs
             \/ /\ Opened(bs) = Append(bs, [start |-> (now \div Bucket) * Bucket, counts |-> [u \in Group |-> 0]])
                /\ bs # <<>> => bs[Len(bs)].start + Bucket <= (now \div Bucket) * Bucket
<1> DEFINE q == now \div Bucket
           s == q * Bucket
           b == [start |-> s, counts |-> [u \in Group |-> 0]]
           new == Append(bs, b)
           n == Len(bs)
<1>1. Bucket \in Nat /\ Bucket >= 1
  BY BucketPositive, Zenon
<1>2. q \in Nat /\ s \in Nat
  BY <1>1, SMT, SMTT(30)
<1>3. /\ bs \in Seq(BucketType) /\ n \in Nat
      /\ \A i \in 1 .. n : bs[i] \in BucketType /\ bs[i].start \in Nat
  BY BucketFields, Zenon DEF InOrder
<1>4. CASE bs # <<>> /\ bs[Len(bs)].start >= s
  BY <1>4, Zenon DEF Opened
<1>5. CASE ~(bs # <<>> /\ bs[Len(bs)].start >= s)
  <2>1. Opened(bs) = new
    BY <1>5, Zenon DEF Opened
  <2>2. ASSUME bs # <<>> PROVE bs[n].start + Bucket <= s
    <3>1. n \in 1 .. n /\ bs[n].start \in Nat
      <4>1. n # 0
        BY <1>3, <2>2, SMT, SMTT(30)
      <4> QED
        BY <1>3, <4>1, SMT, SMTT(30)
    <3>2. bs[n].start < s
      BY <1>2, <1>5, <2>2, <3>1, SMT, SMTT(30)
    <3> DEFINE p == bs[n].start \div Bucket
    <3>3. p \in Nat /\ p * Bucket = bs[n].start
      BY <1>1, <3>1, SMT, SMTT(30) DEF InOrder
    <3> HIDE DEF p, q
    <3>4. p + 1 <= q
      BY <1>1, <1>2, <3>2, <3>3, SMT, SMTT(30)
    <3>5. (p + 1) * Bucket <= q * Bucket
      BY <1>1, <1>2, <3>3, <3>4, SMT, SMTT(30)
    <3>6. p * Bucket + Bucket <= q * Bucket
      BY <1>1, <1>2, <3>3, <3>5, SMT, SMTT(30)
    <3> QED
      BY <3>3, <3>6, ZenonT(30)
  <2>3. b \in BucketType
    BY <1>2, ZenonT(30) DEF BucketType
  <2> HIDE DEF b
  <2>4. /\ new \in Seq(BucketType) /\ new # <<>>
        /\ Len(new) = n + 1 /\ new[n + 1] = b /\ \A i \in 1 .. n : new[i] = bs[i]
    BY <1>3, <2>3, AppendProperties, SMT, SMTT(30)
  <2> HIDE DEF new, q
  <2>5. (s \div Bucket) * Bucket = s
    BY <1>1, <1>2, SMT, SMTT(30)
  <2>6. \A i \in 1 .. n + 1 : (new[i].start \div Bucket) * Bucket = new[i].start
    <3> SUFFICES ASSUME NEW i \in 1 .. n + 1 PROVE (new[i].start \div Bucket) * Bucket = new[i].start
      BY Zenon
    <3>1. CASE i = n + 1
      BY <2>4, <2>5, <3>1, SMT, SMTT(30) DEF b
    <3>2. CASE i # n + 1
      <4>1. i \in 1 .. n
        BY <1>3, <3>2, SMT, SMTT(30)
      <4> QED
        BY <2>4, <4>1, Zenon DEF InOrder
    <3> QED
      BY <3>1, <3>2, Zenon
  <2>7. ASSUME NEW i \in 1 .. n + 1, NEW j \in 1 .. n + 1, i < j
        PROVE new[i].start + (j - i) * Bucket <= new[j].start
    <3>1. CASE j # n + 1
      <4>1. i \in 1 .. n /\ j \in 1 .. n
        BY <1>3, <2>7, <3>1, SMT, SMTT(30)
      <4> QED
        BY <2>4, <2>7, <4>1, ZenonT(30) DEF InOrder
    <3>2. CASE j = n + 1
      <4>1. i \in 1 .. n /\ bs # <<>> /\ n \in 1 .. n
        BY <1>3, <2>7, <3>2, SMT, SMTT(30)
      <4>2. bs[n].start + Bucket <= s
        BY <2>2, <4>1, Zenon
      <4>3. bs[i].start \in Nat /\ bs[n].start \in Nat
        BY <1>3, <4>1, Zenon
      <4>4. bs[i].start + (n - i) * Bucket <= bs[n].start
        <5>1. CASE i < n
          BY <4>1, <5>1, Zenon DEF InOrder
        <5>2. CASE ~(i < n)
          <6>1. i = n /\ n - i = 0 /\ (n - i) * Bucket = 0
            BY <1>1, <1>3, <4>1, <5>2, SMT, SMTT(30)
          <6> QED
            BY <4>3, <6>1, SMT, SMTT(30)
        <5> QED
          BY <5>1, <5>2, Zenon
      <4>5. (j - i) * Bucket = (n - i) * Bucket + Bucket /\ (n - i) * Bucket \in Nat
        BY <1>1, <1>3, <3>2, <4>1, SMT, SMTT(30)
      <4>6. new[j].start = s /\ new[i] = bs[i]
        BY <2>4, <3>2, <4>1, SMT, SMTT(30) DEF b
      <4> DEFINE x == (n - i) * Bucket
      <4> HIDE DEF s
      <4>7. bs[i].start + x + Bucket <= s
        <5>1. bs[i].start + x <= bs[n].start /\ x \in Nat
          BY <4>4, <4>5, Zenon
        <5> HIDE DEF x
        <5> QED
          BY <1>1, <1>2, <4>2, <4>3, <5>1, SMT, SMTT(30)
      <4>8. bs[i].start + (x + Bucket) <= s
        <5>1. x \in Nat
          BY <4>5, Zenon
        <5> HIDE DEF x
        <5> QED
          BY <1>1, <4>3, <4>7, <5>1, SMT, SMTT(30)
      <4> QED
        BY <4>5, <4>6, <4>8, Zenon
    <3> QED
      BY <3>1, <3>2, Zenon
  <2>8. InOrder(new)
    BY <2>4, <2>6, <2>7, Zenon DEF InOrder
  <2> QED
    BY <2>1, <2>2, <2>4, <2>8, ZenonT(30) DEF new, b, q
<1> QED
  BY <1>4, <1>5, ZenonT(30)

(***************************************************************************)
(* What the buckets count.                                                 *)
(***************************************************************************)
CountsOf(bs, u) == [i \in 1 .. Len(bs) |-> bs[i].counts[u]]

LEMMA CountedLemma ==
    ASSUME NEW bs, InOrder(bs), NEW u \in Group
    PROVE /\ Counted(bs, u) = SumFunctionOnSet(CountsOf(bs, u), 1 .. Len(bs))
          /\ IsFiniteSet(1 .. Len(bs)) /\ \A i \in 1 .. Len(bs) : CountsOf(bs, u)[i] \in Nat
          /\ Counted(bs, u) \in Nat
<1>1. /\ Len(bs) \in Nat /\ DOMAIN bs = 1 .. Len(bs)
      /\ \A i \in 1 .. Len(bs) : CountsOf(bs, u)[i] \in Nat
  BY BucketFields, SMT, SMTT(30) DEF InOrder, CountsOf
<1>2. IsFiniteSet(1 .. Len(bs))
  BY <1>1, FS_Interval, SMT, SMTT(30)
<1>3. Counted(bs, u) = SumFunctionOnSet(CountsOf(bs, u), 1 .. Len(bs))
  <2>1. Counted(bs, u) = SumFunction(CountsOf(bs, u))
    BY <1>1, Zenon DEF Counted, CountsOf
  <2>2. DOMAIN CountsOf(bs, u) = 1 .. Len(bs)
    BY Zenon DEF CountsOf
  <2> QED
    BY <2>1, <2>2, Zenon DEF SumFunction
<1>4. SumFunctionOnSet(CountsOf(bs, u), 1 .. Len(bs)) \in Nat
  BY <1>1, <1>2, SumType, Zenon
<1> QED
  BY <1>1, <1>2, <1>3, <1>4, Zenon

\* The buckets that go and the ones that stay count what all counted.
LEMMA CountedSplit ==
    ASSUME NEW bs, InOrder(bs), NEW k \in 1 .. Len(bs) + 1, NEW u \in Group
    PROVE /\ Counted(SubSeq(bs, 1, k - 1), u) \in Nat
          /\ Counted(SubSeq(bs, k, Len(bs)), u) \in Nat
          /\ Counted(bs, u) = Counted(SubSeq(bs, 1, k - 1), u) + Counted(SubSeq(bs, k, Len(bs)), u)
<1> DEFINE n == Len(bs)
           gone == SubSeq(bs, 1, k - 1)
           kept == SubSeq(bs, k, n)
           f == CountsOf(bs, u)
           A == 1 .. k - 1
           B == k .. n
<1>1. n \in Nat /\ \A i \in 1 .. n : f[i] \in Nat /\ f[i] = bs[i].counts[u]
  BY BucketFields, CountedLemma, ZenonT(30) DEF CountsOf
<1>2. InOrder(kept) /\ Len(kept) = n - k + 1 /\ \A i \in 1 .. n - k + 1 : kept[i] = bs[k - 1 + i]
  BY OrderKept, ZenonT(30)
<1>3. Len(gone) = k - 1 /\ (\A i \in 1 .. k - 1 : gone[i] = bs[i]) /\ gone \in Seq(BucketType)
  <2>1. 1 \in Int /\ k - 1 \in Int /\ \A i \in 1 .. k - 1 : bs[i] \in BucketType
    BY <1>1, BucketFields, SMT, SMTT(30)
  <2>2. /\ gone \in Seq(BucketType)
        /\ Len(gone) = IF 1 <= k - 1 THEN (k - 1) - 1 + 1 ELSE 0
        /\ \A i \in 1 .. (k - 1) - 1 + 1 : gone[i] = bs[1 + i - 1]
    BY <2>1, SubSeqProperties, SMT, SMTT(30)
  <2>3. Len(gone) = k - 1
    BY <2>2, SMT, SMTT(30)
  <2>4. ASSUME NEW i \in 1 .. k - 1 PROVE gone[i] = bs[i]
    <3>1. i \in 1 .. (k - 1) - 1 + 1 /\ 1 + i - 1 = i
      BY SMT, SMTT(30)
    <3> QED
      BY <2>2, <3>1, Zenon
  <2> QED
    BY <2>2, <2>3, <2>4, ZenonT(30)
<1>4. InOrder(gone)
  <2>1. \A i \in 1 .. k - 1 : i \in 1 .. n
    BY <1>1, SMT, SMTT(30)
  <2> HIDE DEF gone
  <2> QED
    BY <1>3, <2>1, ZenonT(30) DEF InOrder
<1>5. IsFiniteSet(A) /\ IsFiniteSet(B) /\ A \cap B = {} /\ A \cup B = 1 .. n
  <2>1. IsFiniteSet(A) /\ IsFiniteSet(B)
    BY <1>1, FS_Interval, SMT, SMTT(30)
  <2>2. A \cap B = {} /\ A \cup B = 1 .. n
    BY <1>1, SMT, SMTT(30)
  <2> QED
    BY <2>1, <2>2, Zenon
<1> HIDE DEF f, gone, kept, A, B
<1>6. SumFunctionOnSet(f, 1 .. n) = SumFunctionOnSet(f, A) + SumFunctionOnSet(f, B)
  <2>1. \A i \in A \cup B : f[i] \in Nat
    BY <1>1, <1>5, Zenon
  <2>2. SumFunctionOnSet(f, A \cup B) = SumFunctionOnSet(f, A) + SumFunctionOnSet(f, B)
    BY <1>5, <2>1, SumUnion, Zenon
  <2> QED
    BY <1>5, <2>2, Zenon
<1>7. Counted(gone, u) = SumFunctionOnSet(f, A)
  <2> DEFINE g == CountsOf(gone, u)
  <2>1. Counted(gone, u) = SumFunctionOnSet(g, A)
    BY <1>3, <1>4, CountedLemma, ZenonT(30) DEF A
  <2>2. \A i \in A : f[i] \in Nat /\ g[i] = f[i]
    BY <1>1, <1>3, SMT, SMTT(30) DEF CountsOf, A
  <2> HIDE DEF g
  <2>3. SumFunctionOnSet(g, A) = SumFunctionOnSet(f, A)
    BY <1>5, <2>2, SumSame, Zenon
  <2> QED
    BY <2>1, <2>3, Zenon
<1>8. Counted(kept, u) = SumFunctionOnSet(f, B)
  <2> DEFINE g == CountsOf(kept, u)
             m == n - k + 1
             l == k - 1
  <2>1. Counted(kept, u) = SumFunctionOnSet(g, 1 .. m)
    BY <1>2, CountedLemma, ZenonT(30)
  <2>2. m \in Nat /\ l \in Nat /\ (l + 1) .. (l + m) = B
    BY <1>1, SMT, SMTT(30) DEF B
  <2>3. \A i \in (l + 1) .. (l + m) : f[i] \in Nat
    BY <1>1, <1>5, <2>2, Zenon
  <2>4. \A i \in 1 .. m : g[i] = f[l + i]
    BY <1>1, <1>2, <2>2, SMT, SMTT(30) DEF CountsOf
  <2> HIDE DEF g, m, l
  <2>5. SumFunctionOnSet(g, 1 .. m) = SumFunctionOnSet(f, (l + 1) .. (l + m))
    BY <2>2, <2>3, <2>4, SumShifted, Zenon
  <2> QED
    BY <2>1, <2>2, <2>5, Zenon
<1>9. Counted(gone, u) \in Nat /\ Counted(kept, u) \in Nat
  BY <1>2, <1>4, CountedLemma, ZenonT(30)
<1>10. Counted(bs, u) = SumFunctionOnSet(f, 1 .. n)
  BY CountedLemma, ZenonT(30) DEF f
<1> QED
  BY <1>6, <1>7, <1>8, <1>9, <1>10, Zenon DEF gone, kept

\* An empty bucket more counts nothing more.
LEMMA CountedAppended ==
    ASSUME NEW bs, InOrder(bs), NEW b, InOrder(Append(bs, b)), NEW u \in Group, b.counts[u] = 0,
           b \in BucketType
    PROVE Counted(Append(bs, b), u) = Counted(bs, u)
<1> DEFINE n == Len(bs)
           new == Append(bs, b)
           f == CountsOf(bs, u)
           g == CountsOf(new, u)
<1>1. /\ n \in Nat /\ Len(new) = n + 1 /\ new[n + 1] = b
      /\ \A i \in 1 .. n : new[i] = bs[i]
  BY BucketFields, AppendProperties, SMT, SMTT(30) DEF InOrder
<1>2. /\ Counted(new, u) = SumFunctionOnSet(g, 1 .. n + 1)
      /\ IsFiniteSet(1 .. n + 1) /\ \A i \in 1 .. n + 1 : g[i] \in Nat
  BY <1>1, CountedLemma, Zenon
<1>3. /\ Counted(bs, u) = SumFunctionOnSet(f, 1 .. n) /\ Counted(bs, u) \in Nat
      /\ IsFiniteSet(1 .. n) /\ \A i \in 1 .. n : f[i] \in Nat
  BY CountedLemma, Zenon
<1>4. g[n + 1] = 0 /\ \A i \in 1 .. n : g[i] = f[i]
  BY <1>1, SMT, SMTT(30) DEF CountsOf
<1> HIDE DEF f, g, n, new
<1>5. n + 1 \in 1 .. n + 1 /\ (1 .. n + 1) \ {n + 1} = 1 .. n
  BY <1>1, SMT, SMTT(30)
<1>6. SumFunctionOnSet(g, 1 .. n + 1) = g[n + 1] + SumFunctionOnSet(g, (1 .. n + 1) \ {n + 1})
  BY <1>2, <1>5, SumRemove, SMT, SMTT(30)
<1>7. SumFunctionOnSet(g, 1 .. n) = SumFunctionOnSet(f, 1 .. n)
  BY <1>3, <1>4, SumSame, Zenon
<1>8. Counted(new, u) = 0 + Counted(bs, u)
  BY <1>2, <1>3, <1>4, <1>5, <1>6, <1>7, Zenon
<1> QED
  BY <1>3, <1>8, SMT, SMTT(30) DEF new

\* A pick is counted in the last bucket.
CountedIn(bs, u) == [bs EXCEPT ![Len(bs)].counts[u] = @ + 1]

LEMMA OrderCounted ==
    ASSUME NEW bs, InOrder(bs), bs # <<>>, NEW u \in Group
    PROVE /\ InOrder(CountedIn(bs, u)) /\ Len(CountedIn(bs, u)) = Len(bs)
          /\ \A v \in Group : Counted(CountedIn(bs, u), v) = Counted(bs, v) + IF v = u THEN 1 ELSE 0
<1> DEFINE n == Len(bs)
           new == CountedIn(bs, u)
<1>1. /\ bs \in Seq(BucketType) /\ n \in 1 .. n /\ n \in Nat
      /\ \A i \in 1 .. n : bs[i] \in BucketType
  <2>1. bs \in Seq(BucketType) /\ n \in Nat /\ \A i \in 1 .. n : bs[i] \in BucketType
    BY BucketFields, Zenon DEF InOrder
  <2>2. n # 0
    BY <2>1, SMT, SMTT(30)
  <2> QED
    BY <2>1, <2>2, SMT, SMTT(30)
<1> DEFINE last == [bs[n] EXCEPT !.counts[u] = @ + 1]
<1>2. new = [bs EXCEPT ![n] = last]
  BY Zenon DEF CountedIn
<1>3. /\ last \in BucketType /\ last.start = bs[n].start
      /\ \A v \in Group : last.counts[v] = bs[n].counts[v] + IF v = u THEN 1 ELSE 0
  <2> DEFINE b == bs[n]
  <2>1. b \in [start : Nat, counts : [Group -> Nat]]
    BY <1>1, Zenon DEF BucketType
  <2> HIDE DEF b
  <2>2. /\ [b EXCEPT !.counts[u] = @ + 1] \in [start : Nat, counts : [Group -> Nat]]
        /\ [b EXCEPT !.counts[u] = @ + 1].start = b.start
        /\ \A v \in Group : [b EXCEPT !.counts[u] = @ + 1].counts[v] = b.counts[v] + IF v = u THEN 1 ELSE 0
    BY <2>1, SMT, SMTT(30)
  <2> QED
    BY <2>2, Zenon DEF b, BucketType
<1> HIDE DEF last, new
<1>4. /\ new \in Seq(BucketType) /\ Len(new) = n /\ new[n] = last
      /\ \A i \in (1 .. n) \ {n} : new[i] = bs[i]
  BY <1>1, <1>2, <1>3, SMT, SMTT(30)
<1>5. \A i \in 1 .. n : new[i].start = bs[i].start
  BY <1>1, <1>3, <1>4, Zenon
<1>6. InOrder(new)
  BY <1>1, <1>4, <1>5, Zenon DEF InOrder
<1>7. ASSUME NEW v \in Group
      PROVE Counted(new, v) = Counted(bs, v) + IF v = u THEN 1 ELSE 0
  <2> DEFINE f == CountsOf(bs, v)
             g == CountsOf(new, v)
             N == 1 .. n
             d == IF v = u THEN 1 ELSE 0
  <2>1. /\ Counted(new, v) = SumFunctionOnSet(g, N)
        /\ IsFiniteSet(N) /\ \A i \in N : g[i] \in Nat
    BY <1>4, <1>6, CountedLemma, ZenonT(30)
  <2>2. Counted(bs, v) = SumFunctionOnSet(f, N) /\ \A i \in N : f[i] \in Nat
    BY CountedLemma, Zenon
  <2>3. g[n] = f[n] + d /\ \A i \in N \ {n} : g[i] = f[i]
    BY <1>1, <1>3, <1>4, ZenonT(30) DEF CountsOf
  <2>4. n \in N
    BY <1>1, ZenonT(30)
  <2> HIDE DEF f, g, N
  <2>5. SumFunctionOnSet(g, N) = g[n] + SumFunctionOnSet(g, N \ {n})
    BY <2>1, <2>4, SumRemove, ZenonT(30)
  <2>6. SumFunctionOnSet(f, N) = f[n] + SumFunctionOnSet(f, N \ {n})
    BY <2>1, <2>2, <2>4, SumRemove, ZenonT(30)
  <2>7. IsFiniteSet(N \ {n}) /\ \A i \in N \ {n} : f[i] \in Nat
    BY <2>1, <2>2, FS_Subset, ZenonT(30)
  <2>8. SumFunctionOnSet(g, N \ {n}) = SumFunctionOnSet(f, N \ {n})
    BY <2>3, <2>7, SumSame, ZenonT(30)
  <2>9. SumFunctionOnSet(f, N \ {n}) \in Nat /\ f[n] \in Nat
    BY <2>2, <2>4, <2>7, SumType, ZenonT(30)
  <2> QED
    BY <2>1, <2>2, <2>3, <2>5, <2>6, <2>8, <2>9, SMT, SMTT(30)
<1> QED
  BY <1>4, <1>6, <1>7, ZenonT(30) DEF new

\* The first bucket that stays has not left the window.
LEMMA FirstKeptLemma ==
    ASSUME InOrder(buckets)
    PROVE /\ FirstKept \in 1 .. Len(buckets) + 1
          /\ FirstKept <= Len(buckets) => ~Left(buckets[FirstKept])
<1> DEFINE n == Len(buckets)
           kept == {i \in DOMAIN buckets : ~Left(buckets[i])}
<1>1. n \in Nat /\ DOMAIN buckets = 1 .. n
  BY BucketFields, SMT, SMTT(30) DEF InOrder
<1>2. FirstKept = IF kept = {} THEN n + 1 ELSE Min(kept)
  BY Zenon DEF FirstKept
<1>3. CASE kept = {}
  BY <1>1, <1>2, <1>3, SMT, SMTT(30)
<1>4. CASE kept # {}
  <2>1. kept \subseteq 1 .. n
    BY <1>1, ZenonT(30)
  <2>2. Min(kept) \in kept
    <3> HIDE DEF kept, n
    <3> QED
      BY <1>1, <1>4, <2>1, MinOfInterval, ZenonT(30)
  <2>3. FirstKept \in 1 .. n /\ ~Left(buckets[FirstKept])
    BY <1>1, <1>2, <1>4, <2>2, ZenonT(30)
  <2> QED
    BY <1>1, <2>3, SMT, SMTT(30)
<1> QED
  BY <1>3, <1>4, ZenonT(30)

\* The window holds no more buckets than its length allows.
LEMMA WindowHolds ==
    ASSUME NEW n \in Nat, NEW first \in Nat, NEW start \in Nat, now \in Nat,
           start <= now, first + n * Bucket <= start,
           ~(first + Bucket <= now - Min({now, Window}))
    PROVE n + 1 <= (Window \div Bucket) + 2
<1>1. Bucket \in Nat /\ Bucket >= 1 /\ Window \in Nat
  BY BucketPositive, Zenon
<1>2. Min({now, Window}) = IF now <= Window THEN now ELSE Window
  BY <1>1, MinOfTwo, ZenonT(30)
<1> DEFINE q == Window \div Bucket
<1>3. q \in Nat /\ Window < q * Bucket + Bucket
  BY <1>1, SMT, SMTT(30)
<1>4. n * Bucket \in Nat /\ q * Bucket \in Nat
  BY <1>1, <1>3, SMT, SMTT(30)
<1> HIDE DEF q
<1>5. n * Bucket < Window + Bucket
  BY <1>1, <1>2, <1>4, SMT, SMTT(30)
<1>6. n * Bucket < q * Bucket + 2 * Bucket
  BY <1>1, <1>3, <1>4, <1>5, SMT, SMTT(30)
<1>7. q * Bucket + 2 * Bucket = (q + 2) * Bucket
  BY <1>1, <1>3, SMT, SMTT(30)
<1>8. n < q + 2
  BY <1>1, <1>3, <1>6, <1>7, SMT, SMTT(30)
<1> QED
  BY <1>3, <1>8, SMT, SMTT(30) DEF q

\* A bucket that is opened is empty and fits in the window.
LEMMA OpenedCounts ==
    ASSUME NEW bs, InOrder(bs), now \in Nat, Len(bs) <= (Window \div Bucket) + 2,
           bs # <<>> => ~Left(bs[1])
    PROVE /\ Len(Opened(bs)) <= (Window \div Bucket) + 2
          /\ \A u \in Group : Counted(Opened(bs), u) = Counted(bs, u)
<1> DEFINE s == (now \div Bucket) * Bucket
           b == [start |-> s, counts |-> [u \in Group |-> 0]]
           n == Len(bs)
<1>0. Bucket \in Nat /\ Bucket >= 1 /\ Window \in Nat /\ Window \div Bucket \in Nat
  BY BucketPositive, SMT, SMTT(30)
<1>1. s \in Nat /\ s <= now
  BY <1>0, SMT, SMTT(30)
<1>2. b \in BucketType /\ \A u \in Group : b.counts[u] = 0
  BY <1>1, ZenonT(30) DEF BucketType
<1>3. n \in Nat /\ \A i \in 1 .. n : bs[i].start \in Nat
  BY BucketFields, Zenon
<1>4. CASE Opened(bs) = bs
  BY <1>4, Zenon
<1>5. CASE /\ Opened(bs) = Append(bs, b)
           /\ bs # <<>> => bs[n].start + Bucket <= s
  <2>1. InOrder(Append(bs, b))
    BY <1>5, OrderOpened, ZenonT(30)
  <2>2. \A u \in Group : Counted(Append(bs, b), u) = Counted(bs, u)
    BY <1>2, <2>1, CountedAppended, ZenonT(30)
  <2>3. Len(Append(bs, b)) = n + 1
    BY <1>2, AppendProperties, ZenonT(30) DEF InOrder
  <2>4. n + 1 <= (Window \div Bucket) + 2
    <3>1. CASE n = 0
      BY <1>0, <3>1, SMT, SMTT(30)
    <3>2. CASE n # 0
      <4>1. bs # <<>> /\ 1 \in 1 .. n /\ n \in 1 .. n
        BY <1>3, <3>2, SMT, SMTT(30)
      <4>2. bs[1].start + n * Bucket <= s
        <5>1. bs[1].start + (n - 1) * Bucket <= bs[n].start
          <6>1. CASE 1 < n
            BY <4>1, <6>1, ZenonT(30) DEF InOrder
          <6>2. CASE ~(1 < n)
            <7>1. n = 1
              <8>1. \A i \in Nat : i # 0 /\ ~(1 < i) => i = 1
                BY SMT, SMTT(30)
              <8> QED
                BY <1>3, <3>2, <6>2, <8>1, Zenon
            <7>2. (n - 1) * Bucket = 0
              BY <1>0, <7>1, SMT, SMTT(30)
            <7> QED
              BY <1>3, <4>1, <7>1, <7>2, SMT, SMTT(30)
          <6> QED
            BY <6>1, <6>2, ZenonT(30)
        <5>2. n * Bucket = (n - 1) * Bucket + Bucket /\ (n - 1) * Bucket \in Nat
          BY <1>0, <1>3, <3>2, SMT, SMTT(30)
        <5> HIDE DEF s
        <5> QED
          BY <1>0, <1>1, <1>3, <1>5, <4>1, <5>1, <5>2, SMT, SMTT(30)
      <4>3. ~(bs[1].start + Bucket <= now - Min({now, Window}))
        BY <4>1, Zenon DEF Left
      <4> HIDE DEF s
      <4> QED
        BY <1>1, <1>3, <4>1, <4>2, <4>3, WindowHolds, ZenonT(30)
    <3> QED
      BY <3>1, <3>2, ZenonT(30)
  <2> HIDE DEF b
  <2> QED
    BY <1>5, <2>2, <2>3, <2>4, ZenonT(30)
<1> QED
  BY <1>4, <1>5, OrderOpened, ZenonT(30)

LEMMA RecordStats ==
    ASSUME StatsInv, NEW u \in Group, Record(u)
    PROVE /\ InOrder(buckets') /\ Len(buckets') <= (Window \div Bucket) + 2
          /\ totals' \in [Group -> Nat]
          /\ \A v \in Group : totals'[v] = Counted(buckets', v)
<1> DEFINE k == FirstKept
           n == Len(buckets)
           gone == SubSeq(buckets, 1, k - 1)
           kept == SubSeq(buckets, k, n)
           open == Opened(kept)
<1>1. InOrder(buckets) /\ now \in Nat /\ n \in Nat /\ n <= (Window \div Bucket) + 2
      /\ (Window \div Bucket) \in Nat
  <2>1. InOrder(buckets) /\ now \in Nat /\ n <= (Window \div Bucket) + 2
    BY Zenon DEF StatsInv
  <2>2. n \in Nat
    BY <2>1, BucketFields, Zenon
  <2>3. (Window \div Bucket) \in Nat
    BY BucketPositive, SMT, SMTT(30)
  <2>4. QED
    BY <2>1, <2>2, <2>3, Zenon
<1>2. k \in 1 .. n + 1 /\ (k <= n => ~Left(buckets[k]))
  BY <1>1, FirstKeptLemma, ZenonT(30)
<1>3. InOrder(kept) /\ Len(kept) = n - k + 1 /\ \A i \in 1 .. n - k + 1 : kept[i] = buckets[k - 1 + i]
  BY <1>1, <1>2, OrderKept, ZenonT(30)
<1>4. /\ buckets' = CountedIn(open, u)
      /\ totals' = [v \in Group |-> (totals[v] - Min({totals[v], Counted(gone, v)})) + IF v = u THEN 1 ELSE 0]
  BY Zenon DEF Record, CountedIn
<1> HIDE DEF k, open, gone, n
<1>5. Len(kept) <= (Window \div Bucket) + 2
  BY <1>1, <1>2, <1>3, SMT, SMTT(30)
<1>6. kept # <<>> => ~Left(kept[1])
  <2> SUFFICES ASSUME kept # <<>> PROVE ~Left(kept[1])
    BY Zenon
  <2>1. Len(kept) # 0
    BY <1>3, SMT, SMTT(30) DEF InOrder
  <2>2. k <= n /\ 1 \in 1 .. n - k + 1 /\ k - 1 + 1 = k
    BY <1>1, <1>2, <1>3, <2>1, SMT, SMTT(30)
  <2> HIDE DEF kept
  <2>3. kept[1] = buckets[k]
    BY <1>3, <2>2, ZenonT(30)
  <2> QED
    BY <1>2, <2>2, <2>3, Zenon
<1> HIDE DEF kept
<1>7. InOrder(open) /\ open # <<>>
  BY <1>1, <1>3, OrderOpened, ZenonT(30) DEF open
<1>8. Len(open) <= (Window \div Bucket) + 2 /\ \A v \in Group : Counted(open, v) = Counted(kept, v)
  BY <1>1, <1>3, <1>5, <1>6, OpenedCounts, ZenonT(30) DEF open
<1>9. /\ InOrder(buckets') /\ Len(buckets') = Len(open)
      /\ \A v \in Group : Counted(buckets', v) = Counted(open, v) + IF v = u THEN 1 ELSE 0
  BY <1>4, <1>7, OrderCounted, ZenonT(30)
<1>10. ASSUME NEW v \in Group
       PROVE totals'[v] \in Nat /\ totals'[v] = Counted(buckets', v)
  <2>1. /\ Counted(gone, v) \in Nat /\ Counted(kept, v) \in Nat
        /\ Counted(buckets, v) = Counted(gone, v) + Counted(kept, v)
    BY <1>1, <1>2, CountedSplit, ZenonT(30) DEF gone, kept, n
  <2>2. totals[v] = Counted(buckets, v) /\ totals[v] \in Nat
    BY Zenon DEF StatsInv
  <2>3. Min({totals[v], Counted(gone, v)}) = IF totals[v] <= Counted(gone, v) THEN totals[v] ELSE Counted(gone, v)
    BY <2>1, <2>2, MinOfTwo, ZenonT(30)
  <2>4. totals[v] - Min({totals[v], Counted(gone, v)}) = Counted(kept, v)
    BY <2>1, <2>2, <2>3, SMT, SMTT(30)
  <2>5. totals'[v] = Counted(kept, v) + IF v = u THEN 1 ELSE 0
    BY <1>4, <2>4, ZenonT(30)
  <2> QED
    BY <1>8, <1>9, <2>1, <2>5, SMT, SMTT(30)
<1>11. totals' \in [Group -> Nat]
  BY <1>4, <1>10, ZenonT(30)
<1> QED
  BY <1>8, <1>9, <1>10, <1>11, ZenonT(30)

LEMMA InitStats == Init => StatsInv
<1> SUFFICES ASSUME Init PROVE StatsInv
  BY Zenon
<1>1. now \in Nat /\ picker.pc = "idle"
  BY ScoreAssumption, ZenonT(30) DEF Init, ScoresInit, Idle
<1>2. buckets = <<>> /\ totals = [u \in Group |-> 0]
  BY Zenon DEF Init
<1>3. InOrder(buckets) /\ Len(buckets) = 0
  BY <1>2, SMT, SMTT(30) DEF InOrder
<1>4. Len(buckets) <= (Window \div Bucket) + 2
  <2>1. Window \div Bucket \in Nat
    BY BucketPositive, SMT, SMTT(30)
  <2> QED
    BY <1>3, <2>1, SMT, SMTT(30)
<1>5. ASSUME NEW u \in Group PROVE totals[u] = Counted(buckets, u)
  <2>1. Counted(buckets, u) = SumFunctionOnSet(CountsOf(buckets, u), 1 .. 0)
    BY <1>3, CountedLemma, ZenonT(30)
  <2>2. 1 .. 0 = {}
    BY SMT, SMTT(30)
  <2> QED
    BY <1>2, <2>1, <2>2, SumEmpty, ZenonT(30)
<1>6. totals \in [Group -> Nat]
  BY <1>2, ZenonT(30)
<1> QED
  BY <1>1, <1>3, <1>4, <1>5, <1>6, ZenonT(30) DEF StatsInv

\* A step that leaves the statistics alone.
LEMMA QuietStats ==
    ASSUME StatsInv, now' \in Nat, UNCHANGED <<buckets, totals>>,
           picker'.pc \in {"sticky", "choose"} => picker'.items \subseteq Group
    PROVE StatsInv'
BY Zenon DEF StatsInv, Counted, InOrder

LEMMA ChooseStats ==
    ASSUME StatsInv, NEW u \in Group, Choose(u), UNCHANGED now
    PROVE StatsInv'
<1>1. Record(u) /\ picker'.pc \notin {"sticky", "choose"} /\ now' \in Nat
  BY Zenon DEF Choose, Idle, StatsInv
<1> QED
  BY <1>1, RecordStats, ZenonT(30) DEF StatsInv

LEMMA PickStats ==
    ASSUME StatsInv, (\E items \in (SUBSET Group) \ {{}} : PickBest(items)) \/ PickSticky \/ PickWeighted
    PROVE StatsInv'
<1>1. UNCHANGED now /\ now \in Nat
  BY Zenon DEF PickBest, PickSticky, PickWeighted, scoringVars, timeVars, StatsInv
<1>2. CASE \E u \in Group : Choose(u)
  BY <1>1, <1>2, ChooseStats, ZenonT(30)
<1>3. CASE /\ UNCHANGED <<buckets, totals>>
           /\ picker'.pc \in {"sticky", "choose"} => picker'.items \subseteq Group
  BY <1>1, <1>3, QuietStats, ZenonT(30)
<1>4. CASE \E items \in (SUBSET Group) \ {{}} : PickBest(items)
  <2>1. PICK items \in (SUBSET Group) \ {{}} : PickBest(items)
    BY <1>4, Zenon
  <2>2. \/ \E u \in items : Choose(u)
        \/ /\ UNCHANGED <<buckets, totals>>
           /\ \E b \in items :
                picker' = [pc |-> "sticky", items |-> items, best |-> b, bestEff |-> Effective(b)]
    BY <2>1, ZenonT(30) DEF PickBest
  <2> QED
    BY <1>2, <1>3, <2>1, <2>2, SMT, SMTT(30)
<1>5. CASE PickSticky
  <2>1. picker.items \subseteq Group
    BY <1>5, ZenonT(30) DEF PickSticky, StatsInv
  <2>2. \/ current \in picker.items /\ Choose(current)
        \/ UNCHANGED <<buckets, totals>> /\ picker' = [pc |-> "choose", items |-> picker.items]
    BY <1>5, ZenonT(30) DEF PickSticky
  <2> QED
    BY <1>2, <1>3, <2>1, <2>2, SMT, SMTT(30)
<1>6. CASE PickWeighted
  <2>1. picker.items \subseteq Group
    BY <1>6, Zenon DEF PickWeighted, StatsInv
  <2>2. \E u \in picker.items : Choose(u)
    BY <1>6, ZenonT(30) DEF PickWeighted
  <2> QED
    BY <1>2, <2>1, <2>2, ZenonT(30)
<1> QED
  BY <1>4, <1>5, <1>6, ZenonT(30)

-----------------------------------------------------------------------------
(***************************************************************************)
(* The steps of the whole, and the theorems.                               *)
(***************************************************************************)
\* A pick reads the scores and stores none; the clock that is set back stays
\* above zero.
LEMMA PickLeavesScores ==
    ASSUME now \in Nat,
           \/ \E items \in (SUBSET Group) \ {{}} : PickBest(items)
           \/ PickSticky \/ PickWeighted \/ ClockSetBack
    PROVE /\ UNCHANGED <<tcp, tcpInit, quic, at, listener, penalty, clean, sampler>> /\ UNCHANGED connVars
          /\ now' \in Nat
<1>1. UNCHANGED <<tcp, tcpInit, quic, at, listener, penalty, clean, sampler>> /\ UNCHANGED connVars
  BY ZenonT(30) DEF PickBest, PickSticky, PickWeighted, ClockSetBack, scoringVars, scoreVars, localVars
<1>2. now' = now \/ (now > 2 * Period /\ now' = now - 2 * Period)
  BY ZenonT(30) DEF PickBest, PickSticky, PickWeighted, ClockSetBack, scoringVars, timeVars
<1>3. now' \in Nat
  BY <1>2, ScoreAssumption, SMT, SMTT(30)
<1> QED
  BY <1>1, <1>3, Zenon

LEMMA ScoresClock ==
    ASSUME now \in Nat, ScoresNext
    PROVE now' \in Nat
<1>1. now' = now \/ now' = now + Period
  BY ZenonT(60) DEF ScoresNext, Tick, Track, Transfer, Untrack, ConnectFailed, Penalize, SamplerSnapshot,
     SamplerReads, SamplerSwaps, SamplerLoads, SamplerStores, Report, ListenerSwaps, ListenerLoads, ListenerStores,
     HealthAlive, HealthDead, RescoreSnapshot, RescoreQuic, RescoreLoads, RescoreStores, timeVars
<1> QED
  BY <1>1, ScoreAssumption, SMT, SMTT(30)

LEMMA NextPenalties == PenaltyInv /\ [Next]_vars => PenaltyInv'
<1> SUFFICES ASSUME PenaltyInv, [Next]_vars PROVE PenaltyInv'
  BY Zenon
<1>1. CASE ScoresNext \/ UNCHANGED scoringVars
  BY <1>1, NextPenalty, ZenonT(30)
<1>2. CASE \/ \E items \in (SUBSET Group) \ {{}} : PickBest(items)
           \/ PickSticky \/ PickWeighted \/ ClockSetBack
  <2>1. now \in Nat
    BY Zenon DEF PenaltyInv, Clocks
  <2>2. UNCHANGED <<tcp, tcpInit, quic, at, listener, penalty, clean>> /\ now' \in Nat
    BY <1>2, <2>1, PickLeavesScores, ZenonT(30)
  <2> QED
    BY <2>2, KeepsPenalised, ZenonT(30) DEF PenaltyInv, Clocks
<1> QED
  BY <1>1, <1>2, ZenonT(30) DEF Next, vars

LEMMA NextRate == now \in Nat /\ RateInv /\ [Next]_vars => RateInv'
<1> SUFFICES ASSUME now \in Nat, RateInv, [Next]_vars PROVE RateInv'
  BY Zenon
<1>1. CASE \E c \in Conns : Track(c) \/ Untrack(c) \/ \E d \in Directions : Transfer(c, d)
  BY <1>1, TrackRate, TransferRate, UntrackRate, ZenonT(30)
<1>2. CASE SamplerSnapshot \/ (\E c \in Conns : SamplerReads(c)) \/ SamplerSwaps
  BY <1>2, SnapshotRate, ReadsRate, SwapsRate, ZenonT(30)
<1>3. CASE SamplerLoads \/ SamplerStores
  <2>1. UNCHANGED connVars /\ sampler'.pc # "read"
    BY <1>3, SMT, SMTT(30) DEF SamplerLoads, SamplerStores, Idle
  <2> QED
    BY <2>1, QuietRate, ZenonT(30)
<1>4. CASE \/ Tick \/ ConnectFailed \/ \E p \in DOMAIN penalty : Penalize(p)
           \/ \E r \in Reports, l \in Links : Report(r, l)
           \/ ListenerSwaps \/ ListenerLoads \/ ListenerStores
           \/ HealthAlive \/ HealthDead
           \/ RescoreSnapshot \/ RescoreQuic \/ RescoreLoads \/ RescoreStores
  <2>1. UNCHANGED connVars /\ UNCHANGED sampler
    BY <1>4, ZenonT(60) DEF Tick, ConnectFailed, Penalize, Report, ListenerSwaps, ListenerLoads, ListenerStores,
       HealthAlive, HealthDead, RescoreSnapshot, RescoreQuic, RescoreLoads, RescoreStores, localVars
  <2> QED
    BY <2>1, QuietRate, ZenonT(30)
<1>5. CASE \/ \E items \in (SUBSET Group) \ {{}} : PickBest(items)
           \/ PickSticky \/ PickWeighted \/ ClockSetBack
  BY <1>5, PickLeavesScores, QuietRate, ZenonT(30)
<1>6. CASE UNCHANGED vars
  BY <1>6, QuietRate, ZenonT(30) DEF vars, scoringVars, localVars
<1> QED
  BY <1>1, <1>2, <1>3, <1>4, <1>5, <1>6, Zenon DEF Next, ScoresNext

LEMMA NextStats == StatsInv /\ [Next]_vars => StatsInv'
<1> SUFFICES ASSUME StatsInv, [Next]_vars PROVE StatsInv'
  BY Zenon
<1>1. now \in Nat /\ (picker.pc \in {"sticky", "choose"} => picker.items \subseteq Group)
  BY Zenon DEF StatsInv
<1>2. CASE (ScoresNext \/ ClockSetBack) /\ UNCHANGED pickVars
  <2>1. now' \in Nat
    BY <1>1, <1>2, ScoresClock, PickLeavesScores, ZenonT(30)
  <2> QED
    BY <1>1, <1>2, <2>1, QuietStats, ZenonT(30) DEF pickVars
<1>3. CASE (\E items \in (SUBSET Group) \ {{}} : PickBest(items)) \/ PickSticky \/ PickWeighted
  BY <1>3, PickStats, ZenonT(30)
<1>4. CASE UNCHANGED vars
  <2>1. UNCHANGED <<now, buckets, totals, picker>>
    BY <1>4, Zenon DEF vars, scoringVars, timeVars, pickVars
  <2> QED
    BY <1>1, <2>1, QuietStats, ZenonT(30)
<1> QED
  BY <1>2, <1>3, <1>4, ZenonT(30) DEF Next, ClockSetBack

\* A penalised upstream weighs no more than a new one until somebody stores
\* another score (PenaltyHolds), also while picks read the scores and after
\* the clock was set back.
THEOREM PenaltyHoldsAlways == Spec => []PenaltyHolds
<1>1. PenaltyInv => PenaltyHolds
  <2> SUFFICES ASSUME PenaltyInv, clean, \A p \in DOMAIN penalty : penalty[p] = 0
               PROVE Score <= DEFAULT_SCORE
    BY Zenon DEF PenaltyHolds
  <2>1. DOMAIN penalty = Penalisers
    BY Zenon DEF PenaltyInv, Penalised
  <2> QED
    BY <2>1, ScoreBounded, ZenonT(30)
<1>2. Init => PenaltyInv
  BY InitPenalty, Zenon DEF Init
<1> QED
  BY <1>1, <1>2, NextPenalties, PTL DEF Spec

\* A sample of run_score_task measures at most what the connections have moved
\* in both directions since the snapshot of the last sample, and what a socket
\* under a reused descriptor had moved (RateNotOverestimated), for any number
\* of connections that come and go between any two of its readings.
THEOREM RateNeverOverestimated == Spec => []RateNotOverestimated
<1>1. Init => now \in Nat /\ RateInv
  BY InitRate, ScoreAssumption, ZenonT(30) DEF Init, ScoresInit
<1>2. (now \in Nat /\ RateInv) /\ [Next]_vars => (now \in Nat /\ RateInv)'
  <2>1. now \in Nat /\ [Next]_vars => now' \in Nat
    BY ScoresClock, PickLeavesScores, Zenon DEF Next, vars, scoringVars, timeVars
  <2> QED
    BY <2>1, NextRate, Zenon
<1>3. RateInv => RateNotOverestimated
  BY Zenon DEF RateInv
<1> QED
  BY <1>1, <1>2, <1>3, PTL DEF Spec

\* The totals of PickStats are the sums over its buckets, the buckets are in the
\* order of time and no more than the window needs (StatsConsistent), for any
\* window and however the clock is set.
THEOREM StatsAlwaysConsistent == Spec => []StatsConsistent
<1>1. StatsInv => StatsConsistent
  <2> SUFFICES ASSUME StatsInv PROVE StatsConsistent
    BY Zenon
  <2>1. /\ Bucket \in Nat /\ Bucket >= 1
        /\ DOMAIN buckets = 1 .. Len(buckets)
        /\ \A i \in 1 .. Len(buckets) : buckets[i].start \in Nat
    BY BucketPositive, BucketFields, SMT, SMTT(30) DEF StatsInv, InOrder
  <2>2. ASSUME NEW i \in DOMAIN buckets, NEW j \in DOMAIN buckets, i < j
        PROVE buckets[i].start < buckets[j].start
    <3>1. buckets[i].start + (j - i) * Bucket <= buckets[j].start
      BY <2>1, <2>2, ZenonT(30) DEF StatsInv, InOrder
    <3>2. (j - i) * Bucket \in Nat /\ (j - i) * Bucket >= 1
      BY <2>1, <2>2, SMT, SMTT(30)
    <3> QED
      BY <2>1, <3>1, <3>2, SMT, SMTT(30)
  <2> QED
    BY <2>2, ZenonT(30) DEF StatsInv, StatsConsistent
<1> QED
  BY <1>1, InitStats, NextStats, PTL DEF Spec

=============================================================================
