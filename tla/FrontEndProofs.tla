--------------------------- MODULE FrontEndProofs ---------------------------
(***************************************************************************)
(* The sniffers find the name of every stream that they can reach, and a   *)
(* connection is routed as the configuration says.                         *)
(***************************************************************************)
EXTENDS FrontEnd, FiniteSetTheorems, TLAPS

-----------------------------------------------------------------------------
(* The facts about sequences that are used below. *)

LEMMA SeqDef == \A S : Seq(S) = UNION {[1 .. n -> S] : n \in Nat}
BY SMT, SMTT(30)

LEMMA LenProperties ==
    ASSUME NEW S, NEW seq \in Seq(S)
    PROVE  Len(seq) \in Nat /\ seq \in [1 .. Len(seq) -> S] /\ DOMAIN seq = 1 .. Len(seq)
BY SMT, SMTT(30)

LEMMA ElementOfSeq ==
    ASSUME NEW S, NEW seq \in Seq(S), NEW n \in 1 .. Len(seq)
    PROVE  seq[n] \in S
BY SMT, SMTT(30)

LEMMA EmptySeq ==
    ASSUME NEW S
    PROVE  /\ <<>> \in Seq(S) /\ Len(<<>>) = 0
           /\ \A seq \in Seq(S) : seq # <<>> => Len(seq) \in Nat \ {0}
BY SMT, SMTT(30)

LEMMA SeqMonotonic ==
    ASSUME NEW S, NEW T, NEW seq \in Seq(S), S \subseteq T
    PROVE  seq \in Seq(T)
BY SMT, SMTT(30)

LEMMA SeqEqual ==
    ASSUME NEW S, NEW s \in Seq(S), NEW t \in Seq(S),
           Len(s) = Len(t), \A i \in 1 .. Len(s) : s[i] = t[i]
    PROVE  s = t
BY SMT, SMTT(30)

LEMMA SubSeqProperties ==
    ASSUME NEW S, NEW s, NEW m \in Int, NEW n \in Int, \A i \in m .. n : s[i] \in S
    PROVE  /\ SubSeq(s, m, n) \in Seq(S)
           /\ Len(SubSeq(s, m, n)) = IF m <= n THEN n - m + 1 ELSE 0
           /\ \A i \in 1 .. n - m + 1 : SubSeq(s, m, n)[i] = s[m + i - 1]
BY SMT, SMTT(30)

LEMMA SubSeqFull ==
    ASSUME NEW S, NEW seq \in Seq(S)
    PROVE  SubSeq(seq, 1, Len(seq)) = seq
BY SMT, SMTT(30)

LEMMA HeadTailProperties ==
    ASSUME NEW S, NEW s \in Seq(S), s # <<>>
    PROVE  Head(s) \in S /\ Tail(s) \in Seq(S)
BY SMT, SMTT(30)

-----------------------------------------------------------------------------
(* Least elements, and powers of two. *)

LEMMA LeastNat ==
    ASSUME NEW T, T \subseteq Nat, T # {}
    PROVE  Min(T) \in T /\ \A k \in T : Min(T) <= k
<1>1. PICK m \in T : \A k \in T : ~(<<k, m>> \in OpToRel(<, Nat))
  BY NatLessThanWellFounded, WFMin, Zenon
<1>2. \A k \in T : ~(k < m)
  BY <1>1, Zenon DEF OpToRel
<1>3. \A k \in T : m <= k
  BY <1>2, SMT, SMTT(30)
<1>4. QED
  BY <1>3, Zenon DEF Min

LEMMA MinOfTwo ==
    ASSUME NEW a \in Int, NEW b \in Int
    PROVE  Min({a, b}) = IF a <= b THEN a ELSE b
BY SMT, SMTT(30) DEF Min

LEMMA MaxOfTwo ==
    ASSUME NEW a \in Int, NEW b \in Int
    PROVE  Max({a, b}) = IF a >= b THEN a ELSE b
BY SMT, SMTT(30) DEF Max

\* 2 ^ k counts the subsets of a set of k elements.
Power(k) == Cardinality(SUBSET (1 .. k))

LEMMA PowerIs ==
    ASSUME NEW k \in Nat
    PROVE  2 ^ k = Power(k) /\ Power(k) \in Nat /\ IsFiniteSet(SUBSET (1 .. k))
<1>1. IsFiniteSet(1 .. k) /\ Cardinality(1 .. k) = k
  <2>1. 1 \in Int /\ k \in Int /\ (IF 1 > k THEN 0 ELSE k - 1 + 1) = k
    BY SMT, SMTT(30)
  <2>2. IsFiniteSet(1 .. k) /\ Cardinality(1 .. k) = IF 1 > k THEN 0 ELSE k - 1 + 1
    BY <2>1, FS_Interval, Zenon
  <2>3. QED
    BY <2>1, <2>2, SMT, SMTT(30)
<1>2. IsFiniteSet(SUBSET (1 .. k)) /\ Cardinality(SUBSET (1 .. k)) = 2 ^ Cardinality(1 .. k)
  BY <1>1, FS_SUBSET, Zenon
<1>3. QED
  BY <1>1, <1>2, FS_CardinalityType, Zenon DEF Power

LEMMA PowerGrows ==
    ASSUME NEW k \in Nat, NEW n \in Nat, k <= n
    PROVE  Power(k) <= Power(n)
<1>1. SUBSET (1 .. k) \subseteq SUBSET (1 .. n)
  BY SMT, SMTT(30)
<1>2. IsFiniteSet(SUBSET (1 .. n))
  BY PowerIs, Zenon
<1>3. QED
  BY <1>1, <1>2, FS_Subset, Zenon DEF Power

LEMMA PowerZero == Power(0) = 1
<1>1. SUBSET (1 .. 0) = {{}}
  BY SMT, SMTT(30)
<1>2. QED
  BY <1>1, FS_Singleton, Zenon DEF Power

LEMMA PowerDoubles ==
    ASSUME NEW k \in Nat
    PROVE  Power(k + 1) = 2 * Power(k)
<1> DEFINE x == k + 1
           A == SUBSET (1 .. k)
           B == {u \cup {x} : u \in A}
           f == [u \in A |-> u \cup {x}]
<1>1. 1 .. x = (1 .. k) \cup {x} /\ x \notin 1 .. k
  BY SMT, SMTT(30)
<1>2. IsFiniteSet(A) /\ Cardinality(A) \in Nat
  BY PowerIs, FS_CardinalityType, Zenon
<1> HIDE DEF x
<1>3. SUBSET (1 .. x) = A \cup B
  <2>1. ASSUME NEW u \in SUBSET (1 .. x) PROVE u \in A \cup B
    <3>1. CASE x \in u
      <4>1. u \ {x} \in A /\ u = (u \ {x}) \cup {x}
        BY <1>1, <2>1, <3>1, Zenon
      <4>2. QED
        BY <4>1, Zenon
    <3>2. CASE x \notin u
      BY <1>1, <2>1, <3>2, Zenon
    <3>3. QED
      BY <3>1, <3>2, Zenon
  <2>2. ASSUME NEW u \in A \cup B PROVE u \in SUBSET (1 .. x)
    BY <1>1, <2>2, Zenon
  <2>3. QED
    BY <2>1, <2>2, Zenon
<1>4. A \cap B = {}
  BY <1>1, Zenon
<1>5. f \in Bijection(A, B)
  <2>1. f \in [A -> B] /\ \A b \in B : \E u \in A : f[u] = b
    BY Zenon
  <2>2. \A u, v \in A : f[u] = f[v] => u = v
    <3>1. SUFFICES ASSUME NEW u \in A, NEW v \in A, u \cup {x} = v \cup {x} PROVE u = v
      BY Zenon
    <3>2. x \notin u /\ x \notin v
      BY <1>1, Zenon
    <3>3. QED
      BY <3>1, <3>2, SMT, SMTT(30)
  <2> HIDE DEF f, A, B
  <2>3. QED
    BY <2>1, <2>2, Zenon DEF Bijection, Injection, Surjection, IsInjective
<1> HIDE DEF f, A, B
<1>6. IsFiniteSet(B) /\ Cardinality(B) = Cardinality(A)
  BY <1>2, <1>5, FS_Bijection, Zenon DEF ExistsBijection
<1>7. Cardinality(A \cup B) = Cardinality(A) + Cardinality(B) - Cardinality(A \cap B)
  BY <1>2, <1>6, FS_Union, Zenon
<1>8. Cardinality(A \cap B) = 0
  BY <1>4, FS_EmptySet, Zenon
<1>9. Cardinality(SUBSET (1 .. x)) = 2 * Cardinality(A)
  <2> DEFINE a == Cardinality(A)
             b == Cardinality(A \cup B)
  <2>1. a \in Nat /\ b = a + a - 0
    BY <1>2, <1>6, <1>7, <1>8, Zenon
  <2> HIDE DEF a, b
  <2>2. b = 2 * a
    BY <2>1, SMT, SMTT(30)
  <2>3. QED
    BY <1>3, <2>2, Zenon DEF a, b
<1>10. QED
  BY <1>9, Zenon DEF Power, A, x

-----------------------------------------------------------------------------
(* Where the records of a stream are. *)

LEMMA RecordFacts ==
    ASSUME NEW s \in Streams, s.proto = "tls"
    PROVE  /\ Len(s.records) \in Nat /\ DOMAIN s.records = 1 .. Len(s.records)
           /\ \A k \in 0 .. Len(s.records) :
                 /\ RecordEnd(s, k) \in Nat
                 /\ Payload(s, k) \in Nat
                 /\ Payload(s, k) <= RecordEnd(s, k)
           /\ \A k \in 1 .. Len(s.records) : \A i \in 0 .. k - 1 :
                 /\ RecordEnd(s, i) + 5 <= RecordEnd(s, k)
                 /\ Payload(s, i) <= Payload(s, k)
<1> DEFINE l == Len(s.records)
<1>1. s.records \in Seq([end : Nat, kind : STRING])
  BY StreamAssumption, Zenon
<1>2. l \in Nat /\ DOMAIN s.records = 1 .. l /\ \A k \in 1 .. l : s.records[k].end \in Nat
  <2>1. l \in Nat /\ DOMAIN s.records = 1 .. l
    BY <1>1, LenProperties, Zenon
  <2>2. \A k \in 1 .. l : s.records[k] \in [end : Nat, kind : STRING]
    BY <1>1, ElementOfSeq, Zenon
  <2>3. QED
    BY <2>1, <2>2, Zenon
<1>3. \A k \in 1 .. l : \A i \in 0 .. k - 1 : RecordEnd(s, i) + (k - i) * 5 <= RecordEnd(s, k)
  BY <1>2, StreamAssumption, Zenon DEF RECORD_HEADER
<1>4. \A k \in 0 .. l : RecordEnd(s, k) \in Nat
  BY <1>2, SMT, SMTT(30) DEF RecordEnd
<1>5. RecordEnd(s, 0) = 0
  BY Zenon DEF RecordEnd
<1>6. \A k \in 0 .. l : Payload(s, k) = RecordEnd(s, k) - k * 5
  BY Zenon DEF Payload, RECORD_HEADER
<1> HIDE DEF l
<1>7. ASSUME NEW k \in 1 .. l, NEW i \in 0 .. k - 1
      PROVE  /\ RecordEnd(s, i) + 5 <= RecordEnd(s, k)
             /\ Payload(s, i) <= Payload(s, k)
  <2> DEFINE a == RecordEnd(s, i)
             b == RecordEnd(s, k)
  <2>1. k \in 0 .. l /\ i \in 0 .. l /\ k \in Nat /\ i \in Nat /\ i < k
    BY <1>2, <1>7, SMT, SMTT(30)
  <2>2. a \in Nat /\ b \in Nat /\ a + (k - i) * 5 <= b
    BY <1>3, <1>4, <1>7, <2>1, Zenon
  <2>3. Payload(s, i) = a - i * 5 /\ Payload(s, k) = b - k * 5
    BY <1>6, <2>1, Zenon
  <2> HIDE DEF a, b
  <2>4. a + 5 <= b /\ a - i * 5 <= b - k * 5
    BY <2>1, <2>2, SMT, SMTT(30)
  <2>5. QED
    BY <2>3, <2>4, Zenon DEF a, b
<1>8. ASSUME NEW k \in 0 .. l
      PROVE  Payload(s, k) \in Nat /\ Payload(s, k) <= RecordEnd(s, k)
  <2> DEFINE b == RecordEnd(s, k)
  <2>1. b \in Nat /\ k \in Nat /\ Payload(s, k) = b - k * 5
    BY <1>2, <1>4, <1>6, <1>8, SMT, SMTT(30)
  <2>2. k * 5 <= b
    <3>1. CASE k = 0
      BY <2>1, <3>1, SMT, SMTT(30)
    <3>2. CASE k # 0
      <4>1. k \in 1 .. l /\ 0 \in 0 .. k - 1
        BY <1>2, <2>1, <3>2, SMT, SMTT(30)
      <4>2. RecordEnd(s, 0) + (k - 0) * 5 <= b
        BY <1>3, <4>1, Zenon
      <4>3. QED
        BY <1>5, <2>1, <4>2, SMT, SMTT(30)
    <3>3. QED
      BY <3>1, <3>2, Zenon
  <2> HIDE DEF b
  <2>3. b - k * 5 \in Nat /\ b - k * 5 <= b
    BY <2>1, <2>2, SMT, SMTT(30)
  <2>4. QED
    BY <2>1, <2>3, Zenon DEF b
<1>9. QED
  BY <1>2, <1>4, <1>7, <1>8, Zenon DEF l

\* The record with the end of the message.
LEMMA LastFacts ==
    ASSUME NEW s \in Streams, s.proto = "tls"
    PROVE  /\ LastRecord(s) \in 1 .. Len(s.records)
           /\ Payload(s, LastRecord(s)) >= s.total
           /\ \A k \in 1 .. Len(s.records) : Payload(s, k) >= s.total => LastRecord(s) <= k
           /\ s.total \in Nat /\ s.total >= 4
<1> DEFINE T == {k \in DOMAIN s.records : Payload(s, k) >= s.total}
<1>1. DOMAIN s.records = 1 .. Len(s.records)
  BY RecordFacts, Zenon
<1>2. T \subseteq Nat
  BY <1>1, SMT, SMTT(30)
<1>3. s.total \in Nat /\ s.total >= 4 /\ T # {}
  BY StreamAssumption, Zenon DEF MESSAGE_HEADER
<1>4. LastRecord(s) = Min(T)
  BY Zenon DEF LastRecord
<1> HIDE DEF T
<1>5. Min(T) \in T /\ \A k \in T : Min(T) <= k
  BY <1>2, <1>3, LeastNat, Zenon
<1>6. QED
  BY <1>1, <1>3, <1>4, <1>5, Zenon DEF T

\* Record k belongs to the message.
Handshake(s, k) == s.records[k].kind = "handshake" /\ RecordLen(s, k) \in 1 .. MaxRecordLen

Foreign(s, n) ==
    {k \in 1 .. Len(s.records) : /\ RecordEnd(s, k - 1) + 5 <= n
                                 /\ ~Handshake(s, k)}

Decisive(s, n, max) ==
    {k \in 1 .. Len(s.records) : /\ RecordEnd(s, k) <= n
                                 /\ Payload(s, k) >= 4
                                 /\ ~s.hello \/ s.total > max \/ Payload(s, k) >= s.total}

LEMMA TlsVerdict ==
    ASSUME NEW s \in Streams, s.proto = "tls", NEW n, NEW max,
           NEW stops, stops = Foreign(s, n) \cup Decisive(s, n, max)
    PROVE  SniffTls(s, n, max) =
              CASE n = 0 \/ s.records[1].kind # "handshake" -> Abort
                [] n > 0 /\ s.records[1].kind = "handshake" /\ stops = {} -> NeedMore
                [] OTHER -> IF Min(stops) \in Foreign(s, n) \/ ~s.hello \/ s.total > max
                            THEN Abort ELSE ParseSni(s)
<1>1. DOMAIN s.records = 1 .. Len(s.records)
  BY RecordFacts, Zenon
<1>2. QED
  BY <1>1, Zenon DEF SniffTls, Foreign, Handshake, Decisive, RECORD_HEADER, MESSAGE_HEADER

\* A record is foreign as soon as its header is there.
LEMMA NotForeign ==
    ASSUME NEW s \in Streams, s.proto = "tls", NEW n \in Nat,
           NEW k \in 1 .. Len(s.records), RecordEnd(s, k) <= n
    PROVE  k \notin Foreign(s, n) <=> Handshake(s, k)
<1>1. k - 1 \in 0 .. Len(s.records) /\ k - 1 \in 0 .. k - 1 /\ k \in 0 .. Len(s.records)
  BY RecordFacts, SMT, SMTT(30)
<1>2. RecordEnd(s, k - 1) + 5 <= RecordEnd(s, k) /\ RecordEnd(s, k) \in Nat /\ RecordEnd(s, k - 1) \in Nat
  BY <1>1, RecordFacts, Zenon
<1>3. RecordEnd(s, k - 1) + 5 <= n
  BY <1>2, SMT, SMTT(30)
<1>4. QED
  BY <1>3, Zenon DEF Foreign

LEMMA EndsInOrder ==
    ASSUME NEW s \in Streams, s.proto = "tls",
           NEW i \in 0 .. Len(s.records), NEW k \in 0 .. Len(s.records), i <= k
    PROVE  RecordEnd(s, i) <= RecordEnd(s, k)
<1>1. Len(s.records) \in Nat /\ RecordEnd(s, i) \in Nat /\ RecordEnd(s, k) \in Nat
  BY RecordFacts, Zenon
<1>2. CASE i = k
  BY <1>1, <1>2, SMT, SMTT(30)
<1>3. CASE i # k
  <2>1. k \in 1 .. Len(s.records) /\ i \in 0 .. k - 1
    BY <1>1, <1>3, SMT, SMTT(30)
  <2>2. RecordEnd(s, i) + 5 <= RecordEnd(s, k)
    BY <2>1, RecordFacts, Zenon
  <2>3. QED
    BY <1>1, <2>2, SMT, SMTT(30)
<1>4. QED
  BY <1>2, <1>3, Zenon

\* What makes a ClientHello carry its name in the clear.
PlainTls(s) ==
    /\ s.wellFormed /\ s.hello
    /\ \A i \in 1 .. LastRecord(s) : Handshake(s, i)
    /\ "sni" \in Range(s.extensions)
    /\ Lower(s.host) # EchOuterName
    /\ IsValidSniHostname(Lower(s.host))

LEMMA CarriedTls ==
    ASSUME NEW s, s.proto = "tls"
    PROVE  Carried(s) = IF PlainTls(s) THEN Lower(s.host) ELSE None
BY Zenon DEF Carried, PlainTls, Handshake

LEMMA ParsePlain ==
    ASSUME NEW s
    PROVE  /\ ParseSni(s).tag = "Matched" =>
                 /\ ParseSni(s).host = Lower(s.host)
                 /\ s.wellFormed /\ "sni" \in Range(s.extensions)
                 /\ IsValidSniHostname(Lower(s.host))
                 /\ Lower(s.host) # EchOuterName
           /\ PlainTls(s) => ParseSni(s).tag = "Matched"
<1>1. PlainTls(s) => ParseSni(s) = Matched(s.host)
  BY Zenon DEF ParseSni, PlainTls
<1>2. Matched(s.host).tag = "Matched" /\ Matched(s.host).host = Lower(s.host)
  BY Zenon DEF Matched
<1>3. Abort.tag # "Matched"
  BY Zenon DEF Abort
<1>4. CASE s.wellFormed /\ "sni" \in Range(s.extensions) /\ IsValidSniHostname(Lower(s.host)) /\ Lower(s.host) # EchOuterName
  <2>1. ParseSni(s) = Matched(s.host)
    BY <1>4, Zenon DEF ParseSni
  <2>2. QED
    BY <1>2, <1>4, <2>1, Zenon
<1>5. CASE ~(s.wellFormed /\ "sni" \in Range(s.extensions) /\ IsValidSniHostname(Lower(s.host)) /\ Lower(s.host) # EchOuterName)
  <2>1. ParseSni(s) = Abort
    BY <1>5, Zenon DEF ParseSni
  <2>2. QED
    BY <1>1, <1>2, <1>3, <2>1, Zenon
<1>6. QED
  BY <1>4, <1>5, Zenon

\* The first record at which the parser stops.
LEMMA FirstStop ==
    ASSUME NEW s \in Streams, s.proto = "tls", NEW n, NEW max,
           Foreign(s, n) \cup Decisive(s, n, max) # {}
    PROVE  LET m == Min(Foreign(s, n) \cup Decisive(s, n, max))
           IN /\ m \in Foreign(s, n) \cup Decisive(s, n, max)
              /\ m \in 1 .. Len(s.records)
              /\ \A k \in Foreign(s, n) \cup Decisive(s, n, max) : m <= k
<1> DEFINE T == Foreign(s, n) \cup Decisive(s, n, max)
<1>1. T \subseteq 1 .. Len(s.records)
  BY Zenon DEF Foreign, Decisive
<1>2. T \subseteq Nat
  BY <1>1, SMT, SMTT(30)
<1>3. T # {}
  BY Zenon
<1> HIDE DEF T
<1>4. Min(T) \in T /\ \A k \in T : Min(T) <= k
  BY <1>2, <1>3, LeastNat, Zenon
<1>5. Min(T) \in 1 .. Len(s.records)
  BY <1>1, <1>4, Zenon
<1>6. QED
  BY <1>4, <1>5, Zenon DEF T

LEMMA TlsMatched ==
    ASSUME NEW s \in Streams, s.proto = "tls", NEW n \in Nat, NEW max \in Nat,
           SniffTls(s, n, max).tag = "Matched"
    PROVE  SniffTls(s, n, max).host = Carried(s)
<1> DEFINE F == Foreign(s, n)
           D == Decisive(s, n, max)
           m == Min(F \cup D)
           r == LastRecord(s)
<1>1. Abort.tag # "Matched" /\ NeedMore.tag # "Matched"
  BY Zenon DEF Abort, NeedMore
<1>2. SniffTls(s, n, max) \in {Abort, NeedMore} \/
         /\ F \cup D # {} /\ m \notin F /\ s.hello /\ ~(s.total > max)
         /\ SniffTls(s, n, max) = ParseSni(s)
  <2>1. SniffTls(s, n, max) =
              CASE n = 0 \/ s.records[1].kind # "handshake" -> Abort
                [] n > 0 /\ s.records[1].kind = "handshake" /\ F \cup D = {} -> NeedMore
                [] OTHER -> IF m \in F \/ ~s.hello \/ s.total > max
                            THEN Abort ELSE ParseSni(s)
    BY TlsVerdict, Zenon
  <2>2. n = 0 \/ n > 0
    BY SMT, SMTT(30)
  <2> HIDE DEF F, D, m
  <2>3. QED
    BY <2>1, <2>2, Zenon
<1>3. /\ F \cup D # {} /\ m \notin F /\ s.hello
      /\ SniffTls(s, n, max) = ParseSni(s) /\ ParseSni(s).tag = "Matched"
      /\ ~(s.total > max)
  BY <1>1, <1>2, Zenon
<1>4. /\ m \in F \cup D /\ m \in 1 .. Len(s.records) /\ \A k \in F \cup D : m <= k
  BY <1>3, FirstStop, Zenon
<1>5. Len(s.records) \in Nat
  BY RecordFacts, Zenon
<1>6. RecordEnd(s, m) <= n /\ Payload(s, m) >= s.total
  <2>1. m \in D
    BY <1>3, <1>4, Zenon
  <2> HIDE DEF m
  <2>2. QED
    BY <1>3, <2>1, Zenon DEF D, Decisive
<1>7. r \in 1 .. Len(s.records) /\ r <= m
  <2> HIDE DEF m
  <2>1. QED
    BY <1>4, <1>6, LastFacts, Zenon
<1> HIDE DEF F, D, m, r
<1>8. ASSUME NEW i \in 1 .. r
      PROVE  Handshake(s, i)
  <2>1. i \in 1 .. Len(s.records) /\ i <= m /\ i \in 0 .. Len(s.records) /\ m \in 0 .. Len(s.records)
    BY <1>4, <1>5, <1>7, <1>8, SMT, SMTT(30)
  <2>2. RecordEnd(s, i) <= RecordEnd(s, m) /\ RecordEnd(s, i) \in Nat /\ RecordEnd(s, m) \in Nat
    BY <2>1, EndsInOrder, RecordFacts, Zenon
  <2>3. RecordEnd(s, i) <= n
    BY <1>6, <2>2, SMT, SMTT(30)
  <2>4. i \notin F
    <3>1. CASE i = m
      BY <1>3, <3>1, Zenon
    <3>2. CASE i # m
      <4>1. ~(m <= i)
        BY <1>4, <2>1, <3>2, SMT, SMTT(30)
      <4>2. QED
        BY <1>4, <4>1, Zenon
    <3>3. QED
      BY <3>1, <3>2, Zenon
  <2>5. QED
    BY <2>1, <2>3, <2>4, NotForeign, Zenon DEF F
<1>9. PlainTls(s) /\ ParseSni(s).host = Lower(s.host)
  BY <1>3, <1>8, ParsePlain, Zenon DEF PlainTls, r
<1>10. QED
  BY <1>3, <1>9, CarriedTls, Zenon

LEMMA TlsEnough ==
    ASSUME NEW s \in Streams, s.proto = "tls", NEW n \in Nat, NEW max \in Nat,
           PlainTls(s), n >= RecordEnd(s, LastRecord(s)), max >= RecordEnd(s, LastRecord(s))
    PROVE  SniffTls(s, n, max).tag = "Matched"
<1> DEFINE F == Foreign(s, n)
           D == Decisive(s, n, max)
           m == Min(F \cup D)
           r == LastRecord(s)
           l == Len(s.records)
<1>1. /\ r \in 1 .. l /\ l \in Nat /\ s.total \in Nat /\ s.total >= 4 /\ Payload(s, r) >= s.total
      /\ RecordEnd(s, r) \in Nat /\ Payload(s, r) \in Nat /\ Payload(s, r) <= RecordEnd(s, r)
  BY LastFacts, RecordFacts, SMT, SMTT(30)
<1> HIDE DEF r, l
<1>2. n > 0 /\ s.total <= max /\ Payload(s, r) >= 4 /\ RecordEnd(s, r) <= n
  BY <1>1, SMT, SMTT(30) DEF r
<1>3. r \in D
  BY <1>1, <1>2, Zenon DEF Decisive, l
<1>4. /\ m \in F \cup D /\ m \in 1 .. l /\ m <= r
  BY <1>3, FirstStop, Zenon DEF l
<1>5. m \notin F
  <2> HIDE DEF m, F
  <2>1. m \in 0 .. l /\ r \in 0 .. l /\ m \in 1 .. r
    BY <1>1, <1>4, SMT, SMTT(30)
  <2>2. RecordEnd(s, m) <= RecordEnd(s, r) /\ RecordEnd(s, m) \in Nat
    BY <1>4, <2>1, EndsInOrder, RecordFacts, Zenon DEF l
  <2>3. RecordEnd(s, m) <= n
    BY <1>1, <1>2, <2>2, SMT, SMTT(30)
  <2>4. Handshake(s, m)
    BY <2>1, Zenon DEF PlainTls, r
  <2>5. QED
    BY <1>4, <2>3, <2>4, NotForeign, Zenon DEF F, l
<1>6. s.records[1].kind = "handshake"
  <2>1. 1 \in 1 .. r
    BY <1>1, SMT, SMTT(30)
  <2>2. QED
    BY <2>1, Zenon DEF PlainTls, Handshake, r
<1>7. SniffTls(s, n, max) =
              CASE n = 0 \/ s.records[1].kind # "handshake" -> Abort
                [] n > 0 /\ s.records[1].kind = "handshake" /\ F \cup D = {} -> NeedMore
                [] OTHER -> IF m \in F \/ ~s.hello \/ s.total > max
                            THEN Abort ELSE ParseSni(s)
    BY TlsVerdict, Zenon
<1>8. s.hello /\ ~(n = 0) /\ ~(s.total > max) /\ F \cup D # {}
  BY <1>1, <1>2, <1>4, SMT, SMTT(30) DEF PlainTls
<1> HIDE DEF F, D, m
<1>9. SniffTls(s, n, max) = ParseSni(s)
  BY <1>5, <1>6, <1>7, <1>8, Zenon
<1>10. QED
  BY <1>9, ParsePlain, Zenon

LEMMA TlsTooShort ==
    ASSUME NEW s \in Streams, s.proto = "tls", NEW n \in Nat, NEW max \in Nat,
           PlainTls(s), 0 < n, n < RecordEnd(s, LastRecord(s)), max >= RecordEnd(s, LastRecord(s))
    PROVE  SniffTls(s, n, max).tag = "NeedMore"
<1> DEFINE F == Foreign(s, n)
           D == Decisive(s, n, max)
           m == Min(F \cup D)
           r == LastRecord(s)
           l == Len(s.records)
<1>1. /\ r \in 1 .. l /\ l \in Nat /\ s.total \in Nat /\ s.total >= 4 /\ Payload(s, r) >= s.total
      /\ RecordEnd(s, r) \in Nat /\ Payload(s, r) \in Nat /\ Payload(s, r) <= RecordEnd(s, r)
  BY LastFacts, RecordFacts, SMT, SMTT(30)
<1>2. \A k \in 1 .. l : Payload(s, k) >= s.total => r <= k
  BY LastFacts, Zenon
<1> HIDE DEF r, l
<1>3. s.total <= max /\ n < RecordEnd(s, r)
  BY <1>1, SMT, SMTT(30) DEF r
<1>4. ASSUME NEW k \in 0 .. l, RecordEnd(s, k) <= n
      PROVE  k < r
  <2>1. SUFFICES ASSUME r <= k PROVE FALSE
    BY <1>1, <1>4, SMT, SMTT(30)
  <2>2. r \in 0 .. l
    BY <1>1, SMT, SMTT(30)
  <2>3. RecordEnd(s, r) <= RecordEnd(s, k) /\ RecordEnd(s, k) \in Nat
    BY <1>4, <2>1, <2>2, EndsInOrder, RecordFacts, Zenon DEF l
  <2>4. QED
    BY <1>1, <1>3, <1>4, <2>3, SMT, SMTT(30)
<1>5. F = {}
  <2>1. SUFFICES ASSUME NEW k \in F PROVE FALSE
    BY Zenon
  <2>2. k \in 1 .. l /\ RecordEnd(s, k - 1) + 5 <= n /\ ~Handshake(s, k)
    BY <2>1, Zenon DEF Foreign, l
  <2>3. k - 1 \in 0 .. l /\ k \in 0 .. l
    BY <1>1, <2>2, SMT, SMTT(30)
  <2>4. RecordEnd(s, k - 1) \in Nat
    BY <2>3, RecordFacts, Zenon DEF l
  <2>5. RecordEnd(s, k - 1) <= n
    BY <2>2, <2>4, SMT, SMTT(30)
  <2>6. k - 1 < r
    BY <1>4, <2>3, <2>5, Zenon
  <2>7. k \in 1 .. r
    BY <1>1, <2>2, <2>6, SMT, SMTT(30)
  <2>8. Handshake(s, k)
    BY <2>7, Zenon DEF PlainTls, r
  <2>9. QED
    BY <2>2, <2>8, Zenon
<1>6. D = {}
  <2>1. SUFFICES ASSUME NEW k \in D PROVE FALSE
    BY Zenon
  <2>2. k \in 1 .. l /\ RecordEnd(s, k) <= n /\ (~s.hello \/ s.total > max \/ Payload(s, k) >= s.total)
    BY <2>1, Zenon DEF Decisive, l
  <2>3. k \in 0 .. l
    BY <1>1, <2>2, SMT, SMTT(30)
  <2>4. k < r
    BY <1>4, <2>2, <2>3, Zenon
  <2>5. s.hello /\ ~(s.total > max)
    BY <1>1, <1>3, SMT, SMTT(30) DEF PlainTls
  <2>6. r <= k
    BY <1>2, <2>2, <2>5, Zenon
  <2>7. QED
    BY <1>1, <2>2, <2>4, <2>6, SMT, SMTT(30)
<1>7. s.records[1].kind = "handshake"
  <2>1. 1 \in 1 .. r
    BY <1>1, SMT, SMTT(30)
  <2>2. QED
    BY <2>1, Zenon DEF PlainTls, Handshake, r
<1>8. SniffTls(s, n, max) =
              CASE n = 0 \/ s.records[1].kind # "handshake" -> Abort
                [] n > 0 /\ s.records[1].kind = "handshake" /\ F \cup D = {} -> NeedMore
                [] OTHER -> IF m \in F \/ ~s.hello \/ s.total > max
                            THEN Abort ELSE ParseSni(s)
    BY TlsVerdict, Zenon
<1>9. F \cup D = {}
  BY <1>5, <1>6, Zenon
<1> HIDE DEF F, D, m
<1>10. SniffTls(s, n, max) = NeedMore
  BY <1>7, <1>8, <1>9, SMT, SMTT(30)
<1>11. QED
  BY <1>10, SMT, SMTT(30) DEF NeedMore

-----------------------------------------------------------------------------
(* The lines of a header. *)

LEMMA LineFacts ==
    ASSUME NEW s \in Streams, s.proto = "http"
    PROVE  /\ Len(s.lines) \in Nat \ {0} /\ DOMAIN s.lines = 1 .. Len(s.lines)
           /\ HeaderEnd(s) \in Nat /\ s.lines[1].end \in Nat
           /\ s.lines[1].end < HeaderEnd(s)
<1> DEFINE l == Len(s.lines)
<1>1. s.lines \in Seq([end : Nat, kind : STRING]) /\ s.lines # <<>>
  BY StreamAssumption, Zenon
<1>2. l \in Nat \ {0} /\ DOMAIN s.lines = 1 .. l
  BY <1>1, LenProperties, EmptySeq, Zenon
<1>3. \A k \in 1 .. l : s.lines[k] \in [end : Nat, kind : STRING]
  BY <1>1, ElementOfSeq, Zenon
<1>4. \A i, k \in 1 .. l : i < k => s.lines[i].end < s.lines[k].end
  BY <1>2, StreamAssumption, Zenon
<1>5. HeaderEnd(s) = s.lines[l].end + 2
  BY Zenon DEF HeaderEnd, BLANK_LINE
<1> HIDE DEF l
<1>6. 1 \in 1 .. l /\ l \in 1 .. l
  BY <1>2, SMT, SMTT(30)
<1>7. s.lines[1].end \in Nat /\ s.lines[l].end \in Nat
  BY <1>3, <1>6, Zenon
<1>8. s.lines[1].end <= s.lines[l].end
  BY <1>2, <1>4, <1>6, <1>7, SMT, SMTT(30)
<1>9. QED
  BY <1>2, <1>5, <1>7, <1>8, SMT, SMTT(30) DEF l

\* All of a header is UTF-8.
IsText(s) == \A i \in DOMAIN s.lines : s.lines[i].kind # "not text"

\* What makes a header carry its name in the clear.
PlainHttp(s) ==
    /\ s.lines[1].kind = "request" /\ s.port # "bad" /\ IsText(s)
    /\ \E i \in DOMAIN s.lines :
          /\ s.lines[i].kind = "host"
          /\ \A j \in 1 .. i : s.lines[j].kind # "no colon"
    /\ IsValidSniHostname(Lower(s.host))

LEMMA CarriedHttp ==
    ASSUME NEW s, s.proto # "tls"
    PROVE  Carried(s) = IF PlainHttp(s) THEN Lower(s.host) ELSE None
BY Zenon DEF Carried, PlainHttp, IsText

\* The lines that decide.
Telling(s) == {k \in 2 .. Len(s.lines) : s.lines[k].kind \in {"host", "no colon"}}

LEMMA FirstTelling ==
    ASSUME NEW s \in Streams, s.proto = "http", Telling(s) # {}
    PROVE  Min(Telling(s)) \in Telling(s) /\ \A k \in Telling(s) : Min(Telling(s)) <= k
<1>1. Len(s.lines) \in Nat
  BY LineFacts, Zenon
<1>2. 2 .. Len(s.lines) \subseteq Nat
  BY <1>1, SMT, SMTT(30)
<1>3. Telling(s) \subseteq Nat
  BY <1>2, Zenon DEF Telling
<1>4. QED
  BY <1>3, LeastNat, Zenon

LEMMA HttpVerdict ==
    ASSUME NEW s \in Streams, s.proto = "http", NEW n \in Nat, NEW max
    PROVE  SniffHttp(s, n, max) =
             CASE n = 0 \/ s.lines[1].kind = "binary" -> Abort
               [] /\ n > 0 /\ s.lines[1].kind # "binary"
                  /\ n >= s.lines[1].end /\ s.lines[1].kind # "request" -> Abort
               [] OTHER ->
                     IF n < HeaderEnd(s) THEN (IF n >= max THEN Abort ELSE NeedMore)
                     ELSE IF IsText(s) /\ Telling(s) # {} /\ s.lines[Min(Telling(s))].kind = "host"
                     THEN ParseHost(s) ELSE Abort
BY Zenon DEF SniffHttp, Telling, IsText

LEMMA HttpMatched ==
    ASSUME NEW s \in Streams, s.proto = "http", NEW n \in Nat, NEW max \in Nat,
           SniffHttp(s, n, max).tag = "Matched"
    PROVE  SniffHttp(s, n, max).host = Carried(s)
<1> DEFINE T == Telling(s)
           m == Min(T)
<1>1. Abort.tag # "Matched" /\ NeedMore.tag # "Matched"
  BY Zenon DEF Abort, NeedMore
<1>2. SniffHttp(s, n, max) =
             CASE n = 0 \/ s.lines[1].kind = "binary" -> Abort
               [] /\ n > 0 /\ s.lines[1].kind # "binary"
                  /\ n >= s.lines[1].end /\ s.lines[1].kind # "request" -> Abort
               [] OTHER ->
                     IF n < HeaderEnd(s) THEN (IF n >= max THEN Abort ELSE NeedMore)
                     ELSE IF IsText(s) /\ T # {} /\ s.lines[m].kind = "host"
                     THEN ParseHost(s) ELSE Abort
  BY HttpVerdict, Zenon
<1>3. /\ Len(s.lines) \in Nat \ {0} /\ DOMAIN s.lines = 1 .. Len(s.lines)
      /\ HeaderEnd(s) \in Nat /\ s.lines[1].end \in Nat
      /\ s.lines[1].end < HeaderEnd(s)
  BY LineFacts, Zenon
<1>4. /\ ~(n < HeaderEnd(s)) /\ s.lines[1].kind = "request"
      /\ IsText(s) /\ T # {} /\ s.lines[m].kind = "host"
      /\ SniffHttp(s, n, max) = ParseHost(s)
  <2> HIDE DEF T, m
  <2>1. QED
    BY <1>1, <1>2, <1>3, SMT, SMTT(30)
<1>5. s.port # "bad" /\ IsValidSniHostname(Lower(s.host)) /\ ParseHost(s).host = Lower(s.host)
  <2>1. ParseHost(s).tag = "Matched"
    BY <1>4, Zenon
  <2>2. Matched(s.host).host = Lower(s.host)
    BY Zenon DEF Matched
  <2>3. s.port # "bad" /\ IsValidSniHostname(Lower(s.host))
    BY <1>1, <2>1, Zenon DEF ParseHost
  <2>4. ParseHost(s) = Matched(s.host)
    BY <2>3, Zenon DEF ParseHost
  <2>5. QED
    BY <2>2, <2>3, <2>4, Zenon
<1>6. m \in T /\ \A k \in T : m <= k
  BY <1>4, FirstTelling, Zenon
<1> HIDE DEF m
<1>7. m \in 2 .. Len(s.lines)
  BY <1>6, Zenon DEF Telling
<1>8. ASSUME NEW j \in 1 .. m
      PROVE  s.lines[j].kind # "no colon"
  <2>1. SUFFICES ASSUME s.lines[j].kind = "no colon" PROVE FALSE
    BY Zenon
  <2>2. j # 1 /\ j # m
    BY <1>4, <2>1, Zenon
  <2>3. j \in 2 .. Len(s.lines) /\ j < m
    BY <1>3, <1>7, <1>8, <2>2, SMT, SMTT(30)
  <2>4. j \in T
    BY <2>1, <2>3, Zenon DEF Telling
  <2>5. m <= j
    BY <1>6, <2>4, Zenon
  <2>6. QED
    BY <1>7, <2>3, <2>5, SMT, SMTT(30)
<1>9. PlainHttp(s)
  <2>1. m \in DOMAIN s.lines
    BY <1>3, <1>7, SMT, SMTT(30)
  <2>2. QED
    BY <1>4, <1>5, <1>8, <2>1, Zenon DEF PlainHttp
<1>10. QED
  BY <1>4, <1>5, <1>9, CarriedHttp, Zenon

LEMMA HttpEnough ==
    ASSUME NEW s \in Streams, s.proto = "http", NEW n \in Nat, NEW max \in Nat,
           PlainHttp(s), n >= HeaderEnd(s)
    PROVE  SniffHttp(s, n, max).tag = "Matched"
<1> DEFINE T == Telling(s)
           m == Min(T)
<1>1. SniffHttp(s, n, max) =
             CASE n = 0 \/ s.lines[1].kind = "binary" -> Abort
               [] /\ n > 0 /\ s.lines[1].kind # "binary"
                  /\ n >= s.lines[1].end /\ s.lines[1].kind # "request" -> Abort
               [] OTHER ->
                     IF n < HeaderEnd(s) THEN (IF n >= max THEN Abort ELSE NeedMore)
                     ELSE IF IsText(s) /\ T # {} /\ s.lines[m].kind = "host"
                     THEN ParseHost(s) ELSE Abort
  BY HttpVerdict, Zenon
<1>2. /\ Len(s.lines) \in Nat \ {0} /\ DOMAIN s.lines = 1 .. Len(s.lines)
      /\ HeaderEnd(s) \in Nat /\ s.lines[1].end \in Nat
      /\ s.lines[1].end < HeaderEnd(s)
  BY LineFacts, Zenon
<1>3. PICK i \in 1 .. Len(s.lines) :
         /\ s.lines[i].kind = "host"
         /\ \A j \in 1 .. i : s.lines[j].kind # "no colon"
  BY <1>2, Zenon DEF PlainHttp
<1>4. s.lines[1].kind = "request" /\ IsText(s) /\ i # 1
  BY <1>3, Zenon DEF PlainHttp
<1>5. i \in T
  <2>1. i \in 2 .. Len(s.lines)
    <3> DEFINE l == Len(s.lines)
    <3>1. l \in Nat /\ i \in 1 .. l /\ i # 1
      BY <1>2, <1>4, Zenon
    <3> HIDE DEF l
    <3>2. i \in 2 .. l
      BY <3>1, SMT, SMTT(30)
    <3> QED
      BY <3>2, Zenon DEF l
  <2>2. QED
    BY <1>3, <2>1, Zenon DEF Telling
<1>6. m \in T /\ m <= i
  BY <1>5, FirstTelling, Zenon
<1>7. s.lines[m].kind = "host"
  <2> HIDE DEF m
  <2>1. m \in 2 .. Len(s.lines) /\ s.lines[m].kind \in {"host", "no colon"}
    BY <1>6, Zenon DEF Telling
  <2>2. m \in 1 .. i
    <3> DEFINE l == Len(s.lines)
    <3>1. l \in Nat /\ m \in 2 .. l /\ i \in 1 .. l /\ m <= i
      BY <1>2, <1>6, <2>1, Zenon
    <3> HIDE DEF l
    <3> QED
      BY <3>1, SMT, SMTT(30)
  <2>3. s.lines[m].kind # "no colon"
    BY <1>3, <2>2, Zenon
  <2>4. QED
    BY <2>1, <2>3, Zenon
<1>8. n > 0 /\ ~(n = 0) /\ ~(n < HeaderEnd(s))
  BY <1>2, SMT, SMTT(30)
<1> HIDE DEF T, m
<1>9. SniffHttp(s, n, max) = ParseHost(s)
  BY <1>1, <1>4, <1>6, <1>7, <1>8, Zenon
<1>10. ParseHost(s) = Matched(s.host)
  BY Zenon DEF ParseHost, PlainHttp
<1>11. QED
  BY <1>9, <1>10, SMT, SMTT(30) DEF Matched

LEMMA HttpTooShort ==
    ASSUME NEW s \in Streams, s.proto = "http", NEW n \in Nat, NEW max \in Nat,
           PlainHttp(s), 0 < n, n < HeaderEnd(s), max >= HeaderEnd(s)
    PROVE  SniffHttp(s, n, max).tag = "NeedMore"
<1> DEFINE T == Telling(s)
           m == Min(T)
<1>1. SniffHttp(s, n, max) =
             CASE n = 0 \/ s.lines[1].kind = "binary" -> Abort
               [] /\ n > 0 /\ s.lines[1].kind # "binary"
                  /\ n >= s.lines[1].end /\ s.lines[1].kind # "request" -> Abort
               [] OTHER ->
                     IF n < HeaderEnd(s) THEN (IF n >= max THEN Abort ELSE NeedMore)
                     ELSE IF IsText(s) /\ T # {} /\ s.lines[m].kind = "host"
                     THEN ParseHost(s) ELSE Abort
  BY HttpVerdict, Zenon
<1>2. HeaderEnd(s) \in Nat
  BY LineFacts, Zenon
<1>3. s.lines[1].kind = "request" /\ ~(n >= max)
  <2>1. s.lines[1].kind = "request"
    BY Zenon DEF PlainHttp
  <2> DEFINE h == HeaderEnd(s)
  <2>2. h \in Nat /\ n < h /\ max >= h
    BY <1>2, Zenon
  <2> HIDE DEF h
  <2>3. ~(n >= max)
    BY <2>2, SMT, SMTT(30)
  <2>4. QED
    BY <2>1, <2>3, Zenon
<1> HIDE DEF T, m
<1>4. SniffHttp(s, n, max) = NeedMore
  BY <1>1, <1>2, <1>3, SMT, SMTT(30)
<1>5. QED
  BY <1>4, SMT, SMTT(30) DEF NeedMore

-----------------------------------------------------------------------------
(* The verdict of an engine, whatever the protocol. *)

\* No engine reports another name than the one that the stream carries.
LEMMA MatchedIsCarried ==
    ASSUME NEW e, NEW s \in Streams, NEW n \in Nat, NEW max \in Nat,
           Classify(e, s, n, max).tag = "Matched"
    PROVE  Classify(e, s, n, max).host = Carried(s)
<1>1. Abort.tag # "Matched"
  BY Zenon DEF Abort
<1>2. s.proto \in {"tls", "http"}
  BY StreamAssumption, Zenon
<1>3. e.proto = s.proto
  BY <1>1, Zenon DEF Classify
<1>4. CASE s.proto = "tls"
  <2>1. Classify(e, s, n, max) = SniffTls(s, n, max)
    BY <1>3, <1>4, Zenon DEF Classify
  <2>2. QED
    BY <1>4, <2>1, TlsMatched, Zenon
<1>5. CASE s.proto = "http"
  <2>1. Classify(e, s, n, max) = SniffHttp(s, n, max)
    BY <1>3, <1>5, Zenon DEF Classify
  <2>2. QED
    BY <1>5, <2>1, HttpMatched, Zenon
<1>6. QED
  BY <1>2, <1>4, <1>5, Zenon

\* The engine of its protocol finds the name once it sees enough, and asks
\* for more until then.
LEMMA EngineDecides ==
    ASSUME NEW e, NEW s \in Streams, e.proto = s.proto, NEW n \in Nat, NEW max \in Nat,
           Carried(s) # None, Needed(s) <= max
    PROVE  /\ Needed(s) <= n => Classify(e, s, n, max).tag = "Matched"
           /\ 0 < n /\ n < Needed(s) => Classify(e, s, n, max).tag = "NeedMore"
<1>1. s.proto \in {"tls", "http"}
  BY StreamAssumption, Zenon
<1>2. CASE s.proto = "tls"
  <2>1. Classify(e, s, n, max) = SniffTls(s, n, max)
    BY <1>2, Zenon DEF Classify
  <2>2. Needed(s) = RecordEnd(s, LastRecord(s)) /\ PlainTls(s)
    BY <1>2, CarriedTls, Zenon DEF Needed
  <2>3. RecordEnd(s, LastRecord(s)) \in Nat
    <3>1. LastRecord(s) \in 0 .. Len(s.records)
      BY <1>2, LastFacts, RecordFacts, SMT, SMTT(30)
    <3>2. QED
      BY <1>2, <3>1, RecordFacts, Zenon
  <2>4. max >= RecordEnd(s, LastRecord(s))
    BY <2>2, <2>3, Zenon
  <2>5. ASSUME Needed(s) <= n PROVE Classify(e, s, n, max).tag = "Matched"
    <3>1. n >= RecordEnd(s, LastRecord(s))
      BY <2>2, <2>3, <2>5, Zenon
    <3>2. QED
      BY <1>2, <2>1, <2>2, <2>4, <3>1, TlsEnough, Zenon
  <2>6. ASSUME 0 < n, n < Needed(s) PROVE Classify(e, s, n, max).tag = "NeedMore"
    BY <1>2, <2>1, <2>2, <2>4, <2>6, TlsTooShort, Zenon
  <2>7. QED
    BY <2>5, <2>6, Zenon
<1>3. CASE s.proto = "http"
  <2>1. Classify(e, s, n, max) = SniffHttp(s, n, max)
    BY <1>3, Zenon DEF Classify
  <2>2. s.proto # "tls"
    BY <1>3, Zenon
  <2>3. Needed(s) = HeaderEnd(s) /\ PlainHttp(s)
    BY <2>2, CarriedHttp, Zenon DEF Needed
  <2>4. HeaderEnd(s) \in Nat
    BY <1>3, LineFacts, Zenon
  <2>5. max >= HeaderEnd(s)
    BY <2>3, <2>4, Zenon
  <2>6. ASSUME Needed(s) <= n PROVE Classify(e, s, n, max).tag = "Matched"
    <3>1. n >= HeaderEnd(s)
      BY <2>3, <2>4, <2>6, Zenon
    <3>2. QED
      BY <1>3, <2>1, <2>3, <3>1, HttpEnough, Zenon
  <2>7. ASSUME 0 < n, n < Needed(s) PROVE Classify(e, s, n, max).tag = "NeedMore"
    BY <1>3, <2>1, <2>3, <2>5, <2>7, HttpTooShort, Zenon
  <2>8. QED
    BY <2>6, <2>7, Zenon
<1>4. QED
  BY <1>1, <1>2, <1>3, Zenon

-----------------------------------------------------------------------------
(* How far an engine looks. *)

LEMMA NeededFacts ==
    ASSUME NEW s \in Streams
    PROVE  Needed(s) \in Nat
<1>1. CASE s.proto = "tls"
  <2>1. LastRecord(s) \in 0 .. Len(s.records)
    BY <1>1, LastFacts, RecordFacts, SMT, SMTT(30)
  <2>2. RecordEnd(s, LastRecord(s)) \in Nat
    BY <1>1, <2>1, RecordFacts, Zenon
  <2>3. QED
    BY <1>1, <2>2, Zenon DEF Needed
<1>2. CASE s.proto = "http"
  BY <1>2, LineFacts, Zenon DEF Needed
<1>3. QED
  BY <1>1, <1>2, StreamAssumption, Zenon

LEMMA ProductGrows ==
    ASSUME NEW f \in Nat, NEW x \in Nat, NEW y \in Nat, x <= y
    PROVE  f * x <= f * y /\ f * x \in Nat /\ f * y \in Nat
<1> DEFINE c == y - x
<1>1. c \in Nat /\ y = x + c
  BY SMT, SMTT(30)
<1> HIDE DEF c
<1>2. f * (x + c) = f * x + f * c
  BY <1>1, SMT, SMTT(30)
<1>3. f * x \in Nat /\ f * c \in Nat
  BY <1>1, SMT, SMTT(30)
<1>4. QED
  BY <1>1, <1>2, <1>3, SMT, SMTT(30)

LEMMA EngineFacts ==
    ASSUME NEW j \in 1 .. Len(Engines)
    PROVE  /\ MaxLen(Engines[j]) \in Nat \ {0}
           /\ FirstLen(Engines[j]) \in Nat \ {0}
           /\ Engines[j].max_retries \in Nat
<1> DEFINE e == Engines[j]
<1>1. e \in [proto : STRING, peek_len : Nat, max_len : Nat, max_retries : Nat]
  BY EngineAssumption, ElementOfSeq, Zenon
<1>2. e.peek_len \in Nat /\ e.max_len \in Nat /\ e.max_retries \in Nat /\ PeekBuffer \in Nat
  BY <1>1, EngineAssumption, Zenon
<1> HIDE DEF e
<1>3. ASSUME NEW n \in Nat PROVE AtLeastOne(n) \in Nat \ {0}
  BY <1>3, MaxOfTwo, SMT, SMTT(30) DEF AtLeastOne
<1>4. ASSUME NEW a \in Nat \ {0}, NEW b \in Nat \ {0} PROVE Min({a, b}) \in Nat \ {0}
  BY <1>4, MinOfTwo, SMT, SMTT(30)
<1>5. AtLeastOne(e.max_len) \in Nat \ {0} /\ AtLeastOne(PeekBuffer) \in Nat \ {0} /\ AtLeastOne(e.peek_len) \in Nat \ {0}
  BY <1>2, <1>3, Zenon
<1>6. MaxLen(e) \in Nat \ {0}
  BY <1>4, <1>5, Zenon DEF MaxLen
<1>7. FirstLen(e) \in Nat \ {0}
  BY <1>4, <1>5, <1>6, Zenon DEF FirstLen
<1>8. QED
  BY <1>2, <1>6, <1>7, Zenon DEF e

LEMMA NextFacts ==
    ASSUME NEW j \in 1 .. Len(Engines), NEW p \in Nat \ {0}
    PROVE  NextLen(Engines[j], p) = IF 2 * p <= MaxLen(Engines[j]) THEN 2 * p ELSE MaxLen(Engines[j])
<1>1. MaxLen(Engines[j]) \in Int /\ 2 * p \in Int
  BY EngineFacts, SMT, SMTT(30)
<1>2. QED
  BY <1>1, MinOfTwo, Zenon DEF NextLen

\* Engine e gets to see what it needs of s, if nothing stops it.
Reaches(e, s) ==
    /\ e.proto = s.proto
    /\ Needed(s) <= MaxLen(e)
    /\ Needed(s) <= FirstLen(e) * Power(e.max_retries)

LEMMA InReachMeans ==
    ASSUME NEW s \in Streams, InReach(s)
    PROVE  \E j \in 1 .. Len(Engines) : Reaches(Engines[j], s)
<1>1. PICK e \in Range(Engines) :
         /\ e.proto = s.proto
         /\ Needed(s) <= Min({MaxLen(e), FirstLen(e) * 2 ^ e.max_retries})
  BY Zenon DEF InReach
<1>2. DOMAIN Engines = 1 .. Len(Engines)
  BY EngineAssumption, LenProperties, Zenon
<1>3. PICK j \in 1 .. Len(Engines) : e = Engines[j]
  BY <1>1, <1>2, Zenon DEF Range
<1>4. MaxLen(e) \in Nat \ {0} /\ FirstLen(e) \in Nat \ {0} /\ e.max_retries \in Nat
  BY <1>3, EngineFacts, Zenon
<1>5. 2 ^ e.max_retries = Power(e.max_retries) /\ Power(e.max_retries) \in Nat
  BY <1>4, PowerIs, Zenon
<1> DEFINE a == MaxLen(e)
           f == FirstLen(e)
           w == Power(e.max_retries)
           b == f * w
           d == Needed(s)
<1>6. d <= Min({a, b})
  BY <1>1, <1>5, Zenon
<1>7. a \in Nat /\ f \in Nat /\ w \in Nat /\ d \in Nat
  BY <1>4, <1>5, NeededFacts, Zenon
<1> HIDE DEF a, f, w, d
<1>8. b \in Nat
  BY <1>7, SMT, SMTT(30)
<1> HIDE DEF b
<1>9. Min({a, b}) = IF a <= b THEN a ELSE b
  BY <1>7, <1>8, MinOfTwo, SMT, SMTT(30)
<1>10. d <= a /\ d <= b
  BY <1>6, <1>7, <1>8, <1>9, SMT, SMTT(30)
<1>11. Reaches(e, s)
  BY <1>1, <1>10, Zenon DEF Reaches, a, b, d, f, w
<1>12. QED
  BY <1>3, <1>11, Zenon

\* A prefix has grown with the attempts, or cannot grow any more.
Grown(e, p, k) == p = MaxLen(e) \/ p >= FirstLen(e) * Power(k)

LEMMA FirstGrown ==
    ASSUME NEW j \in 1 .. Len(Engines)
    PROVE  Grown(Engines[j], FirstLen(Engines[j]), 0)
<1> DEFINE f == FirstLen(Engines[j])
<1>1. f \in Nat
  BY EngineFacts, Zenon
<1>2. Power(0) = 1
  BY PowerZero, Zenon
<1> HIDE DEF f
<1>3. f >= f * Power(0)
  BY <1>1, <1>2, SMT, SMTT(30)
<1>4. QED
  BY <1>3, Zenon DEF Grown, f

LEMMA NextGrown ==
    ASSUME NEW j \in 1 .. Len(Engines), NEW p \in Nat \ {0}, NEW k \in Nat,
           Grown(Engines[j], p, k)
    PROVE  /\ NextLen(Engines[j], p) \in Nat \ {0}
           /\ Grown(Engines[j], NextLen(Engines[j], p), k + 1)
<1> DEFINE e == Engines[j]
           f == FirstLen(e)
           w == Power(k)
           u == Power(k + 1)
           m == MaxLen(e)
           q == NextLen(e, p)
<1>1. f \in Nat \ {0} /\ m \in Nat \ {0}
  BY EngineFacts, Zenon
<1>2. w \in Nat /\ u = 2 * w
  BY PowerIs, PowerDoubles, Zenon
<1>3. q = IF 2 * p <= m THEN 2 * p ELSE m
  BY NextFacts, Zenon
<1>4. p = m \/ p >= f * w
  BY Zenon DEF Grown
<1> HIDE DEF e, f, w, u, m, q
<1>5. q \in Nat \ {0}
  BY <1>1, <1>3, SMT, SMTT(30)
<1>6. f * w \in Nat /\ f * u = 2 * (f * w)
  BY <1>1, <1>2, SMT, SMTT(30)
<1> DEFINE x == f * w
           y == f * u
<1>7. x \in Nat /\ y = 2 * x /\ (p = m \/ p >= x)
  BY <1>4, <1>6, Zenon
<1> HIDE DEF x, y
<1>8. q = m \/ q >= y
  BY <1>1, <1>3, <1>7, SMT, SMTT(30)
<1>9. QED
  BY <1>5, <1>8, Zenon DEF Grown, e, f, u, m, q, y

\* An engine in reach of all it needs finds the name, or looks further.
LEMMA LooksFurther ==
    ASSUME NEW s \in Streams, NEW j \in 1 .. Len(Engines), Reaches(Engines[j], s), Carried(s) # None,
           NEW p \in Nat \ {0}, NEW k \in Nat, Grown(Engines[j], p, k),
           NEW n \in Nat, NEW a \in Nat, a >= Needed(s), n = Min({a, p}),
           Classify(Engines[j], s, n, MaxLen(Engines[j])).tag # "Matched"
    PROVE  /\ Classify(Engines[j], s, n, MaxLen(Engines[j])).tag = "NeedMore"
           /\ k < Engines[j].max_retries /\ n > 0 /\ n = p /\ NextLen(Engines[j], p) > p
<1> DEFINE e == Engines[j]
           f == FirstLen(e)
           r == e.max_retries
           m == MaxLen(e)
           d == Needed(s)
<1>1. f \in Nat \ {0} /\ m \in Nat \ {0} /\ r \in Nat /\ d \in Nat
  BY EngineFacts, NeededFacts, Zenon
<1>2. e.proto = s.proto /\ d <= m /\ d <= f * Power(r)
  BY Zenon DEF Reaches
<1>3. n = IF a <= p THEN a ELSE p
  BY MinOfTwo, SMT, SMTT(30)
<1>4. NextLen(e, p) = IF 2 * p <= m THEN 2 * p ELSE m
  BY NextFacts, Zenon
<1>5. p = m \/ p >= f * Power(k)
  BY Zenon DEF Grown
<1>6. /\ d <= n => Classify(e, s, n, m).tag = "Matched"
      /\ 0 < n /\ n < d => Classify(e, s, n, m).tag = "NeedMore"
  <2>1. m \in Nat
    BY <1>1, Zenon
  <2>2. Needed(s) <= m /\ e.proto = s.proto
    BY <1>2, Zenon
  <2> HIDE DEF e, m
  <2>3. /\ Needed(s) <= n => Classify(e, s, n, m).tag = "Matched"
        /\ 0 < n /\ n < Needed(s) => Classify(e, s, n, m).tag = "NeedMore"
    BY <2>1, <2>2, EngineDecides, SMT, SMTT(30)
  <2>4. QED
    BY <2>3, Zenon
<1>7. ~(d <= n)
  BY <1>6, ZenonT(30)
<1> HIDE DEF e, f, r, m, d
<1>8. n = p /\ n > 0 /\ n < d /\ p < m
  BY <1>1, <1>2, <1>3, <1>7, SMT, SMTT(30) DEF d
<1>9. NextLen(e, p) > p
  BY <1>1, <1>4, <1>8, SMT, SMTT(30)
<1>10. k < r
  <2>1. SUFFICES ASSUME r <= k PROVE FALSE
    BY <1>1, SMT, SMTT(30)
  <2>2. Power(r) <= Power(k) /\ Power(r) \in Nat /\ Power(k) \in Nat
    BY <1>1, <2>1, PowerGrows, PowerIs, Zenon
  <2> DEFINE x == Power(r)
             y == Power(k)
  <2>3. x <= y /\ x \in Nat /\ y \in Nat /\ d <= f * x /\ (p = m \/ p >= f * y)
    BY <1>2, <1>5, <2>2, Zenon
  <2> HIDE DEF x, y
  <2>4. f * x <= f * y /\ f * x \in Nat /\ f * y \in Nat
    <3>1. f \in Nat
      BY <1>1, Zenon
    <3>2. QED
      BY <2>3, <3>1, ProductGrows, Zenon
  <2> DEFINE v == f * x
             z == f * y
  <2>5. v <= z /\ v \in Nat /\ z \in Nat /\ d <= v /\ (p = m \/ p >= z)
    BY <2>3, <2>4, Zenon
  <2> HIDE DEF v, z
  <2>6. QED
    BY <1>1, <1>8, <2>5, SMT, SMTT(30)
<1>11. QED
  BY <1>6, <1>8, <1>9, <1>10, Zenon DEF e, r, m

-----------------------------------------------------------------------------
(***************************************************************************)
(* The inductive invariant of the search.  A prefix that is looked at is   *)
(* longer than the last one, and has grown with the attempts; and as long  *)
(* as nothing but the configuration can stop the search, all that is       *)
(* needed is there, and an engine that reaches it is still to be asked.    *)
(***************************************************************************)
Hopeful == ready /\ ~expired /\ InReach(stream) /\ Carried(stream) # None

Looking ==
    /\ found = None
    /\ attempt \in Nat /\ last \in Nat /\ peek \in Nat \ {0}
    /\ Grown(Engines[engine], peek, attempt)
    /\ sniffing = "peek" => last < peek
    /\ sniffing = "wait" => last <= peek /\ peek < NextLen(Engines[engine], peek)
    /\ Hopeful => \E j \in engine .. Len(Engines) : Reaches(Engines[j], stream)

SniffInv ==
    /\ sniffing \in {"peek", "wait", "done", "over"}
    /\ sniffing # "over" =>
          /\ stream \in Streams /\ arrived \in Nat
          /\ engine \in 1 .. Len(Engines)
          /\ ready => arrived >= Needed(stream)
    /\ sniffing \in {"peek", "wait"} => Looking
    /\ SniffFindsHost

LEMMA EnginesThere == Len(Engines) \in Nat \ {0}
BY EngineAssumption, LenProperties, EmptySeq, Zenon

LEMMA StreamLenInt ==
    ASSUME NEW s \in Streams
    PROVE  StreamLen(s) \in Nat
<1>1. CASE s.proto = "tls"
  <2>1. Len(s.records) \in 0 .. Len(s.records)
    BY <1>1, RecordFacts, SMT, SMTT(30)
  <2>2. RecordEnd(s, Len(s.records)) \in Nat
    BY <1>1, <2>1, RecordFacts, Zenon
  <2>3. QED
    BY <1>1, <2>2, Zenon DEF StreamLen
<1>2. CASE s.proto = "http"
  BY <1>2, LineFacts, Zenon DEF StreamLen
<1>3. QED
  BY <1>1, <1>2, StreamAssumption, Zenon

LEMMA SniffStarts == SniffInit => SniffInv
<1> SUFFICES ASSUME SniffInit PROVE SniffInv
  BY Zenon
<1>1. stream \in Streams /\ engine = 1 /\ sniffing = "peek" /\ found = None /\ last = 0 /\ attempt = 0
  BY Zenon DEF SniffInit
<1>2. peek = FirstLen(Engines[1]) /\ ready = (arrived >= Needed(stream))
  BY Zenon DEF SniffInit
<1>3. arrived \in Nat
  <2>1. arrived \in 0 .. StreamLen(stream)
    BY Zenon DEF SniffInit
  <2>2. StreamLen(stream) \in Nat
    BY <1>1, StreamLenInt, Zenon
  <2>3. QED
    BY <2>1, <2>2, SMT, SMTT(30)
<1>4. engine \in 1 .. Len(Engines) /\ 1 \in 1 .. Len(Engines)
  BY <1>1, EnginesThere, SMT, SMTT(30)
<1>5. peek \in Nat \ {0} /\ last < peek
  <2>1. peek \in Nat \ {0}
    BY <1>2, <1>4, EngineFacts, Zenon
  <2>2. QED
    BY <1>1, <2>1, SMT, SMTT(30)
<1>6. Grown(Engines[engine], peek, attempt)
  BY <1>1, <1>2, <1>4, FirstGrown, Zenon
<1>7. Hopeful => \E j \in engine .. Len(Engines) : Reaches(Engines[j], stream)
  BY <1>1, InReachMeans, Zenon DEF Hopeful
<1>8. attempt \in Nat /\ last \in Nat
  BY <1>1, Zenon
<1>9. Looking
  <2>1. sniffing # "wait"
    BY <1>1, Zenon
  <2>2. QED
    BY <1>1, <1>5, <1>6, <1>7, <1>8, <2>1, Zenon DEF Looking
<1>10. QED
  BY <1>1, <1>2, <1>3, <1>4, <1>9, Zenon DEF SniffInv, SniffFindsHost

LEMMA ArriveSniff == SniffInv /\ Arrive => SniffInv'
<1> SUFFICES ASSUME SniffInv, Arrive PROVE SniffInv'
  BY Zenon
<1>1. /\ UNCHANGED <<stream, engine, peek, last, attempt, sniffing, found, ready, expired>>
      /\ sniffing \in {"peek", "wait"}
  BY Zenon DEF Arrive
<1>2. stream \in Streams /\ arrived \in Nat /\ engine \in 1 .. Len(Engines) /\ Looking
      /\ (ready => arrived >= Needed(stream))
  BY <1>1, Zenon DEF SniffInv
<1>3. arrived' \in Nat /\ arrived' >= arrived
  BY <1>2, StreamLenInt, SMT, SMTT(30) DEF Arrive
<1>4. Needed(stream) \in Nat
  BY <1>2, NeededFacts, Zenon
<1>5. ready => arrived' >= Needed(stream)
  BY <1>2, <1>3, <1>4, SMT, SMTT(30)
<1>6. Looking'
  BY <1>1, <1>2, Zenon DEF Looking, Hopeful
<1>7. QED
  BY <1>1, <1>2, <1>3, <1>5, <1>6, Zenon DEF SniffInv, SniffFindsHost

\* The next engine starts afresh, and the last one ends the search; without
\* a name, for which there must be a reason.
LEMMA GiveUpSniff ==
    ASSUME SniffInv, sniffing \in {"peek", "wait"}, GiveUp, UNCHANGED <<stream, arrived, ready>>,
           Hopeful' => Hopeful /\ ~Reaches(Engines[engine], stream)
    PROVE  SniffInv'
<1>1. stream \in Streams /\ arrived \in Nat /\ engine \in 1 .. Len(Engines) /\ Looking
      /\ (ready => arrived >= Needed(stream))
  BY Zenon DEF SniffInv
<1>2. found' = None /\ last' = 0 /\ attempt' = 0
  BY <1>1, Zenon DEF GiveUp, Looking
<1>3. Hopeful' => \E j \in engine + 1 .. Len(Engines) : Reaches(Engines[j], stream)
  <2>1. SUFFICES ASSUME Hopeful'
                 PROVE  \E j \in engine + 1 .. Len(Engines) : Reaches(Engines[j], stream)
    BY Zenon
  <2>2. PICK j \in engine .. Len(Engines) : Reaches(Engines[j], stream)
    BY <1>1, <2>1, Zenon DEF Looking
  <2>3. j # engine
    BY <2>1, <2>2, Zenon
  <2>4. j \in engine + 1 .. Len(Engines)
    BY <1>1, <2>2, <2>3, EnginesThere, SMT, SMTT(30)
  <2>5. QED
    BY <2>2, <2>4, Zenon
<1>4. CASE engine < Len(Engines)
  <2>1. engine' = engine + 1 /\ peek' = FirstLen(Engines[engine + 1]) /\ sniffing' = "peek"
    BY <1>4, Zenon DEF GiveUp
  <2>2. engine + 1 \in 1 .. Len(Engines)
    BY <1>1, <1>4, EnginesThere, SMT, SMTT(30)
  <2>3. peek' \in Nat \ {0}
    BY <2>1, <2>2, EngineFacts, Zenon
  <2>4. Grown(Engines[engine'], peek', attempt')
    BY <1>2, <2>1, <2>2, FirstGrown, Zenon
  <2>5. last' < peek' /\ last' \in Nat /\ attempt' \in Nat
    BY <1>2, <2>3, SMT, SMTT(30)
  <2>6. Hopeful' => \E j \in engine' .. Len(Engines) : Reaches(Engines[j], stream')
    BY <1>3, <2>1, Zenon
  <2>7. sniffing' # "wait"
    BY <2>1, Zenon
  <2>8. Looking'
    BY <1>2, <2>3, <2>4, <2>5, <2>6, <2>7, ZenonT(30) DEF Looking
  <2>9. QED
    BY <1>1, <2>1, <2>2, <2>8, Zenon DEF SniffInv, SniffFindsHost
<1>5. CASE ~(engine < Len(Engines))
  <2>1. engine' = engine /\ sniffing' = "done"
    BY <1>5, Zenon DEF GiveUp
  <2>2. ~Hopeful'
    <3>1. engine + 1 .. Len(Engines) = {}
      BY <1>1, <1>5, EnginesThere, SMT, SMTT(30)
    <3>2. QED
      BY <1>3, <3>1, Zenon
  <2>3. SniffFindsHost'
    BY <1>2, <2>2, Zenon DEF SniffFindsHost, Hopeful
  <2>4. QED
    BY <1>1, <2>1, <2>3, Zenon DEF SniffInv
<1>6. QED
  BY <1>4, <1>5, Zenon

LEMMA PeekSniff == SniffInv /\ Peek => SniffInv'
<1> SUFFICES ASSUME SniffInv, Peek PROVE SniffInv'
  BY Zenon
<1> DEFINE e == Engines[engine]
           n == Min({arrived, peek})
           verdict == Classify(e, stream, n, MaxLen(e))
           more == ShouldRetrySniff(e, n) /\ NextLen(e, peek) > peek
<1>1. sniffing = "peek" /\ UNCHANGED <<stream, arrived, eof, ready, expired>>
  BY Zenon DEF Peek
<1>2. \/ /\ verdict.tag = "Matched"
         /\ found' = verdict.host
         /\ sniffing' = "done"
         /\ UNCHANGED <<engine, peek, last, attempt>>
      \/ /\ verdict.tag = "NeedMore" /\ more
         /\ last' = n
         /\ sniffing' = "wait"
         /\ UNCHANGED <<engine, peek, attempt, found>>
      \/ /\ verdict.tag = "Abort" \/ (verdict.tag = "NeedMore" /\ ~more)
         /\ GiveUp
  BY Zenon DEF Peek
<1>3. /\ stream \in Streams /\ arrived \in Nat /\ engine \in 1 .. Len(Engines) /\ Looking
      /\ (ready => arrived >= Needed(stream))
  BY <1>1, Zenon DEF SniffInv
<1>4. /\ found = None /\ attempt \in Nat /\ last \in Nat /\ peek \in Nat \ {0}
      /\ Grown(e, peek, attempt) /\ last < peek
      /\ Hopeful => \E j \in engine .. Len(Engines) : Reaches(Engines[j], stream)
  BY <1>1, <1>3, Zenon DEF Looking
<1>5. n \in Nat /\ n <= peek
  BY <1>3, <1>4, MinOfTwo, SMT, SMTT(30)
<1>6. MaxLen(e) \in Nat
  BY <1>3, EngineFacts, Zenon
<1>7. CASE /\ verdict.tag = "Matched"
           /\ found' = verdict.host
           /\ sniffing' = "done"
           /\ UNCHANGED <<engine, peek, last, attempt>>
  <2>1. verdict.host = Carried(stream)
    <3> HIDE DEF e, n
    <3>1. QED
      BY <1>3, <1>5, <1>6, <1>7, MatchedIsCarried, Zenon
  <2>2. SniffFindsHost'
    BY <1>1, <1>7, <2>1, Zenon DEF SniffFindsHost
  <2>3. QED
    BY <1>1, <1>3, <1>7, <2>2, Zenon DEF SniffInv
<1>8. CASE /\ verdict.tag = "NeedMore" /\ more
           /\ last' = n
           /\ sniffing' = "wait"
           /\ UNCHANGED <<engine, peek, attempt, found>>
  <2>1. peek < NextLen(e, peek)
    BY <1>8, Zenon
  <2> HIDE DEF n, verdict, more
  <2>2. last' \in Nat /\ last' <= peek'
    BY <1>5, <1>8, Zenon
  <2>3. sniffing' # "peek" /\ peek' < NextLen(Engines[engine'], peek')
    BY <1>8, <2>1, Zenon
  <2>4. Hopeful' => \E j \in engine' .. Len(Engines) : Reaches(Engines[j], stream')
    BY <1>1, <1>4, <1>8, Zenon DEF Hopeful
  <2>5. Looking'
    BY <1>1, <1>4, <1>8, <2>2, <2>3, <2>4, ZenonT(30) DEF Looking
  <2>6. QED
    BY <1>1, <1>3, <1>8, <2>5, Zenon DEF SniffInv, SniffFindsHost
<1>9. CASE /\ verdict.tag = "Abort" \/ (verdict.tag = "NeedMore" /\ ~more)
           /\ GiveUp
  <2>1. Hopeful' => Hopeful
    BY <1>1, Zenon DEF Hopeful
  <2>2. Hopeful => ~Reaches(e, stream)
    <3>1. SUFFICES ASSUME Hopeful, Reaches(e, stream) PROVE FALSE
      BY Zenon
    <3>2. verdict.tag # "Matched"
      <4> HIDE DEF verdict
      <4>1. QED
        BY <1>9, Zenon
    <3>3. arrived >= Needed(stream) /\ Carried(stream) # None
      BY <1>3, <3>1, ZenonT(30) DEF Hopeful
    <3>4. /\ verdict.tag = "NeedMore"
          /\ attempt < e.max_retries /\ n > 0 /\ n = peek /\ NextLen(e, peek) > peek
      BY <1>3, <1>4, <1>5, <3>1, <3>2, <3>3, LooksFurther, Zenon
    <3>5. n > last
      <4> HIDE DEF n
      <4>1. QED
        BY <1>4, <3>4, Zenon
    <3>6. more
      BY <3>4, <3>5, Zenon DEF ShouldRetrySniff
    <3>7. QED
      <4> HIDE DEF verdict, more
      <4>1. QED
        BY <1>9, <3>4, <3>6, Zenon
  <2>3. QED
    BY <1>1, <1>9, <2>1, <2>2, GiveUpSniff, Zenon
<1>10. QED
  BY <1>2, <1>7, <1>8, <1>9, Zenon

LEMMA WaitSniff == SniffInv /\ WaitForMore => SniffInv'
<1> SUFFICES ASSUME SniffInv, WaitForMore PROVE SniffInv'
  BY Zenon
<1> DEFINE e == Engines[engine]
<1>1. /\ sniffing = "wait" /\ sniffing' = "peek" /\ attempt' = attempt + 1
      /\ peek' = NextLen(e, peek)
      /\ UNCHANGED <<stream, arrived, eof, engine, last, found, ready, expired>>
  BY Zenon DEF WaitForMore
<1>2. /\ stream \in Streams /\ arrived \in Nat /\ engine \in 1 .. Len(Engines) /\ Looking
      /\ (ready => arrived >= Needed(stream))
  BY <1>1, Zenon DEF SniffInv
<1>3. /\ found = None /\ attempt \in Nat /\ last \in Nat /\ peek \in Nat \ {0}
      /\ Grown(e, peek, attempt) /\ last <= peek /\ peek < NextLen(e, peek)
      /\ Hopeful => \E j \in engine .. Len(Engines) : Reaches(Engines[j], stream)
  BY <1>1, <1>2, Zenon DEF Looking
<1>4. NextLen(e, peek) \in Nat \ {0} /\ Grown(e, NextLen(e, peek), attempt + 1)
  BY <1>2, <1>3, NextGrown, Zenon
<1>5. last < NextLen(e, peek) /\ attempt + 1 \in Nat
  <2> DEFINE q == NextLen(e, peek)
  <2>1. q \in Nat /\ peek < q
    BY <1>3, <1>4, Zenon
  <2> HIDE DEF q
  <2>2. last < q
    BY <1>3, <2>1, SMT, SMTT(30)
  <2>3. QED
    BY <1>3, <2>2, SMT, SMTT(30) DEF q
<1>6. Hopeful' => \E j \in engine' .. Len(Engines) : Reaches(Engines[j], stream')
  BY <1>1, <1>3, Zenon DEF Hopeful
<1>7. sniffing' # "wait"
  BY <1>1, Zenon
<1>8. Looking'
  BY <1>1, <1>3, <1>4, <1>5, <1>6, <1>7, Zenon DEF Looking
<1>9. QED
  BY <1>1, <1>2, <1>8, Zenon DEF SniffInv, SniffFindsHost

LEMMA ExpireSniff == SniffInv /\ Expire => SniffInv'
<1> SUFFICES ASSUME SniffInv, Expire PROVE SniffInv'
  BY Zenon
<1>1. sniffing \in {"peek", "wait"} /\ GiveUp /\ expired' = TRUE /\ UNCHANGED <<stream, arrived, eof, ready>>
  BY Zenon DEF Expire
<1>2. ~Hopeful'
  BY <1>1, Zenon DEF Hopeful
<1>3. QED
  BY <1>1, <1>2, GiveUpSniff, Zenon

LEMMA SniffStep == SniffInv /\ SniffNext => SniffInv'
BY ArriveSniff, PeekSniff, WaitSniff, ExpireSniff, Zenon DEF SniffNext

\* The rest of the front end leaves a search alone, or has done with it.
LEMMA SameSniff == SniffInv /\ UNCHANGED sniffVars => SniffInv'
<1> SUFFICES ASSUME SniffInv, UNCHANGED sniffVars PROVE SniffInv'
  BY Zenon
<1>1. UNCHANGED <<stream, arrived, eof, engine, peek, last, attempt, sniffing, found, ready, expired>>
  BY Zenon DEF sniffVars
<1>2. Looking => Looking'
  BY <1>1, Zenon DEF Looking, Hopeful
<1>3. SniffFindsHost'
  BY <1>1, Zenon DEF SniffInv, SniffFindsHost
<1>4. QED
  BY <1>1, <1>2, <1>3, Zenon DEF SniffInv

LEMMA OverSniff == sniffing' = "over" => SniffInv'
BY Zenon DEF SniffInv, SniffFindsHost

-----------------------------------------------------------------------------
(* The sniffers within the front end. *)

SearchInv == SniffInv /\ (query # None => sniffing = "over")

LEMMA SearchStep == SearchInv /\ [Next]_vars => SearchInv'
<1> SUFFICES ASSUME SearchInv, [Next]_vars PROVE SearchInv'
  BY Zenon
<1>1. CASE SniffNext /\ UNCHANGED <<socksVars, query>>
  <2>1. SniffInv'
    BY <1>1, SniffStep, ZenonT(30) DEF SearchInv
  <2>2. sniffing # "over"
    BY <1>1, Zenon DEF SniffNext, Arrive, Peek, WaitForMore, Expire
  <2>3. QED
    BY <1>1, <2>1, <2>2, Zenon DEF SearchInv
<1>2. CASE Sniffed
  BY <1>2, OverSniff, Zenon DEF SearchInv, Sniffed
<1>3. CASE Route
  <2>1. UNCHANGED sniffVars /\ sniffing = "over"
    BY <1>3, Zenon DEF Route
  <2>2. sniffing' = "over"
    BY <2>1, Zenon DEF sniffVars
  <2>3. QED
    BY <2>2, OverSniff, Zenon DEF SearchInv
<1>4. CASE Proxy
  <2>1. sniffing' = "over"
    BY <1>4, Zenon DEF Proxy, SearchInv
  <2>2. QED
    BY <2>1, OverSniff, Zenon DEF SearchInv
<1>5. CASE HealthCheck
  <2>1. sniffing' = "over"
    BY <1>5, Zenon DEF HealthCheck
  <2>2. QED
    BY <2>1, OverSniff, Zenon DEF SearchInv
<1>6. CASE UNCHANGED <<sniffVars, query>>
  <2>1. SniffInv'
    BY <1>6, SameSniff, Zenon DEF SearchInv
  <2>2. UNCHANGED <<sniffing, query>>
    BY <1>6, Zenon DEF sniffVars
  <2>3. QED
    BY <2>1, <2>2, Zenon DEF SearchInv
<1>7. QED
  BY <1>1, <1>2, <1>3, <1>4, <1>5, <1>6, Zenon DEF Next, vars

\* Whatever a client sends, and in whatever pieces it arrives, no name is
\* reported but the one that the stream carries, in a header that is text or in
\* records of a legal length; and that one is, if it was there from the
\* beginning, an engine of its protocol may look that far, and no timer ran out
\* (sniff_domain, sniff_with_engine, the two parsers): the prefix doubles often
\* enough, and no attempt sees less than the one before.
THEOREM SniffFindsHostHolds == Spec => []SniffFindsHost
<1>1. Init => SearchInv
  BY SniffStarts, Zenon DEF Init, SearchInv
<1>2. SearchInv => SniffFindsHost
  BY Zenon DEF SearchInv, SniffInv
<1>3. QED
  BY <1>1, <1>2, SearchStep, PTL DEF Spec

-----------------------------------------------------------------------------
(* Sorted tables. *)

LEMMA GreatestNat ==
    ASSUME NEW n \in Nat, NEW T, T \subseteq 0 .. n, T # {}
    PROVE  Max(T) \in T /\ \A k \in T : Max(T) >= k
<1> DEFINE U == {n - k : k \in T}
<1>1. U \subseteq Nat /\ U # {}
  <2>1. \A k \in T : n - k \in Nat
    BY SMT, SMTT(30)
  <2>2. QED
    BY <2>1, Zenon
<1>2. Min(U) \in U /\ \A u \in U : Min(U) <= u
  BY <1>1, LeastNat, Zenon
<1>3. PICK m \in T : Min(U) = n - m
  BY <1>2, Zenon
<1>4. ASSUME NEW k \in T PROVE m >= k
  <2>1. n - m <= n - k
    BY <1>2, <1>3, Zenon
  <2>2. QED
    BY <1>3, <1>4, <2>1, SMT, SMTT(30)
<1>5. QED
  BY <1>4, Zenon DEF Max

\* order lists rows, greatest key first.
Lists(order, rows, key) ==
    /\ DOMAIN order = 1 .. Cardinality(rows) /\ Cardinality(rows) \in Nat
    /\ \A k \in DOMAIN order : order[k] \in rows
    /\ \A i \in rows : \E k \in DOMAIN order : order[k] = i
    /\ \A k, l \in DOMAIN order : k < l => key[order[k]] >= key[order[l]]

LEMMA SortedLists ==
    ASSUME NEW n \in Nat, NEW rows \in SUBSET (1 .. n), NEW key, \A i \in rows : key[i] \in Nat
    PROVE  Lists(SortedRows(rows, key), rows, key)
<1> DEFINE Down(i) == {j \in rows : key[j] > key[i] \/ (key[j] = key[i] /\ j <= i)}
           c == Cardinality(rows)
           place == [i \in rows |-> Cardinality(Down(i))]
           order == SortedRows(rows, key)
<1>1. IsFiniteSet(rows) /\ c \in Nat
  <2>1. IsFiniteSet(1 .. n)
    BY FS_Interval, SMT, SMTT(30)
  <2>2. IsFiniteSet(rows)
    BY <2>1, FS_Subset, Zenon
  <2>3. QED
    BY <2>2, FS_CardinalityType, Zenon
<1>2. rows \subseteq Int
  BY SMT, SMTT(30)
<1>3. \A i \in rows : IsFiniteSet(Down(i)) /\ i \in Down(i) /\ Cardinality(Down(i)) \in 1 .. c
  <2>1. SUFFICES ASSUME NEW i \in rows
                 PROVE  IsFiniteSet(Down(i)) /\ i \in Down(i) /\ Cardinality(Down(i)) \in 1 .. c
    BY Zenon
  <2>2. i \in Down(i)
    BY <1>2, SMT, SMTT(30)
  <2>3. Down(i) \subseteq rows
    BY Zenon
  <2>4. IsFiniteSet(Down(i)) /\ Cardinality(Down(i)) <= c
    BY <1>1, <2>3, FS_Subset, Zenon
  <2> DEFINE D == Down(i)
  <2> HIDE DEF D
  <2>5. IsFiniteSet(D) /\ i \in D
    BY <2>2, <2>4, Zenon DEF D
  <2>6. Cardinality(D) \in Nat /\ Cardinality(D) # 0
    BY <2>5, FS_CardinalityType, FS_EmptySet, Zenon
  <2>7. Cardinality(Down(i)) \in Nat /\ Cardinality(Down(i)) # 0
    BY <2>6, Zenon DEF D
  <2> DEFINE p == Cardinality(Down(i))
  <2> HIDE DEF p, c, Down
  <2>8. p \in 1 .. c
    BY <1>1, <2>4, <2>7, SMT, SMTT(30) DEF p
  <2>9. QED
    BY <2>2, <2>4, <2>8, Zenon DEF p
\* What comes before i comes before all that i comes before.
<1>4. \A i, j \in rows : i # j /\ i \in Down(j) => place[i] < place[j]
  <2>1. SUFFICES ASSUME NEW i \in rows, NEW j \in rows, i # j, i \in Down(j)
                 PROVE  place[i] < place[j]
    BY Zenon
  <2>2. Down(i) \subseteq Down(j) /\ j \notin Down(i)
    <3>1. ASSUME NEW k \in rows, k \in Down(i) PROVE k \in Down(j)
      <4>1. key[k] \in Nat /\ key[i] \in Nat /\ key[j] \in Nat /\ k \in Int /\ i \in Int /\ j \in Int
        BY <1>2, Zenon
      <4>2. /\ key[k] > key[i] \/ (key[k] = key[i] /\ k <= i)
            /\ key[i] > key[j] \/ (key[i] = key[j] /\ i <= j)
        BY <2>1, <3>1, Zenon
      <4>3. key[k] > key[j] \/ (key[k] = key[j] /\ k <= j)
        BY <4>1, <4>2, SMT, SMTT(30)
      <4>4. QED
        BY <4>3, Zenon
    <3>2. j \notin Down(i)
      BY <1>2, <2>1, SMT, SMTT(30)
    <3>3. QED
      BY <3>1, <3>2, Zenon
  <2>3. Down(i) # Down(j)
    BY <1>3, <2>2, Zenon
  <2>4. Cardinality(Down(i)) <= Cardinality(Down(j)) /\ Cardinality(Down(i)) # Cardinality(Down(j))
    BY <1>3, <2>2, <2>3, FS_Subset, Zenon
  <2>5. place[i] \in Nat /\ place[j] \in Nat /\ place[i] = Cardinality(Down(i)) /\ place[j] = Cardinality(Down(j))
    BY <1>3, SMT, SMTT(30)
  <2> HIDE DEF place, Down
  <2>6. QED
    BY <2>4, <2>5, SMT, SMTT(30)
<1>5. \A i, j \in rows : i \in Down(j) \/ j \in Down(i)
  BY <1>2, SMT, SMTT(30)
<1>6. place \in [rows -> 1 .. c]
  BY <1>3, Zenon
<1>7. \A i, j \in rows : place[i] = place[j] => i = j
  <2>1. SUFFICES ASSUME NEW i \in rows, NEW j \in rows, i # j PROVE place[i] # place[j]
    BY Zenon
  <2>2. place[i] < place[j] \/ place[j] < place[i]
    BY <1>4, <1>5, <2>1, Zenon
  <2>3. place[i] \in Int /\ place[j] \in Int
    BY <1>6, SMT, SMTT(30)
  <2> HIDE DEF place
  <2>4. QED
    BY <2>2, <2>3, SMT, SMTT(30)
<1>8. \A k \in 1 .. c : \E i \in rows : place[i] = k
  <2> HIDE DEF place, c
  <2>1. place \in Injection(rows, 1 .. c)
    BY <1>6, <1>7, Zenon DEF Injection, IsInjective
  <2>2. IsFiniteSet(1 .. c) /\ Cardinality(1 .. c) = c
    <3>1. 1 \in Int /\ c \in Int /\ (IF 1 > c THEN 0 ELSE c - 1 + 1) = c
      BY <1>1, SMT, SMTT(30)
    <3>2. IsFiniteSet(1 .. c) /\ Cardinality(1 .. c) = IF 1 > c THEN 0 ELSE c - 1 + 1
      BY <3>1, FS_Interval, Zenon
    <3>3. QED
      BY <3>1, <3>2, SMT, SMTT(30)
  <2>3. Cardinality(rows) = Cardinality(1 .. c)
    BY <2>2, Zenon DEF c
  <2>4. place \in Surjection(rows, 1 .. c)
    BY <2>1, <2>2, <2>3, FS_Injection, Zenon
  <2>5. QED
    BY <2>4, Zenon DEF Surjection
<1>9. /\ DOMAIN order = 1 .. c
      /\ \A k \in 1 .. c : order[k] = CHOOSE i \in rows : Cardinality(Down(i)) = k
  <2>1. order = [k \in 1 .. c |-> CHOOSE i \in rows : Cardinality(Down(i)) = k]
    BY Zenon DEF SortedRows
  <2> HIDE DEF order, place, Down, c
  <2>2. QED
    BY <2>1, Zenon
<1>10. \A k \in 1 .. c : order[k] \in rows /\ place[order[k]] = k
  <2>1. \A i \in rows : place[i] = Cardinality(Down(i))
    BY Zenon
  <2> HIDE DEF order, place, Down, c
  <2>2. ASSUME NEW k \in 1 .. c PROVE order[k] \in rows /\ Cardinality(Down(order[k])) = k
    <3>1. \E i \in rows : Cardinality(Down(i)) = k
      BY <1>8, <2>1, Zenon
    <3>2. order[k] = CHOOSE i \in rows : Cardinality(Down(i)) = k
      BY <1>9, Zenon
    <3>3. QED
      BY <3>1, <3>2, Zenon
  <2>3. QED
    BY <2>1, <2>2, Zenon
<1> HIDE DEF place, order, c
<1>11. \A i \in rows : place[i] \in 1 .. c /\ order[place[i]] = i
  BY <1>6, <1>7, <1>10, Zenon
<1>12. ASSUME NEW k \in 1 .. c, NEW l \in 1 .. c, k < l
       PROVE  key[order[k]] >= key[order[l]]
  <2> DEFINE i == order[k]
             j == order[l]
  <2>1. i \in rows /\ j \in rows /\ place[i] = k /\ place[j] = l
    BY <1>10, Zenon
  <2> HIDE DEF i, j
  <2>2. SUFFICES ASSUME ~(key[i] >= key[j]) PROVE FALSE
    BY Zenon DEF i, j
  <2>3. i # j /\ j \in Down(i)
    BY <2>1, <2>2, SMT, SMTT(30)
  <2>4. place[j] < place[i]
    BY <1>4, <2>1, <2>3, Zenon
  <2>5. l < k /\ k \in Int /\ l \in Int
    BY <1>1, <2>1, <2>4, SMT, SMTT(30)
  <2>6. QED
    BY <1>12, <2>5, SMT, SMTT(30)
<1>13. QED
  BY <1>1, <1>9, <1>10, <1>11, <1>12, Zenon DEF Lists, order, c

\* The first listed row of a set has the greatest key of the set.
LEMMA FirstListed ==
    ASSUME NEW order, NEW rows, NEW key, Lists(order, rows, key), \A i \in rows : key[i] \in Nat,
           NEW P, P \subseteq rows, P # {},
           NEW hits, hits = {k \in DOMAIN order : order[k] \in P}
    PROVE  /\ hits # {} /\ Min(hits) \in DOMAIN order /\ order[Min(hits)] \in P
           /\ \A i \in P : key[i] <= key[order[Min(hits)]]
<1> DEFINE m == Min(hits)
<1>1. DOMAIN order \subseteq Nat
  BY SMT, SMTT(30) DEF Lists
<1>2. \A i \in rows : \E k \in DOMAIN order : order[k] = i
  BY Zenon DEF Lists
<1>3. hits # {}
  BY <1>2, Zenon
<1>4. hits \subseteq Nat
  BY <1>1, Zenon
<1>5. m \in hits /\ \A k \in hits : m <= k
  BY <1>3, <1>4, LeastNat, Zenon
<1> HIDE DEF m
<1>6. m \in DOMAIN order /\ order[m] \in P
  BY <1>5, Zenon
<1>7. ASSUME NEW i \in P PROVE key[i] <= key[order[m]]
  <2>1. PICK k \in DOMAIN order : order[k] = i
    BY <1>2, <1>7, Zenon
  <2>2. k \in hits /\ m <= k
    BY <1>5, <1>7, <2>1, Zenon
  <2>3. CASE m = k
    BY <1>7, <2>1, <2>3, SMT, SMTT(30)
  <2>4. CASE m # k
    <3>1. m < k
      BY <1>1, <1>6, <2>1, <2>2, <2>4, SMT, SMTT(30)
    <3>2. key[order[m]] >= key[order[k]]
      BY <1>6, <2>1, <3>1, Zenon DEF Lists
    <3>3. key[order[m]] \in Nat /\ key[i] \in Nat
      BY <1>6, <1>7, Zenon
    <3>4. QED
      BY <2>1, <3>2, <3>3, Zenon
  <2>5. QED
    BY <2>3, <2>4, Zenon
<1>8. QED
  BY <1>3, <1>6, <1>7, Zenon DEF m

\* What Finalize makes of a table: its rows, longest prefix first.
Finalized(table, order) ==
    /\ Lists(order, DOMAIN table, [i \in DOMAIN table |-> table[i].net.len])
    /\ Finalize(table) = [k \in DOMAIN order |-> table[order[k]]]

LEMMA FinalizeSorts ==
    ASSUME NEW n \in Nat, NEW table, DOMAIN table = 1 .. n, \A i \in DOMAIN table : table[i].net.len \in Nat
    PROVE  \E order : Finalized(table, order)
<1> DEFINE key == [i \in DOMAIN table |-> table[i].net.len]
<1>1. \A i \in DOMAIN table : key[i] \in Nat
  BY Zenon
<1> HIDE DEF key
<1>2. Lists(SortedRows(DOMAIN table, key), DOMAIN table, key)
  BY <1>1, SortedLists, Zenon
<1>3. QED
  BY <1>2, Zenon DEF Finalized, Finalize, key

\* The rows of a table that match and answer, and the answers in their order.
Answering(table, ip, ans) == {i \in DOMAIN table : NetContains(table[i].net, ip) /\ ans[table[i]] # None}
AnswersOf(table, ans) == [k \in DOMAIN Finalize(table) |-> ans[Finalize(table)[k]]]

Longest(table, rows, ans, reply) ==
    \/ rows = {} /\ reply = None
    \/ \E i \in rows : /\ reply = ans[table[i]]
                       /\ \A j \in rows : table[j].net.len <= table[i].net.len

\* find_map_matching answers with a row of the longest prefix among those that
\* match and answer.
LEMMA FindsLongest ==
    ASSUME NEW n \in Nat, NEW table, DOMAIN table = 1 .. n, \A i \in DOMAIN table : table[i].net.len \in Nat,
           NEW ip, NEW ans
    PROVE  Longest(table, Answering(table, ip, ans), ans,
                   FindMapMatching(Finalize(table), ip, AnswersOf(table, ans)))
<1> DEFINE P == {i \in DOMAIN table : NetContains(table[i].net, ip) /\ ans[table[i]] # None}
           answers == [k \in DOMAIN Finalize(table) |-> ans[Finalize(table)[k]]]
<1> SUFFICES Longest(table, P, ans, FindMapMatching(Finalize(table), ip, answers))
  BY Zenon DEF Answering, AnswersOf
<1>1. PICK order : Finalized(table, order)
  BY FinalizeSorts, Zenon
<1> DEFINE key == [i \in DOMAIN table |-> table[i].net.len]
           rows == DOMAIN table
           sorted == Finalize(table)
           hits == {k \in DOMAIN order : order[k] \in P}
           found0 == {k \in DOMAIN sorted : NetContains(sorted[k].net, ip) /\ answers[k] # None}
<1>2. DOMAIN sorted = DOMAIN order /\ \A k \in DOMAIN order : sorted[k] = table[order[k]] /\ order[k] \in rows
  BY <1>1, Zenon DEF Finalized, Lists
<1>3. \A k \in DOMAIN order : answers[k] = ans[table[order[k]]]
  BY <1>2, Zenon
<1> HIDE DEF sorted
<1>4. found0 = hits
  BY <1>2, <1>3, Zenon
<1>5. FindMapMatching(sorted, ip, answers) = IF hits = {} THEN None ELSE answers[Min(hits)]
  <2>1. FindMapMatching(sorted, ip, answers) = IF found0 = {} THEN None ELSE answers[Min(found0)]
    BY Zenon DEF FindMapMatching
  <2> HIDE DEF found0, hits
  <2>2. QED
    BY <1>4, <2>1, Zenon
<1>6. CASE P = {}
  <2>1. hits = {}
    BY <1>6, Zenon
  <2>2. QED
    BY <1>5, <1>6, <2>1, Zenon DEF sorted, Longest
<1>7. CASE P # {}
  <2>1. Lists(order, rows, key) /\ \A i \in rows : key[i] = table[i].net.len /\ key[i] \in Nat
    BY <1>1, Zenon DEF Finalized
  <2>2. P \subseteq rows
    BY Zenon
  <2> DEFINE m == Min(hits)
             h == hits
  <2> HIDE DEF key
  <2>3. h = {k \in DOMAIN order : order[k] \in P}
    BY Zenon
  <2>4. h # {} /\ Min(h) \in DOMAIN order /\ order[Min(h)] \in P /\ \A i \in P : key[i] <= key[order[Min(h)]]
    <3> HIDE DEF h, rows
    <3>1. QED
      BY <1>7, <2>1, <2>2, <2>3, FirstListed, Zenon
  <2>5. hits # {} /\ m \in DOMAIN order /\ order[m] \in P /\ \A i \in P : key[i] <= key[order[m]]
    BY <2>4, Zenon
  <2> HIDE DEF h, m
  <2>6. FindMapMatching(sorted, ip, answers) = ans[table[order[m]]]
    BY <1>3, <1>5, <2>5, ZenonT(30) DEF m
  <2>7. \A j \in P : table[j].net.len <= table[order[m]].net.len
    BY <2>1, <2>2, <2>5, Zenon
  <2>8. QED
    BY <2>5, <2>6, <2>7, ZenonT(30) DEF sorted, Longest
<1>8. QED
  BY <1>6, <1>7, Zenon

-----------------------------------------------------------------------------
(* Names and patterns. *)

\* The characters of names; the provers do not know a literal for a string.
Chars == STRING \cup {"a"}

IsCanonical(d) ==
    /\ d \in Seq(Chars)
    /\ d # <<>> => d[1] # "." /\ d[Len(d)] # "."
    /\ \A i \in DOMAIN d : d[i] # "A"

LEMMA StringNames == Seq(STRING) \subseteq Seq(Chars)
<1>1. STRING \subseteq Chars
  BY Zenon DEF Chars
<1>2. QED
  BY <1>1, SeqMonotonic, Zenon

LEMMA LowerFacts ==
    ASSUME NEW s \in Seq(Chars)
    PROVE  /\ Lower(s) \in Seq(Chars) /\ Len(Lower(s)) = Len(s) /\ DOMAIN Lower(s) = DOMAIN s
           /\ \A i \in DOMAIN s : Lower(s)[i] = IF s[i] = "A" THEN "a" ELSE s[i]
<1>1. Len(s) \in Nat /\ DOMAIN s = 1 .. Len(s)
  BY LenProperties, Zenon
<1>2. \A i \in DOMAIN s : s[i] \in Chars
  BY <1>1, ElementOfSeq, Zenon
<1>3. Lower(s) \in [1 .. Len(s) -> Chars]
  <2>1. \A i \in DOMAIN s : (IF s[i] = "A" THEN "a" ELSE s[i]) \in Chars
    <3>1. "a" \in Chars
      BY Zenon DEF Chars
    <3>2. QED
      BY <1>2, <3>1, Zenon
  <2>2. Lower(s) \in [DOMAIN s -> Chars]
    BY <2>1, Zenon DEF Lower
  <2>3. QED
    BY <1>1, <2>2, Zenon
<1>4. Lower(s) \in Seq(Chars)
  BY <1>1, <1>3, SeqDef, Zenon
<1>5. Len(Lower(s)) = Len(s)
  BY <1>1, <1>3, <1>4, LenProperties, SMT, SMTT(30)
<1>6. QED
  BY <1>4, <1>5, Zenon DEF Lower

LEMMA CanonicalFacts ==
    ASSUME NEW x \in Seq(Chars)
    PROVE  IsCanonical(CanonicalDomain(x))
<1> DEFINE kept == {i \in DOMAIN x : x[i] # "."}
           lo == Min(kept)
           hi == Max(kept)
           cut == SubSeq(x, lo, hi)
           low == Lower(cut)
<1>1. Len(x) \in Nat /\ DOMAIN x = 1 .. Len(x)
  BY LenProperties, Zenon
<1>2. CASE kept = {}
  <2>1. CanonicalDomain(x) = <<>>
    BY <1>2, Zenon DEF CanonicalDomain
  <2>2. <<>> \in Seq(Chars) /\ \A i \in DOMAIN <<>> : FALSE
    BY SMT, SMTT(30)
  <2>3. QED
    BY <2>1, <2>2, Zenon DEF IsCanonical
<1>3. CASE kept # {}
  <2>1. kept \subseteq Nat /\ kept \subseteq 0 .. Len(x)
    BY <1>1, SMT, SMTT(30)
  <2>2. lo \in kept /\ \A k \in kept : lo <= k
    BY <1>3, <2>1, LeastNat, Zenon
  <2>3. hi \in kept /\ \A k \in kept : hi >= k
    BY <1>1, <1>3, <2>1, GreatestNat, Zenon
  <2>4. CanonicalDomain(x) = low
    BY <1>3, Zenon DEF CanonicalDomain
  <2>5. lo \in 1 .. Len(x) /\ hi \in 1 .. Len(x) /\ lo <= hi /\ x[lo] # "." /\ x[hi] # "."
    BY <1>1, <2>2, <2>3, Zenon
  <2> HIDE DEF lo, hi, low, cut
  <2>6. cut \in Seq(Chars) /\ Len(cut) = hi - lo + 1 /\ cut[1] = x[lo] /\ cut[Len(cut)] = x[hi]
    <3>1. cut \in Seq(Chars) /\ Len(cut) = hi - lo + 1 /\ \A i \in 1 .. hi - lo + 1 : cut[i] = x[lo + i - 1]
      BY <1>1, <2>5, SubSeqProperties, SMT, SMTT(30) DEF cut
    <3>2. 1 \in 1 .. hi - lo + 1 /\ hi - lo + 1 \in 1 .. hi - lo + 1 /\ lo + 1 - 1 = lo /\ lo + (hi - lo + 1) - 1 = hi
      BY <2>5, SMT, SMTT(30)
    <3>3. QED
      BY <3>1, <3>2, Zenon
  <2>7. DOMAIN cut = 1 .. Len(cut) /\ 1 \in DOMAIN cut /\ Len(cut) \in DOMAIN cut
    BY <2>5, <2>6, LenProperties, SMT, SMTT(30)
  <2>8. /\ low \in Seq(Chars) /\ Len(low) = Len(cut) /\ DOMAIN low = DOMAIN cut
        /\ \A i \in DOMAIN cut : low[i] = IF cut[i] = "A" THEN "a" ELSE cut[i]
    BY <2>6, LowerFacts, Zenon DEF low
  <2>9. low[1] # "." /\ low[Len(low)] # "." /\ \A i \in DOMAIN low : low[i] # "A"
    BY <2>5, <2>6, <2>7, <2>8, Zenon
  <2>10. QED
    BY <2>4, <2>8, <2>9, Zenon DEF IsCanonical
<1>4. QED
  BY <1>2, <1>3, Zenon

LEMMA CanonicalSame ==
    ASSUME NEW d, IsCanonical(d)
    PROVE  CanonicalDomain(d) = d
<1> DEFINE kept == {i \in DOMAIN d : d[i] # "."}
           lo == Min(kept)
           hi == Max(kept)
<1>1. d \in Seq(Chars) /\ Len(d) \in Nat /\ DOMAIN d = 1 .. Len(d)
  <2>1. d \in Seq(Chars)
    BY Zenon DEF IsCanonical
  <2>2. QED
    BY <2>1, LenProperties, Zenon
<1>2. CASE d = <<>>
  <2>1. kept = {}
    BY <1>2, SMT, SMTT(30)
  <2>2. QED
    BY <1>2, <2>1, Zenon DEF CanonicalDomain
<1>3. CASE d # <<>>
  <2>1. Len(d) >= 1
    BY <1>1, <1>3, EmptySeq, SMT, SMTT(30)
  <2>2. 1 \in kept /\ Len(d) \in kept
    BY <1>1, <1>3, <2>1, SMT, SMTT(30) DEF IsCanonical
  <2>3. kept \subseteq Nat /\ kept \subseteq 0 .. Len(d) /\ kept # {}
    BY <1>1, <2>2, SMT, SMTT(30)
  <2>4. lo \in kept /\ \A k \in kept : lo <= k
    BY <2>3, LeastNat, Zenon
  <2>5. hi \in kept /\ \A k \in kept : hi >= k
    BY <1>1, <2>3, GreatestNat, Zenon
  <2>6. lo = 1 /\ hi = Len(d)
    <3>1. lo \in DOMAIN d /\ hi \in DOMAIN d /\ lo <= 1 /\ hi >= Len(d)
      BY <2>2, <2>4, <2>5, Zenon
    <3> HIDE DEF lo, hi
    <3>2. QED
      BY <1>1, <3>1, SMT, SMTT(30)
  <2>7. CanonicalDomain(d) = Lower(SubSeq(d, lo, hi))
    BY <2>3, Zenon DEF CanonicalDomain
  <2> HIDE DEF lo, hi
  <2>8. SubSeq(d, 1, Len(d)) = d
    BY <1>1, SubSeqFull, Zenon
  <2>9. Lower(d) = d
    <3>1. /\ Lower(d) \in Seq(Chars) /\ Len(Lower(d)) = Len(d) /\ DOMAIN Lower(d) = DOMAIN d
          /\ \A i \in DOMAIN d : Lower(d)[i] = IF d[i] = "A" THEN "a" ELSE d[i]
      BY <1>1, LowerFacts, Zenon
    <3>2. \A i \in DOMAIN d : Lower(d)[i] = d[i]
      BY <3>1, Zenon DEF IsCanonical
    <3>3. QED
      BY <1>1, <3>1, <3>2, SeqEqual, Zenon
  <2>10. QED
    BY <2>6, <2>7, <2>8, <2>9, Zenon
<1>4. QED
  BY <1>2, <1>3, Zenon

LEMMA CanonicalLen ==
    ASSUME NEW d, IsCanonical(d)
    PROVE  d \in Seq(Chars) /\ Len(d) \in Nat /\ DOMAIN d = 1 .. Len(d) /\ (d # <<>> => Len(d) >= 1)
<1>1. d \in Seq(Chars)
  BY Zenon DEF IsCanonical
<1>2. QED
  BY <1>1, LenProperties, EmptySeq, SMT, SMTT(30)

\* domain_matches_suffix on names that are canonical.
LEMMA SuffixMeans ==
    ASSUME NEW d, NEW s, IsCanonical(d), IsCanonical(s)
    PROVE  DomainMatchesSuffix(d, s) <=>
             \/ d = s
             \/ Len(d) > Len(s) /\ EndsWith(d, s) /\ d[Len(d) - Len(s)] = "."
<1>1. CanonicalDomain(d) = d /\ CanonicalDomain(s) = s
  BY CanonicalSame, Zenon
<1>2. QED
  BY <1>1, Zenon DEF DomainMatchesSuffix

\* The names looked up in turn are the suffixes that match.
LEMMA ParentsMatch ==
    ASSUME NEW d, NEW s, IsCanonical(d), d # <<>>, IsCanonical(s)
    PROVE  s # <<>> /\ s \in Parents(d) <=> DomainMatchesSuffix(d, s)
<1>1. d \in Seq(Chars) /\ Len(d) \in Nat /\ DOMAIN d = 1 .. Len(d) /\ Len(d) >= 1
  BY CanonicalLen, Zenon
<1>2. s \in Seq(Chars) /\ Len(s) \in Nat /\ (s # <<>> => Len(s) >= 1) /\ Len(<<>>) = 0
  BY CanonicalLen, EmptySeq, Zenon
<1>3. ASSUME s # <<>>, s \in Parents(d) PROVE DomainMatchesSuffix(d, s)
  <2>1. CASE s = d
    BY <2>1, SuffixMeans, Zenon
  <2>2. CASE s # d
    <3>1. PICK i \in DOMAIN d : d[i] = "." /\ s = SubSeq(d, i + 1, Len(d))
      BY <1>3, <2>2, Zenon DEF Parents
    <3>2. \A k \in i + 1 .. Len(d) : d[k] \in Chars
      BY <1>1, <3>1, SMT, SMTT(30)
    <3>3. i + 1 \in Int /\ Len(d) \in Int
      BY <1>1, <3>1, SMT, SMTT(30)
    <3>4. Len(s) = IF i + 1 <= Len(d) THEN Len(d) - (i + 1) + 1 ELSE 0
      BY <3>1, <3>2, <3>3, SubSeqProperties, SMT, SMTT(30)
    <3>5. Len(d) > Len(s) /\ Len(d) - Len(s) = i /\ Len(d) >= Len(s) /\ Len(d) - Len(s) + 1 = i + 1
      <4> DEFINE l == Len(d)
                 k == Len(s)
      <4>1. l \in Nat /\ k \in Nat /\ i \in 1 .. l /\ k >= 1 /\ k = IF i + 1 <= l THEN l - (i + 1) + 1 ELSE 0
        BY <1>1, <1>2, <1>3, <3>1, <3>4, Zenon
      <4> HIDE DEF l, k
      <4>2. l > k /\ l - k = i /\ l >= k /\ l - k + 1 = i + 1
        BY <4>1, SMT, SMTT(30)
      <4>3. QED
        BY <4>2, Zenon DEF l, k
    <3>6. EndsWith(d, s)
      BY <3>1, <3>5, Zenon DEF EndsWith
    <3>7. QED
      BY <3>1, <3>5, <3>6, SuffixMeans, Zenon
  <2>3. QED
    BY <2>1, <2>2, Zenon
<1>4. ASSUME DomainMatchesSuffix(d, s) PROVE s # <<>> /\ s \in Parents(d)
  <2>1. CASE d = s
    BY <2>1, Zenon DEF Parents
  <2>2. CASE d # s
    <3> DEFINE i == Len(d) - Len(s)
    <3>1. Len(d) > Len(s) /\ EndsWith(d, s) /\ d[i] = "."
      BY <1>4, <2>2, SuffixMeans, Zenon
    <3>2. i \in DOMAIN d /\ SubSeq(d, i + 1, Len(d)) = s
      BY <1>1, <1>2, <3>1, SMT, SMTT(30) DEF EndsWith
    <3>3. s # <<>>
      <4>1. SUFFICES ASSUME s = <<>> PROVE FALSE
        BY Zenon
      <4>2. i = Len(d)
        BY <1>1, <1>2, <4>1, SMT, SMTT(30)
      <4>3. QED
        BY <3>1, <4>2, Zenon DEF IsCanonical
    <3>4. s \in Parents(d)
      <4> HIDE DEF i
      <4>1. QED
        BY <3>1, <3>2, Zenon DEF Parents
    <3>5. QED
      BY <3>3, <3>4, Zenon
  <2>3. QED
    BY <2>1, <2>2, Zenon
<1>5. QED
  BY <1>3, <1>4, Zenon

\* A suffix that matches is no longer than the name.
LEMMA MatchedNoLonger ==
    ASSUME NEW d, NEW s, IsCanonical(d), IsCanonical(s), DomainMatchesSuffix(d, s)
    PROVE  Len(s) <= Len(d)
<1>1. Len(d) \in Nat /\ Len(s) \in Nat
  BY CanonicalLen, Zenon
<1>2. d = s \/ Len(d) > Len(s)
  BY SuffixMeans, Zenon
<1>3. QED
  BY <1>1, <1>2, SMT, SMTT(30)

LEMMA SuffixCanonical ==
    ASSUME NEW p \in Seq(Chars)
    PROVE  /\ IsCanonical(CanonicalDomain(p))
           /\ IsSuffixPattern(p) => IsCanonical(SuffixOf(p))
<1>1. IsSuffixPattern(p) => Tail(p) \in Seq(Chars)
  BY HeadTailProperties, Zenon DEF IsSuffixPattern
<1>2. QED
  BY <1>1, CanonicalFacts, Zenon DEF SuffixOf

\* A compiled list of domains holds what one of its patterns matches.
LEMMA DomainSetHolds ==
    ASSUME NEW patterns, patterns \subseteq Seq(Chars), NEW d, IsCanonical(d), d # <<>>
    PROVE  MatchesCanonical(DomainSet(patterns), d) <=> \E p \in patterns : PatternMatches(p, d)
<1> DEFINE set == DomainSet(patterns)
<1>1. \A p \in patterns : IsSuffixPattern(p) => IsCanonical(SuffixOf(p))
  BY SuffixCanonical, Zenon
<1>2. \A p \in patterns : IsSuffixPattern(p) =>
        (SuffixOf(p) # <<>> /\ SuffixOf(p) \in Parents(d) <=> DomainMatchesSuffix(d, SuffixOf(p)))
  BY <1>1, ParentsMatch, Zenon
<1>3. d \in set.exact <=> \E p \in patterns : ~IsSuffixPattern(p) /\ CanonicalDomain(p) = d
  BY Zenon DEF DomainSet
<1>4. Parents(d) \cap set.suffixes # {} <=>
        \E p \in patterns : IsSuffixPattern(p) /\ SuffixOf(p) # <<>> /\ SuffixOf(p) \in Parents(d)
  <2>1. set.suffixes = {SuffixOf(p) : p \in {q \in patterns : IsSuffixPattern(q)}} \ {<<>>}
    BY Zenon DEF DomainSet
  <2> HIDE DEF set
  <2>2. QED
    BY <2>1, Zenon
<1> HIDE DEF set
<1>5. MatchesCanonical(set, d) <=> \E p \in patterns : PatternMatches(p, d)
  BY <1>2, <1>3, <1>4, Zenon DEF MatchesCanonical, PatternMatches
<1>6. QED
  BY <1>5, Zenon DEF set

\* A compiled tag holds what one of its rules matches.
LEMMA GeositeHolds ==
    ASSUME NEW rules, \A r \in rules : r.value \in Seq(Chars), NEW d, IsCanonical(d), d # <<>>
    PROVE  CompiledGeositeContains(CompileGeosite(rules), d) <=> \E r \in rules : GeositeDomainMatch(r, d)
<1> DEFINE tag == CompileGeosite(rules)
           value(r) == CanonicalDomain(r.value)
<1>1. CanonicalDomain(d) = d
  BY CanonicalSame, Zenon
<1>2. \A r \in rules : IsCanonical(value(r))
  BY CanonicalFacts, Zenon
<1>3. \A r \in rules : value(r) # <<>> /\ value(r) \in Parents(d) <=> DomainMatchesSuffix(d, value(r))
  BY <1>2, ParentsMatch, ZenonT(30)
<1>4. /\ tag.exact = {value(r) : r \in {q \in rules : q.type = "full"}} \ {<<>>}
      /\ tag.suffixes = {value(r) : r \in {q \in rules : q.type = "domain"}} \ {<<>>}
      /\ tag.plain = {value(r) : r \in {q \in rules : q.type = "plain"}} \ {<<>>}
  BY Zenon DEF CompileGeosite
<1>5. \A r \in rules : GeositeDomainMatch(r, d) <=>
        \/ r.type = "plain" /\ value(r) # <<>> /\ ContainsText(d, value(r))
        \/ r.type = "domain" /\ DomainMatchesSuffix(d, value(r))
        \/ r.type = "full" /\ value(r) # <<>> /\ d = value(r)
  BY <1>1, Zenon DEF GeositeDomainMatch
<1>6. CompiledGeositeContains(tag, d) <=>
        d \in tag.exact \/ Parents(d) \cap tag.suffixes # {} \/ \E p \in tag.plain : ContainsText(d, p)
  BY <1>1, Zenon DEF CompiledGeositeContains
<1> HIDE DEF tag, value
<1>7. d \in tag.exact <=> \E r \in rules : r.type = "full" /\ value(r) # <<>> /\ d = value(r)
  BY <1>4, Zenon
<1>8. Parents(d) \cap tag.suffixes # {} <=> \E r \in rules : r.type = "domain" /\ DomainMatchesSuffix(d, value(r))
  <2>1. Parents(d) \cap tag.suffixes # {} <=>
          \E r \in rules : r.type = "domain" /\ value(r) # <<>> /\ value(r) \in Parents(d)
    BY <1>4, Zenon
  <2>2. QED
    BY <1>3, <2>1, Zenon
<1>9. (\E p \in tag.plain : ContainsText(d, p)) <=>
        \E r \in rules : r.type = "plain" /\ value(r) # <<>> /\ ContainsText(d, value(r))
  BY <1>4, Zenon
<1>10. CompiledGeositeContains(tag, d) <=> \E r \in rules : GeositeDomainMatch(r, d)
  BY <1>5, <1>6, <1>7, <1>8, <1>9, Zenon
<1>11. QED
  BY <1>10, Zenon DEF tag

\* What a lookup in the patterns of a client answers.
PatternPicked(map, d, group) ==
    LET hits == {i \in DOMAIN map : PatternMatches(map[i].pattern, d)}
    IN \/ hits = {} /\ group = None
       \/ \E i \in hits : /\ group = map[i].group
                          /\ \A j \in hits : PatternRank(map[j].pattern) <= PatternRank(map[i].pattern)

LEMMA DomainLookupPicks ==
    ASSUME NEW n \in Nat, NEW map, DOMAIN map = 1 .. n, \A i \in DOMAIN map : map[i].pattern \in Seq(Chars),
           NEW d, IsCanonical(d)
    PROVE  PatternPicked(map, d, DomainLookup(DomainRouteTable(map), d))
<1> DEFINE whole == {i \in DOMAIN map : ~IsSuffixPattern(map[i].pattern)}
           tails == DOMAIN map \ whole
           key == [i \in tails |-> Len(SuffixOf(map[i].pattern))]
           order == SortedRows(tails, key)
           same == {i \in whole : CanonicalDomain(map[i].pattern) = d}
           ending == {i \in tails : DomainMatchesSuffix(d, SuffixOf(map[i].pattern))}
           hits == {i \in DOMAIN map : PatternMatches(map[i].pattern, d)}
           rank == [i \in DOMAIN map |-> PatternRank(map[i].pattern)]
           table == DomainRouteTable(map)
           listed == {k \in DOMAIN order : order[k] \in ending}
<1>1. CanonicalDomain(d) = d /\ Len(d) \in Nat
  BY CanonicalSame, CanonicalLen, Zenon
<1>2. hits = same \cup ending
  BY Zenon DEF PatternMatches
<1>3. \A i \in tails : IsCanonical(SuffixOf(map[i].pattern))
  BY SuffixCanonical, Zenon
<1>4. \A i \in tails : key[i] \in Nat /\ rank[i] = key[i]
  <2>1. \A i \in tails : Len(SuffixOf(map[i].pattern)) \in Nat
    BY <1>3, CanonicalLen, Zenon
  <2>2. QED
    BY <2>1, Zenon DEF PatternRank
<1>5. \A i \in same : rank[i] = Len(d) + 1
  BY Zenon DEF PatternRank
<1>6. \A i \in ending : key[i] <= Len(d)
  <2>1. \A i \in ending : Len(SuffixOf(map[i].pattern)) <= Len(d)
    BY <1>3, MatchedNoLonger, Zenon
  <2>2. QED
    BY <2>1, Zenon
<1>7. Lists(order, tails, key)
  <2>1. tails \in SUBSET (1 .. n)
    BY Zenon
  <2>2. \A i \in tails : key[i] \in Nat
    BY <1>4, ZenonT(30)
  <2> HIDE DEF tails, key
  <2>3. QED
    BY <2>1, <2>2, SortedLists, Zenon
<1>8. /\ table.exact = [name \in {CanonicalDomain(map[i].pattern) : i \in whole} |->
                           map[Max({i \in whole : CanonicalDomain(map[i].pattern) = name})].group]
      /\ table.suffixes = [k \in DOMAIN order |->
                             [name |-> SuffixOf(map[order[k]].pattern), group |-> map[order[k]].group]]
  BY Zenon DEF DomainRouteTable
<1> HIDE DEF table, order, key
<1>9. d \in DOMAIN table.exact <=> same # {}
  BY <1>8, Zenon
<1>10. same # {} => table.exact[d] = map[Max(same)].group
  BY <1>8, SMT, SMTT(30)
<1>11. /\ DOMAIN table.suffixes = DOMAIN order
       /\ \A k \in DOMAIN order : /\ table.suffixes[k].name = SuffixOf(map[order[k]].pattern)
                                  /\ table.suffixes[k].group = map[order[k]].group
  BY <1>8, SMT, SMTT(30)
<1>12. \A k \in DOMAIN order : order[k] \in tails
  BY <1>7, Zenon DEF Lists
<1>13. {k \in DOMAIN table.suffixes : DomainMatchesSuffix(d, table.suffixes[k].name)} = listed
  BY <1>11, <1>12, Zenon
<1>14. DomainLookup(table, d) = IF same # {} THEN map[Max(same)].group
                                ELSE IF listed # {} THEN table.suffixes[Min(listed)].group ELSE None
  <2> DEFINE ts == {k \in DOMAIN table.suffixes : DomainMatchesSuffix(d, table.suffixes[k].name)}
  <2>1. DomainLookup(table, d) = IF d \in DOMAIN table.exact THEN table.exact[d]
                                 ELSE IF ts # {} THEN table.suffixes[Min(ts)].group ELSE None
    BY <1>1, Zenon DEF DomainLookup
  <2> HIDE DEF ts, same, listed
  <2>2. ts = listed
    BY <1>13, Zenon DEF ts, listed
  <2>3. QED
    BY <1>9, <1>10, <2>1, <2>2, Zenon
<1> DEFINE reply == DomainLookup(table, d)
<1> HIDE DEF reply
<1>15. CASE same # {}
  <2> DEFINE m == Max(same)
  <2>1. same \subseteq 0 .. n
    BY SMT, SMTT(30)
  <2>2. m \in same
    BY <1>15, <2>1, GreatestNat, Zenon
  <2>3. reply = map[m].group
    BY <1>14, <1>15, Zenon DEF reply
  <2>4. \A j \in hits : rank[j] <= rank[m]
    <3> HIDE DEF m, same, ending, rank, tails
    <3>1. \A j \in same : rank[j] <= rank[m]
      BY <1>1, <1>5, <2>2, SMT, SMTT(30)
    <3>2. \A j \in ending : j \in tails
      BY Zenon DEF ending
    <3>3. \A j \in ending : rank[j] <= rank[m]
      BY <1>1, <1>4, <1>5, <1>6, <2>2, <3>2, SMT, SMTT(30)
    <3> HIDE DEF hits
    <3>4. QED
      BY <1>2, <3>1, <3>3, Zenon
  <2> HIDE DEF m
  <2>5. m \in hits /\ \A j \in hits : PatternRank(map[j].pattern) <= PatternRank(map[m].pattern)
    BY <1>2, <2>2, <2>4, Zenon
  <2>6. QED
    BY <2>3, <2>5, Zenon DEF PatternPicked, reply, table
<1>16. CASE same = {} /\ ending # {}
  <2> DEFINE m == Min(listed)
             h == listed
             e == ending
  <2>1. ending \subseteq tails
    BY Zenon
  <2>2. h = {k \in DOMAIN order : order[k] \in e}
    BY Zenon
  <2>3. h # {} /\ Min(h) \in DOMAIN order /\ order[Min(h)] \in e /\ \A i \in e : key[i] <= key[order[Min(h)]]
    <3>1. e \subseteq tails /\ e # {} /\ \A i \in tails : key[i] \in Nat
      BY <1>4, <1>16, <2>1, Zenon
    <3> HIDE DEF h, e, tails
    <3>2. QED
      BY <1>7, <2>2, <3>1, FirstListed, Zenon
  <2>4. listed # {} /\ m \in DOMAIN order /\ order[m] \in ending /\ \A i \in ending : key[i] <= key[order[m]]
    BY <2>3, Zenon
  <2> HIDE DEF h, m, e
  <2>5. reply = map[order[m]].group
    BY <1>11, <1>14, <1>16, <2>4, Zenon DEF reply, m
  <2>6. \A j \in hits : rank[j] <= rank[order[m]]
    <3> HIDE DEF hits, same, ending, rank, tails
    <3>1. QED
      BY <1>2, <1>4, <1>16, <2>1, <2>4, Zenon
  <2>7. order[m] \in hits /\ \A j \in hits : PatternRank(map[j].pattern) <= PatternRank(map[order[m]].pattern)
    BY <1>2, <2>4, <2>6, Zenon
  <2>8. QED
    BY <2>5, <2>7, Zenon DEF PatternPicked, reply, table
<1>17. CASE same = {} /\ ending = {}
  <2>1. listed = {} /\ hits = {}
    BY <1>2, <1>17, Zenon
  <2>2. reply = None
    BY <1>14, <1>17, <2>1, Zenon DEF reply
  <2>3. QED
    BY <2>1, <2>2, Zenon DEF PatternPicked, reply, table
<1>18. QED
  BY <1>15, <1>16, <1>17, Zenon

\* A lookup in a finalized table whose rows all have a value.
LEMMA CidrPicks ==
    ASSUME NEW n \in Nat, NEW table, DOMAIN table = 1 .. n,
           \A i \in DOMAIN table : table[i].net.len \in Nat /\ table[i].value # None,
           NEW ip, NEW P, P = {i \in DOMAIN table : NetContains(table[i].net, ip)}
    PROVE  \/ P = {} /\ CidrLookup(Finalize(table), ip) = None
           \/ \E i \in P : /\ CidrLookup(Finalize(table), ip) = table[i].value
                           /\ \A j \in P : table[j].net.len <= table[i].net.len
<1>1. PICK order : Finalized(table, order)
  BY FinalizeSorts, Zenon
<1> DEFINE sorted == Finalize(table)
           ans == [r \in {table[i] : i \in DOMAIN table} |-> r.value]
           answers == [k \in DOMAIN sorted |-> ans[sorted[k]]]
           hits == {k \in DOMAIN sorted : NetContains(sorted[k].net, ip)}
           told == {k \in DOMAIN sorted : NetContains(sorted[k].net, ip) /\ answers[k] # None}
<1>2. \A k \in DOMAIN sorted : \E i \in DOMAIN table : sorted[k] = table[i]
  BY <1>1, Zenon DEF Finalized, Lists
<1>3. \A i \in DOMAIN table : ans[table[i]] = table[i].value
  BY Zenon
<1> HIDE DEF sorted, ans
<1>4. \A k \in DOMAIN sorted : answers[k] = sorted[k].value /\ answers[k] # None
  BY <1>2, <1>3, SMT, SMTT(30)
<1>5. hits = told
  BY <1>4, Zenon
<1>6. CidrLookup(sorted, ip) = FindMapMatching(sorted, ip, answers)
  <2>1. CidrLookup(sorted, ip) = IF hits = {} THEN None ELSE sorted[Min(hits)].value
    BY Zenon DEF CidrLookup
  <2>2. FindMapMatching(sorted, ip, answers) = IF told = {} THEN None ELSE answers[Min(told)]
    BY Zenon DEF FindMapMatching
  <2>3. CASE hits = {}
    BY <1>5, <2>1, <2>2, <2>3, ZenonT(30)
  <2>4. CASE hits # {}
    <3>1. hits \subseteq Nat
      <4>1. DOMAIN sorted \subseteq Nat
        BY <1>1, SMT, SMTT(30) DEF Finalized, Lists, sorted
      <4>2. QED
        BY <4>1, Zenon
    <3>2. Min(hits) \in hits
      BY <2>4, <3>1, LeastNat, Zenon
    <3>3. Min(hits) \in DOMAIN sorted
      BY <3>2, Zenon
    <3> DEFINE m == Min(hits)
    <3>4. m \in DOMAIN sorted /\ CidrLookup(sorted, ip) = sorted[m].value
      BY <2>1, <2>4, <3>3, ZenonT(30)
    <3>5. FindMapMatching(sorted, ip, answers) = answers[m]
      <4> HIDE DEF told, hits, answers
      <4>1. QED
        BY <1>5, <2>2, <2>4, Zenon
    <3> HIDE DEF m, answers
    <3>6. QED
      BY <1>4, <3>4, <3>5, Zenon
  <2>5. QED
    BY <2>3, <2>4, Zenon
<1>7. answers = AnswersOf(table, ans)
  BY Zenon DEF sorted, AnswersOf
<1>8. P = Answering(table, ip, ans)
  BY <1>3, Zenon DEF Answering
<1>9. Longest(table, P, ans, FindMapMatching(sorted, ip, answers))
  <2>1. Longest(table, Answering(table, ip, ans), ans, FindMapMatching(Finalize(table), ip, AnswersOf(table, ans)))
    BY FindsLongest, Zenon
  <2> HIDE DEF answers
  <2>2. QED
    BY <1>7, <1>8, <2>1, Zenon DEF sorted
<1>10. QED
  <2> HIDE DEF answers
  <2>1. \A i \in P : i \in DOMAIN table
    BY Zenon
  <2>2. QED
    BY <1>3, <1>6, <1>9, <2>1, Zenon DEF sorted, Longest

-----------------------------------------------------------------------------
(* The rules of a kind: those of the rows of a table. *)

\* The rules that a row offers, and what it answers to a lookup.
Offers(of, row, reply) ==
    /\ \A y \in of : y.row = row /\ y.outer = row.net.len /\ y.group # None
    /\ of = {} => reply = None
    /\ of # {} => \E x \in of : reply = x.group /\ \A y \in of : y.inner <= x.inner

Picked(rules, group) ==
    \/ rules = {} /\ group = None
    \/ rules # {} /\ group # None /\ group \in Best(rules)

RulesOf(T, ip, offers) == UNION {offers[T[i]] : i \in {j \in DOMAIN T : NetContains(T[j].net, ip)}}

\* The answer of the rows is the group of a rule that no other beats.
LEMMA RowsPick ==
    ASSUME NEW n \in Nat, NEW T, DOMAIN T = 1 .. n, \A i \in DOMAIN T : T[i].net.len \in Nat,
           NEW U, DOMAIN U = DOMAIN T, \A i \in DOMAIN T : U[i].net = T[i].net,
           NEW ip, NEW ans,
           NEW offers, \A i \in DOMAIN T : Offers(offers[T[i]], T[i], ans[U[i]])
    PROVE  Picked(RulesOf(T, ip, offers), FindMapMatching(Finalize(U), ip, AnswersOf(U, ans)))
<1> DEFINE rules == RulesOf(T, ip, offers)
           P == {i \in DOMAIN U : NetContains(U[i].net, ip) /\ ans[U[i]] # None}
           reply == FindMapMatching(Finalize(U), ip, AnswersOf(U, ans))
<1>1. \/ P = {} /\ reply = None
      \/ \E i \in P : reply = ans[U[i]] /\ \A j \in P : U[j].net.len <= U[i].net.len
  <2>1. \A i \in DOMAIN U : U[i].net.len \in Nat
    BY Zenon
  <2>2. Longest(U, Answering(U, ip, ans), ans, reply)
    BY <2>1, FindsLongest, Zenon
  <2>3. P = Answering(U, ip, ans)
    BY Zenon DEF Answering
  <2> HIDE DEF reply, P
  <2>4. QED
    BY <2>2, <2>3, Zenon DEF Longest
<1>2. \A y \in rules : \E i \in DOMAIN T : NetContains(T[i].net, ip) /\ y \in offers[T[i]]
  BY Zenon DEF RulesOf
<1>3. \A i \in DOMAIN T : NetContains(T[i].net, ip) => offers[T[i]] \subseteq rules
  BY Zenon DEF RulesOf
\* A row answers just when it offers a rule.
<1>4. \A i \in DOMAIN T : i \in P <=> NetContains(T[i].net, ip) /\ offers[T[i]] # {}
  <2>1. SUFFICES ASSUME NEW i \in DOMAIN T
                 PROVE  ans[U[i]] # None <=> offers[T[i]] # {}
    BY Zenon
  <2>2. Offers(offers[T[i]], T[i], ans[U[i]])
    BY Zenon
  <2>3. QED
    BY <2>2, Zenon DEF Offers
<1> HIDE DEF reply, P, rules
<1>5. CASE P = {}
  <2>1. rules = {}
    BY <1>2, <1>4, <1>5, Zenon
  <2>2. QED
    BY <1>1, <1>5, <2>1, Zenon DEF Picked, reply, rules
<1>6. CASE P # {}
  <2>1. PICK i \in P : reply = ans[U[i]] /\ \A j \in P : U[j].net.len <= U[i].net.len
    BY <1>1, <1>6, Zenon
  <2>2. i \in DOMAIN T /\ offers[T[i]] # {} /\ offers[T[i]] \subseteq rules
    <3>1. i \in DOMAIN T
      BY <2>1, Zenon DEF P
    <3>2. QED
      BY <1>3, <1>4, <2>1, <3>1, Zenon
  <2>3. Offers(offers[T[i]], T[i], ans[U[i]])
    BY <2>2, Zenon
  <2>4. PICK x \in offers[T[i]] : reply = x.group /\ \A y \in offers[T[i]] : y.inner <= x.inner
    BY <2>1, <2>2, <2>3, Zenon DEF Offers
  <2>5. x \in rules /\ x.row = T[i] /\ x.outer = T[i].net.len /\ x.group # None
    BY <2>2, <2>3, <2>4, ZenonT(30) DEF Offers
  <2>6. ASSUME NEW y \in rules
        PROVE  y.outer < x.outer \/ (y.outer = x.outer /\ (y.row = x.row => y.inner <= x.inner))
    <3>1. PICK j \in DOMAIN T : NetContains(T[j].net, ip) /\ y \in offers[T[j]]
      BY <1>2, <2>6, Zenon
    <3>2. j \in P /\ Offers(offers[T[j]], T[j], ans[U[j]])
      BY <1>4, <3>1, Zenon
    <3>3. y.row = T[j] /\ y.outer = T[j].net.len
      BY <3>1, <3>2, Zenon DEF Offers
    <3>4. U[j].net.len <= U[i].net.len /\ U[i].net = T[i].net /\ U[j].net = T[j].net
      BY <2>1, <2>2, <3>2, Zenon
    <3>5. y.outer <= x.outer /\ y.outer \in Nat /\ x.outer \in Nat
      BY <2>2, <2>5, <3>1, <3>3, <3>4, Zenon
    <3>6. y.row = x.row => y.inner <= x.inner
      BY <2>4, <2>5, <3>1, <3>3, Zenon
    <3>7. QED
      BY <3>5, <3>6, SMT, SMTT(30)
  <2>7. x.group \in Best(rules)
    BY <2>5, <2>6, Zenon DEF Best
  <2>8. QED
    BY <2>4, <2>5, <2>7, Zenon DEF Picked, reply, rules
<1>7. QED
  BY <1>5, <1>6, Zenon

LEMMA TableFacts ==
    ASSUME NEW values, NEW t \in Table(values)
    PROVE  /\ Len(t) \in Nat /\ DOMAIN t = 1 .. Len(t)
           /\ \A i \in DOMAIN t : t[i].net.len \in Nat /\ t[i].value \in values
<1>1. t \in Seq([net : Nets, value : values])
  BY Zenon DEF Table
<1>2. Len(t) \in Nat /\ DOMAIN t = 1 .. Len(t) /\ \A i \in 1 .. Len(t) : t[i] \in [net : Nets, value : values]
  BY <1>1, LenProperties, ElementOfSeq, Zenon
<1>3. \A i \in DOMAIN t : t[i].net \in Nets /\ t[i].value \in values
  BY <1>2, Zenon
<1>4. \A net \in Nets : net.len \in Nat
  BY SMT, SMTT(30) DEF Nets
<1>5. QED
  BY <1>2, <1>3, <1>4, Zenon

\* The rows of a finalized table are its rows.
KeepsRows(U) == \A k \in DOMAIN Finalize(U) : \E i \in DOMAIN U : Finalize(U)[k] = U[i]

LEMMA FinalizeRows ==
    ASSUME NEW n \in Nat, NEW U, DOMAIN U = 1 .. n, \A i \in DOMAIN U : U[i].net.len \in Nat
    PROVE  KeepsRows(U)
<1>1. PICK order : Finalized(U, order)
  BY FinalizeSorts, Zenon
<1>2. QED
  BY <1>1, Zenon DEF Finalized, Lists, KeepsRows

\* What each kind of lookup answers.
ByDst(q) ==
    LET routes == ClientDstIpRoutes(q.cfg)
    IN FindMapMatching(routes, q.client, [i \in DOMAIN routes |-> CidrLookup(routes[i].value, q.dst)])
ByDomain(q) ==
    LET routes == ClientDomainRoutes(q.cfg)
    IN FindMapMatching(routes, q.client, [i \in DOMAIN routes |-> DomainLookup(routes[i].value, q.domain)])
ByClient(q) == CidrLookup(ClientRoutes(q.cfg), q.client)

LEMMA DstPicks ==
    ASSUME NEW q, q.cfg.client_dst_ip_routes \in Table(Table(STRING)), None \notin STRING
    PROVE  Picked(DstRules(q), ByDst(q))
<1> DEFINE T == q.cfg.client_dst_ip_routes
           U == [i \in DOMAIN T |-> [net |-> T[i].net, value |-> Finalize(T[i].value)]]
           ans == [r \in {U[i] : i \in DOMAIN U} |-> CidrLookup(r.value, q.dst)]
           of(r) == {[group |-> e.value, row |-> r, outer |-> r.net.len, inner |-> e.net.len] :
                       e \in {x \in Range(r.value) : NetContains(x.net, q.dst)}}
           offers == [r \in {T[i] : i \in DOMAIN T} |-> of(r)]
           rules == RulesOf(T, q.client, offers)
<1>1. Len(T) \in Nat /\ DOMAIN T = 1 .. Len(T) /\ \A i \in DOMAIN T : T[i].net.len \in Nat /\ T[i].value \in Table(STRING)
  BY TableFacts, ZenonT(30)
<1>2. DOMAIN U = DOMAIN T /\ \A i \in DOMAIN T : U[i].net = T[i].net /\ U[i].value = Finalize(T[i].value)
  BY ZenonT(30)
<1>3. \A i \in DOMAIN T : ans[U[i]] = CidrLookup(Finalize(T[i].value), q.dst)
  BY ZenonT(30)
<1>4. \A i \in DOMAIN T : offers[T[i]] = of(T[i])
  BY Zenon
<1>5. ClientDstIpRoutes(q.cfg) = Finalize(U)
  BY Zenon DEF ClientDstIpRoutes
<1>6. [k \in DOMAIN Finalize(U) |-> CidrLookup(Finalize(U)[k].value, q.dst)] = AnswersOf(U, ans)
  <2>1. \A k \in DOMAIN Finalize(U) : \E i \in DOMAIN U : Finalize(U)[k] = U[i]
    <3> HIDE DEF U
    <3>1. \A i \in DOMAIN U : U[i].net.len \in Nat
      BY <1>1, <1>2, Zenon
    <3>2. Len(T) \in Nat /\ DOMAIN U = 1 .. Len(T)
      BY <1>1, <1>2, Zenon
    <3>3. KeepsRows(U)
      BY <3>1, <3>2, FinalizeRows, ZenonT(30)
    <3>4. QED
      BY <3>3, Zenon DEF KeepsRows
  <2>2. \A k \in DOMAIN Finalize(U) : CidrLookup(Finalize(U)[k].value, q.dst) = ans[Finalize(U)[k]]
    BY <2>1, ZenonT(30)
  <2> HIDE DEF U, ans
  <2>3. QED
    BY <2>2, Zenon DEF AnswersOf
<1>7. ByDst(q) = FindMapMatching(Finalize(U), q.client, AnswersOf(U, ans))
  <2> HIDE DEF U, ans
  <2>1. QED
    BY <1>5, <1>6, ZenonT(30) DEF ByDst
<1>8. DstRules(q) = rules
  <2>1. DstRules(q) = UNION {of(r) : r \in {x \in Range(T) : NetContains(x.net, q.client)}}
    BY Zenon DEF DstRules
  <2> HIDE DEF of, offers, T
  <2>2. UNION {of(r) : r \in {x \in Range(T) : NetContains(x.net, q.client)}} = rules
    BY <1>4, Zenon DEF Range, RulesOf
  <2>3. QED
    BY <2>1, <2>2, Zenon
<1>9. ASSUME NEW i \in DOMAIN T PROVE Offers(offers[T[i]], T[i], ans[U[i]])
  <2> DEFINE r == T[i]
             V == r.value
             P == {j \in DOMAIN V : NetContains(V[j].net, q.dst)}
             reply == CidrLookup(Finalize(V), q.dst)
  <2>1. Len(V) \in Nat /\ DOMAIN V = 1 .. Len(V) /\ \A j \in DOMAIN V : V[j].net.len \in Nat /\ V[j].value \in STRING
    BY <1>1, TableFacts, Zenon
  <2>2. \A j \in DOMAIN V : V[j].net.len \in Nat /\ V[j].value # None
    BY <2>1, ZenonT(30)
  <2>3. \/ P = {} /\ reply = None
        \/ \E j \in P : reply = V[j].value /\ \A k \in P : V[k].net.len <= V[j].net.len
    <3> HIDE DEF V
    <3>1. QED
      BY <2>1, <2>2, CidrPicks, Zenon
  <2>4. of(r) = {[group |-> V[j].value, row |-> r, outer |-> r.net.len, inner |-> V[j].net.len] : j \in P}
    BY Zenon DEF Range
  <2> HIDE DEF of, V, P, reply, r
  <2>5. \A j \in P : j \in DOMAIN V
    BY Zenon DEF P
  <2>6. Offers(of(r), r, reply)
    <3>1. \A y \in of(r) : y.row = r /\ y.outer = r.net.len /\ y.group # None
      BY <2>2, <2>4, <2>5, SMT, SMTT(30)
    <3>2. of(r) = {} <=> P = {}
      BY <2>4, Zenon
    <3>3. ASSUME P # {}
          PROVE  \E x \in of(r) : reply = x.group /\ \A y \in of(r) : y.inner <= x.inner
      <4>1. PICK j \in P : reply = V[j].value /\ \A k \in P : V[k].net.len <= V[j].net.len
        BY <2>3, <3>3, Zenon
      <4> DEFINE x == [group |-> V[j].value, row |-> r, outer |-> r.net.len, inner |-> V[j].net.len]
      <4>2. x \in of(r)
        BY <2>4, Zenon
      <4>3. reply = x.group /\ x.inner = V[j].net.len
        BY <4>1, Zenon
      <4>4. ASSUME NEW y \in of(r) PROVE y.inner <= x.inner
        <5>1. PICK k \in P : y = [group |-> V[k].value, row |-> r, outer |-> r.net.len,
                                 inner |-> V[k].net.len]
          BY <2>4, <4>4, Zenon
        <5>2. y.inner = V[k].net.len
          BY <5>1, Zenon
        <5> HIDE DEF x
        <5>3. QED
          BY <4>1, <4>3, <5>2, Zenon
      <4> HIDE DEF x
      <4>5. QED
        BY <4>2, <4>3, <4>4, Zenon
    <3>4. QED
      BY <2>3, <3>1, <3>2, <3>3, ZenonT(30) DEF Offers
  <2>7. QED
    BY <1>3, <1>4, <2>6, Zenon DEF r, V, reply
<1>10. Picked(rules, FindMapMatching(Finalize(U), q.client, AnswersOf(U, ans)))
  <2> HIDE DEF ans, offers, T, U
  <2>1. DOMAIN T = 1 .. Len(T) /\ \A i \in DOMAIN T : T[i].net.len \in Nat
    BY <1>1, Zenon
  <2>2. DOMAIN U = DOMAIN T /\ \A i \in DOMAIN T : U[i].net = T[i].net
    BY <1>2, Zenon
  <2>3. QED
    BY <1>1, <1>9, <2>1, <2>2, RowsPick, Zenon
<1>11. QED
  BY <1>7, <1>8, <1>10, Zenon

LEMMA DomainPicks ==
    ASSUME NEW q, None \notin STRING,
           q.cfg.client_domain_routes \in Table(Seq([pattern : Seq(STRING), group : STRING])),
           q.domain # None, IsCanonical(q.domain)
    PROVE  Picked(DomainRules(q), ByDomain(q))
<1> DEFINE T == q.cfg.client_domain_routes
           U == [i \in DOMAIN T |-> [net |-> T[i].net, value |-> DomainRouteTable(T[i].value)]]
           ans == [r \in {U[i] : i \in DOMAIN U} |-> DomainLookup(r.value, q.domain)]
           of(r) == {[group |-> e.group, row |-> r, outer |-> r.net.len, inner |-> PatternRank(e.pattern)] :
                       e \in {x \in Range(r.value) : PatternMatches(x.pattern, q.domain)}}
           offers == [r \in {T[i] : i \in DOMAIN T} |-> of(r)]
           rules == RulesOf(T, q.client, offers)
<1>1. /\ Len(T) \in Nat /\ DOMAIN T = 1 .. Len(T)
      /\ \A i \in DOMAIN T : /\ T[i].net.len \in Nat
                             /\ T[i].value \in Seq([pattern : Seq(STRING), group : STRING])
  BY TableFacts, Zenon
<1>2. DOMAIN U = DOMAIN T /\ \A i \in DOMAIN T : U[i].net = T[i].net /\ U[i].value = DomainRouteTable(T[i].value)
  BY Zenon
<1>3. \A i \in DOMAIN T : ans[U[i]] = DomainLookup(DomainRouteTable(T[i].value), q.domain)
  BY ZenonT(30)
<1>4. \A i \in DOMAIN T : offers[T[i]] = of(T[i])
  BY Zenon
<1>5. ClientDomainRoutes(q.cfg) = Finalize(U)
  BY ZenonT(30) DEF ClientDomainRoutes
<1>6. [k \in DOMAIN Finalize(U) |-> DomainLookup(Finalize(U)[k].value, q.domain)] = AnswersOf(U, ans)
  <2>1. \A k \in DOMAIN Finalize(U) : \E i \in DOMAIN U : Finalize(U)[k] = U[i]
    <3> HIDE DEF U
    <3>1. \A i \in DOMAIN U : U[i].net.len \in Nat
      BY <1>1, <1>2, Zenon
    <3>2. Len(T) \in Nat /\ DOMAIN U = 1 .. Len(T)
      BY <1>1, <1>2, Zenon
    <3>3. KeepsRows(U)
      BY <3>1, <3>2, FinalizeRows, ZenonT(30)
    <3>4. QED
      BY <3>3, Zenon DEF KeepsRows
  <2>2. \A k \in DOMAIN Finalize(U) : DomainLookup(Finalize(U)[k].value, q.domain) = ans[Finalize(U)[k]]
    BY <2>1, ZenonT(30)
  <2> HIDE DEF U, ans
  <2>3. QED
    BY <2>2, Zenon DEF AnswersOf
<1>7. ByDomain(q) = FindMapMatching(Finalize(U), q.client, AnswersOf(U, ans))
  <2> HIDE DEF U, ans
  <2>1. QED
    BY <1>5, <1>6, Zenon DEF ByDomain
<1>8. DomainRules(q) = rules
  <2>1. DomainRules(q) = UNION {of(r) : r \in {x \in Range(T) : NetContains(x.net, q.client)}}
    BY Zenon DEF DomainRules
  <2> HIDE DEF of, offers, T
  <2>2. UNION {of(r) : r \in {x \in Range(T) : NetContains(x.net, q.client)}} = rules
    BY <1>4, Zenon DEF Range, RulesOf
  <2>3. QED
    BY <2>1, <2>2, Zenon
<1>9. ASSUME NEW i \in DOMAIN T PROVE Offers(offers[T[i]], T[i], ans[U[i]])
  <2> DEFINE r == T[i]
             V == r.value
             P == {j \in DOMAIN V : PatternMatches(V[j].pattern, q.domain)}
             reply == DomainLookup(DomainRouteTable(V), q.domain)
  <2>1. Len(V) \in Nat /\ DOMAIN V = 1 .. Len(V) /\ \A j \in DOMAIN V : V[j] \in [pattern : Seq(STRING), group : STRING]
    <3>1. V \in Seq([pattern : Seq(STRING), group : STRING])
      BY <1>1, Zenon
    <3> HIDE DEF V
    <3>2. QED
      BY <3>1, LenProperties, ElementOfSeq, ZenonT(30)
  <2>2. \A j \in DOMAIN V : V[j].pattern \in Seq(Chars) /\ V[j].group # None
    <3>1. \A j \in DOMAIN V : V[j].pattern \in Seq(STRING) /\ V[j].group \in STRING
      BY <2>1, Zenon
    <3>2. QED
      BY <3>1, StringNames, Zenon
  <2>3. \/ P = {} /\ reply = None
        \/ \E j \in P : reply = V[j].group /\ \A k \in P : PatternRank(V[k].pattern) <= PatternRank(V[j].pattern)
    <3> HIDE DEF V
    <3>1. PatternPicked(V, q.domain, reply)
      BY <2>1, <2>2, DomainLookupPicks, ZenonT(30)
    <3>2. QED
      BY <3>1, Zenon DEF PatternPicked
  <2>4. of(r) = {[group |-> V[j].group, row |-> r, outer |-> r.net.len, inner |-> PatternRank(V[j].pattern)] : j \in P}
    BY Zenon DEF Range
  <2> HIDE DEF of, V, P, reply, r
  <2>5. \A j \in P : j \in DOMAIN V
    BY Zenon DEF P
  <2>6. Offers(of(r), r, reply)
    <3>1. \A y \in of(r) : y.row = r /\ y.outer = r.net.len /\ y.group # None
      BY <2>2, <2>4, <2>5, SMT, SMTT(30)
    <3>2. of(r) = {} <=> P = {}
      BY <2>4, ZenonT(30)
    <3>3. ASSUME P # {}
          PROVE  \E x \in of(r) : reply = x.group /\ \A y \in of(r) : y.inner <= x.inner
      <4>1. PICK j \in P : reply = V[j].group /\ \A k \in P : PatternRank(V[k].pattern) <= PatternRank(V[j].pattern)
        BY <2>3, <3>3, Zenon
      <4> DEFINE x == [group |-> V[j].group, row |-> r, outer |-> r.net.len, inner |-> PatternRank(V[j].pattern)]
      <4>2. x \in of(r)
        BY <2>4, Zenon
      <4>3. reply = x.group /\ x.inner = PatternRank(V[j].pattern)
        BY <4>1, Zenon
      <4>4. ASSUME NEW y \in of(r) PROVE y.inner <= x.inner
        <5>1. PICK k \in P : y = [group |-> V[k].group, row |-> r, outer |-> r.net.len,
                                 inner |-> PatternRank(V[k].pattern)]
          BY <2>4, <4>4, Zenon
        <5>2. y.inner = PatternRank(V[k].pattern)
          BY <5>1, Zenon
        <5> HIDE DEF x
        <5>3. QED
          BY <4>1, <4>3, <5>2, Zenon
      <4> HIDE DEF x
      <4>5. QED
        BY <4>2, <4>3, <4>4, Zenon
    <3>4. QED
      BY <2>3, <3>1, <3>2, <3>3, ZenonT(30) DEF Offers
  <2>7. QED
    BY <1>3, <1>4, <2>6, Zenon DEF r, V, reply
<1>10. Picked(rules, FindMapMatching(Finalize(U), q.client, AnswersOf(U, ans)))
  <2> HIDE DEF ans, offers, T, U
  <2>1. DOMAIN T = 1 .. Len(T) /\ \A i \in DOMAIN T : T[i].net.len \in Nat
    BY <1>1, Zenon
  <2>2. DOMAIN U = DOMAIN T /\ \A i \in DOMAIN T : U[i].net = T[i].net
    BY <1>2, Zenon
  <2>3. QED
    BY <1>1, <1>9, <2>1, <2>2, RowsPick, Zenon
<1>11. QED
  BY <1>7, <1>8, <1>10, Zenon

LEMMA ClientPicks ==
    ASSUME NEW q, q.cfg.client_routes \in Table(STRING), None \notin STRING
    PROVE  Picked(ClientRules(q), ByClient(q))
<1> DEFINE T == q.cfg.client_routes
           P == {i \in DOMAIN T : NetContains(T[i].net, q.client)}
           rule(r) == [group |-> r.value, row |-> r, outer |-> r.net.len, inner |-> 0]
           reply == ByClient(q)
           rules == ClientRules(q)
<1>1. Len(T) \in Nat /\ DOMAIN T = 1 .. Len(T) /\ \A i \in DOMAIN T : T[i].net.len \in Nat /\ T[i].value \in STRING
  BY TableFacts, Zenon
<1>2. \A i \in DOMAIN T : T[i].net.len \in Nat /\ T[i].value # None
  BY <1>1, ZenonT(30)
<1>3. \/ P = {} /\ reply = None
      \/ \E i \in P : reply = T[i].value /\ \A j \in P : T[j].net.len <= T[i].net.len
  <2>1. reply = CidrLookup(Finalize(T), q.client)
    BY Zenon DEF ByClient, ClientRoutes
  <2> HIDE DEF T, reply
  <2>2. QED
    BY <1>1, <1>2, <2>1, CidrPicks, ZenonT(30)
<1>4. rules = {rule(T[i]) : i \in P}
  BY Zenon DEF ClientRules, Range
<1> HIDE DEF reply, rules, T
<1>5. CASE P = {}
  BY <1>3, <1>4, <1>5, Zenon DEF Picked, reply, rules
<1>6. CASE P # {}
  <2>1. PICK i \in P : reply = T[i].value /\ \A j \in P : T[j].net.len <= T[i].net.len
    BY <1>3, <1>6, ZenonT(30)
  <2> DEFINE x == rule(T[i])
  <2>2. x \in rules /\ reply = x.group /\ x.outer = T[i].net.len /\ x.inner = 0 /\ i \in DOMAIN T
    BY <1>4, <2>1, Zenon
  <2>3. \A y \in rules : y.outer < x.outer \/ (y.outer = x.outer /\ (y.row = x.row => y.inner <= x.inner))
    <3>1. SUFFICES ASSUME NEW y \in rules
                   PROVE  y.outer < x.outer \/ (y.outer = x.outer /\ y.inner <= x.inner)
      BY Zenon
    <3>2. PICK j \in P : y = rule(T[j])
      BY <1>4, <3>1, Zenon
    <3>3. y.outer = T[j].net.len /\ y.inner = 0
      BY <3>2, Zenon
    <3>4. T[j].net.len \in Nat /\ T[i].net.len \in Nat /\ T[j].net.len <= T[i].net.len
      BY <1>2, <2>1, <2>2, Zenon
    <3>5. x.outer = T[i].net.len /\ x.inner = 0
      BY <2>2, Zenon
    <3> HIDE DEF x, P, rule
    <3>6. QED
      BY <3>3, <3>4, <3>5, SMT, SMTT(30)
  <2> HIDE DEF x
  <2>4. x.group \in Best(rules)
    BY <2>2, <2>3, Zenon DEF Best
  <2>5. reply # None
    BY <1>2, <2>1, <2>2, Zenon
  <2>6. QED
    BY <2>2, <2>4, <2>5, Zenon DEF Picked, reply, rules
<1>7. QED
  BY <1>5, <1>6, Zenon

-----------------------------------------------------------------------------
(* What Route decides. *)

\* A connection with what the program decides for it.
Decided(q) ==
    /\ q.cfg \in Configs /\ Validate(q.cfg)
    /\ q.domain = None \/ (IsCanonical(q.domain) /\ q.domain # <<>>)
    /\ q.group = LookupUpstreamGroup(q.cfg, q.client, q.dst, q.domain)
    /\ q.direct = ShouldDirectSmart(q.cfg, q.dst, q.domain)

\* The three parts of RoutedAsConfigured.
GroupAsConfigured(q) ==
    LET kinds == <<DstRules(q), DomainRules(q), ClientRules(q)>>
        applying == {k \in DOMAIN kinds : kinds[k] # {}}
    IN q.group \in IF applying = {} THEN {"default"} ELSE Best(kinds[Min(applying)])

DirectAsConfigured(q) ==
    q.direct = CASE Listed(q.cfg.force_socks5_domains, q.domain) -> FALSE
                 [] /\ ~Listed(q.cfg.force_socks5_domains, q.domain)
                    /\ Listed(q.cfg.force_direct_domains, q.domain) -> TRUE
                 [] OTHER -> IF InGeosite(q.cfg.proxy_geosite, q.domain) THEN FALSE
                             ELSE InGeosite(q.cfg.direct_geosite, q.domain)
                                  \/ ListedDirect(q.cfg, q.dst)

GroupServed(q) ==
    \/ UpstreamsOf(q.cfg, q.group) # {}
    \/ q.group = "default"
       /\ ("default" \in CountedGroups(q.cfg) => {} \in Range(q.cfg.upstream))

LEMMA ThreeParts ==
    RoutedAsConfigured <=> (query # None => GroupAsConfigured(query) /\ DirectAsConfigured(query) /\ GroupServed(query))
BY Zenon DEF RoutedAsConfigured, GroupAsConfigured, DirectAsConfigured, GroupServed

LEMMA KindsPick ==
    ASSUME NEW q, Decided(q)
    PROVE  /\ Picked(DstRules(q), ByDst(q))
           /\ Picked(DomainRules(q), IF q.domain = None THEN None ELSE ByDomain(q))
           /\ Picked(ClientRules(q), ByClient(q))
<1>1. /\ q.cfg.client_routes \in Table(STRING) /\ None \notin STRING
      /\ q.cfg.client_domain_routes \in Table(Seq([pattern : Seq(STRING), group : STRING]))
      /\ q.cfg.client_dst_ip_routes \in Table(Table(STRING))
  BY RulesAssumption, Zenon DEF Decided
<1>2. Picked(DstRules(q), ByDst(q)) /\ Picked(ClientRules(q), ByClient(q))
  BY <1>1, DstPicks, ClientPicks, Zenon
<1>3. CASE q.domain = None
  <2>1. DomainRules(q) = {}
    BY <1>3, Zenon DEF DomainRules
  <2>2. QED
    BY <1>2, <1>3, <2>1, Zenon DEF Picked
<1>4. CASE q.domain # None
  <2>1. IsCanonical(q.domain)
    BY <1>4, Zenon DEF Decided
  <2>2. Picked(DomainRules(q), ByDomain(q))
    BY <1>1, <1>4, <2>1, DomainPicks, Zenon
  <2>3. QED
    BY <1>2, <1>4, <2>2, Zenon
<1>5. QED
  BY <1>3, <1>4, Zenon

LEMMA GroupIsRight ==
    ASSUME NEW q, Decided(q)
    PROVE  GroupAsConfigured(q)
<1> DEFINE byDst == ByDst(q)
           byDomain == IF q.domain = None THEN None ELSE ByDomain(q)
           byClient == ByClient(q)
           kinds == <<DstRules(q), DomainRules(q), ClientRules(q)>>
           applying == {k \in DOMAIN kinds : kinds[k] # {}}
<1>1. Picked(DstRules(q), byDst) /\ Picked(DomainRules(q), byDomain) /\ Picked(ClientRules(q), byClient)
  BY KindsPick, Zenon
<1>2. q.group = CASE byDst # None -> byDst
                  [] byDst = None /\ byDomain # None -> byDomain
                  [] OTHER -> IF byClient = None THEN "default" ELSE byClient
  BY Zenon DEF Decided, LookupUpstreamGroup, ByDst, ByDomain, ByClient
<1> HIDE DEF byDst, byDomain, byClient
<1>3. /\ DOMAIN kinds = 1 .. 3
      /\ kinds[1] = DstRules(q) /\ kinds[2] = DomainRules(q) /\ kinds[3] = ClientRules(q)
  BY SMT, SMTT(30)
<1> HIDE DEF kinds
<1>4. applying \subseteq Nat
  BY <1>3, SMT, SMTT(30)
<1>5. applying # {} => Min(applying) \in applying /\ \A k \in applying : Min(applying) <= k
  BY <1>4, LeastNat, Zenon
<1>6. \A k : k \in applying <=> k \in 1 .. 3 /\ kinds[k] # {}
  BY <1>3, Zenon
<1> SUFFICES q.group \in IF applying = {} THEN {"default"} ELSE Best(kinds[Min(applying)])
  BY Zenon DEF GroupAsConfigured, kinds
<1> DEFINE m == Min(applying)
<1> HIDE DEF applying, m
<1>7. CASE DstRules(q) # {}
  <2>1. 1 \in applying
    BY <1>3, <1>6, <1>7, SMT, SMTT(30)
  <2>2. applying # {} /\ m \in 1 .. 3 /\ m <= 1
    BY <1>5, <1>6, <2>1, Zenon DEF m
  <2>3. m = 1
    BY <2>2, SMT, SMTT(30)
  <2>4. q.group = byDst /\ byDst \in Best(DstRules(q))
    BY <1>1, <1>2, <1>7, Zenon DEF Picked
  <2>5. QED
    BY <1>3, <2>2, <2>3, <2>4, Zenon DEF m
<1>8. CASE DstRules(q) = {} /\ DomainRules(q) # {}
  <2>1. 2 \in applying /\ 1 \notin applying
    BY <1>3, <1>6, <1>8, SMT, SMTT(30)
  <2>2. applying # {} /\ m \in 1 .. 3 /\ m <= 2 /\ m \in applying
    BY <1>5, <1>6, <2>1, Zenon DEF m
  <2>3. m = 2
    BY <2>1, <2>2, SMT, SMTT(30)
  <2>4. q.group = byDomain /\ byDomain \in Best(DomainRules(q))
    BY <1>1, <1>2, <1>8, Zenon DEF Picked
  <2>5. QED
    BY <1>3, <2>2, <2>3, <2>4, Zenon DEF m
<1>9. CASE DstRules(q) = {} /\ DomainRules(q) = {} /\ ClientRules(q) # {}
  <2>1. 3 \in applying /\ 1 \notin applying /\ 2 \notin applying
    BY <1>3, <1>6, <1>9, SMT, SMTT(30)
  <2>2. applying # {} /\ m \in 1 .. 3 /\ m \in applying
    BY <1>5, <1>6, <2>1, Zenon DEF m
  <2>3. m = 3
    BY <2>1, <2>2, SMT, SMTT(30)
  <2>4. q.group = byClient /\ byClient \in Best(ClientRules(q))
    BY <1>1, <1>2, <1>9, Zenon DEF Picked
  <2>5. QED
    BY <1>3, <2>2, <2>3, <2>4, Zenon DEF m
<1>10. CASE DstRules(q) = {} /\ DomainRules(q) = {} /\ ClientRules(q) = {}
  <2>1. applying = {}
    <3>1. \A k \in 1 .. 3 : k = 1 \/ k = 2 \/ k = 3
      BY SMT, SMTT(30)
    <3>2. QED
      BY <1>3, <1>6, <1>10, <3>1, Zenon
  <2>2. q.group = "default"
    BY <1>1, <1>2, <1>10, Zenon DEF Picked
  <2>3. QED
    BY <2>1, <2>2, Zenon
<1>11. QED
  BY <1>7, <1>8, <1>9, <1>10, Zenon

\* The groups of the rules are those that validate looks at.
LEMMA BestIsRouted ==
    ASSUME NEW q
    PROVE  /\ Best(DstRules(q)) \subseteq RoutedGroups(q.cfg)
           /\ Best(DomainRules(q)) \subseteq RoutedGroups(q.cfg)
           /\ Best(ClientRules(q)) \subseteq RoutedGroups(q.cfg)
<1> DEFINE clients == {row.value : row \in Range(q.cfg.client_routes)}
           domains == UNION {{e.group : e \in Range(row.value)} : row \in Range(q.cfg.client_domain_routes)}
           dsts == UNION {{e.value : e \in Range(row.value)} : row \in Range(q.cfg.client_dst_ip_routes)}
<1>0. RoutedGroups(q.cfg) = clients \cup domains \cup dsts
  BY Zenon DEF RoutedGroups
<1>1. \A rules : \A g \in Best(rules) : \E x \in rules : g = x.group
  BY Zenon DEF Best
<1>2. \A x \in DstRules(q) : x.group \in RoutedGroups(q.cfg)
  <2>1. SUFFICES ASSUME NEW x \in DstRules(q) PROVE x.group \in RoutedGroups(q.cfg)
    BY Zenon
  <2>2. PICK r \in Range(q.cfg.client_dst_ip_routes) : \E e \in Range(r.value) :
           x = [group |-> e.value, row |-> r, outer |-> r.net.len, inner |-> e.net.len]
    BY <2>1, Zenon DEF DstRules
  <2>3. \E e \in Range(r.value) : x.group = e.value
    BY <2>2, SMT, SMTT(30)
  <2>4. x.group \in {e.value : e \in Range(r.value)}
    BY <2>3, Zenon
  <2>5. x.group \in dsts
    BY <2>2, <2>4, Zenon
  <2>6. QED
    <3> HIDE DEF clients, domains, dsts
    <3>1. QED
      BY <1>0, <2>5, Zenon
<1>3. \A x \in DomainRules(q) : x.group \in RoutedGroups(q.cfg)
  <2>1. SUFFICES ASSUME NEW x \in DomainRules(q) PROVE x.group \in RoutedGroups(q.cfg)
    BY Zenon
  <2>2. q.domain # None
    BY <2>1, Zenon DEF DomainRules
  <2>3. PICK r \in Range(q.cfg.client_domain_routes) : \E e \in Range(r.value) :
           x = [group |-> e.group, row |-> r, outer |-> r.net.len, inner |-> PatternRank(e.pattern)]
    BY <2>1, <2>2, ZenonT(30) DEF DomainRules
  <2>4. \E e \in Range(r.value) : x.group = e.group
    BY <2>3, SMT, SMTT(30)
  <2>5. x.group \in {e.group : e \in Range(r.value)}
    BY <2>4, Zenon
  <2>6. x.group \in domains
    BY <2>3, <2>5, Zenon
  <2>7. QED
    <3> HIDE DEF clients, domains, dsts
    <3>1. QED
      BY <1>0, <2>6, Zenon
<1>4. \A x \in ClientRules(q) : x.group \in RoutedGroups(q.cfg)
  BY SMT, SMTT(30) DEF ClientRules, RoutedGroups
<1>5. ASSUME NEW rules, NEW groups, \A x \in rules : x.group \in groups
      PROVE  Best(rules) \subseteq groups
  BY <1>1, <1>5, ZenonT(30)
<1>6. QED
  BY <1>2, <1>3, <1>4, <1>5, Zenon

LEMMA GroupIsServed ==
    ASSUME NEW q, Decided(q)
    PROVE  GroupServed(q)
<1>1. q.group = "default" \/ q.group \in RoutedGroups(q.cfg)
  <2>1. \/ q.group = "default"
        \/ q.group \in Best(DstRules(q)) \/ q.group \in Best(DomainRules(q)) \/ q.group \in Best(ClientRules(q))
    <3> DEFINE byDst == ByDst(q)
               byDomain == IF q.domain = None THEN None ELSE ByDomain(q)
               byClient == ByClient(q)
    <3>1. Picked(DstRules(q), byDst) /\ Picked(DomainRules(q), byDomain) /\ Picked(ClientRules(q), byClient)
      BY KindsPick, Zenon
    <3>2. q.group = CASE byDst # None -> byDst
                      [] byDst = None /\ byDomain # None -> byDomain
                      [] OTHER -> IF byClient = None THEN "default" ELSE byClient
      BY Zenon DEF Decided, LookupUpstreamGroup, ByDst, ByDomain, ByClient
    <3> HIDE DEF byDst, byDomain, byClient
    <3>3. QED
      BY <3>1, <3>2, Zenon DEF Picked
  <2>2. QED
    BY <2>1, BestIsRouted, Zenon
<1>2. RoutedGroups(q.cfg) \subseteq CountedGroups(q.cfg)
  BY Zenon DEF Decided, Validate
<1>3. CASE q.group \notin CountedGroups(q.cfg)
  BY <1>1, <1>2, <1>3, Zenon DEF GroupServed
<1>4. CASE q.group \in CountedGroups(q.cfg)
  <2> DEFINE up == q.cfg.upstream
  <2>1. PICK u \in DOMAIN up : q.group \in IF up[u] \in {None, {}} THEN {"default"} ELSE up[u]
    BY <1>4, Zenon DEF CountedGroups, Range
  <2>2. CASE up[u] = {}
    <3>1. {} \in Range(up)
      BY <2>1, <2>2, Zenon DEF Range
    <3>2. q.group = "default"
      BY <2>1, <2>2, Zenon
    <3>3. QED
      BY <3>1, <3>2, Zenon DEF GroupServed
  <2>3. CASE up[u] # {}
    <3>1. q.group \in IF up[u] = None THEN {"default"} ELSE up[u]
      BY <2>1, <2>3, Zenon
    <3>2. u \in UpstreamsOf(q.cfg, q.group)
      BY <2>1, <3>1, Zenon DEF UpstreamsOf
    <3>3. QED
      BY <3>2, Zenon DEF GroupServed
  <2>4. QED
    BY <2>2, <2>3, Zenon
<1>5. QED
  BY <1>3, <1>4, Zenon

\* The longest match is not empty exactly if a network of the list holds the
\* address.
LEMMA TrieHolds ==
    ASSUME NEW nets, nets \subseteq Nets, NEW ip
    PROVE  InNets(nets, ip) <=> InList(nets, ip)
<1> DEFINE T == {0} \cup {net.len : net \in {x \in nets : NetContains(x, ip)}}
           m == TrieLookup(nets, ip)
<1>1. T \subseteq 0 .. AddrBits /\ T # {} /\ AddrBits \in Nat
  <2>1. AddrBits \in Nat /\ 0 \in 0 .. AddrBits
    BY RulesAssumption, SMT, SMTT(30)
  <2>2. \A net \in nets : net.len \in 0 .. AddrBits
    BY Zenon DEF Nets
  <2>3. QED
    BY <2>1, <2>2, Zenon
<1>2. m \in T /\ \A k \in T : m >= k
  BY <1>1, GreatestNat, Zenon DEF TrieLookup
<1>3. ASSUME m # 0 PROVE InList(nets, ip)
  <2>1. PICK net \in nets : NetContains(net, ip) /\ m = net.len
    BY <1>2, <1>3, Zenon
  <2>2. net.len > 0
    BY <1>1, <1>2, <1>3, <2>1, SMT, SMTT(30)
  <2>3. QED
    BY <2>1, <2>2, Zenon DEF InList
<1>4. ASSUME InList(nets, ip) PROVE m # 0
  <2>1. PICK net \in nets : net.len > 0 /\ NetContains(net, ip)
    BY <1>4, Zenon DEF InList
  <2>2. net.len \in T
    BY <2>1, Zenon
  <2>3. m >= net.len /\ m \in 0 .. AddrBits /\ net.len \in 0 .. AddrBits
    BY <1>1, <1>2, <2>2, Zenon
  <2> HIDE DEF m
  <2>4. QED
    BY <1>1, <2>1, <2>3, SMT, SMTT(30)
<1>5. QED
  BY <1>3, <1>4, Zenon DEF InNets

LEMMA AddressIsRight ==
    ASSUME NEW cfg \in Configs, NEW ip
    PROVE  DirectByAddress(cfg, ip) = ListedDirect(cfg, ip)
<1> DEFINE a == InNets(cfg.force_socks5_ips, ip)
           b == InNets(cfg.force_direct_ips, ip)
           c == (cfg.direct_local_ip /\ ip \in cfg.local_ips) \/ ip \in cfg.country_ips
<1>1. cfg.force_socks5_ips \subseteq Nets /\ cfg.force_direct_ips \subseteq Nets
  BY RulesAssumption, Zenon
<1>2. /\ a <=> InList(cfg.force_socks5_ips, ip)
      /\ b <=> InList(cfg.force_direct_ips, ip)
  BY <1>1, TrieHolds, Zenon
<1>3. DirectByAddress(cfg, ip) = CASE a -> FALSE [] ~a /\ b -> TRUE [] OTHER -> c
  BY Zenon DEF DirectByAddress
<1>4. ListedDirect(cfg, ip) = (~a /\ (b \/ c))
  BY <1>2, Zenon DEF ListedDirect
<1> HIDE DEF a, b
<1>5. QED
  BY <1>3, <1>4, Zenon

LEMMA DirectIsRight ==
    ASSUME NEW q, Decided(q)
    PROVE  DirectAsConfigured(q)
<1> DEFINE d == q.domain
           cfg == q.cfg
           byAddress == ListedDirect(cfg, q.dst)
<1>1. byAddress \in BOOLEAN /\ DirectByAddress(cfg, q.dst) = byAddress
  BY AddressIsRight, Zenon DEF ListedDirect, Decided
<1>2. q.direct = ShouldDirectSmart(cfg, q.dst, d)
  BY Zenon DEF Decided
<1>3. CASE d = None
  <2>1. q.direct = byAddress
    BY <1>1, <1>2, <1>3, Zenon DEF ShouldDirectSmart
  <2>2. /\ ~Listed(cfg.force_socks5_domains, d) /\ ~Listed(cfg.force_direct_domains, d)
        /\ ~InGeosite(cfg.proxy_geosite, d) /\ ~InGeosite(cfg.direct_geosite, d)
    BY <1>3, Zenon DEF Listed, InGeosite
  <2> HIDE DEF byAddress
  <2>3. q.direct = (InGeosite(cfg.direct_geosite, d) \/ byAddress)
    BY <1>1, <2>1, <2>2, Zenon
  <2>4. QED
    BY <2>2, <2>3, Zenon DEF DirectAsConfigured, byAddress
<1>4. CASE d # None
  <2> DEFINE a == Listed(cfg.force_socks5_domains, d)
             b == Listed(cfg.force_direct_domains, d)
             x == InGeosite(cfg.proxy_geosite, d)
             y == InGeosite(cfg.direct_geosite, d)
             byDomain == DirectByDomain(cfg, d)
  <2>1. IsCanonical(d) /\ d # <<>> /\ CanonicalDomain(d) = d
    BY <1>4, CanonicalSame, Zenon DEF Decided
  <2>2. /\ cfg.force_socks5_domains \subseteq Seq(Chars) /\ cfg.force_direct_domains \subseteq Seq(Chars)
        /\ \A r \in cfg.proxy_geosite : r.value \in Seq(Chars)
        /\ \A r \in cfg.direct_geosite : r.value \in Seq(Chars)
        /\ None \notin BOOLEAN
    BY RulesAssumption, StringNames, Zenon DEF Decided
  <2>3. MatchesCanonical(DomainSet(cfg.force_socks5_domains), d) <=> a
    BY <1>4, <2>1, <2>2, DomainSetHolds, Zenon DEF Listed
  <2>4. MatchesCanonical(DomainSet(cfg.force_direct_domains), d) <=> b
    BY <1>4, <2>1, <2>2, DomainSetHolds, Zenon DEF Listed
  <2>5. CompiledGeositeContains(CompileGeosite(cfg.proxy_geosite), d) <=> x
    BY <1>4, <2>1, <2>2, GeositeHolds, Zenon DEF InGeosite
  <2>6. CompiledGeositeContains(CompileGeosite(cfg.direct_geosite), d) <=> y
    BY <1>4, <2>1, <2>2, GeositeHolds, Zenon DEF InGeosite
  <2> HIDE DEF a, b, x, y
  <2>7. byDomain = IF a THEN FALSE ELSE IF b THEN TRUE ELSE IF x THEN FALSE ELSE IF y THEN TRUE ELSE None
    BY <2>1, <2>3, <2>4, <2>5, <2>6, Zenon DEF DirectByDomain
  <2>8. q.direct = IF byDomain = None THEN byAddress ELSE byDomain
    BY <1>1, <1>2, <1>4, Zenon DEF ShouldDirectSmart
  <2> HIDE DEF byDomain, byAddress
  <2>9. None # TRUE /\ None # FALSE
    BY <2>2, Zenon
  <2>10. q.direct = CASE a -> FALSE
                      [] ~a /\ b -> TRUE
                      [] OTHER -> IF x THEN FALSE ELSE y \/ byAddress
    <3>1. CASE a
      BY <2>7, <2>8, <2>9, <3>1, Zenon
    <3>2. CASE ~a /\ b
      BY <2>7, <2>8, <2>9, <3>2, Zenon
    <3>3. CASE ~a /\ ~b
      BY <1>1, <2>7, <2>8, <2>9, <3>3, Zenon
    <3>4. QED
      BY <3>1, <3>2, <3>3, Zenon
  <2>11. QED
    BY <2>10, Zenon DEF DirectAsConfigured, a, b, x, y, byAddress
<1>5. QED
  BY <1>3, <1>4, Zenon

\* The name that a stream carries is canonical.
LEMMA CarriedCanonical ==
    ASSUME NEW s \in Streams, Carried(s) # None
    PROVE  IsCanonical(Carried(s)) /\ Carried(s) # <<>>
<1> DEFINE h == Lower(s.host)
<1>1. s.host \in Seq(Chars)
  BY StreamAssumption, StringNames, Zenon
<1>2. Carried(s) = h /\ IsValidSniHostname(h)
  BY Zenon DEF Carried
<1>3. /\ h \in Seq(Chars) /\ DOMAIN h = DOMAIN s.host
      /\ \A i \in DOMAIN s.host : h[i] = IF s.host[i] = "A" THEN "a" ELSE s.host[i]
  BY <1>1, LowerFacts, Zenon
<1> HIDE DEF h
<1>4. \A i \in DOMAIN h : h[i] # "A"
  BY <1>3, Zenon
<1>5. h # <<>> /\ \A i \in DOMAIN h : i = 1 \/ i = Len(h) => h[i] \in Alphanumeric
  BY <1>2, Zenon DEF IsValidSniHostname
<1>6. 1 \in DOMAIN h /\ Len(h) \in DOMAIN h
  BY <1>3, <1>5, LenProperties, EmptySeq, SMT, SMTT(30)
<1>7. "." \notin Alphanumeric
  BY Zenon DEF Alphanumeric, Letters
<1>8. h[1] # "." /\ h[Len(h)] # "."
  BY <1>5, <1>6, <1>7, Zenon
<1>9. IsCanonical(h) /\ h # <<>>
  BY <1>3, <1>4, <1>5, <1>8, Zenon DEF IsCanonical
<1>10. QED
  BY <1>2, <1>9, Zenon

-----------------------------------------------------------------------------
(* The rules within the front end. *)

NameOrNone(d) == d = None \/ (IsCanonical(d) /\ d # <<>>)

RouteInv ==
    /\ SearchInv
    /\ sniffing = "over" => NameOrNone(found)
    /\ RoutedAsConfigured

LEMMA RouteDecides == RouteInv /\ Route => RoutedAsConfigured'
<1> SUFFICES ASSUME RouteInv, Route PROVE RoutedAsConfigured'
  BY Zenon
<1>1. PICK cfg \in Configs, client \in ClientIps, dst \in DstIps :
         /\ Validate(cfg)
         /\ query' = [cfg |-> cfg, client |-> client, dst |-> dst, domain |-> found,
                      group |-> LookupUpstreamGroup(cfg, client, dst, found),
                      direct |-> ShouldDirectSmart(cfg, dst, found)]
  BY Zenon DEF Route
<1> DEFINE q == query'
<1>2. /\ q.cfg = cfg /\ q.client = client /\ q.dst = dst /\ q.domain = found
      /\ q.group = LookupUpstreamGroup(cfg, client, dst, found)
      /\ q.direct = ShouldDirectSmart(cfg, dst, found)
  BY <1>1, Zenon
<1>3. NameOrNone(found)
  BY Zenon DEF RouteInv, Route
<1> HIDE DEF q
<1>4. Decided(q)
  BY <1>1, <1>2, <1>3, Zenon DEF Decided, NameOrNone
<1>5. GroupAsConfigured(q) /\ DirectAsConfigured(q) /\ GroupServed(q)
  BY <1>4, GroupIsRight, DirectIsRight, GroupIsServed, Zenon
<1>6. QED
  BY <1>5, Zenon DEF RoutedAsConfigured, GroupAsConfigured, DirectAsConfigured, GroupServed, q

LEMMA RouteStep == RouteInv /\ [Next]_vars => RouteInv'
<1> SUFFICES ASSUME RouteInv, [Next]_vars PROVE RouteInv'
  BY Zenon
<1>1. SearchInv /\ SearchInv'
  BY SearchStep, Zenon DEF RouteInv
<1>2. query' = query => RoutedAsConfigured'
  BY Zenon DEF RouteInv, RoutedAsConfigured
<1>3. query' = None => RoutedAsConfigured'
  BY Zenon DEF RoutedAsConfigured
<1>4. CASE SniffNext /\ UNCHANGED <<socksVars, query>>
  <2>1. sniffing' # "over"
    BY <1>4, Zenon DEF SniffNext, Arrive, Peek, WaitForMore, Expire, GiveUp
  <2>2. QED
    BY <1>1, <1>2, <1>4, <2>1, ZenonT(30) DEF RouteInv
<1>5. CASE Sniffed
  <2>1. sniffing = "done" /\ found' = found /\ query' = query
    BY <1>5, Zenon DEF Sniffed
  <2>2. stream \in Streams /\ found \in {None, Carried(stream)}
    BY <1>1, <2>1, Zenon DEF SearchInv, SniffInv, SniffFindsHost
  <2>3. NameOrNone(found)
    BY <2>2, CarriedCanonical, Zenon DEF NameOrNone
  <2>4. QED
    BY <1>1, <1>2, <2>1, <2>3, Zenon DEF RouteInv
<1>6. CASE Route
  <2>1. UNCHANGED <<sniffing, found>>
    BY <1>6, Zenon DEF Route, sniffVars
  <2>2. QED
    BY <1>1, <1>6, <2>1, RouteDecides, Zenon DEF RouteInv
<1>7. CASE Proxy
  <2>1. query' = None /\ found' = None
    BY <1>7, Zenon DEF Proxy
  <2>2. QED
    BY <1>1, <1>3, <2>1, Zenon DEF RouteInv, NameOrNone
<1>8. CASE HealthCheck
  <2>1. query' = query /\ found' = None
    BY <1>8, Zenon DEF HealthCheck
  <2>2. QED
    BY <1>1, <1>2, <2>1, Zenon DEF RouteInv, NameOrNone
<1>9. CASE UNCHANGED <<sniffVars, query>>
  <2>1. UNCHANGED <<sniffing, found, query>>
    BY <1>9, Zenon DEF sniffVars
  <2>2. QED
    BY <1>1, <1>2, <2>1, Zenon DEF RouteInv
<1>10. QED
  BY <1>4, <1>5, <1>6, <1>7, <1>8, <1>9, Zenon DEF Next, vars

\* For any configuration that validate and AppState::build accept, and in
\* whatever order its hash maps are iterated, a connection goes to the group of
\* the most specific rule of the first kind that has one, directly or not as
\* the first list of names or networks that has it says; and that group has an upstream, but for
\* the cases that validate lets through (lookup_upstream_group, should_direct,
\* AppState::build, build_upstream_set).
THEOREM RoutedAsConfiguredHolds == Spec => []RoutedAsConfigured
<1>1. Init => RouteInv
  <2> SUFFICES ASSUME Init PROVE RouteInv
    BY Zenon
  <2>1. SearchInv
    BY SniffStarts, Zenon DEF Init, SearchInv
  <2>2. query = None /\ sniffing # "over"
    BY Zenon DEF Init, SniffInit
  <2>3. QED
    BY <2>1, <2>2, Zenon DEF RouteInv, RoutedAsConfigured
<1>2. RouteInv => RoutedAsConfigured
  BY Zenon DEF RouteInv
<1>3. QED
  BY <1>1, <1>2, RouteStep, PTL DEF Spec

=============================================================================
