------------------------ MODULE UdpPendingOnceProofs ------------------------
(***************************************************************************)
(* Theorems about UdpPending: no datagram is held in two places or sent    *)
(* twice, the replay buffers stay within their limits, and the datagrams   *)
(* of a key are sent in their order unless they were reaped, for any       *)
(* number of keys, packets, permits and sessions.                          *)
(***************************************************************************)
EXTENDS UdpPendingProofs

-----------------------------------------------------------------------------
(* Sequences without repetitions, kept apart from each other. *)

\* The sequences D[x] are injective, disjoint and avoid S.
Apart(X, D, S) ==
    /\ \A x \in X : D[x] \in Seq(Packets) /\ IsInjective(D[x]) /\ Range(D[x]) \cap S = {}
    /\ \A x, y \in X : x # y => Range(D[x]) \cap Range(D[y]) = {}

\* The empty sequence repeats nothing.
LEMMA EmptyOnce == <<>> \in Seq(Packets) /\ IsInjective(<<>>) /\ Range(<<>>) = {}
  BY SMT, SMTT(30) DEF IsInjective, Range

\* What Append adds to a sequence.
LEMMA AppendOnce ==
    ASSUME NEW s \in Seq(Packets), NEW p \in Packets, IsInjective(s), p \notin Range(s)
    PROVE  /\ Append(s, p) \in Seq(Packets) /\ IsInjective(Append(s, p))
           /\ Range(Append(s, p)) \subseteq Range(s) \cup {p}
<1>1. DOMAIN Append(s, p) = 1 .. (Len(s) + 1) /\ DOMAIN s = 1 .. Len(s) /\ Len(s) \in Nat
  BY SMT, SMTT(30)
<1>2. \A i \in 1 .. (Len(s) + 1) : Append(s, p)[i] = IF i = Len(s) + 1 THEN p ELSE s[i]
  BY SMT, SMTT(30)
<1>3. \A i \in 1 .. Len(s) : s[i] \in Range(s)
  BY <1>1, Zenon DEF Range
<1>4. \A i \in 1 .. (Len(s) + 1) : i # Len(s) + 1 => i \in 1 .. Len(s)
  BY <1>1, SMT, SMTT(30)
<1>5. IsInjective(Append(s, p))
  BY <1>1, <1>2, <1>3, <1>4, SMT, SMTT(30) DEF IsInjective
<1>6. Range(Append(s, p)) \subseteq Range(s) \cup {p}
  BY <1>1, <1>2, <1>3, <1>4, Zenon DEF Range
<1> QED
  BY <1>5, <1>6, SMT, SMTT(30)

\* What Tail leaves of a sequence.
LEMMA TailOnce ==
    ASSUME NEW s \in Seq(Packets), s # <<>>, IsInjective(s)
    PROVE  /\ Tail(s) \in Seq(Packets) /\ IsInjective(Tail(s))
           /\ Head(s) \in Range(s) /\ Head(s) \in Packets
           /\ Range(Tail(s)) \subseteq Range(s) \ {Head(s)}
<1>1. Len(s) \in Nat \ {0} /\ DOMAIN s = 1 .. Len(s) /\ DOMAIN Tail(s) = 1 .. (Len(s) - 1)
  BY SMT, SMTT(30)
<1>2. \A i \in 1 .. (Len(s) - 1) : Tail(s)[i] = s[i + 1]
  BY SMT, SMTT(30)
<1>3. \A i \in 1 .. (Len(s) - 1) : i + 1 \in 1 .. Len(s) /\ i + 1 # 1
  BY <1>1, SMT, SMTT(30)
<1>4. 1 \in 1 .. Len(s) /\ Head(s) = s[1]
  BY <1>1, SMT, SMTT(30)
<1>5. IsInjective(Tail(s))
  <2> SUFFICES ASSUME NEW i \in 1 .. (Len(s) - 1), NEW j \in 1 .. (Len(s) - 1),
                      Tail(s)[i] = Tail(s)[j]
               PROVE  i = j
    BY <1>1, Zenon DEF IsInjective
  <2>1. s[i + 1] = s[j + 1]
    BY <1>2, Zenon
  <2>2. i + 1 = j + 1
    BY <1>1, <1>3, <2>1, Zenon DEF IsInjective
  <2> QED
    BY <2>2, SMT, SMTT(30)
<1>6. Range(Tail(s)) \subseteq Range(s) \ {Head(s)}
  <2> SUFFICES ASSUME NEW i \in 1 .. (Len(s) - 1)
               PROVE  Tail(s)[i] \in Range(s) /\ Tail(s)[i] # Head(s)
    BY <1>1, Zenon DEF Range
  <2>1. Tail(s)[i] = s[i + 1] /\ i + 1 \in DOMAIN s /\ 1 \in DOMAIN s /\ i + 1 # 1
    BY <1>1, <1>2, <1>3, <1>4, Zenon
  <2>2. s[i + 1] # s[1]
    BY <2>1, Zenon DEF IsInjective
  <2> QED
    BY <1>4, <2>1, <2>2, Zenon DEF Range
<1>7. Head(s) \in Range(s)
  BY <1>1, <1>4, Zenon DEF Range
<1> QED
  BY <1>5, <1>6, <1>7, SMT, SMTT(30)

\* Sequences that are only emptied, and one of which may lose its head to S.
LEMMA ApartShrink ==
    ASSUME NEW X, NEW D, NEW E, NEW S, NEW T,
           Apart(X, D, S),
           \A x \in X : E[x] \in {D[x], <<>>} \/ (D[x] # <<>> /\ E[x] = Tail(D[x])),
           \/ T \subseteq S
           \/ \E y \in X : D[y] # <<>> /\ E[y] = Tail(D[y]) /\ T \subseteq S \cup {Head(D[y])}
    PROVE  Apart(X, E, T)
<1> USE DEF Apart
<1>1. \A x \in X : E[x] \in Seq(Packets) /\ IsInjective(E[x]) /\ Range(E[x]) \subseteq Range(D[x])
  <2> SUFFICES ASSUME NEW x \in X
               PROVE  E[x] \in Seq(Packets) /\ IsInjective(E[x]) /\ Range(E[x]) \subseteq Range(D[x])
    BY Zenon
  <2>1. CASE E[x] = D[x]
    BY <2>1, Zenon
  <2>2. CASE E[x] = <<>>
    BY <2>2, EmptyOnce, Zenon
  <2>3. CASE D[x] # <<>> /\ E[x] = Tail(D[x])
    <3>1. D[x] \in Seq(Packets) /\ IsInjective(D[x])
      BY Zenon
    <3> QED
      BY <2>3, <3>1, TailOnce, SMT, SMTT(30)
  <2> QED
    BY <2>1, <2>2, <2>3, Zenon
<1>2. \A x \in X : Range(E[x]) \cap T = {}
  <2>1. CASE T \subseteq S
    BY <1>1, <2>1, Zenon
  <2>2. ASSUME NEW y \in X, D[y] # <<>>, E[y] = Tail(D[y]), T \subseteq S \cup {Head(D[y])}
        PROVE  \A x \in X : Range(E[x]) \cap T = {}
    <3>0. D[y] \in Seq(Packets) /\ IsInjective(D[y])
      BY Zenon
    <3>1. Head(D[y]) \in Range(D[y]) /\ Head(D[y]) \notin Range(E[y])
      BY <2>2, <3>0, TailOnce, Zenon
    <3> SUFFICES ASSUME NEW x \in X PROVE Range(E[x]) \cap T = {}
      BY Zenon
    <3>2. Range(E[x]) \subseteq Range(D[x]) /\ Range(D[x]) \cap S = {}
      BY <1>1, ZenonT(30)
    <3>3. x # y => Range(D[x]) \cap Range(D[y]) = {}
      BY Zenon
    <3>4. Head(D[y]) \notin Range(E[x])
      BY <3>1, <3>2, <3>3, Zenon
    <3> HIDE DEF Apart
    <3> QED
      BY <2>2, <3>2, <3>4, Zenon
  <2> QED
    BY <2>1, <2>2, Zenon
<1>3. \A x, z \in X : x # z => Range(E[x]) \cap Range(E[z]) = {}
  BY <1>1, ZenonT(30)
<1> QED
  BY <1>1, <1>2, <1>3, ZenonT(30)

\* One sequence y gets what another one, x, had, or p, or both.
LEMMA ApartShift ==
    ASSUME NEW X, NEW D, NEW E, NEW S, NEW T, NEW x \in X, NEW y \in X, NEW p \in Packets,
           Apart(X, D, S),
           T \subseteq S,
           E[y] \in {<<>>, D[x]} \/ (p \in S \ T /\ E[y] \in {<<p>>, Append(D[x], p)}),
           \A z \in X \ {y} : E[z] = <<>> \/ (E[z] = D[z] /\ z # x)
    PROVE  Apart(X, E, T)
<1> USE DEF Apart
<1>1. p \in S => p \notin Range(D[x])
  BY Zenon
<1>2. \A z \in X \ {y} : /\ E[z] \in Seq(Packets) /\ IsInjective(E[z])
                         /\ Range(E[z]) \subseteq Range(D[z])
                         /\ Range(E[z]) \cap Range(D[x]) = {}
  BY EmptyOnce, ZenonT(30)
<1>3. <<p>> \in Seq(Packets) /\ IsInjective(<<p>>) /\ Range(<<p>>) = {p}
  BY SMT, SMTT(30) DEF IsInjective, Range
<1>4. D[x] \in Seq(Packets) /\ IsInjective(D[x]) /\ Range(D[x]) \cap S = {}
  BY Zenon
<1>5. PICK R : /\ E[y] \in Seq(Packets) /\ IsInjective(E[y]) /\ Range(E[y]) \subseteq Range(D[x]) \cup R
               /\ R \subseteq S \ T
  <2>1. CASE E[y] = <<>> \/ E[y] = D[x]
    BY <1>4, <2>1, EmptyOnce, ZenonT(30)
  <2>2. CASE p \in S \ T /\ E[y] = <<p>>
    BY <1>3, <2>2, ZenonT(60)
  <2>3. CASE p \in S \ T /\ E[y] = Append(D[x], p)
    <3>1. /\ E[y] \in Seq(Packets) /\ IsInjective(E[y])
          /\ Range(E[y]) \subseteq Range(D[x]) \cup {p}
      BY <1>1, <1>4, <2>3, AppendOnce, SMT, SMTT(30)
    <3>2. {p} \subseteq S \ T
      BY <2>3, Zenon
    <3> HIDE DEF Apart
    <3> QED
      BY <3>1, <3>2, ZenonT(30)
  <2> QED
    BY <2>1, <2>2, <2>3, ZenonT(30)
<1>6. Range(E[y]) \cap T = {}
  BY <1>4, <1>5, Zenon
<1>7. \A z \in X \ {y} : Range(E[z]) \cap T = {}
  BY <1>2, Zenon
<1>8. \A z \in X \ {y} : Range(E[z]) \cap Range(E[y]) = {}
  <2> SUFFICES ASSUME NEW z \in X \ {y}
               PROVE  Range(E[z]) \cap Range(E[y]) = {}
    BY Zenon
  <2>1. Range(E[z]) \cap S = {} /\ Range(E[z]) \cap Range(D[x]) = {}
    BY <1>2, ZenonT(30)
  <2> QED
    BY <1>5, <2>1, Zenon
<1>9. \A z, v \in X : z # v => Range(E[z]) \cap Range(E[v]) = {}
  <2> SUFFICES ASSUME NEW z \in X, NEW v \in X, z # v
               PROVE  Range(E[z]) \cap Range(E[v]) = {}
    BY ZenonT(30)
  <2>1. CASE z = y \/ v = y
    BY <1>8, <2>1, Zenon
  <2>2. CASE z # y /\ v # y
    BY <1>2, <2>2, ZenonT(30)
  <2> QED
    BY <2>1, <2>2, Zenon
<1> QED
  BY <1>2, <1>5, <1>6, <1>7, <1>9, ZenonT(30)

-----------------------------------------------------------------------------
(* The places that hold datagrams. *)

\* An entry of the map: it has at least the datagram that made it.
Entry == [left : Nat, noClue : Nat, data : Seq(Packets) \ {<<>>}]

DataOf(e) == IF e = None THEN <<>> ELSE e.data

Spots == ({"map"} \X Keys) \cup ({"task"} \X Packets) \cup ({"flush"} \X Actors)

\* What every place holds, given the map, the entries of tasks and the flushes.
View(m, e, f) ==
    [x \in Spots |-> IF x[1] = "map" THEN DataOf(m[x[2]])
                     ELSE IF x[1] = "task" THEN DataOf(e[x[2]])
                     ELSE f[x[2]]]

\* The packets whose datagram handle_udp_client_payload has not dealt with yet.
Early == {"new", "lock", "probe", "take"}

Waiting == {p \in Packets : pc[p] \in Early}

(***************************************************************************)
(* The inductive invariant behind NoDuplicate: the places hold different   *)
(* datagrams, none of which has been sent or still waits to be dealt with, *)
(* and an actor that forwards has something to forward.                    *)
(***************************************************************************)
OnceInv ==
    /\ pending \in [Keys -> Entry \cup {None}]
    /\ entry \in [Packets -> Entry \cup {None}]
    /\ todo \in [Actors -> Seq(Packets)]
    /\ \A a \in Actors : pc[a] \in {"forward", "send"} => todo[a] # <<>>
    /\ Apart(Spots, View(pending, entry, todo), sent \cup Waiting)
    /\ sent \subseteq Packets /\ sent \cap Waiting = {}

\* V shows the places one by one.
Shows(V, m, e, f) ==
    /\ \A k \in Keys : <<"map", k>> \in Spots /\ V[<<"map", k>>] = DataOf(m[k])
    /\ \A p \in Packets : <<"task", p>> \in Spots /\ V[<<"task", p>>] = DataOf(e[p])
    /\ \A a \in Actors : <<"flush", a>> \in Spots /\ V[<<"flush", a>>] = f[a]

\* View does.
LEMMA ViewLemma ==
    ASSUME NEW m, NEW e, NEW f
    PROVE  Shows(View(m, e, f), m, e, f)
<1>1. \A k \in Keys : <<"map", k>> \in Spots
  BY Zenon DEF Spots
<1>2. \A p \in Packets : <<"task", p>> \in Spots
  BY Zenon DEF Spots
<1>3. \A a \in Actors : <<"flush", a>> \in Spots
  BY Zenon DEF Spots
<1> QED
  BY <1>1, <1>2, <1>3, Zenon DEF View, Shows

\* There are no other places.
LEMMA SpotLemma ==
    ASSUME NEW x \in Spots
    PROVE  \/ \E k \in Keys : x = <<"map", k>>
           \/ \E p \in Packets : x = <<"task", p>>
           \/ \E a \in Actors : x = <<"flush", a>>
  BY SMT, SMTT(30) DEF Spots

\* Nothing is cached at first.
LEMMA InitOnceInv == Init => OnceInv
<1> SUFFICES ASSUME Init
             PROVE  OnceInv
  BY Zenon
<1>1. \A x \in Spots : View(pending, entry, todo)[x] = <<>>
  <2>1. Shows(View(pending, entry, todo), pending, entry, todo)
    BY ViewLemma, Zenon
  <2> QED
    BY <2>1, SpotLemma, SMT, SMTT(30) DEF Init, DataOf, Shows
<1>2. Apart(Spots, View(pending, entry, todo), sent \cup Waiting)
  BY <1>1, EmptyOnce, ZenonT(30) DEF Apart
<1>3. /\ pending \in [Keys -> Entry \cup {None}]
      /\ entry \in [Packets -> Entry \cup {None}]
      /\ todo \in [Actors -> Seq(Packets)]
      /\ \A a \in Actors : pc[a] \notin {"forward", "send"}
      /\ sent = {}
  BY SMT, SMTT(30) DEF Init
<1> QED
  BY <1>2, <1>3, Zenon DEF OnceInv

-----------------------------------------------------------------------------
(* What the steps do to the places. *)

\* Places keep what they hold or lose it.
LEMMA QuietOnceInv ==
    ASSUME OnceInv,
           pending' \in [Keys -> Entry \cup {None}],
           \A k \in Keys : DataOf(pending'[k]) \in {DataOf(pending[k]), <<>>},
           entry' \in [Packets -> Entry \cup {None}],
           \A p \in Packets : DataOf(entry'[p]) \in {DataOf(entry[p]), <<>>},
           todo' \in [Actors -> Seq(Packets)],
           \A a \in Actors : todo'[a] \in {todo[a], <<>>},
           \A a \in Actors : pc'[a] \in {"forward", "send"} => todo'[a] # <<>>,
           Waiting' \subseteq Waiting,
           sent' = sent
    PROVE  OnceInv'
<1> DEFINE D == View(pending, entry, todo)
           E == View(pending', entry', todo')
<1>1. Shows(D, pending, entry, todo) /\ Shows(E, pending', entry', todo')
  BY ViewLemma, Zenon
<1>2. Apart(Spots, D, sent \cup Waiting)
  BY Zenon DEF OnceInv
<1> HIDE DEF D, E
<1>3. \A x \in Spots : E[x] \in {D[x], <<>>}
  BY <1>1, SpotLemma, SMT, SMTT(30) DEF Shows
<1>4. sent' \cup Waiting' \subseteq sent \cup Waiting
  BY Zenon
<1>5. Apart(Spots, E, sent' \cup Waiting')
  BY <1>2, <1>3, <1>4, ApartShrink, Zenon
<1> QED
  BY <1>5, Zenon DEF OnceInv, E

\* NextDatagram: a flush loses its first datagram, which may have been sent.
LEMMA PopOnceInv ==
    ASSUME OnceInv, NEW a \in Actors, pc[a] \in {"forward", "send"},
           UNCHANGED <<pending, entry>>,
           todo' = [todo EXCEPT ![a] = Tail(@)],
           \A b \in Actors : pc'[b] \in {"forward", "send"} => todo'[b] # <<>>,
           Waiting' \subseteq Waiting,
           sent' \subseteq sent \cup {Head(todo[a])}
    PROVE  OnceInv'
<1> DEFINE D == View(pending, entry, todo)
           E == View(pending', entry', todo')
           y == <<"flush", a>>
<1>0. Shows(D, pending, entry, todo) /\ Shows(E, pending', entry', todo')
  BY ViewLemma, Zenon
<1> HIDE DEF D, E
<1>1. y \in Spots /\ D[y] = todo[a] /\ E[y] = Tail(todo[a])
  BY <1>0, ZenonT(30) DEF OnceInv, Shows
<1>2. \A x \in Spots : x # y => E[x] = D[x]
  BY <1>0, SpotLemma, SMT, SMTT(30) DEF OnceInv, Shows
<1> USE DEF D
<1>3. Apart(Spots, D, sent \cup Waiting) /\ todo[a] # <<>> /\ todo[a] \in Seq(Packets) /\ sent \cap Waiting = {}
  BY Zenon DEF OnceInv
<1> HIDE DEF D, E, y
<1>4. Apart(Spots, E, sent' \cup Waiting')
  <2>1. sent' \cup Waiting' \subseteq (sent \cup Waiting) \cup {Head(D[y])}
    BY <1>1, Zenon
  <2>2. \A x \in Spots : E[x] \in {D[x], <<>>} \/ (D[x] # <<>> /\ E[x] = Tail(D[x]))
    BY <1>1, <1>2, <1>3, Zenon
  <2>3. y \in Spots /\ D[y] # <<>> /\ E[y] = Tail(D[y])
    BY <1>1, <1>3, Zenon
  <2> QED
    BY <1>3, <2>1, <2>2, <2>3, ApartShrink, Zenon
<1>5. Head(todo[a]) \notin Waiting /\ Head(todo[a]) \in Packets
  <2>1. IsInjective(todo[a]) /\ Range(todo[a]) \cap (sent \cup Waiting) = {}
    BY <1>1, <1>3, Zenon DEF Apart
  <2> QED
    BY <1>3, <2>1, TailOnce, Zenon
<1>6. todo' \in [Actors -> Seq(Packets)]
  BY <1>3, SMT, SMTT(30) DEF OnceInv
<1> QED
  BY <1>3, <1>4, <1>5, <1>6, Zenon DEF OnceInv, E

\* A place y gets the datagrams of a place x, which are removed there, or the
\* datagram of a packet that waited, or both.
LEMMA ShiftOnceInv ==
    ASSUME OnceInv, NEW x \in Spots, NEW y \in Spots, NEW p \in Packets, NEW s,
           pending' \in [Keys -> Entry \cup {None}],
           entry' \in [Packets -> Entry \cup {None}],
           todo' \in [Actors -> Seq(Packets)],
           View(pending', entry', todo')[y] = s,
           \/ s \in {<<>>, View(pending, entry, todo)[x]}
           \/ p \in Waiting \ Waiting' /\ s \in {<<p>>, Append(View(pending, entry, todo)[x], p)},
           \A z \in Spots \ {y} :
              \/ View(pending', entry', todo')[z] = <<>>
              \/ z # x /\ View(pending', entry', todo')[z] = View(pending, entry, todo)[z],
           \A a \in Actors : pc'[a] \in {"forward", "send"} => todo'[a] # <<>>,
           Waiting' \subseteq Waiting,
           sent' = sent
    PROVE  OnceInv'
<1> DEFINE D == View(pending, entry, todo)
           E == View(pending', entry', todo')
<1>1. Apart(Spots, D, sent \cup Waiting) /\ sent \cap Waiting = {}
  BY Zenon DEF OnceInv
<1>2. E[y] \in {<<>>, D[x]}
      \/ (p \in (sent \cup Waiting) \ (sent' \cup Waiting') /\ E[y] \in {<<p>>, Append(D[x], p)})
  BY <1>1, Zenon
<1>3. \A z \in Spots \ {y} : E[z] = <<>> \/ (E[z] = D[z] /\ z # x)
  BY Zenon
<1>4. sent' \cup Waiting' \subseteq sent \cup Waiting
  BY Zenon
<1> HIDE DEF D, E
<1>5. Apart(Spots, E, sent' \cup Waiting')
  BY <1>1, <1>2, <1>3, <1>4, ApartShift, SMT, SMTT(30)
<1> QED
  BY <1>1, <1>5, Zenon DEF OnceInv, E

\* The entry of k moves into the flush of a, maybe with the packet p, or p alone.
LEMMA FlushOnceInv ==
    ASSUME OnceInv, NEW k \in Keys, NEW a \in Actors, NEW p \in Packets, NEW s \in Seq(Packets) \ {<<>>},
           pending' = [pending EXCEPT ![k] = None],
           entry' = entry,
           todo' = [todo EXCEPT ![a] = s],
           \/ s = DataOf(pending[k])
           \/ p \in Waiting \ Waiting' /\ s \in {<<p>>, Append(DataOf(pending[k]), p)},
           \A b \in Actors : b # a /\ pc'[b] \in {"forward", "send"} => pc[b] \in {"forward", "send"},
           Waiting' \subseteq Waiting,
           sent' = sent
    PROVE  OnceInv'
<1> DEFINE D == View(pending, entry, todo)
           E == View(pending', entry', todo')
           x == <<"map", k>>
           y == <<"flush", a>>
<1>1. Shows(D, pending, entry, todo) /\ Shows(E, pending', entry', todo')
  BY ViewLemma, Zenon
<1>2. /\ pending' \in [Keys -> Entry \cup {None}]
      /\ entry' \in [Packets -> Entry \cup {None}]
      /\ todo' \in [Actors -> Seq(Packets)]
      /\ \A b \in Actors : pc'[b] \in {"forward", "send"} => todo'[b] # <<>>
  BY Zenon DEF OnceInv
<1> HIDE DEF D, E
<1>3. x \in Spots /\ y \in Spots /\ D[x] = DataOf(pending[k]) /\ E[y] = s
  BY <1>1, Zenon DEF Shows, OnceInv
<1>4. \A z \in Spots \ {y} : E[z] = <<>> \/ (z # x /\ E[z] = D[z])
  BY <1>1, SpotLemma, SMT, SMTT(30) DEF Shows, OnceInv, DataOf
<1>5. E[y] \in {<<>>, D[x]} \/ (p \in Waiting \ Waiting' /\ E[y] \in {<<p>>, Append(D[x], p)})
  BY <1>3, Zenon
<1> HIDE DEF x, y
<1> QED
  BY <1>2, <1>3, <1>4, <1>5, ShiftOnceInv, ZenonT(30) DEF D, E

\* handle_pending_udp_sniff takes the entry of k out of the map and adds p.
LEMMA TakeOnceInv ==
    ASSUME OnceInv, NEW k \in Keys, NEW p \in Packets, NEW e \in Entry,
           pending' = [pending EXCEPT ![k] = None],
           entry' = [entry EXCEPT ![p] = e],
           todo' = todo,
           p \in Waiting \ Waiting', e.data = Append(DataOf(pending[k]), p),
           \A b \in Actors : pc'[b] \in {"forward", "send"} => pc[b] \in {"forward", "send"},
           Waiting' \subseteq Waiting,
           sent' = sent
    PROVE  OnceInv'
<1> DEFINE D == View(pending, entry, todo)
           E == View(pending', entry', todo')
           x == <<"map", k>>
           y == <<"task", p>>
<1>1. Shows(D, pending, entry, todo) /\ Shows(E, pending', entry', todo')
  BY ViewLemma, Zenon
<1>2. /\ pending' \in [Keys -> Entry \cup {None}]
      /\ entry' \in [Packets -> Entry \cup {None}]
      /\ todo' \in [Actors -> Seq(Packets)]
      /\ \A b \in Actors : pc'[b] \in {"forward", "send"} => todo'[b] # <<>>
  BY Zenon DEF OnceInv
<1> HIDE DEF D, E
<1>3. x \in Spots /\ y \in Spots /\ D[x] = DataOf(pending[k]) /\ E[y] \in {<<>>, e.data}
  BY <1>1, ZenonT(30) DEF Shows, OnceInv, DataOf
<1>4. \A z \in Spots \ {y} : E[z] = <<>> \/ (z # x /\ E[z] = D[z])
  BY <1>1, SpotLemma, SMT, SMTT(30) DEF Shows, OnceInv, DataOf
<1>5. E[y] \in {<<>>, D[x]} \/ (p \in Waiting \ Waiting' /\ E[y] \in {<<p>>, Append(D[x], p)})
  BY <1>3, ZenonT(30)
<1> HIDE DEF x, y
<1> QED
  BY <1>2, <1>3, <1>4, <1>5, ShiftOnceInv, ZenonT(30) DEF D, E

\* Insert puts the entry of a task back.
LEMMA InsertOnceInv ==
    ASSUME OnceInv, NEW k \in Keys, NEW p \in Packets,
           pending' = [pending EXCEPT ![k] = entry[p]],
           entry' = [entry EXCEPT ![p] = None],
           todo' = todo,
           \A b \in Actors : pc'[b] \in {"forward", "send"} => pc[b] \in {"forward", "send"},
           Waiting' \subseteq Waiting,
           sent' = sent
    PROVE  OnceInv'
<1> DEFINE D == View(pending, entry, todo)
           E == View(pending', entry', todo')
           x == <<"task", p>>
           y == <<"map", k>>
<1>1. Shows(D, pending, entry, todo) /\ Shows(E, pending', entry', todo')
  BY ViewLemma, Zenon
<1>2. /\ pending' \in [Keys -> Entry \cup {None}]
      /\ entry' \in [Packets -> Entry \cup {None}]
      /\ todo' \in [Actors -> Seq(Packets)]
      /\ \A b \in Actors : pc'[b] \in {"forward", "send"} => todo'[b] # <<>>
  BY Zenon DEF OnceInv
<1> HIDE DEF D, E
<1>3. x \in Spots /\ y \in Spots /\ D[x] = DataOf(entry[p]) /\ E[y] = D[x]
  BY <1>1, ZenonT(30) DEF Shows, OnceInv
<1>4. \A z \in Spots \ {y} : E[z] = <<>> \/ (z # x /\ E[z] = D[z])
  BY <1>1, SpotLemma, SMT, SMTT(30) DEF Shows, OnceInv, DataOf
<1> HIDE DEF x, y
<1> QED
  BY <1>2, <1>3, <1>4, ShiftOnceInv, ZenonT(30) DEF D, E

\* handle_new_udp_sniff makes an entry with p alone.
LEMMA NewOnceInv ==
    ASSUME OnceInv, NEW k \in Keys, NEW p \in Packets, NEW e \in Entry,
           pending' = [pending EXCEPT ![k] = e],
           entry' = entry,
           todo' = todo,
           p \in Waiting \ Waiting', e.data = <<p>>,
           \A b \in Actors : pc'[b] \in {"forward", "send"} => pc[b] \in {"forward", "send"},
           Waiting' \subseteq Waiting,
           sent' = sent
    PROVE  OnceInv'
<1> DEFINE D == View(pending, entry, todo)
           E == View(pending', entry', todo')
           y == <<"map", k>>
<1>1. Shows(D, pending, entry, todo) /\ Shows(E, pending', entry', todo')
  BY ViewLemma, Zenon
<1>2. /\ pending' \in [Keys -> Entry \cup {None}]
      /\ entry' \in [Packets -> Entry \cup {None}]
      /\ todo' \in [Actors -> Seq(Packets)]
      /\ \A b \in Actors : pc'[b] \in {"forward", "send"} => todo'[b] # <<>>
  BY Zenon DEF OnceInv
<1> HIDE DEF D, E
<1>3. y \in Spots /\ E[y] \in {<<>>, <<p>>}
  BY <1>1, ZenonT(30) DEF Shows, OnceInv, DataOf
<1>4. \A z \in Spots \ {y} : E[z] = <<>> \/ (z # y /\ E[z] = D[z])
  BY <1>1, SpotLemma, SMT, SMTT(30) DEF Shows, OnceInv, DataOf
<1> HIDE DEF y
<1> QED
  BY <1>2, <1>3, <1>4, ShiftOnceInv, ZenonT(60) DEF D, E

-----------------------------------------------------------------------------
(* The actions. *)

\* Append leaves something in the sequence.
LEMMA AppendFills ==
    ASSUME NEW s \in Seq(Packets), NEW p \in Packets
    PROVE  Append(s, p) \in Seq(Packets) /\ Append(s, p) # <<>>
<1>1. Len(Append(s, p)) = Len(s) + 1 /\ Len(s) \in Nat
  BY SMT, SMTT(30)
<1> QED
  BY <1>1, SMT, SMTT(30)

\* What TakeMore makes of an entry.
LEMMA RecordNoClue ==
    ASSUME NEW r \in Entry, NEW p \in Packets, NEW clue \in BOOLEAN
    PROVE  LET e == [r EXCEPT !.data = Append(@, p), !.noClue = IF clue THEN @ ELSE @ + 1]
           IN  e \in Entry /\ e.data = Append(r.data, p)
<1>1. r.data \in Seq(Packets) /\ r.noClue \in Nat
  BY Zenon DEF Entry
<1>2. Append(r.data, p) \in Seq(Packets) /\ Append(r.data, p) # <<>>
  BY <1>1, AppendFills, Zenon
<1>3. (IF clue THEN r.noClue ELSE r.noClue + 1) \in Nat
  BY <1>1, SMT, SMTT(30)
<1> DEFINE d == Append(r.data, p)
           n == IF clue THEN r.noClue ELSE r.noClue + 1
<1> HIDE DEF d, n
<1>4. [r EXCEPT !.data = d, !.noClue = n] \in Entry /\ [r EXCEPT !.data = d, !.noClue = n].data = d
  BY <1>2, <1>3, ZenonT(30) DEF Entry, d, n
<1> QED
  BY <1>4, Zenon DEF d, n

\* The loop is an actor of its own.
LEMMA ActorLemma == Loop \in Actors /\ \A p \in Packets : p \in Actors /\ p # Loop
  BY SMT, SMTT(30) DEF Actors, Loop, Packets

\* One actor moves, and no packet gets back among those that wait.
LEMMA MoveWaiting ==
    ASSUME LockInv, NEW a \in Actors, NEW l,
           pc' = [pc EXCEPT ![a] = l],
           a = Loop \/ l \notin Early \/ pc[a] \in Early
    PROVE  /\ Waiting' \subseteq Waiting
           /\ a \in Packets /\ pc[a] \in Early /\ l \notin Early => a \in Waiting \ Waiting'
           /\ \A b \in Actors : b # a /\ pc'[b] \in {"forward", "send"} => pc[b] \in {"forward", "send"}
           /\ l \notin {"forward", "send"} =>
                 \A b \in Actors : pc'[b] \in {"forward", "send"} => pc[b] \in {"forward", "send"}
<1>1. \A b \in Actors : pc'[b] = IF b = a THEN l ELSE pc[b]
  BY Zenon DEF LockInv
<1>2. \A b \in Packets : b \in Actors /\ b # Loop
  BY ActorLemma, Zenon
<1>3. Waiting' = {p \in Packets : pc'[p] \in Early}
  BY Zenon DEF Waiting
<1> QED
  BY <1>1, <1>2, <1>3, Zenon DEF Waiting


\* Only a reap that finds an entry moves datagrams in the loop itself.
LEMMA LoopOnceInv ==
    ASSUME LockInv, OnceInv, ReceiveAny \/ LoopStep \/ Stop \/ Tick
    PROVE  OnceInv'
<1> USE NoneIsNoPacket, ActorLemma
<1>1. CASE ReceiveAny \/ ReapKeysDone \/ Spawn
  <2>1. UNCHANGED <<pending, entry, todo, sent>>
    BY <1>1, Zenon DEF ReceiveAny, Receive, ReapKeysDone, Spawn, mapVars, histVars
  <2>2. /\ \A a \in Actors : pc'[a] \in {"forward", "send"} => pc[a] \in {"forward", "send"}
        /\ Waiting' \subseteq Waiting
    <3>1. CASE ReceiveAny \/ ReapKeysDone
      <4>1. PICK l \in {"spawn", "reap", "len"} : pc' = [pc EXCEPT ![Loop] = l]
        BY <3>1, Zenon DEF ReceiveAny, Receive, ReapKeysDone, Goto
      <4> QED
        BY <4>1, MoveWaiting, ZenonT(30)
    <3>2. CASE Spawn
      <4>1. \A b \in Actors : \/ pc'[b] = pc[b]
                              \/ b = Loop /\ pc'[b] = "recv"
                              \/ b = cur /\ pc[b] = "new" /\ pc'[b] \in {"lock", "done"}
        BY <3>2, ZenonT(30) DEF Spawn, Goto, LockInv
      <4>2. \A b \in Packets : b \in Actors /\ b # Loop
        BY ActorLemma, Zenon
      <4>3. Waiting' = {b \in Packets : pc'[b] \in Early}
        BY Zenon DEF Waiting
      <4> QED
        BY <4>1, <4>2, <4>3, Zenon DEF Waiting, Early
    <3> QED
      BY <1>1, <3>1, <3>2, Zenon
  <2> QED
    BY <2>1, <2>2, QuietOnceInv, Zenon DEF OnceInv
<1>2. ASSUME NEW k \in Keys, ReapKey(k) PROVE OnceInv'
  <2>1. CASE pending[k] = None
    BY <1>2, <2>1, QuietOnceInv, Zenon DEF ReapKey, OnceInv, Waiting, histVars
  <2>2. CASE pending[k] # None
    <3>1. /\ pending' = [pending EXCEPT ![k] = None] /\ entry' = entry /\ sent' = sent
          /\ todo' = [todo EXCEPT ![Loop] = pending[k].data]
          /\ pc' = [pc EXCEPT ![Loop] = "forward"]
      BY <1>2, <2>2, Zenon DEF ReapKey, Goto, histVars
    <3>2. pending[k].data \in Seq(Packets) \ {<<>>} /\ DataOf(pending[k]) = pending[k].data
      BY <2>2, Zenon DEF OnceInv, Entry, DataOf
    <3>3. /\ \A b \in Actors : b # Loop /\ pc'[b] \in {"forward", "send"} => pc[b] \in {"forward", "send"}
          /\ Waiting' \subseteq Waiting
      BY <3>1, MoveWaiting, ZenonT(30)
    <3>4. CASE Packets = {}
      <4>1. Seq(Packets) \ {<<>>} = {}
        BY <3>4, SMT, SMTT(30)
      <4> QED
        BY <3>2, <4>1, Zenon
    <3>5. ASSUME NEW p \in Packets PROVE OnceInv'
      <4>1. Loop \in Actors
        BY ActorLemma, Zenon
      <4> DEFINE s == pending[k].data
      <4>2. s = DataOf(pending[k]) /\ s \in Seq(Packets) \ {<<>>} /\ todo' = [todo EXCEPT ![Loop] = s]
        BY <3>1, <3>2, Zenon
      <4> HIDE DEF s
      <4> QED
        BY <3>1, <3>3, <4>1, <4>2, FlushOnceInv, ZenonT(30)
    <3> QED
      BY <3>4, <3>5, Zenon
  <2> QED
    BY <2>1, <2>2, Zenon
<1>3. CASE Stop
  <2>1. /\ UNCHANGED <<pending, entry, sent>> /\ todo' = [todo EXCEPT ![Loop] = <<>>]
        /\ pc' = [a \in Actors |-> IF a = Loop THEN "stopped" ELSE IF a = cur THEN "done" ELSE pc[a]]
    BY <1>3, Zenon DEF Stop, mapVars, histVars
  <2>2. Waiting' \subseteq Waiting
    <3>1. \A b \in Packets : pc'[b] \in {"done", pc[b]}
      BY <2>1, Zenon
    <3>2. Waiting' = {b \in Packets : pc'[b] \in Early}
      BY Zenon DEF Waiting
    <3> QED
      BY <3>1, <3>2, Zenon DEF Waiting, Early
  <2>3. \A a \in Actors : pc'[a] \in {"forward", "send"} => todo'[a] # <<>>
    BY <2>1, Zenon DEF OnceInv
  <2>4. todo' \in [Actors -> Seq(Packets)] /\ \A a \in Actors : todo'[a] \in {todo[a], <<>>}
    BY <2>1, SMT, SMTT(30) DEF OnceInv
  <2> QED
    BY <2>1, <2>2, <2>3, <2>4, QuietOnceInv, Zenon DEF OnceInv
<1>4. CASE Tick
  <2> DEFINE Older(e) == IF e = None THEN None ELSE [e EXCEPT !.left = IF @ = 0 THEN 0 ELSE @ - 1]
  <2>1. /\ pending' = [k \in Keys |-> Older(pending[k])]
        /\ entry' = [p \in Packets |-> Older(entry[p])]
        /\ UNCHANGED <<pc, todo, sent>>
    BY <1>4, Zenon DEF Tick, histVars
  <2>2. ASSUME NEW e \in Entry \cup {None}
        PROVE  Older(e) \in Entry \cup {None} /\ DataOf(Older(e)) \in {DataOf(e), <<>>}
    BY SMT, SMTT(30) DEF Entry, DataOf
  <2> HIDE DEF Older
  <2>3. Waiting' = Waiting
    BY <2>1, Zenon DEF Waiting
  <2>4. /\ pending' \in [Keys -> Entry \cup {None}]
        /\ \A k \in Keys : DataOf(pending'[k]) \in {DataOf(pending[k]), <<>>}
    BY <2>1, <2>2, Zenon DEF OnceInv
  <2>5. /\ entry' \in [Packets -> Entry \cup {None}]
        /\ \A p \in Packets : DataOf(entry'[p]) \in {DataOf(entry[p]), <<>>}
    BY <2>1, <2>2, Zenon DEF OnceInv
  <2> QED
    BY <2>1, <2>3, <2>4, <2>5, QuietOnceInv, Zenon DEF OnceInv
<1> QED
  BY <1>1, <1>2, <1>3, <1>4, ZenonT(30) DEF LoopStep

\* A task whose packet waited deals with it.
LEMMA TaskOnceInv ==
    ASSUME LockInv, OnceInv, NEW p \in Packets, TaskStep(p)
    PROVE  OnceInv'
<1> USE NoneIsNoPacket, ActorLemma
<1>0. key[p] \in Keys \/ pc[p] \in {"new", "done"}
  BY Zenon DEF LockInv
<1>1. CASE Acquire(p) \/ ProbeMiss(p)
  <2>1. UNCHANGED <<pending, entry, todo, sent>>
    BY <1>1, Zenon DEF Acquire, ProbeMiss, mapVars, histVars
  <2>2. /\ \A a \in Actors : pc'[a] \in {"forward", "send"} => pc[a] \in {"forward", "send"}
        /\ Waiting' \subseteq Waiting
    <3>1. PICK l \in {"probe", "take", "done"} : pc' = [pc EXCEPT ![p] = l] /\ pc[p] \in {"lock", "probe"}
      BY <1>1, Zenon DEF Acquire, ProbeMiss, Finish, Goto
    <3> QED
      BY <3>1, MoveWaiting, ZenonT(30) DEF Early
  <2> QED
    BY <2>1, <2>2, QuietOnceInv, Zenon DEF OnceInv
<1>2. ASSUME NEW l \in {"forward", "send", "len", "insert"}, pc' = [pc EXCEPT ![p] = l],
             pc[p] \in {"probe", "take"}
      PROVE  /\ \A b \in Actors : b # p /\ pc'[b] \in {"forward", "send"} => pc[b] \in {"forward", "send"}
             /\ l \in {"len", "insert"} =>
                   \A b \in Actors : pc'[b] \in {"forward", "send"} => pc[b] \in {"forward", "send"}
             /\ Waiting' \subseteq Waiting /\ p \in Waiting \ Waiting'
             /\ key[p] \in Keys /\ pending[key[p]] \in Entry \cup {None}
  <2>1. key[p] \in Keys /\ pending[key[p]] \in Entry \cup {None}
    BY <1>0, <1>2, Zenon DEF OnceInv
  <2>2. l \notin Early /\ pc[p] \in Early /\ p \in Actors
    BY <1>2, Zenon DEF Early
  <2> QED
    BY <1>2, <2>1, <2>2, MoveWaiting, ZenonT(30)
<1>3. CASE ProbeHit(p) \/ \E h \in BOOLEAN : SniffForward(p, h)
  <2>1. /\ pending' = [pending EXCEPT ![key[p]] = None] /\ entry' = entry /\ sent' = sent
        /\ todo' = [todo EXCEPT ![p] = <<p>>]
    BY <1>3, SMT, SMTT(30) DEF ProbeHit, SniffForward, OnceInv, mapVars, histVars
  <2>2. PICK l \in {"forward", "send", "len", "insert"} :
           pc' = [pc EXCEPT ![p] = l] /\ pc[p] \in {"probe", "take"}
    BY <1>3, Zenon DEF ProbeHit, SniffForward, Goto
  <2>3. <<p>> \in Seq(Packets) \ {<<>>}
    BY SMT, SMTT(30)
  <2> QED
    BY <1>2, <2>1, <2>2, <2>3, FlushOnceInv, ZenonT(30)
<1>4. CASE TakeExpired(p) \/ TakeMatched(p) \/ TakeFailed(p)
  <2>1. /\ pending' = [pending EXCEPT ![key[p]] = None] /\ entry' = entry /\ sent' = sent
        /\ todo' = [todo EXCEPT ![p] = Append(pending[key[p]].data, p)]
        /\ pc' = [pc EXCEPT ![p] = "forward"] /\ pc[p] = "take"
        /\ pending[key[p]] # None
    <3>1. CASE TakeExpired(p)
      BY <3>1, Zenon DEF TakeExpired, Flush, FlushedWith, Goto, mapVars, histVars
    <3>2. CASE TakeMatched(p)
      BY <3>2, Zenon DEF TakeMatched, Fits, Flush, FlushedWith, Goto, mapVars, histVars
    <3>3. CASE TakeFailed(p)
      BY <3>3, Zenon DEF TakeFailed, Fits, Flush, FlushedWith, Goto, mapVars, histVars
    <3> QED
      BY <1>4, <3>1, <3>2, <3>3, ZenonT(30)
  <2>2. pending[key[p]] \in Entry /\ DataOf(pending[key[p]]) = pending[key[p]].data
    BY <1>0, <2>1, Zenon DEF OnceInv, DataOf
  <2>3. Append(pending[key[p]].data, p) \in Seq(Packets) \ {<<>>}
    BY <2>2, SMT, SMTT(30) DEF Entry
  <2> QED
    BY <1>2, <2>1, <2>2, <2>3, FlushOnceInv, ZenonT(30)
<1>5. ASSUME NEW clue \in BOOLEAN, TakeMore(p, clue) PROVE OnceInv'
  <2> DEFINE e == [pending[key[p]] EXCEPT !.data = Append(@, p),
                                          !.noClue = IF clue THEN @ ELSE @ + 1]
  <2>1. /\ pending' = [pending EXCEPT ![key[p]] = None] /\ todo' = todo /\ sent' = sent
        /\ entry' = [entry EXCEPT ![p] = e]
        /\ pc' = [pc EXCEPT ![p] = "insert"] /\ pc[p] = "take"
        /\ pending[key[p]] # None
    BY <1>5, Zenon DEF TakeMore, Fits, Goto, histVars
  <2>2. pending[key[p]] \in Entry /\ DataOf(pending[key[p]]) = pending[key[p]].data
    BY <1>0, <2>1, Zenon DEF OnceInv, DataOf
  <2>5. e \in Entry /\ e.data = Append(DataOf(pending[key[p]]), p)
    BY <2>2, RecordNoClue, ZenonT(30)
  <2> HIDE DEF e
  <2>6. /\ \A b \in Actors : pc'[b] \in {"forward", "send"} => pc[b] \in {"forward", "send"}
        /\ Waiting' \subseteq Waiting /\ p \in Waiting \ Waiting' /\ key[p] \in Keys
    BY <1>2, <2>1, Zenon
  <2> QED
    BY <2>1, <2>5, <2>6, TakeOnceInv, ZenonT(30)
<1>6. CASE Insert(p)
  <2>1. /\ pending' = [pending EXCEPT ![key[p]] = entry[p]] /\ todo' = todo /\ sent' = sent
        /\ entry' = [entry EXCEPT ![p] = None]
        /\ pc' = [pc EXCEPT ![p] = "len"] /\ pc[p] = "insert"
    BY <1>6, Zenon DEF Insert, Goto, histVars
  <2>2. /\ \A b \in Actors : pc'[b] \in {"forward", "send"} => pc[b] \in {"forward", "send"}
        /\ Waiting' \subseteq Waiting
    <3>1. p \in Actors /\ "len" \notin Early /\ "len" \notin {"forward", "send"}
      BY Zenon DEF Early
    <3> QED
      BY <2>1, <3>1, MoveWaiting, ZenonT(30)
  <2>3. key[p] \in Keys
    BY <1>0, <2>1, Zenon
  <2> QED
    BY <2>1, <2>2, <2>3, InsertOnceInv, ZenonT(30)
<1>7. CASE SniffMore(p)
  <2> DEFINE e == [left |-> Window, noClue |-> 0, data |-> <<p>>]
  <2>1. /\ pending' = [pending EXCEPT ![key[p]] = e] /\ todo' = todo /\ sent' = sent /\ entry' = entry
        /\ pc' = [pc EXCEPT ![p] = "len"] /\ pc[p] = "take"
    BY <1>7, Zenon DEF SniffMore, Goto, histVars
  <2>2. e \in Entry /\ e.data = <<p>>
    BY UdpPendingAssumption, SMT, SMTT(30) DEF Entry
  <2> HIDE DEF e
  <2> QED
    BY <1>2, <2>1, <2>2, NewOnceInv, ZenonT(30)
<1> QED
  BY <1>1, <1>3, <1>4, <1>5, <1>6, <1>7, ZenonT(30) DEF TaskStep

\* Enforcements drop entries, and flushes proceed.
LEMMA SharedOnceInv ==
    ASSUME LockInv, OnceInv, NEW a \in Actors, EnforceStep(a) \/ ForwardStep(a)
    PROVE  OnceInv'
<1> USE NoneIsNoPacket, ActorLemma
<1>1. CASE EnforceStep(a)
  <2>1. /\ UNCHANGED <<entry, todo, sent>>
        /\ pending' = pending \/ pending' = [pending EXCEPT ![victim[a]] = None]
    BY <1>1, Zenon DEF EnforceStep, EnforceLen, EnforcePick, EnforceEvict, mapVars, histVars
  <2>2. PICK l \in {"pick", "evict", "len", "done", "reaped"} : pc' = [pc EXCEPT ![a] = l]
    BY <1>1, Zenon DEF EnforceStep, EnforceLen, EnforcePick, EnforceEvict, Finish, Goto
  <2>3. /\ \A b \in Actors : pc'[b] \in {"forward", "send"} => pc[b] \in {"forward", "send"}
        /\ Waiting' \subseteq Waiting
    BY <2>2, MoveWaiting, ZenonT(30) DEF Early
  <2>4. /\ pending' \in [Keys -> Entry \cup {None}]
        /\ \A k \in Keys : DataOf(pending'[k]) \in {DataOf(pending[k]), <<>>}
    BY <2>1, ZenonT(30) DEF OnceInv, DataOf
  <2> QED
    BY <2>1, <2>3, <2>4, QuietOnceInv, ZenonT(30) DEF OnceInv
<1>2. CASE ForwardReuse(a) \/ \E s \in Sessions : ForwardCreate(a, s)
  <2>1. UNCHANGED <<pending, entry, todo, sent>> /\ pc[a] = "forward" /\ pc' = [pc EXCEPT ![a] = "send"]
    BY <1>2, Zenon DEF ForwardReuse, ForwardCreate, Goto, mapVars, histVars
  <2>2. Waiting' \subseteq Waiting
    BY <2>1, MoveWaiting, ZenonT(30) DEF Early
  <2>3. \A b \in Actors : pc'[b] \in {"forward", "send"} => todo'[b] # <<>>
    BY <2>1, Zenon DEF LockInv, OnceInv
  <2> QED
    BY <2>1, <2>2, <2>3, QuietOnceInv, ZenonT(30) DEF OnceInv
<1>3. CASE ForwardFail(a) \/ Send(a)
  <2>1. /\ UNCHANGED <<pending, entry>> /\ pc[a] \in {"forward", "send"}
        /\ sent' \subseteq sent \cup {Head(todo[a])}
        /\ NextDatagram(a)
    BY <1>3, ZenonT(30) DEF ForwardFail, Send, mapVars, histVars
  <2>2. PICK l \in {"forward", "reap", "done"} :
           pc' = [pc EXCEPT ![a] = l] /\ (l = "forward" => Tail(todo[a]) # <<>>)
    BY <2>1, Zenon DEF NextDatagram, Finish, Goto
  <2>3. todo' = [todo EXCEPT ![a] = Tail(@)]
    BY <2>1, Zenon DEF NextDatagram
  <2>4. Waiting' \subseteq Waiting
    BY <2>2, MoveWaiting, ZenonT(30) DEF Early
  <2>5. \A b \in Actors : pc'[b] \in {"forward", "send"} => todo'[b] # <<>>
    BY <2>2, <2>3, Zenon DEF LockInv, OnceInv
  <2> QED
    BY <2>1, <2>3, <2>4, <2>5, PopOnceInv, ZenonT(30)
<1> QED
  BY <1>1, <1>2, <1>3, Zenon DEF ForwardStep

\* OnceInv is inductive, given LockInv.
LEMMA NextOnceInv == LockInv /\ OnceInv /\ [Next]_vars => OnceInv'
<1> SUFFICES ASSUME LockInv, OnceInv, [Next]_vars
             PROVE  OnceInv'
  BY Zenon
<1>1. CASE ReceiveAny \/ LoopStep \/ Stop \/ Tick
  BY <1>1, LoopOnceInv, Zenon
<1>2. ASSUME NEW p \in Packets, TaskStep(p) PROVE OnceInv'
  BY <1>2, TaskOnceInv, Zenon
<1>3. ASSUME NEW a \in Actors, EnforceStep(a) \/ ForwardStep(a) PROVE OnceInv'
  BY <1>3, SharedOnceInv, Zenon
<1>4. CASE (\E s \in Sessions : SessionDies(s) \/ SessionEvicted(s)) \/ Seal \/ UNCHANGED vars
  <2>1. UNCHANGED <<pending, entry, todo, pc, sent>>
    BY <1>4, ZenonT(30) DEF SessionDies, SessionEvicted, Seal, vars, mapVars, actorVars, histVars
  <2> QED
    BY <2>1, Zenon DEF OnceInv, Waiting
<1> QED
  BY <1>1, <1>2, <1>3, <1>4, ZenonT(30) DEF Next

(***************************************************************************)
(* In every run, a datagram is in one place at most, the map, the entry a  *)
(* task has taken out of it or a flush, and is sent at most once, however  *)
(* tasks, the reaper and the enforcement of the limit interleave.          *)
(***************************************************************************)
THEOREM NoDuplicateHolds == Spec => []NoDuplicate
<1>1. OnceInv => NoDuplicate
  <2> SUFFICES ASSUME OnceInv
               PROVE  NoDuplicate
    BY Zenon
  <2> DEFINE D == View(pending, entry, todo)
             Places == {<<"map", k, pending[k].data>> : k \in PendingKeys}
                       \cup {<<"task", p, entry[p].data>> : p \in {q \in Packets : entry[q] # None}}
                       \cup {<<"flush", a, todo[a]>> : a \in Actors}
  <2>1. Shows(D, pending, entry, todo)
    BY ViewLemma, Zenon
  <2>2. Apart(Spots, D, sent \cup Waiting)
    BY Zenon DEF OnceInv
  <2> HIDE DEF D
  <2>3. ASSUME NEW x \in Places
        PROVE  /\ <<x[1], x[2]>> \in Spots /\ x[3] = D[<<x[1], x[2]>>]
               /\ x = <<x[1], x[2], x[3]>>
    <3>1. ASSUME NEW k \in PendingKeys, x = <<"map", k, pending[k].data>>
          PROVE  <<x[1], x[2]>> \in Spots /\ x[3] = D[<<x[1], x[2]>>]
      BY <2>1, <3>1, Zenon DEF Shows, PendingKeys, DataOf
    <3>2. ASSUME NEW p \in Packets, entry[p] # None, x = <<"task", p, entry[p].data>>
          PROVE  <<x[1], x[2]>> \in Spots /\ x[3] = D[<<x[1], x[2]>>]
      BY <2>1, <3>2, Zenon DEF Shows, DataOf
    <3>3. ASSUME NEW a \in Actors, x = <<"flush", a, todo[a]>>
          PROVE  <<x[1], x[2]>> \in Spots /\ x[3] = D[<<x[1], x[2]>>]
      BY <2>1, <3>3, Zenon DEF Shows
    <3>4. x = <<x[1], x[2], x[3]>>
      BY SMT, SMTT(30)
    <3> QED
      BY <3>1, <3>2, <3>3, <3>4, Zenon
  <2> HIDE DEF Places
  <2>4. ASSUME NEW x \in Places, NEW y \in Places, x # y PROVE Range(x[3]) \cap Range(y[3]) = {}
    <3>1. <<x[1], x[2]>> # <<y[1], y[2]>>
      BY <2>3, <2>4, ZenonT(30)
    <3> QED
      BY <2>2, <2>3, <3>1, ZenonT(60) DEF Apart
  <2>5. ASSUME NEW x \in Places PROVE IsInjective(x[3]) /\ Range(x[3]) \cap sent = {}
    BY <2>2, <2>3, ZenonT(30) DEF Apart
  <2> QED
    BY <2>4, <2>5, Zenon DEF NoDuplicate, Places
<1> QED
  BY <1>1, InitLockInv, NextLockInv, InitOnceInv, NextOnceInv, PTL DEF Spec

-----------------------------------------------------------------------------
(* Types and the limits of the replay buffer. *)

\* A PendingUdpSniff within UDP_SNIFF_MAX_CACHED_DATAGRAMS.
Buffer == {e \in PendingUdpSniff : Len(e.data) <= MaxCached}

BufferInv ==
    /\ pending \in [Keys -> Buffer \cup {None}]
    /\ entry \in [Packets -> Buffer \cup {None}]

LoopInv ==
    /\ sinceReap \in 0 .. ReapInterval
    /\ expired \in SUBSET Keys
    /\ pc[Loop] \in {"forward", "send"} => key[Loop] \in Keys

SessionInv ==
    /\ got \in [Actors -> Sessions \cup {None}]
    /\ victim \in [Actors -> Keys \cup {None}]
    /\ life \in [Sessions -> {"fresh", "live", "dead"}]
    /\ open \in BOOLEAN
    /\ maker \in [Sessions -> Actors \cup {None}]

\* A packet gets its turn once.
TurnInv ==
    /\ turn \in [Packets -> 0 .. MaxPackets]
    /\ \A p \in Packets : pc[p] \in {"new", "lock"} => turn[p] = 0

\* The invariants that make up TypeOK hold at first.
LEMMA InitTypes == Init => BufferInv /\ LoopInv /\ SessionInv /\ TurnInv
<1>1. Init => BufferInv /\ LoopInv
  BY UdpPendingAssumption, ActorLemma, SMT, SMTT(30) DEF Init, BufferInv, LoopInv
<1>2. Init => SessionInv
  BY SMT, SMTT(30) DEF Init, Registry!Init, SessionInv
<1>3. Init => TurnInv
  BY UdpPendingAssumption, SMT, SMTT(30) DEF Init, TurnInv
<1> QED
  BY <1>1, <1>2, <1>3, Zenon

\* What an entry may become in the map: a new one, an older one, one with another
\* datagram while it fits.
LEMMA BufferLemma ==
    /\ \A p \in Packets : [left |-> Window, noClue |-> 0, data |-> <<p>>] \in Buffer
    /\ \A e \in Buffer : [e EXCEPT !.left = IF @ = 0 THEN 0 ELSE @ - 1] \in Buffer
    /\ \A e \in Buffer, p \in Packets, clue \in BOOLEAN :
          Len(e.data) < MaxCached /\ (clue \/ ~GivesUp(e)) =>
             [e EXCEPT !.data = Append(@, p), !.noClue = IF clue THEN @ ELSE @ + 1] \in Buffer
<1> USE UdpPendingAssumption
<1>1. ASSUME NEW p \in Packets PROVE [left |-> Window, noClue |-> 0, data |-> <<p>>] \in Buffer
  <2>1. <<p>> \in Seq(Packets) /\ Len(<<p>>) = 1 /\ 1 <= MaxCached
    BY SMT, SMTT(30)
  <2>2. Window \in 0 .. Window /\ 0 \in 0 .. NoClueLimit - 1
    BY SMT, SMTT(30)
  <2> QED
    BY <2>1, <2>2, ZenonT(30) DEF Buffer, PendingUdpSniff
<1>2. ASSUME NEW e \in Buffer PROVE [e EXCEPT !.left = IF @ = 0 THEN 0 ELSE @ - 1] \in Buffer
  <2> DEFINE l == IF e.left = 0 THEN 0 ELSE e.left - 1
  <2>1. l \in 0 .. Window
    BY SMT, SMTT(30) DEF Buffer, PendingUdpSniff
  <2> HIDE DEF l
  <2>2. [e EXCEPT !.left = l] \in Buffer
    BY <2>1, Zenon DEF Buffer, PendingUdpSniff
  <2> QED
    BY <2>2, Zenon DEF l
<1>3. ASSUME NEW e \in Buffer, NEW p \in Packets, NEW clue \in BOOLEAN,
             Len(e.data) < MaxCached, clue \/ ~GivesUp(e)
      PROVE  [e EXCEPT !.data = Append(@, p), !.noClue = IF clue THEN @ ELSE @ + 1] \in Buffer
  <2> DEFINE d == Append(e.data, p)
             n == IF clue THEN e.noClue ELSE e.noClue + 1
  <2>1. d \in Seq(Packets) /\ Len(d) <= MaxCached
    BY <1>3, SMT, SMTT(30) DEF Buffer, PendingUdpSniff
  <2>2. n \in 0 .. NoClueLimit - 1
    BY <1>3, SMT, SMTT(30) DEF Buffer, PendingUdpSniff, GivesUp
  <2> HIDE DEF d, n
  <2>3. [e EXCEPT !.data = d, !.noClue = n] \in Buffer
    BY <2>1, <2>2, ZenonT(30) DEF Buffer, PendingUdpSniff
  <2> QED
    BY <2>3, Zenon DEF d, n
<1> QED
  BY <1>1, <1>2, <1>3, ZenonT(30)

\* The buffers stay within their limits.
LEMMA NextBufferInv == LockInv /\ BufferInv /\ [Next]_vars => BufferInv'
<1> SUFFICES ASSUME LockInv, BufferInv, [Next]_vars
             PROVE  BufferInv'
  BY Zenon
<1>1. CASE \/ ReceiveAny \/ ReapKeysDone \/ Spawn \/ Stop \/ Seal \/ UNCHANGED vars
           \/ \E s \in Sessions : SessionDies(s) \/ SessionEvicted(s)
           \/ \E a \in Actors : ForwardStep(a)
  <2>1. UNCHANGED <<pending, entry>>
    BY <1>1, ZenonT(30) DEF ReceiveAny, Receive, ReapKeysDone, Spawn, Stop, Seal, vars, SessionDies, SessionEvicted,
                ForwardStep, ForwardReuse, ForwardCreate, ForwardFail, Send, mapVars, actorVars
  <2> QED
    BY <2>1, Zenon DEF BufferInv
<1>2. CASE (\E k \in Keys : ReapKey(k)) \/ \E a \in Actors : EnforceStep(a)
  <2>1. entry' = entry /\ \E k : pending' \in {pending, [pending EXCEPT ![k] = None]}
    BY <1>2, ZenonT(30) DEF ReapKey, EnforceStep, EnforceLen, EnforcePick, EnforceEvict, mapVars
  <2> QED
    BY <2>1, Zenon DEF BufferInv
<1>3. ASSUME NEW p \in Packets, TaskStep(p) PROVE BufferInv'
  <2>1. CASE \/ Acquire(p) \/ ProbeHit(p) \/ ProbeMiss(p) \/ TakeExpired(p) \/ TakeMatched(p)
             \/ TakeFailed(p) \/ \E h \in BOOLEAN : SniffForward(p, h)
    <3>1. entry' = entry /\ \E k : pending' \in {pending, [pending EXCEPT ![k] = None]}
      BY <2>1, ZenonT(30) DEF Acquire, ProbeHit, ProbeMiss, TakeExpired, TakeMatched, TakeFailed, Flush,
                  SniffForward, mapVars
    <3> QED
      BY <3>1, Zenon DEF BufferInv
  <2>2. ASSUME NEW clue \in BOOLEAN, TakeMore(p, clue) PROVE BufferInv'
    <3> DEFINE e == pending[key[p]]
               f == [e EXCEPT !.data = Append(@, p), !.noClue = IF clue THEN @ ELSE @ + 1]
    <3>1. /\ pending' = [pending EXCEPT ![key[p]] = None] /\ entry' = [entry EXCEPT ![p] = f]
          /\ e # None /\ Len(e.data) < MaxCached /\ (clue \/ ~GivesUp(e)) /\ pc[p] = "take"
      BY <2>2, Zenon DEF TakeMore, Fits
    <3>2. e \in Buffer
      BY <3>1, ZenonT(30) DEF LockInv, BufferInv
    <3> HIDE DEF e
    <3>3. f \in Buffer
      BY <3>1, <3>2, BufferLemma, ZenonT(30)
    <3> QED
      BY <3>1, <3>3, ZenonT(30) DEF BufferInv
  <2>3. CASE Insert(p)
    BY <2>3, ZenonT(30) DEF Insert, BufferInv
  <2>4. CASE SniffMore(p)
    BY <2>4, BufferLemma, ZenonT(30) DEF SniffMore, BufferInv
  <2> QED
    BY <1>3, <2>1, <2>2, <2>3, <2>4, ZenonT(30) DEF TaskStep
<1>4. CASE Tick
  <2> DEFINE Older(e) == IF e = None THEN None ELSE [e EXCEPT !.left = IF @ = 0 THEN 0 ELSE @ - 1]
  <2>1. /\ pending' = [k \in Keys |-> Older(pending[k])]
        /\ entry' = [p \in Packets |-> Older(entry[p])]
    BY <1>4, Zenon DEF Tick
  <2>2. ASSUME NEW e \in Buffer \cup {None} PROVE Older(e) \in Buffer \cup {None}
    BY BufferLemma, ZenonT(30)
  <2> HIDE DEF Older
  <2> QED
    BY <2>1, <2>2, Zenon DEF BufferInv
<1> QED
  BY <1>1, <1>2, <1>3, <1>4, Zenon DEF Next, LoopStep

\* The loop's clock, its list of keys and the key it flushes.
LEMMA NextLoopInv == LockInv /\ LoopInv /\ [Next]_vars => LoopInv'
<1> SUFFICES ASSUME LockInv, LoopInv, [Next]_vars
             PROVE  LoopInv'
  BY Zenon
<1>0. pc \in [Actors -> PcValues] /\ key \in [Actors -> Keys \cup {None}]
  BY Zenon DEF LockInv
<1> USE ActorLemma, NoneIsNoPacket
<1>1. CASE ReceiveAny \/ Stop
  <2>1. ReapInterval \in Nat
    BY UdpPendingAssumption, Zenon
  <2>2. ASSUME NEW p, NEW k, Receive(p, k) PROVE LoopInv'
    <3>1. pc'[Loop] \in {"spawn", "reap"}
      BY <1>0, <2>2, Zenon DEF Receive, Goto
    <3>2. sinceReap' \in {0, sinceReap} /\ (expired' = expired \/ expired' \subseteq Keys)
      BY <2>2, Zenon DEF Receive, PendingKeys
    <3> QED
      BY <2>1, <3>1, <3>2, SMT, SMTT(30) DEF LoopInv
  <2>3. CASE Stop
    <3>1. pc'[Loop] = "stopped" /\ sinceReap' = sinceReap /\ expired' = {}
      BY <2>3, Zenon DEF Stop
    <3> QED
      BY <3>1, Zenon DEF LoopInv
  <2> QED
    BY <1>1, <2>2, <2>3, Zenon DEF ReceiveAny
<1>2. CASE LoopStep
  <2>1. ASSUME NEW k \in Keys, ReapKey(k) PROVE LoopInv'
    BY <1>0, <2>1, Zenon DEF ReapKey, Goto, LoopInv
  <2>2. CASE ReapKeysDone
    BY <1>0, <2>2, Zenon DEF ReapKeysDone, Goto, loopVars, LoopInv
  <2>3. CASE Spawn
    <3>1. pc'[Loop] = "recv"
      BY <1>0, <2>3, Zenon DEF Spawn, Goto, LockInv
    <3> QED
      BY <2>3, <3>1, Zenon DEF Spawn, LoopInv
  <2> QED
    BY <1>2, <2>1, <2>2, <2>3, Zenon DEF LoopStep
<1>3. CASE Tick
  BY <1>3, UdpPendingAssumption, SMT, SMTT(30) DEF Tick, LoopInv
<1>4. ASSUME NEW p \in Packets, TaskStep(p) PROVE LoopInv'
  <2>1. UNCHANGED <<loopVars, key>> /\ \E l : pc' = [pc EXCEPT ![p] = l]
    BY <1>4, ZenonT(30) DEF TaskStep, Acquire, ProbeHit, ProbeMiss, TakeExpired, TakeMatched, TakeFailed,
                Flush, TakeMore, Insert, SniffMore, SniffForward, Finish, Goto
  <2> QED
    BY <1>0, <2>1, Zenon DEF loopVars, LoopInv
<1>5. ASSUME NEW a \in Actors, EnforceStep(a) \/ ForwardStep(a) PROVE LoopInv'
  <2>1. UNCHANGED loopVars
    BY <1>5, ZenonT(30) DEF EnforceStep, EnforceLen, EnforcePick, EnforceEvict, ForwardStep, ForwardReuse,
                ForwardCreate, ForwardFail, Send
  <2>2. CASE EnforceStep(a)
    <3>1. key' = key /\ \E l : l \notin {"forward", "send"} /\ pc' = [pc EXCEPT ![a] = l]
      BY <2>2, Zenon DEF EnforceStep, EnforceLen, EnforcePick, EnforceEvict, Finish, Goto
    <3> QED
      BY <1>0, <2>1, <3>1, Zenon DEF loopVars, LoopInv
  <2>3. CASE ForwardReuse(a) \/ \E s \in Sessions : ForwardCreate(a, s)
    <3>1. key' = key /\ pc[a] = "forward" /\ pc' = [pc EXCEPT ![a] = "send"]
      BY <2>3, Zenon DEF ForwardReuse, ForwardCreate, Goto
    <3> QED
      BY <1>0, <2>1, <3>1, Zenon DEF loopVars, LoopInv
  <2>4. CASE ForwardFail(a) \/ Send(a)
    <3>1. NextDatagram(a) /\ pc[a] \in {"forward", "send"}
      BY <2>4, Zenon DEF ForwardFail, Send
    <3> QED
      BY <1>0, <2>1, <3>1, Zenon DEF NextDatagram, Finish, Goto, loopVars, LoopInv
  <2> QED
    BY <1>5, <2>2, <2>3, <2>4, Zenon DEF ForwardStep
<1>6. CASE (\E s \in Sessions : SessionDies(s) \/ SessionEvicted(s)) \/ Seal \/ UNCHANGED vars
  <2>1. UNCHANGED <<loopVars, pc, key>>
    BY <1>6, ZenonT(30) DEF SessionDies, SessionEvicted, Seal, vars, actorVars
  <2> QED
    BY <2>1, Zenon DEF loopVars, LoopInv
<1> QED
  BY <1>1, <1>2, <1>3, <1>4, <1>5, <1>6, ZenonT(30) DEF Next

\* What is known of sessions.
LEMMA NextSessionInv == LockInv /\ HitInv /\ LoopInv /\ SessionInv /\ [Next]_vars => SessionInv'
<1> SUFFICES ASSUME LockInv, HitInv, LoopInv, SessionInv, [Next]_vars
             PROVE  SessionInv'
  BY Zenon
<1>1. CASE ReceiveAny \/ LoopStep \/ Tick \/ UNCHANGED vars
  <2>1. UNCHANGED <<got, victim, life, open, maker>>
    BY <1>1, Zenon DEF ReceiveAny, Receive, LoopStep, ReapKey, ReapKeysDone, Spawn, Tick, vars, actorVars, regVars
  <2> QED
    BY <2>1, Zenon DEF SessionInv
<1>2. CASE Stop
  BY <1>2, ActorLemma, Zenon DEF Stop, SessionInv, regVars
<1>3. ASSUME NEW p \in Packets, TaskStep(p) PROVE SessionInv'
  <2>1. CASE ProbeHit(p)
    <3>1. reg[key[p]] \in Sessions
      BY <2>1, SMT, SMTT(30) DEF ProbeHit, LockInv, HitInv
    <3> QED
      BY <2>1, <3>1, ActorLemma, Zenon DEF ProbeHit, SessionInv, regVars
  <2>2. CASE ~ProbeHit(p)
    <3>1. UNCHANGED <<got, victim, regVars>>
      BY <1>3, <2>2, ZenonT(30) DEF TaskStep, Acquire, ProbeMiss, TakeExpired, TakeMatched, TakeFailed, Flush,
                        TakeMore, Insert, SniffMore, SniffForward
    <3> QED
      BY <3>1, Zenon DEF SessionInv, regVars
  <2> QED
    BY <2>1, <2>2, Zenon
<1>4. ASSUME NEW a \in Actors, EnforceStep(a) PROVE SessionInv'
  <2>1. UNCHANGED <<got, regVars>> /\ \E k \in Keys \cup {None} : victim' \in {victim, [victim EXCEPT ![a] = k]}
    BY <1>4, Zenon DEF EnforceStep, EnforceLen, EnforcePick, EnforceEvict, PendingKeys
  <2> QED
    BY <2>1, Zenon DEF SessionInv, regVars
<1>5. ASSUME NEW a \in Actors, ForwardStep(a) PROVE SessionInv'
  <2>1. CASE ForwardReuse(a)
    <3>1. got' = [got EXCEPT ![a] = reg[key[a]]] /\ reg[key[a]] # None /\ UNCHANGED <<victim, regVars>>
      BY <2>1, Zenon DEF ForwardReuse
    <3>2. key[a] \in Keys
      BY <2>1, Zenon DEF ForwardReuse, LockInv, LoopInv, Actors
    <3> QED
      BY <3>1, <3>2, Zenon DEF SessionInv, HitInv, regVars
  <2>2. ASSUME NEW s \in Sessions, ForwardCreate(a, s) PROVE SessionInv'
    BY <2>2, Zenon DEF ForwardCreate, Registry!Publish, SessionInv
  <2>3. CASE ForwardFail(a) \/ Send(a)
    BY <2>3, ZenonT(30) DEF ForwardFail, Send, SessionInv, regVars
  <2> QED
    BY <1>5, <2>1, <2>2, <2>3, Zenon DEF ForwardStep
<1>6. CASE (\E s \in Sessions : SessionDies(s) \/ SessionEvicted(s)) \/ Seal
  <2>1. UNCHANGED <<got, victim, maker>>
    BY <1>6, ZenonT(30) DEF SessionDies, SessionEvicted, Seal, actorVars
  <2>2. ASSUME NEW s \in Sessions, SessionDies(s) PROVE SessionInv'
    BY <2>1, <2>2, Zenon DEF SessionDies, Registry!Die, SessionInv
  <2>3. ASSUME NEW s \in Sessions, SessionEvicted(s) PROVE SessionInv'
    BY <2>1, <2>3, Zenon DEF SessionEvicted, Registry!Evict, SessionInv
  <2>4. CASE Seal
    BY <2>1, <2>4, ZenonT(30) DEF Seal, Registry!Seal, SessionInv
  <2> QED
    BY <1>6, <2>2, <2>3, <2>4, Zenon
<1> QED
  BY <1>1, <1>2, <1>3, <1>4, <1>5, <1>6, Zenon DEF Next

\* The order in which tasks got their locks.
LEMMA NextTurnInv == LockInv /\ TurnInv /\ [Next]_vars => TurnInv'
<1> SUFFICES ASSUME LockInv, TurnInv, [Next]_vars
             PROVE  TurnInv'
  BY Zenon
<1>1. ASSUME NEW p \in Packets, Acquire(p), open PROVE TurnInv'
  <2> DEFINE S == {q \in Received : key[q] = key[p] /\ turn[q] > 0}
  <2>1. /\ turn' = [turn EXCEPT ![p] = 1 + Cardinality(S)] /\ turn[p] = 0
        /\ pc' = [pc EXCEPT ![p] = "probe"]
    BY <1>1, Zenon DEF Acquire, Goto, TurnInv
  <2>2. S \subseteq Packets \ {p}
    BY <2>1, SMT, SMTT(30) DEF Received
  <2>3. IsFiniteSet(Packets) /\ Cardinality(Packets) = MaxPackets /\ MaxPackets \in Nat
    BY UdpPendingAssumption, FS_Interval, SMT, SMTT(30) DEF Packets
  <2>4. IsFiniteSet(Packets \ {p}) /\ Cardinality(Packets \ {p}) = MaxPackets - 1
    BY <2>3, FS_RemoveElement, Zenon
  <2> HIDE DEF S
  <2>5. Cardinality(S) \in Nat /\ Cardinality(S) <= MaxPackets - 1
    BY <2>2, <2>4, FS_Subset, FS_CardinalityType, SMT, SMTT(30)
  <2>6. 1 + Cardinality(S) \in 0 .. MaxPackets
    BY <2>3, <2>5, SMT, SMTT(30)
  <2>7. turn' \in [Packets -> 0 .. MaxPackets]
    BY <2>1, <2>6, Zenon DEF TurnInv
  <2>8. \A q \in Packets : pc'[q] \in {"new", "lock"} => q # p /\ pc[q] = pc'[q]
    BY <2>1, ActorLemma, Zenon DEF LockInv
  <2>9. \A q \in Packets : q # p => turn'[q] = turn[q]
    BY <2>1, Zenon DEF TurnInv
  <2> QED
    BY <2>7, <2>8, <2>9, Zenon DEF TurnInv
<1>2. ASSUME turn' = turn, \A p \in Packets : pc'[p] \in {"new", "lock"} => pc[p] \in {"new", "lock"}
      PROVE  TurnInv'
  BY <1>2, Zenon DEF TurnInv
<1>3. CASE ReceiveAny \/ LoopStep \/ Stop
  <2>1. turn' = turn
    BY <1>3, ZenonT(30) DEF ReceiveAny, Receive, LoopStep, ReapKey, ReapKeysDone, Spawn, Stop, histVars
  <2>2. \A p \in Packets : pc'[p] \in {"new", "lock"} => pc[p] \in {"new", "lock"}
    BY <1>3, ActorLemma, ZenonT(60) DEF ReceiveAny, Receive, LoopStep, ReapKey, ReapKeysDone, Spawn, Stop, Goto, LockInv
  <2> QED
    BY <1>2, <2>1, <2>2, Zenon
<1>4. ASSUME NEW p \in Packets, TaskStep(p), ~(Acquire(p) /\ open) PROVE TurnInv'
  <2>1. turn' = turn /\ \E l : l \notin {"new", "lock"} /\ pc' = [pc EXCEPT ![p] = l]
    BY <1>4, ActorLemma, ZenonT(30) DEF TaskStep, Acquire, ProbeHit, ProbeMiss, TakeExpired, TakeMatched, TakeFailed,
                Flush, TakeMore, Insert, SniffMore, SniffForward, Finish, Goto, histVars
  <2> QED
    BY <1>2, <2>1, SMT, SMTT(30) DEF LockInv
<1>5. ASSUME NEW a \in Actors, EnforceStep(a) \/ ForwardStep(a) PROVE TurnInv'
  <2>1. turn' = turn /\ \E l : l \notin {"new", "lock"} /\ pc' = [pc EXCEPT ![a] = l]
    BY <1>5, ZenonT(30) DEF EnforceStep, EnforceLen, EnforcePick, EnforceEvict, ForwardStep, ForwardReuse,
                ForwardCreate, ForwardFail, Send, NextDatagram, Finish, Goto, histVars
  <2> QED
    BY <1>2, <2>1, SMT, SMTT(30) DEF LockInv
<1>6. CASE Tick \/ (\E s \in Sessions : SessionDies(s) \/ SessionEvicted(s)) \/ Seal \/ UNCHANGED vars
  <2>1. UNCHANGED <<turn, pc>>
    BY <1>6, ZenonT(30) DEF Tick, SessionDies, SessionEvicted, Seal, vars, actorVars, histVars
  <2> QED
    BY <1>2, <2>1, Zenon
<1> QED
  BY <1>1, <1>3, <1>4, <1>5, <1>6, Zenon DEF Next

(***************************************************************************)
(* In every run, every variable keeps its type, no replay buffer exceeds   *)
(* UDP_SNIFF_MAX_CACHED_DATAGRAMS and no entry that is kept has reached    *)
(* UDP_SNIFF_NO_CLUE_LIMIT.                                                *)
(***************************************************************************)
THEOREM TypeCorrect == Spec => []TypeOK
<1>1. LockInv /\ HitInv /\ OnceInv /\ BufferInv /\ LoopInv /\ SessionInv /\ TurnInv => TypeOK
  <2> SUFFICES ASSUME LockInv, HitInv, OnceInv, BufferInv, LoopInv, SessionInv, TurnInv
               PROVE  TypeOK
    BY Zenon
  <2>1. /\ pending \in [Keys -> PendingUdpSniff \cup {None}]
        /\ \A k \in Keys : pending[k] # None => Len(pending[k].data) <= MaxCached
    BY Zenon DEF BufferInv, Buffer
  <2>2. /\ entry \in [Packets -> PendingUdpSniff \cup {None}]
        /\ \A p \in Packets : entry[p] # None => Len(entry[p].data) <= MaxCached
    BY Zenon DEF BufferInv, Buffer
  <2>3. /\ locks \in [Keys -> Packets \cup {None}] /\ pc \in [Actors -> TaskPc \cup LoopPc \cup BothPc]
        /\ key \in [Actors -> Keys \cup {None}] /\ lock \in [Packets -> Packets \cup {None}]
        /\ cur \in Packets \cup {None}
    BY Zenon DEF LockInv, PcValues
  <2>4. /\ host \in [Actors -> BOOLEAN] /\ reg \in [Keys -> Sessions \cup {None}]
        /\ shost \in [Sessions -> BOOLEAN]
    BY Zenon DEF HitInv
  <2>5. todo \in [Actors -> Seq(Packets)] /\ sent \in SUBSET Packets
    BY Zenon DEF OnceInv
  <2> QED
    BY <2>1, <2>2, <2>3, <2>4, <2>5, Zenon DEF LoopInv, SessionInv, TurnInv, TypeOK
<1> QED
  BY <1>1, InitLockInv, NextLockInv, InitHitInv, NextHitInv, InitOnceInv, NextOnceInv, InitTypes,
     NextBufferInv, NextLoopInv, NextSessionInv, NextTurnInv, PTL DEF Spec

-----------------------------------------------------------------------------
(* Sequences along which the turns grow. *)

\* The turns grow along the sequence.
Increasing(s, T) == \A i, j \in DOMAIN s : i < j => T[s[i]] < T[s[j]]

\* Nothing and a single datagram are in order.
LEMMA EmptyIncreasing == \A T : Increasing(<<>>, T)
  BY SMT, SMTT(30) DEF Increasing

LEMMA SingleIncreasing ==
    ASSUME NEW T, NEW p \in Packets
    PROVE  Increasing(<<p>>, T) /\ Range(<<p>>) = {p}
  BY SMT, SMTT(30) DEF Increasing, Range

\* The youngest datagram may be appended.
LEMMA AppendIncreasing ==
    ASSUME NEW T, NEW s \in Seq(Packets), NEW p \in Packets, Increasing(s, T),
           \A d \in Range(s) : T[d] < T[p]
    PROVE  Increasing(Append(s, p), T)
<1> SUFFICES ASSUME NEW i \in DOMAIN Append(s, p), NEW j \in DOMAIN Append(s, p), i < j
             PROVE  T[Append(s, p)[i]] < T[Append(s, p)[j]]
  BY Zenon DEF Increasing
<1>1. /\ i \in 1 .. Len(s) /\ DOMAIN s = 1 .. Len(s) /\ Append(s, p)[i] = s[i]
      /\ j = Len(s) + 1 \/ j \in 1 .. Len(s)
  BY SMT, SMTT(30)
<1>2. CASE j = Len(s) + 1
  <2>1. Append(s, p)[j] = p
    BY <1>2, SMT, SMTT(30)
  <2>2. s[i] \in Range(s)
    BY <1>1, Zenon DEF Range
  <2> QED
    BY <1>1, <2>1, <2>2, Zenon
<1>3. CASE j \in 1 .. Len(s)
  <2>1. Append(s, p)[j] = s[j]
    BY <1>3, SMT, SMTT(30)
  <2> QED
    BY <1>1, <1>3, <2>1, Zenon DEF Increasing
<1> QED
  BY <1>1, <1>2, <1>3, Zenon

\* The first datagram is the oldest.
LEMMA TailIncreasing ==
    ASSUME NEW T, NEW s \in Seq(Packets), s # <<>>, Increasing(s, T)
    PROVE  /\ Increasing(Tail(s), T)
           /\ \A d \in Range(Tail(s)) : d \in Range(s) /\ T[Head(s)] < T[d]
<1>1. /\ DOMAIN s = 1 .. Len(s) /\ DOMAIN Tail(s) = 1 .. (Len(s) - 1)
      /\ 1 \in DOMAIN s /\ Head(s) = s[1]
  BY SMT, SMTT(30)
<1>2. \A i \in DOMAIN Tail(s) : Tail(s)[i] = s[i + 1] /\ i + 1 \in DOMAIN s /\ 1 < i + 1
  BY <1>1, SMT, SMTT(30)
<1>3. Increasing(Tail(s), T)
  <2> SUFFICES ASSUME NEW i \in DOMAIN Tail(s), NEW j \in DOMAIN Tail(s), i < j
               PROVE  T[Tail(s)[i]] < T[Tail(s)[j]]
    BY Zenon DEF Increasing
  <2>1. i + 1 < j + 1
    BY <1>1, SMT, SMTT(30)
  <2> QED
    BY <1>2, <2>1, Zenon DEF Increasing
<1>4. ASSUME NEW d \in Range(Tail(s)) PROVE d \in Range(s) /\ T[Head(s)] < T[d]
  <2>1. PICK i \in DOMAIN Tail(s) : d = Tail(s)[i]
    BY Zenon DEF Range
  <2> QED
    BY <1>1, <1>2, <2>1, Zenon DEF Increasing, Range
<1> QED
  BY <1>3, <1>4, Zenon

-----------------------------------------------------------------------------
(* The line of a key. *)

\* The flush of the reaper is out of line.
Reaper == <<"flush", Loop>>

\* The key whose datagrams a place holds, given the keys of the actors.
Owner(ks) == [x \in Spots |-> IF x[1] = "map" THEN x[2] ELSE ks[x[2]]]

\* The places D hold datagrams of their keys O, oldest first.  Apart from the
\* reaper's flush, a key has its datagrams in one place, and they are younger
\* than those in S and in the reaper's flush.
InLine(D, O, S, T, K) ==
    /\ \A x \in Spots : Increasing(D[x], T) /\ \A d \in Range(D[x]) : K[d] = O[x]
    /\ \A x, y \in Spots \ {Reaper} : O[x] = O[y] /\ D[x] # <<>> /\ D[y] # <<>> => x = y
    /\ \A x \in Spots \ {Reaper} : \A d \in Range(D[x]), e \in S \cup Range(D[Reaper]) :
          K[d] = K[e] => T[e] < T[d]

\* Places keep what they hold or lose it, and the keys and turns of what they
\* hold and of what has been sent stay.
LEMMA LineKept ==
    ASSUME NEW D, NEW E, NEW O, NEW N, NEW S, NEW T, NEW V, NEW K, NEW L,
           InLine(D, O, S, T, K),
           \A x \in Spots : E[x] = <<>> \/ (E[x] = D[x] /\ N[x] = O[x]),
           \A x \in Spots : \A d \in Range(D[x]) : V[d] = T[d] /\ L[d] = K[d],
           \A d \in S : V[d] = T[d] /\ L[d] = K[d]
    PROVE  InLine(E, N, S, V, L)
<1>1. ASSUME NEW x \in Spots PROVE Increasing(E[x], V) /\ \A d \in Range(E[x]) : L[d] = N[x]
  <2>1. CASE E[x] = <<>>
    BY <2>1, EmptyOnce, EmptyIncreasing, Zenon
  <2>2. CASE E[x] = D[x] /\ N[x] = O[x]
    <3>1. Increasing(D[x], T) /\ \A d \in Range(D[x]) : K[d] = O[x]
      BY Zenon DEF InLine
    <3>2. \A i \in DOMAIN D[x] : D[x][i] \in Range(D[x])
      BY Zenon DEF Range
    <3>3. \A i, j \in DOMAIN D[x] : i < j => V[D[x][i]] < V[D[x][j]]
      <4> SUFFICES ASSUME NEW i \in DOMAIN D[x], NEW j \in DOMAIN D[x], i < j
                   PROVE  V[D[x][i]] < V[D[x][j]]
        BY Zenon
      <4>1. V[D[x][i]] = T[D[x][i]] /\ V[D[x][j]] = T[D[x][j]]
        BY <3>2, Zenon
      <4>2. T[D[x][i]] < T[D[x][j]]
        BY <3>1, Zenon DEF Increasing
      <4> QED
        BY <4>1, <4>2, Zenon
    <3> QED
      BY <2>2, <3>1, <3>3, Zenon DEF Increasing
  <2> QED
    BY <2>1, <2>2, Zenon
<1>2. \A x, y \in Spots \ {Reaper} : N[x] = N[y] /\ E[x] # <<>> /\ E[y] # <<>> => x = y
  BY ZenonT(60) DEF InLine
<1>3. ASSUME NEW x \in Spots \ {Reaper}, NEW d \in Range(E[x]), NEW e \in S \cup Range(E[Reaper]),
             L[d] = L[e]
      PROVE  V[e] < V[d]
  <2>1. d \in Range(D[x])
    BY EmptyOnce, Zenon
  <2>2. Reaper \in Spots
    BY ActorLemma, Zenon DEF Reaper, Spots
  <2>3. e \in S \cup Range(D[Reaper])
    BY <2>2, EmptyOnce, Zenon
  <2>4. V[d] = T[d] /\ L[d] = K[d] /\ V[e] = T[e] /\ L[e] = K[e]
    BY <2>1, <2>2, <2>3, Zenon
  <2>5. T[e] < T[d]
    BY <1>3, <2>1, <2>3, <2>4, Zenon DEF InLine
  <2> QED
    BY <2>4, <2>5, Zenon
<1> QED
  BY <1>1, <1>2, <1>3, Zenon DEF InLine

\* The places stay as they are, and so do the keys of those that hold something.
LEMMA LineRenamed ==
    ASSUME NEW D, NEW O, NEW N, NEW S, NEW T, NEW V, NEW K, NEW L,
           InLine(D, O, S, T, K),
           \A x \in Spots : D[x] = <<>> \/ N[x] = O[x],
           \A x \in Spots : \A d \in Range(D[x]) : V[d] = T[d] /\ L[d] = K[d],
           \A d \in S : V[d] = T[d] /\ L[d] = K[d]
    PROVE  InLine(D, N, S, V, L)
<1> DEFINE E == D
<1>1. \A x \in Spots : E[x] = <<>> \/ (E[x] = D[x] /\ N[x] = O[x])
  BY Zenon
<1> HIDE DEF E
<1>2. InLine(E, N, S, V, L)
  BY <1>1, LineKept, SMT, SMTT(30)
<1> QED
  BY <1>2, Zenon DEF E

\* A flush loses its first datagram, which may have been sent.
LEMMA LinePopped ==
    ASSUME NEW D, NEW E, NEW O, NEW S, NEW R, NEW T, NEW K, NEW y \in Spots,
           InLine(D, O, S, T, K),
           D[y] \in Seq(Packets), D[y] # <<>>, E[y] = Tail(D[y]),
           \A x \in Spots \ {y} : E[x] = D[x],
           R \subseteq S \cup {Head(D[y])}
    PROVE  InLine(E, O, R, T, K)
<1>1. /\ Increasing(Tail(D[y]), T) /\ Head(D[y]) \in Range(D[y])
      /\ \A d \in Range(Tail(D[y])) : d \in Range(D[y]) /\ T[Head(D[y])] < T[d]
  <2>1. Increasing(D[y], T)
    BY Zenon DEF InLine
  <2>2. 1 \in DOMAIN D[y] /\ Head(D[y]) = D[y][1]
    BY SMT, SMTT(30)
  <2>3. Head(D[y]) \in Range(D[y])
    BY <2>2, Zenon DEF Range
  <2> QED
    BY <2>1, <2>3, TailIncreasing, Zenon
<1>2. \A x \in Spots : Range(E[x]) \subseteq Range(D[x]) /\ (E[x] # <<>> => D[x] # <<>>)
  BY <1>1, Zenon
<1>3. ASSUME NEW x \in Spots PROVE Increasing(E[x], T) /\ \A d \in Range(E[x]) : K[d] = O[x]
  <2>1. Increasing(E[x], T)
    BY <1>1, Zenon DEF InLine
  <2> QED
    BY <1>2, <2>1, Zenon DEF InLine
<1>4. \A x, z \in Spots \ {Reaper} : O[x] = O[z] /\ E[x] # <<>> /\ E[z] # <<>> => x = z
  BY <1>2, ZenonT(30) DEF InLine
<1>5. ASSUME NEW x \in Spots \ {Reaper}, NEW d \in Range(E[x]), NEW e \in R \cup Range(E[Reaper]),
             K[d] = K[e]
      PROVE  T[e] < T[d]
  <2>0. Reaper \in Spots /\ d \in Range(D[x])
    BY <1>2, ActorLemma, Zenon DEF Reaper, Spots
  <2>1. CASE e \in S \cup Range(D[Reaper])
    BY <1>5, <2>0, <2>1, Zenon DEF InLine
  <2>2. CASE e = Head(D[y]) /\ y # Reaper
    <3>1. K[d] = O[x] /\ K[e] = O[y]
      BY <1>1, <2>0, <2>2, Zenon DEF InLine
    <3>2. D[x] # <<>>
      BY <2>0, EmptyOnce, Zenon
    <3>3. x = y
      BY <1>5, <2>2, <3>1, <3>2, Zenon DEF InLine
    <3> QED
      BY <1>1, <2>2, <3>3, Zenon
  <2> QED
    BY <1>1, <1>2, <2>0, <2>1, <2>2, Zenon
<1> QED
  BY <1>3, <1>4, <1>5, Zenon DEF InLine

\* The reaper takes the datagrams of a place.
LEMMA LineReaped ==
    ASSUME NEW D, NEW E, NEW O, NEW S, NEW T, NEW K, NEW x \in Spots \ {Reaper},
           InLine(D, O, S, T, K),
           E[Reaper] = D[x], E[x] = <<>>,
           \A z \in Spots \ {x, Reaper} : E[z] = D[z],
           O[Reaper] = O[x]
    PROVE  InLine(E, O, S, T, K)
<1>0. Reaper \in Spots
  BY ActorLemma, Zenon DEF Reaper, Spots
<1>1. ASSUME NEW z \in Spots PROVE Increasing(E[z], T) /\ \A d \in Range(E[z]) : K[d] = O[z]
  <2>1. CASE z = x
    BY <2>1, EmptyOnce, EmptyIncreasing, Zenon
  <2>2. CASE z = Reaper
    BY <1>0, <2>2, Zenon DEF InLine
  <2>3. CASE z \notin {x, Reaper}
    BY <2>3, Zenon DEF InLine
  <2> QED
    BY <2>1, <2>2, <2>3, Zenon
<1>2. \A z, v \in Spots \ {Reaper} : O[z] = O[v] /\ E[z] # <<>> /\ E[v] # <<>> => z = v
  BY ZenonT(30) DEF InLine
<1>3. ASSUME NEW z \in Spots \ {Reaper}, NEW d \in Range(E[z]), NEW e \in S \cup Range(E[Reaper]),
             K[d] = K[e]
      PROVE  T[e] < T[d]
  <2>1. z # x /\ d \in Range(D[z]) /\ D[z] # <<>>
    BY EmptyOnce, Zenon
  <2>2. CASE e \in S
    BY <1>3, <2>1, <2>2, Zenon DEF InLine
  <2>3. CASE e \in Range(D[x])
    <3>1. D[x] # <<>> /\ K[e] = O[x] /\ K[d] = O[z]
      BY <2>1, <2>3, EmptyOnce, Zenon DEF InLine
    <3> QED
      BY <1>3, <2>1, <3>1, Zenon DEF InLine
  <2> QED
    BY <2>2, <2>3, Zenon
<1> QED
  BY <1>1, <1>2, <1>3, Zenon DEF InLine

\* A place y of the key k gets the datagrams of a place x, which loses them, or
\* the datagram of a packet p that is younger than any other, or both.
Filled(D, E, S, T, K, x, y, p, k) ==
    \/ E[y] = D[x]
    \/ /\ E[y] \in {<<p>>, Append(D[x], p)}
       /\ K[p] = k
       /\ \A q \in Packets \ {p} : K[q] = k => T[q] < T[p]
       /\ p \notin Range(D[x]) \cup S \cup Range(D[Reaper])

\* The other places of the key are empty, and no place but y gains anything.
Emptied(D, E, O, y, k) ==
    /\ \A z \in Spots \ {y} : E[z] = <<>> \/ E[z] = D[z]
    /\ \A z \in Spots \ {y, Reaper} : O[z] = k => E[z] = <<>>

LEMMA LineFilled ==
    ASSUME NEW D, NEW E, NEW O, NEW S, NEW T, NEW K,
           NEW x \in Spots \ {Reaper}, NEW y \in Spots \ {Reaper}, NEW p \in Packets, NEW k,
           InLine(D, O, S, T, K),
           O[x] = k, O[y] = k, D[x] \in Seq(Packets), S \subseteq Packets,
           D[Reaper] \in Seq(Packets),
           Filled(D, E, S, T, K, x, y, p, k), Emptied(D, E, O, y, k)
    PROVE  InLine(E, O, S, T, K)
<1> USE DEF Filled, Emptied
<1>0. Reaper \in Spots
  BY ActorLemma, Zenon DEF Reaper, Spots
<1> DEFINE New == /\ E[y] \in {<<p>>, Append(D[x], p)}
                  /\ K[p] = k
                  /\ \A q \in Packets \ {p} : K[q] = k => T[q] < T[p]
                  /\ p \notin Range(D[x]) \cup S \cup Range(D[Reaper])
<1>1. \A d \in Range(D[x]) : d \in Packets
  BY SMT, SMTT(30) DEF Range
<1>2. \A d \in Range(D[Reaper]) : d \in Packets
  BY SMT, SMTT(30) DEF Range
<1>3. Range(E[y]) \subseteq Range(D[x]) \cup {p} /\ (New \/ E[y] = D[x])
  <2>1. CASE New
    <3>1. Range(<<p>>) = {p}
      BY SingleIncreasing, Zenon
    <3>2. Range(Append(D[x], p)) \subseteq Range(D[x]) \cup {p}
      <4> SUFFICES ASSUME NEW i \in DOMAIN Append(D[x], p)
                   PROVE  Append(D[x], p)[i] \in Range(D[x]) \cup {p}
        BY Zenon DEF Range
      <4>1. (i \in DOMAIN D[x] /\ Append(D[x], p)[i] = D[x][i]) \/ Append(D[x], p)[i] = p
        BY SMT, SMTT(30)
      <4> QED
        BY <4>1, Zenon DEF Range
    <3> QED
      BY <2>1, <3>1, <3>2, Zenon
  <2> QED
    BY <2>1, Zenon
<1>4. Increasing(E[y], T) /\ \A d \in Range(E[y]) : K[d] = k
  <2>0. Increasing(D[x], T) /\ \A d \in Range(D[x]) : K[d] = k
    BY Zenon DEF InLine
  <2>1. CASE E[y] = D[x]
    BY <2>0, <2>1, Zenon
  <2>2. CASE New
    <3>1. \A d \in Range(D[x]) : T[d] < T[p]
      BY <1>1, <2>0, <2>2, Zenon
    <3>2. Increasing(Append(D[x], p), T) /\ Increasing(<<p>>, T)
      BY <2>0, <3>1, AppendIncreasing, SingleIncreasing, Zenon
    <3> QED
      BY <1>3, <2>0, <2>2, <3>2, Zenon
  <2> QED
    BY <1>3, <2>1, <2>2, Zenon
<1>5. ASSUME NEW z \in Spots PROVE Increasing(E[z], T) /\ \A d \in Range(E[z]) : K[d] = O[z]
  <2>1. CASE z = y
    BY <1>4, <2>1, Zenon
  <2>2. CASE E[z] = <<>>
    BY <2>2, EmptyOnce, EmptyIncreasing, Zenon
  <2>3. CASE E[z] = D[z]
    BY <2>3, Zenon DEF InLine
  <2> QED
    BY <2>1, <2>2, <2>3, Zenon
<1>6. ASSUME NEW z \in Spots \ {Reaper}, NEW v \in Spots \ {Reaper}, O[z] = O[v], E[z] # <<>>, E[v] # <<>>
      PROVE  z = v
  <2>1. CASE z = y \/ v = y
    BY <1>6, <2>1, Zenon
  <2>2. CASE z # y /\ v # y
    BY <1>6, <2>2, Zenon DEF InLine
  <2> QED
    BY <2>1, <2>2, Zenon
<1>7. ASSUME NEW z \in Spots \ {Reaper}, NEW d \in Range(E[z]), NEW e \in S \cup Range(E[Reaper]),
             K[d] = K[e]
      PROVE  T[e] < T[d]
  <2>1. e \in S \cup Range(D[Reaper])
    BY <1>0, EmptyOnce, Zenon
  <2>2. CASE z # y
    <3>1. d \in Range(D[z])
      BY <2>2, EmptyOnce, Zenon
    <3> QED
      BY <1>7, <2>1, <3>1, Zenon DEF InLine
  <2>3. CASE d \in Range(D[x])
    BY <1>7, <2>1, <2>3, Zenon DEF InLine
  <2>4. CASE d = p /\ New /\ z = y
    <3>1. e \in Packets \ {p} /\ K[e] = k
      BY <1>2, <1>7, <2>1, <2>4, Zenon
    <3> QED
      BY <2>4, <3>1, Zenon
  <2> QED
    BY <1>3, <2>2, <2>3, <2>4, Zenon
<1> QED
  BY <1>5, <1>6, <1>7, Zenon DEF InLine

-----------------------------------------------------------------------------
(* Whoever holds a key lock has the last turn. *)

\* The packets of k that have had their turn.
Served(k) == {q \in Received : key[q] = k /\ turn[q] > 0}

LastInv ==
    /\ \A p \in Packets : turn[p] > 0 => turn[p] <= Cardinality(Served(key[p]))
    /\ \A p \in Packets : Running(p) => turn[p] > 0
    /\ \A p, q \in Packets : Running(p) /\ key[q] = key[p] /\ q # p => turn[q] < turn[p]

\* Nobody has a turn at first.
LEMMA InitLastInv == Init => LastInv
<1>1. Init => \A p \in Packets : turn[p] = 0 /\ ~Running(p)
  BY ActorLemma, Zenon DEF Init, Running
<1> QED
  BY <1>1, SMT, SMTT(30) DEF LastInv

\* A step that gives nobody a turn, while packets may be received.
LEMMA QuietLastInv ==
    ASSUME TurnInv, LastInv, turn' = turn,
           \A p \in Packets : Running(p)' => Running(p),
           \A p \in Packets : key'[p] = key[p] \/ (key[p] = None /\ turn[p] = 0),
           \A p \in Packets : turn[p] > 0 => key[p] # None
    PROVE  LastInv'
<1>1. ASSUME NEW p \in Packets, turn[p] > 0 PROVE Served(key[p])' = Served(key[p]) /\ key'[p] = key[p]
  <2>1. key'[p] = key[p]
    BY <1>1, Zenon
  <2>2. \A q \in Packets : turn[q] > 0 => key'[q] = key[q] /\ key[q] # None
    BY Zenon
  <2>3. Served(key[p])' = {q \in Packets : key'[q] # None /\ key'[q] = key'[p] /\ turn[q] > 0}
    BY Zenon DEF Served, Received
  <2>4. Served(key[p]) = {q \in Packets : key[q] # None /\ key[q] = key[p] /\ turn[q] > 0}
    BY Zenon DEF Served, Received
  <2> QED
    BY <2>1, <2>2, <2>3, <2>4, Zenon
<1>2. \A p \in Packets : turn'[p] > 0 => turn'[p] <= Cardinality(Served(key[p])')
  BY <1>1, Zenon DEF LastInv
<1>3. \A p \in Packets : Running(p)' => turn'[p] > 0
  BY Zenon DEF LastInv
<1>4. ASSUME NEW p \in Packets, NEW q \in Packets, Running(p)', key'[q] = key'[p], q # p
      PROVE  turn'[q] < turn'[p]
  <2>1. Running(p) /\ turn[p] > 0 /\ key'[p] = key[p]
    BY <1>1, <1>4, Zenon DEF LastInv
  <2>2. CASE key'[q] = key[q]
    BY <1>4, <2>1, <2>2, Zenon DEF LastInv
  <2>3. CASE turn[q] = 0
    BY <2>1, <2>3, Zenon
  <2> QED
    BY <2>2, <2>3, Zenon
<1> QED
  BY <1>2, <1>3, <1>4, Zenon DEF LastInv

\* A task that gets its lock has the next turn of its key.
LEMMA AcquireLastInv ==
    ASSUME LockInv, TurnInv, LastInv, NEW p \in Packets, Acquire(p), open
    PROVE  LastInv'
<1>1. /\ turn' = [turn EXCEPT ![p] = 1 + Cardinality(Served(key[p]))]
      /\ turn[p] = 0 /\ key' = key /\ pc' = [pc EXCEPT ![p] = "probe"] /\ pc[p] = "lock"
      /\ \A q \in Packets : lock[q] = lock[p] => ~Running(q)
  BY Zenon DEF Acquire, Goto, Served, TurnInv
<1>2. \A q \in Packets : turn'[q] = IF q = p THEN 1 + Cardinality(Served(key[p])) ELSE turn[q]
  BY <1>1, Zenon DEF TurnInv
<1>3. \A q \in Packets : Running(q)' => q = p \/ Running(q)
  BY <1>1, ActorLemma, Zenon DEF Running, LockInv
<1>4. \A q \in Packets : turn[q] \in Nat
  BY UdpPendingAssumption, SMT, SMTT(30) DEF TurnInv
<1>5. key[p] # None
  BY <1>1, NoneIsNoPacket, Zenon DEF LockInv
<1>6. ASSUME NEW k PROVE /\ IsFiniteSet(Served(k)) /\ Cardinality(Served(k)) \in Nat
                         /\ p \notin Served(k)
  <2>1. IsFiniteSet(Packets)
    BY UdpPendingAssumption, FS_Interval, SMT, SMTT(30) DEF Packets
  <2>2. Served(k) \subseteq Packets /\ p \notin Served(k)
    BY <1>1, SMT, SMTT(30) DEF Served, Received
  <2> QED
    BY <2>1, <2>2, FS_Subset, FS_CardinalityType, Zenon
<1>7. ASSUME NEW k PROVE Served(k)' = IF k = key[p] THEN Served(k) \cup {p} ELSE Served(k)
  <2>1. Served(k)' = {q \in Packets : key[q] # None /\ key[q] = k /\ turn'[q] > 0}
    BY <1>1, Zenon DEF Served, Received
  <2>2. turn'[p] > 0
    BY <1>2, <1>6, SMT, SMTT(30)
  <2> QED
    BY <1>2, <1>5, <2>1, <2>2, Zenon DEF Served, Received
<1>8. Cardinality(Served(key[p])') = Cardinality(Served(key[p])) + 1
  <2>1. Served(key[p])' = Served(key[p]) \cup {p}
    BY <1>1, <1>7, Zenon
  <2> QED
    BY <1>6, <2>1, FS_AddElement, Zenon
<1>9. ASSUME NEW q \in Packets, turn'[q] > 0 PROVE turn'[q] <= Cardinality(Served(key[q])')
  <2>1. CASE q = p
    BY <1>2, <1>6, <1>8, <2>1, SMT, SMTT(30)
  <2>2. CASE q # p /\ key[q] = key[p]
    <3>1. turn[q] <= Cardinality(Served(key[p])) /\ turn'[q] = turn[q]
      BY <1>2, <1>9, <2>2, Zenon DEF LastInv
    <3>2. Served(key[q])' = Served(key[p])'
      BY <1>1, <2>2, Zenon
    <3> QED
      BY <1>4, <1>6, <1>8, <3>1, <3>2, SMT, SMTT(30)
  <2>3. CASE q # p /\ key[q] # key[p]
    <3>1. Served(key[q])' = Served(key[q])
      BY <1>1, <1>7, <2>3, Zenon
    <3> QED
      BY <1>2, <1>9, <2>3, <3>1, Zenon DEF LastInv
  <2> QED
    BY <2>1, <2>2, <2>3, Zenon
<1>10. \A q \in Packets : Running(q)' => turn'[q] > 0
  BY <1>2, <1>3, <1>6, SMT, SMTT(30) DEF LastInv
<1>11. ASSUME NEW r \in Packets, NEW q \in Packets, Running(r)', key'[q] = key'[r], q # r
       PROVE  turn'[q] < turn'[r]
  <2>1. CASE r = p
    <3>1. turn'[q] = turn[q] /\ turn'[r] = 1 + Cardinality(Served(key[p])) /\ key[q] = key[p]
      BY <1>1, <1>2, <1>11, <2>1, Zenon
    <3>2. turn[q] > 0 => turn[q] <= Cardinality(Served(key[p]))
      BY <3>1, Zenon DEF LastInv
    <3> QED
      BY <1>4, <1>6, <3>1, <3>2, SMT, SMTT(30)
  <2>2. CASE r # p
    <3>1. Running(r) /\ key[q] = key[r]
      BY <1>1, <1>3, <1>11, <2>2, Zenon
    <3>2. key[r] # key[p]
      BY <1>1, <3>1, SMT, SMTT(30) DEF LockInv, Running
    <3> QED
      BY <1>2, <1>11, <2>2, <3>1, <3>2, Zenon DEF LastInv
  <2> QED
    BY <2>1, <2>2, Zenon
<1> QED
  BY <1>9, <1>10, <1>11, Zenon DEF LastInv

\* LastInv is inductive, given the locks.
LEMMA NextLastInv == LockInv /\ TurnInv /\ LastInv /\ [Next]_vars => LastInv'
<1> SUFFICES ASSUME LockInv, TurnInv, LastInv, [Next]_vars
             PROVE  LastInv'
  BY Zenon
<1>0. \A p \in Packets : turn[p] > 0 => key[p] # None /\ pc[p] # "new"
  BY SMT, SMTT(30) DEF LockInv, TurnInv
<1>1. ASSUME turn' = turn, \A p \in Packets : Running(p)' => Running(p),
             \A p \in Packets : key'[p] = key[p]
      PROVE  LastInv'
  BY <1>0, <1>1, QuietLastInv, Zenon
<1>2. CASE ReceiveAny
  <2>1. turn' = turn /\ \A p \in Packets : pc'[p] = pc[p]
    BY <1>2, ActorLemma, ZenonT(30) DEF ReceiveAny, Receive, Goto, histVars, LockInv
  <2>2. \A p \in Packets : key'[p] = key[p] \/ (key[p] = None /\ turn[p] = 0)
    <3>1. ASSUME NEW q \in Packets, NEW k \in Keys, Receive(q, k)
          PROVE  key[q] = None /\ \A p \in Packets : p # q => key'[p] = key[p]
      BY <3>1, NoneIsNoPacket, ActorLemma, ZenonT(30) DEF Receive, IsNext, Received
    <3>2. CASE Receive(None, None)
      BY <3>2, NoneIsNoPacket, ActorLemma, ZenonT(30) DEF Receive
    <3>3. \A q \in Packets : key[q] = None => turn[q] = 0
      BY Zenon DEF LockInv, TurnInv
    <3> QED
      BY <1>2, <3>1, <3>2, <3>3, ZenonT(30) DEF ReceiveAny
  <2>3. \A p \in Packets : Running(p)' => Running(p)
    BY <2>1, Zenon DEF Running
  <2> QED
    BY <1>0, <2>1, <2>2, <2>3, QuietLastInv, Zenon
<1>3. CASE LoopStep \/ Stop
  <2>1. turn' = turn
    BY <1>3, ZenonT(30) DEF LoopStep, ReapKey, ReapKeysDone, Spawn, Stop, histVars
  <2>2. \A p \in Packets : pc'[p] \in {"lock", "done"} \/ pc'[p] = pc[p]
    BY <1>3, ActorLemma, ZenonT(60) DEF LoopStep, ReapKey, ReapKeysDone, Spawn, Stop, Goto, LockInv
  <2>3. \A p \in Packets : key'[p] = key[p]
    BY <1>3, ActorLemma, ZenonT(30) DEF LoopStep, ReapKey, ReapKeysDone, Spawn, Stop, LockInv
  <2>4. \A p \in Packets : Running(p)' => Running(p)
    BY <2>2, Zenon DEF Running
  <2> QED
    BY <1>1, <2>1, <2>3, <2>4, Zenon
<1>4. ASSUME NEW p \in Packets, TaskStep(p), ~(Acquire(p) /\ open) PROVE LastInv'
  <2>1. /\ turn' = turn /\ key' = key
        /\ \E l : pc' = [pc EXCEPT ![p] = l] /\ (l = "done" \/ pc[p] \in {"probe", "take", "insert"})
    BY <1>4, ActorLemma, ZenonT(30) DEF TaskStep, Acquire, ProbeHit, ProbeMiss, TakeExpired, TakeMatched, TakeFailed,
                Flush, TakeMore, Insert, SniffMore, SniffForward, Finish, Goto, histVars
  <2>2. \A q \in Packets : Running(q)' => Running(q)
    BY <2>1, ActorLemma, ZenonT(30) DEF LockInv, Running
  <2> QED
    BY <1>1, <2>1, <2>2, Zenon
<1>5. ASSUME NEW a \in Actors, EnforceStep(a) \/ ForwardStep(a) PROVE LastInv'
  <2>1. /\ turn' = turn
        /\ \E l : pc' = [pc EXCEPT ![a] = l] /\ pc[a] \in {"len", "pick", "evict", "forward", "send"}
    BY <1>5, ZenonT(30) DEF EnforceStep, EnforceLen, EnforcePick, EnforceEvict, ForwardStep, ForwardReuse,
                ForwardCreate, ForwardFail, Send, NextDatagram, Finish, Goto, histVars
  <2>2. \A q \in Packets : Running(q)' => Running(q)
    BY <2>1, ActorLemma, ZenonT(30) DEF LockInv, Running
  <2>3. \A q \in Packets : key'[q] = key[q]
    <3>1. key' = key \/ key' = [key EXCEPT ![a] = IF a = Loop THEN None ELSE @]
      BY <1>5, ZenonT(30) DEF EnforceStep, EnforceLen, EnforcePick, EnforceEvict, ForwardStep, ForwardReuse,
                ForwardCreate, ForwardFail, Send, NextDatagram
    <3> QED
      BY <3>1, ActorLemma, ZenonT(30) DEF LockInv
  <2> QED
    BY <1>1, <2>1, <2>2, <2>3, Zenon
<1>6. CASE Tick \/ (\E s \in Sessions : SessionDies(s) \/ SessionEvicted(s)) \/ Seal \/ UNCHANGED vars
  <2>1. UNCHANGED <<turn, pc, key>>
    BY <1>6, ZenonT(30) DEF Tick, SessionDies, SessionEvicted, Seal, vars, actorVars, histVars
  <2> QED
    BY <1>1, <2>1, Zenon DEF Running
<1> QED
  BY <1>2, <1>3, <1>4, <1>5, <1>6, AcquireLastInv, ZenonT(30) DEF Next

-----------------------------------------------------------------------------
(* The line of a key in the places of the model. *)

(***************************************************************************)
(* The inductive invariant behind InOrderUnlessReaped: a task holds an     *)
(* entry or a flush only where it puts the one back or works on the other, *)
(* and the datagrams of every key are in line.                             *)
(***************************************************************************)
OrderInv ==
    /\ \A p \in Packets : entry[p] # None => pc[p] = "insert"
    /\ \A a \in Actors : todo[a] # <<>> => pc[a] \in {"forward", "send"}
    /\ InLine(View(pending, entry, todo), Owner(key), sent, turn, key)

\* The keys of the places one by one.
LEMMA OwnerLemma ==
    ASSUME NEW ks
    PROVE  /\ \A k \in Keys : Owner(ks)[<<"map", k>>] = k
           /\ \A p \in Packets : Owner(ks)[<<"task", p>>] = ks[p]
           /\ \A a \in Actors : Owner(ks)[<<"flush", a>>] = ks[a]
           /\ Reaper \in Spots
<1>1. \A k \in Keys : <<"map", k>> \in Spots
  BY Zenon DEF Spots
<1>2. \A p \in Packets : <<"task", p>> \in Spots
  BY Zenon DEF Spots
<1>3. \A a \in Actors : <<"flush", a>> \in Spots
  BY Zenon DEF Spots
<1> QED
  BY <1>1, <1>2, <1>3, ActorLemma, Zenon DEF Owner, Reaper

\* Nothing is cached or sent at first.
LEMMA InitOrderInv == Init => OrderInv
<1> SUFFICES ASSUME Init
             PROVE  OrderInv
  BY Zenon
<1>1. \A x \in Spots : View(pending, entry, todo)[x] = <<>>
  <2>1. Shows(View(pending, entry, todo), pending, entry, todo)
    BY ViewLemma, Zenon
  <2> QED
    BY <2>1, SpotLemma, SMT, SMTT(30) DEF Init, DataOf, Shows
<1>2. InLine(View(pending, entry, todo), Owner(key), sent, turn, key)
  BY <1>1, EmptyOnce, EmptyIncreasing, ZenonT(30) DEF InLine
<1>3. (\A p \in Packets : entry[p] = None) /\ (\A a \in Actors : todo[a] = <<>>)
  BY Zenon DEF Init
<1> QED
  BY <1>2, <1>3, Zenon DEF OrderInv

\* Places keep what they hold or lose it.
LEMMA KeptOrderInv ==
    ASSUME OnceInv, OrderInv,
           \A k \in Keys : DataOf(pending'[k]) \in {DataOf(pending[k]), <<>>},
           \A p \in Packets : DataOf(entry'[p]) \in {DataOf(entry[p]), <<>>},
           \A a \in Actors : todo'[a] \in {todo[a], <<>>},
           \A p \in Packets : entry'[p] # None => pc'[p] = "insert",
           \A a \in Actors : todo'[a] # <<>> => pc'[a] \in {"forward", "send"},
           sent' = sent,
           \A q \in Packets : q \in Waiting \/ (turn'[q] = turn[q] /\ key'[q] = key[q]),
           todo'[Loop] = <<>> \/ key'[Loop] = key[Loop]
    PROVE  OrderInv'
<1> DEFINE D == View(pending, entry, todo)
           E == View(pending', entry', todo')
           O == Owner(key)
           N == Owner(key')
<1>1. Shows(D, pending, entry, todo) /\ Shows(E, pending', entry', todo')
  BY ViewLemma, Zenon
<1>2. Apart(Spots, D, sent \cup Waiting) /\ InLine(D, O, sent, turn, key)
  BY Zenon DEF OnceInv, OrderInv
<1>3. /\ \A k \in Keys : O[<<"map", k>>] = k /\ N[<<"map", k>>] = k
      /\ \A p \in Packets : O[<<"task", p>>] = key[p] /\ N[<<"task", p>>] = key'[p]
      /\ \A a \in Actors : O[<<"flush", a>>] = key[a] /\ N[<<"flush", a>>] = key'[a]
  BY OwnerLemma, ZenonT(30)
<1> HIDE DEF D, E, O, N
<1>4. \A x \in Spots : \A d \in Range(D[x]) : d \in Packets \ Waiting
  <2> SUFFICES ASSUME NEW x \in Spots, NEW d \in Range(D[x])
               PROVE  d \in Packets \ Waiting
    BY Zenon
  <2>1. D[x] \in Seq(Packets) /\ d \notin Waiting
    BY <1>2, Zenon DEF Apart
  <2> QED
    BY <2>1, SMT, SMTT(30) DEF Range
<1>5. \A d \in sent : d \in Packets \ Waiting
  BY Zenon DEF OnceInv
<1>6. ASSUME NEW x \in Spots, E[x] # <<>> PROVE E[x] = D[x] /\ N[x] = O[x]
  <2>1. ASSUME NEW k \in Keys, x = <<"map", k>> PROVE E[x] = D[x] /\ N[x] = O[x]
    BY <1>1, <1>3, <1>6, <2>1, SMT, SMTT(30) DEF Shows
  <2>2. ASSUME NEW p \in Packets, x = <<"task", p>> PROVE E[x] = D[x] /\ N[x] = O[x]
    <3>1. E[x] = D[x] /\ DataOf(entry[p]) # <<>>
      BY <1>1, <1>6, <2>2, SMT, SMTT(30) DEF Shows
    <3>2. pc[p] = "insert"
      BY <3>1, Zenon DEF OrderInv, DataOf
    <3>3. p \notin Waiting
      BY <3>2, Zenon DEF Waiting, Early
    <3> QED
      BY <1>3, <2>2, <3>1, <3>3, Zenon
  <2>3. ASSUME NEW a \in Actors, x = <<"flush", a>> PROVE E[x] = D[x] /\ N[x] = O[x]
    <3>1. E[x] = D[x] /\ todo[a] # <<>> /\ todo'[a] # <<>>
      BY <1>1, <1>6, <2>3, Zenon DEF Shows
    <3>2. pc[a] \in {"forward", "send"}
      BY <3>1, Zenon DEF OrderInv
    <3>3. a \notin Waiting /\ (a = Loop \/ a \in Packets)
      BY <3>2, ZenonT(30) DEF Waiting, Early, Actors
    <3> QED
      BY <1>3, <2>3, <3>1, <3>3, ZenonT(30)
  <2> QED
    BY <2>1, <2>2, <2>3, SpotLemma, Zenon
<1>7. InLine(E, N, sent, turn', key')
  <2>1. \A x \in Spots : E[x] = <<>> \/ (E[x] = D[x] /\ N[x] = O[x])
    BY <1>6, Zenon
  <2>2. \A x \in Spots : \A d \in Range(D[x]) : turn'[d] = turn[d] /\ key'[d] = key[d]
    BY <1>4, Zenon
  <2>3. \A d \in sent : turn'[d] = turn[d] /\ key'[d] = key[d]
    BY <1>5, Zenon
  <2> QED
    BY <1>2, <2>1, <2>2, <2>3, LineKept, SMT, SMTT(30)
<1> QED
  BY <1>7, Zenon DEF OrderInv, E, N

\* NextDatagram: a flush loses its first datagram, which may have been sent.
LEMMA PopOrderInv ==
    ASSUME OnceInv, OrderInv, NEW a \in Actors, pc[a] \in {"forward", "send"},
           UNCHANGED <<pending, entry, turn>>,
           todo' = [todo EXCEPT ![a] = Tail(@)],
           \A p \in Packets : entry'[p] # None => pc'[p] = "insert",
           \A b \in Actors : todo'[b] # <<>> => pc'[b] \in {"forward", "send"},
           sent' \subseteq sent \cup {Head(todo[a])},
           \A q \in Packets : key'[q] = key[q],
           todo'[Loop] = <<>> \/ key'[Loop] = key[Loop]
    PROVE  OrderInv'
<1> DEFINE D == View(pending, entry, todo)
           E == View(pending', entry', todo')
           O == Owner(key)
           N == Owner(key')
           y == <<"flush", a>>
<1>1. Shows(D, pending, entry, todo) /\ Shows(E, pending', entry', todo')
  BY ViewLemma, Zenon
<1>2. InLine(D, O, sent, turn, key) /\ Apart(Spots, D, sent \cup Waiting)
  BY Zenon DEF OrderInv, OnceInv
<1>3. /\ \A k \in Keys : O[<<"map", k>>] = k /\ N[<<"map", k>>] = k
      /\ \A p \in Packets : O[<<"task", p>>] = key[p] /\ N[<<"task", p>>] = key'[p]
      /\ \A b \in Actors : O[<<"flush", b>>] = key[b] /\ N[<<"flush", b>>] = key'[b]
  BY OwnerLemma, Zenon
<1>4. todo[a] # <<>> /\ todo[a] \in Seq(Packets)
  BY Zenon DEF OnceInv
<1> HIDE DEF D, E, O, N
<1>5. y \in Spots /\ D[y] = todo[a] /\ E[y] = Tail(todo[a])
  BY <1>1, ZenonT(60) DEF OnceInv, Shows
<1>6. \A x \in Spots : x # y => E[x] = D[x]
  BY <1>1, SpotLemma, SMT, SMTT(30) DEF OnceInv, Shows
<1>7. InLine(E, O, sent', turn, key)
  <2> HIDE DEF y
  <2>1. \A x \in Spots \ {y} : E[x] = D[x]
    BY <1>6, Zenon
  <2>2. D[y] \in Seq(Packets) /\ D[y] # <<>>
    BY <1>4, <1>5, Zenon
  <2>3. E[y] = Tail(D[y])
    BY <1>5, Zenon
  <2>4. sent' \subseteq sent \cup {Head(D[y])}
    BY <1>5, Zenon
  <2>5. y \in Spots /\ InLine(D, O, sent, turn, key)
    BY <1>2, <1>5, Zenon
  <2> QED
    BY <2>1, <2>2, <2>3, <2>4, <2>5, LinePopped, SMT, SMTT(30)
<1>8. ASSUME NEW x \in Spots, E[x] # <<>> PROVE N[x] = O[x]
  <2>1. ASSUME NEW b \in Actors, x = <<"flush", b>> PROVE N[x] = O[x]
    <3>1. todo'[b] # <<>> /\ (b = Loop \/ b \in Packets)
      BY <1>1, <1>8, <2>1, Zenon DEF Shows, Actors
    <3> QED
      BY <1>3, <2>1, <3>1, ZenonT(30)
  <2> QED
    BY <1>3, <2>1, SpotLemma, SMT, SMTT(30)
<1>9. \A x \in Spots : \A d \in Range(E[x]) : d \in Packets
  <2> SUFFICES ASSUME NEW x \in Spots, NEW d \in Range(E[x])
               PROVE  d \in Packets
    BY Zenon
  <2>1. D[x] \in Seq(Packets)
    BY <1>2, Zenon DEF Apart
  <2>2. Tail(todo[a]) \in Seq(Packets)
    BY <1>4, SMT, SMTT(30)
  <2>3. E[x] \in Seq(Packets)
    BY <1>5, <1>6, <2>1, <2>2, Zenon
  <2> QED
    BY <2>3, SMT, SMTT(30) DEF Range
<1>10. \A d \in sent' : d \in Packets
  <2>1. Head(todo[a]) \in Packets /\ sent \subseteq Packets
    BY <1>4, SMT, SMTT(30) DEF OnceInv
  <2> QED
    BY <2>1, Zenon
<1>11. InLine(E, N, sent', turn', key')
  <2>1. \A x \in Spots : E[x] = <<>> \/ N[x] = O[x]
    BY <1>8, Zenon
  <2>2. \A x \in Spots : \A d \in Range(E[x]) : turn'[d] = turn[d] /\ key'[d] = key[d]
    BY <1>9, Zenon
  <2>3. \A d \in sent' : turn'[d] = turn[d] /\ key'[d] = key[d]
    BY <1>10, Zenon
  <2> QED
    BY <1>7, <2>1, <2>2, <2>3, LineRenamed, SMT, SMTT(30)
<1> QED
  BY <1>11, Zenon DEF OrderInv, E, N

\* The reaper takes the entry of k to flush it.
LEMMA ReapOrderInv ==
    ASSUME LockInv, OnceInv, OrderInv, NEW k \in Keys, pc[Loop] = "reap",
           pending' = [pending EXCEPT ![k] = None],
           todo' = [todo EXCEPT ![Loop] = DataOf(pending[k])],
           key'[Loop] = k, \A q \in Packets : key'[q] = key[q],
           pc' = [pc EXCEPT ![Loop] = "forward"],
           UNCHANGED <<entry, turn, sent>>
    PROVE  OrderInv'
<1> DEFINE D == View(pending, entry, todo)
           E == View(pending', entry', todo')
           O == Owner(key)
           N == Owner(key')
           x == <<"map", k>>
<1>1. Shows(D, pending, entry, todo) /\ Shows(E, pending', entry', todo')
  BY ViewLemma, Zenon
<1>2. InLine(D, O, sent, turn, key) /\ Apart(Spots, D, sent \cup Waiting)
  BY Zenon DEF OrderInv, OnceInv
<1>3. /\ \A j \in Keys : O[<<"map", j>>] = j /\ N[<<"map", j>>] = j
      /\ \A p \in Packets : O[<<"task", p>>] = key[p] /\ N[<<"task", p>>] = key'[p]
      /\ \A b \in Actors : O[<<"flush", b>>] = key[b] /\ N[<<"flush", b>>] = key'[b]
      /\ Reaper \in Spots
  BY OwnerLemma, Zenon
<1>4. todo[Loop] = <<>>
  BY ActorLemma, Zenon DEF OrderInv
<1> HIDE DEF D, E, O, N
<1>5. ASSUME NEW z \in Spots, D[z] # <<>> PROVE N[z] = O[z]
  <2>1. ASSUME NEW b \in Actors, z = <<"flush", b>> PROVE N[z] = O[z]
    <3>1. b # Loop
      BY <1>1, <1>4, <1>5, <2>1, Zenon DEF Shows
    <3>2. b \in Packets
      BY <3>1, Zenon DEF Actors
    <3> QED
      BY <1>3, <1>4, <2>1, <3>2, Zenon
  <2> QED
    BY <1>3, <1>4, <2>1, SpotLemma, SMT, SMTT(30)
<1>6. \A z \in Spots : \A d \in Range(D[z]) : d \in Packets
  BY <1>2, SMT, SMTT(30) DEF Apart, Range
<1>7. InLine(D, N, sent, turn', key')
  <2>1. \A z \in Spots : D[z] = <<>> \/ N[z] = O[z]
    BY <1>5, Zenon
  <2>2. \A z \in Spots : \A d \in Range(D[z]) : turn'[d] = turn[d] /\ key'[d] = key[d]
    BY <1>4, <1>6, Zenon
  <2>3. \A d \in sent : turn'[d] = turn[d] /\ key'[d] = key[d]
    BY <1>4, Zenon DEF OnceInv
  <2> QED
    BY <1>2, <2>1, <2>2, <2>3, LineRenamed, Zenon
<1>8. x \in Spots \ {Reaper} /\ D[x] = DataOf(pending[k]) /\ E[x] = <<>> /\ N[Reaper] = N[x]
  <2>1. x # Reaper
    BY Zenon DEF Reaper
  <2>2. pending'[k] = None
    BY Zenon DEF OnceInv
  <2> QED
    BY <1>1, <1>3, <2>1, <2>2, ActorLemma, SMT, SMTT(30) DEF Shows, DataOf, Reaper
<1>9. E[Reaper] = DataOf(pending[k]) /\ \A z \in Spots \ {x, Reaper} : E[z] = D[z]
  <2>1. E[Reaper] = DataOf(pending[k])
    BY <1>1, ActorLemma, Zenon DEF Shows, Reaper, OnceInv
  <2>2. \A z \in Spots \ {x, Reaper} : E[z] = D[z]
    BY <1>1, SpotLemma, SMT, SMTT(30) DEF Shows, Reaper, OnceInv
  <2> QED
    BY <2>1, <2>2, Zenon
<1>10. InLine(E, N, sent, turn', key')
  <2> HIDE DEF x
  <2>1. E[Reaper] = D[x]
    BY <1>8, <1>9, Zenon
  <2> QED
    BY <1>7, <1>8, <1>9, <2>1, LineReaped, Zenon
<1>11. /\ \A p \in Packets : entry'[p] # None => pc'[p] = "insert"
       /\ \A a \in Actors : todo'[a] # <<>> => pc'[a] \in {"forward", "send"}
  BY ActorLemma, Zenon DEF OrderInv, LockInv, OnceInv
<1> QED
  BY <1>10, <1>11, Zenon DEF OrderInv, E, N

\* The places of the key of p that the task of p changes.
Here(p) == {<<"map", key[p]>>, <<"task", p>>, <<"flush", p>>}

\* Of the tasks of a key only one is past its lock.
LEMMA OneRunner ==
    ASSUME LockInv, NEW p \in Packets, NEW q \in Packets, Running(p), Running(q), key[p] = key[q]
    PROVE  p = q
<1>1. lock[p] = locks[key[p]] /\ lock[q] = locks[key[q]]
  BY Zenon DEF LockInv, Running
<1>2. QED
  BY <1>1, Zenon DEF LockInv

\* The task of p, which has the key to itself, moves what its key has cached from
\* the place x to y, or adds its datagram, or both.
LEMMA FillOrderInv ==
    ASSUME LockInv, OnceInv, LastInv, OrderInv, NEW p \in Packets, Running(p),
           NEW x \in Here(p), NEW y \in Here(p), NEW l,
           \A k \in Keys : k # key[p] => pending'[k] = pending[k],
           \A q \in Packets : q # p => entry'[q] = entry[q],
           \A a \in Actors : a # p => todo'[a] = todo[a],
           \/ View(pending', entry', todo')[y] = View(pending, entry, todo)[x]
           \/ /\ p \in Waiting
              /\ View(pending', entry', todo')[y] \in {<<p>>, Append(View(pending, entry, todo)[x], p)},
           \A z \in Here(p) : z # y => View(pending', entry', todo')[z] = <<>>,
           pc' = [pc EXCEPT ![p] = l],
           entry'[p] # None => l = "insert",
           todo'[p] # <<>> => l \in {"forward", "send"},
           UNCHANGED <<key, turn, sent>>
    PROVE  OrderInv'
<1> DEFINE D == View(pending, entry, todo)
           E == View(pending', entry', todo')
           O == Owner(key)
           k == key[p]
<1>1. Shows(D, pending, entry, todo) /\ Shows(E, pending', entry', todo')
  BY ViewLemma, Zenon
<1>2. /\ InLine(D, O, sent, turn, key) /\ Apart(Spots, D, sent \cup Waiting)
      /\ sent \subseteq Packets /\ sent \cap Waiting = {}
  BY Zenon DEF OrderInv, OnceInv
<1>3. /\ \A j \in Keys : O[<<"map", j>>] = j
      /\ \A q \in Packets : O[<<"task", q>>] = key[q]
      /\ \A b \in Actors : O[<<"flush", b>>] = key[b]
      /\ Reaper \in Spots
  BY OwnerLemma, Zenon
<1>4. k \in Keys /\ p \in Actors
  BY ActorLemma, Zenon DEF LockInv, Running
<1>5. \A z \in Here(p) : z \in Spots \ {Reaper} /\ O[z] = k
  <2>1. p # Loop
    BY ActorLemma, Zenon
  <2>2. \A z \in Here(p) : z # Reaper
    BY <2>1, SMT, SMTT(30) DEF Here, Reaper
  <2> QED
    BY <1>1, <1>3, <1>4, <2>2, ZenonT(60) DEF Here, Shows
<1> HIDE DEF D, E, O
<1>6. \A q \in Packets : q # p /\ key[q] = k => entry[q] = None /\ todo[q] = <<>>
  <2> SUFFICES ASSUME NEW q \in Packets, q # p, key[q] = k
               PROVE  entry[q] = None /\ todo[q] = <<>>
    BY ZenonT(30)
  <2>1. ~Running(q)
    BY OneRunner, Zenon
  <2> QED
    BY <2>1, ActorLemma, Zenon DEF OrderInv, Running
<1>7. ASSUME NEW z \in Spots \ {y} PROVE E[z] = <<>> \/ E[z] = D[z]
  <2>1. CASE z \in Here(p)
    BY <2>1, ZenonT(30) DEF E
  <2>2. ASSUME NEW j \in Keys, z = <<"map", j>>, z \notin Here(p) PROVE E[z] = D[z]
    <3>1. j # key[p]
      BY <2>2, Zenon DEF Here
    <3>2. pending'[j] = pending[j]
      BY <3>1, Zenon
    <3>3. E[<<"map", j>>] = DataOf(pending'[j]) /\ D[<<"map", j>>] = DataOf(pending[j])
      BY <1>1, ZenonT(30) DEF Shows
    <3> QED
      BY <2>2, <3>2, <3>3, Zenon
  <2>3. ASSUME NEW q \in Packets, z = <<"task", q>>, z \notin Here(p) PROVE E[z] = D[z]
    <3>1. q # p
      BY <2>3, Zenon DEF Here
    <3>2. entry'[q] = entry[q]
      BY <3>1, Zenon
    <3>3. E[<<"task", q>>] = DataOf(entry'[q]) /\ D[<<"task", q>>] = DataOf(entry[q])
      BY <1>1, Zenon DEF Shows
    <3> QED
      BY <2>3, <3>2, <3>3, Zenon
  <2>4. ASSUME NEW a \in Actors, z = <<"flush", a>>, z \notin Here(p) PROVE E[z] = D[z]
    <3>1. a # p
      BY <2>4, Zenon DEF Here
    <3> QED
      BY <1>1, <2>4, <3>1, Zenon DEF Shows
  <2> QED
    BY <2>1, <2>2, <2>3, <2>4, SpotLemma, Zenon
<1>8. ASSUME NEW z \in Spots \ {y, Reaper}, O[z] = k PROVE E[z] = <<>>
  <2>1. CASE z \in Here(p)
    BY <2>1, Zenon DEF E
  <2>2. ASSUME NEW j \in Keys, z = <<"map", j>> PROVE z \in Here(p)
    BY <1>3, <1>8, <2>2, ZenonT(30) DEF Here
  <2>3. ASSUME NEW q \in Packets, z = <<"task", q>>, z \notin Here(p) PROVE E[z] = <<>>
    <3>1. key[q] = k /\ q # p
      BY <1>3, <1>8, <2>3, Zenon DEF Here
    <3>2. entry'[q] = None
      BY <1>6, <3>1, Zenon
    <3>3. E[<<"task", q>>] = DataOf(entry'[q]) /\ DataOf(None) = <<>>
      BY <1>1, Zenon DEF Shows, DataOf
    <3> QED
      BY <2>3, <3>2, <3>3, Zenon
  <2>4. ASSUME NEW a \in Actors, z = <<"flush", a>>, z \notin Here(p) PROVE E[z] = <<>>
    <3>1. key[a] = k /\ a # p /\ a # Loop
      BY <1>3, <1>8, <2>4, Zenon DEF Here, Reaper
    <3>2. a \in Packets
      BY <3>1, Zenon DEF Actors
    <3> QED
      BY <1>1, <1>6, <2>4, <3>1, <3>2, Zenon DEF Shows
  <2> QED
    BY <2>1, <2>2, <2>3, <2>4, SpotLemma, Zenon
<1>9. p \in Waiting => p \notin Range(D[x]) \cup sent \cup Range(D[Reaper])
  BY <1>2, <1>3, <1>5, Zenon DEF Apart
<1>10. \A q \in Packets \ {p} : key[q] = k => turn[q] < turn[p]
  BY Zenon DEF LastInv
<1>11. Filled(D, E, sent, turn, key, x, y, p, k)
  BY <1>9, <1>10, Zenon DEF D, E, Filled
<1>12. D[x] \in Seq(Packets) /\ D[Reaper] \in Seq(Packets)
  BY <1>2, <1>3, <1>5, Zenon DEF Apart
<1> HIDE DEF k
<1>13. x \in Spots \ {Reaper} /\ y \in Spots \ {Reaper} /\ O[x] = k /\ O[y] = k
  BY <1>5, Zenon
<1>14. Emptied(D, E, O, y, k)
  BY <1>7, <1>8, Zenon DEF Emptied
<1>16. InLine(E, O, sent, turn, key)
  BY <1>2, <1>11, <1>12, <1>13, <1>14, LineFilled, ZenonT(30)
<1>17. /\ \A q \in Packets : entry'[q] # None => pc'[q] = "insert"
       /\ \A a \in Actors : todo'[a] # <<>> => pc'[a] \in {"forward", "send"}
  BY <1>4, ActorLemma, Zenon DEF OrderInv, LockInv
<1> QED
  BY <1>16, <1>17, Zenon DEF OrderInv, E, O

-----------------------------------------------------------------------------
(* The actions. *)

\* The loop takes entries out of the map and gives packets their tasks.
LEMMA LoopOrderInv ==
    ASSUME LockInv, OnceInv, OrderInv, ReceiveAny \/ LoopStep \/ Stop \/ Tick
    PROVE  OrderInv'
<1> USE NoneIsNoPacket
<1>1. CASE ReceiveAny \/ ReapKeysDone \/ Spawn \/ \E k \in Keys : ReapKey(k) /\ pending[k] = None
  <2>1. UNCHANGED <<pending, entry, todo, sent, turn>>
    BY <1>1, ZenonT(30) DEF ReceiveAny, Receive, ReapKeysDone, Spawn, ReapKey, mapVars, histVars
  <2>2. \A a \in Actors : pc[a] \in {"insert", "forward", "send"} => pc'[a] = pc[a]
    <3>1. \A b \in Actors : \/ pc'[b] = pc[b]
                            \/ b = Loop /\ pc[b] \in {"recv", "reap", "reaped", "spawn"}
                            \/ b = cur /\ pc[b] = "new"
      BY <1>1, ZenonT(30) DEF ReceiveAny, Receive, ReapKeysDone, Spawn, ReapKey, Goto, LockInv
    <3> QED
      BY <3>1, Zenon
  <2>3. /\ \A q \in Packets : q \in Waiting \/ key'[q] = key[q]
        /\ key'[Loop] = key[Loop]
    <3>1. ASSUME NEW q \in Packets, NEW k \in Keys, Receive(q, k)
          PROVE  q \in Waiting /\ \A a \in Actors : a # q => key'[a] = key[a]
      <4>1. key[q] = None /\ \A a \in Actors : a # q => key'[a] = key[a]
        BY <3>1, Zenon DEF Receive, IsNext, Received
      <4> QED
        BY <4>1, Zenon DEF LockInv, Waiting, Early
    <3>2. CASE Receive(None, None)
      BY <3>2, ActorLemma, Zenon DEF Receive, LockInv
    <3>3. CASE ReapKeysDone \/ Spawn \/ \E k \in Keys : ReapKey(k) /\ pending[k] = None
      BY <3>3, Zenon DEF ReapKeysDone, Spawn, ReapKey
    <3> QED
      BY <1>1, <3>1, <3>2, <3>3, ActorLemma, ZenonT(30) DEF ReceiveAny
  <2>4. /\ \A p \in Packets : entry'[p] # None => pc'[p] = "insert"
        /\ \A a \in Actors : todo'[a] # <<>> => pc'[a] \in {"forward", "send"}
    BY <2>1, <2>2, ActorLemma, Zenon DEF OrderInv
  <2> QED
    BY <2>1, <2>3, <2>4, KeptOrderInv, Zenon
<1>2. ASSUME NEW k \in Keys, ReapKey(k), pending[k] # None PROVE OrderInv'
  <2>1. /\ pending' = [pending EXCEPT ![k] = None] /\ entry' = entry /\ sent' = sent /\ turn' = turn
        /\ todo' = [todo EXCEPT ![Loop] = pending[k].data] /\ key' = [key EXCEPT ![Loop] = k]
        /\ pc' = [pc EXCEPT ![Loop] = "forward"] /\ pc[Loop] = "reap"
    BY <1>2, Zenon DEF ReapKey, Goto, histVars
  <2>2. pending[k].data = DataOf(pending[k])
    BY <1>2, Zenon DEF DataOf
  <2>3. key'[Loop] = k /\ \A q \in Packets : key'[q] = key[q]
    BY <2>1, ActorLemma, Zenon DEF LockInv
  <2> QED
    BY <2>1, <2>2, <2>3, ReapOrderInv, Zenon
<1>3. CASE Stop
  <2>1. /\ UNCHANGED <<pending, entry, sent, turn>> /\ todo' = [todo EXCEPT ![Loop] = <<>>]
        /\ pc' = [a \in Actors |-> IF a = Loop THEN "stopped" ELSE IF a = cur THEN "done" ELSE pc[a]]
        /\ key' = [key EXCEPT ![Loop] = None]
    BY <1>3, Zenon DEF Stop, mapVars, histVars
  <2>2. /\ \A a \in Actors : todo'[a] = IF a = Loop THEN <<>> ELSE todo[a]
        /\ \A q \in Packets : key'[q] = key[q]
    BY <2>1, ActorLemma, Zenon DEF OnceInv, LockInv
  <2>3. \A a \in Actors : a # Loop /\ pc[a] \in {"insert", "forward", "send"} => pc'[a] = pc[a]
    BY <2>1, ZenonT(60) DEF LockInv, Actors
  <2>4. /\ \A p \in Packets : entry'[p] # None => pc'[p] = "insert"
        /\ \A a \in Actors : todo'[a] # <<>> => pc'[a] \in {"forward", "send"}
    BY <2>1, <2>2, <2>3, ActorLemma, Zenon DEF OrderInv
  <2>5. todo'[Loop] = <<>> /\ \A a \in Actors : todo'[a] \in {todo[a], <<>>}
    BY <2>2, ActorLemma, Zenon
  <2> QED
    BY <2>1, <2>2, <2>4, <2>5, KeptOrderInv, Zenon
<1>4. CASE Tick
  <2> DEFINE Older(e) == IF e = None THEN None ELSE [e EXCEPT !.left = IF @ = 0 THEN 0 ELSE @ - 1]
  <2>1. /\ pending' = [k \in Keys |-> Older(pending[k])]
        /\ entry' = [p \in Packets |-> Older(entry[p])]
        /\ UNCHANGED <<pc, todo, sent, turn, key>>
    BY <1>4, Zenon DEF Tick, histVars
  <2>2. ASSUME NEW e \in Entry \cup {None}
        PROVE  DataOf(Older(e)) \in {DataOf(e), <<>>} /\ (Older(e) # None => e # None)
    BY Zenon DEF Entry, DataOf
  <2> HIDE DEF Older
  <2>3. \A k \in Keys : DataOf(pending'[k]) \in {DataOf(pending[k]), <<>>}
    BY <2>1, <2>2, Zenon DEF OnceInv
  <2>4. \A p \in Packets : /\ DataOf(entry'[p]) \in {DataOf(entry[p]), <<>>}
                           /\ entry'[p] # None => entry[p] # None
    BY <2>1, <2>2, Zenon DEF OnceInv
  <2>5. /\ \A p \in Packets : entry'[p] # None => pc'[p] = "insert"
        /\ \A a \in Actors : todo'[a] # <<>> => pc'[a] \in {"forward", "send"}
    BY <2>1, <2>4, Zenon DEF OrderInv
  <2> QED
    BY <2>1, <2>3, <2>4, <2>5, KeptOrderInv, Zenon
<1> QED
  BY <1>1, <1>2, <1>3, <1>4, ZenonT(30) DEF LoopStep

\* The task of a packet works on the places of its key.
LEMMA TaskOrderInv ==
    ASSUME LockInv, OnceInv, TurnInv, LastInv, OrderInv, NEW p \in Packets, TaskStep(p)
    PROVE  OrderInv'
<1> USE NoneIsNoPacket
<1> DEFINE D == View(pending, entry, todo)
           E == View(pending', entry', todo')
           m == <<"map", key[p]>>
           t == <<"task", p>>
           f == <<"flush", p>>
<1>0. Shows(D, pending, entry, todo) /\ Shows(E, pending', entry', todo')
  BY ViewLemma, Zenon
<1>1. p \in Actors /\ pc[p] \notin {"forward", "send"}
  BY ActorLemma, ZenonT(30) DEF TaskStep, Acquire, ProbeHit, ProbeMiss, TakeExpired, TakeMatched, TakeFailed,
                TakeMore, Insert, SniffMore, SniffForward
<1>2. todo[p] = <<>> /\ (pc[p] # "insert" => entry[p] = None)
  BY <1>1, Zenon DEF OrderInv
<1>3. CASE Acquire(p) \/ ProbeMiss(p)
  <2>1. /\ UNCHANGED <<pending, entry, todo, sent, key>> /\ p \in Waiting
        /\ \A q \in Packets : q # p => turn'[q] = turn[q]
    BY <1>3, Zenon DEF Acquire, ProbeMiss, mapVars, histVars, TurnInv, Waiting, Early
  <2>2. \A a \in Actors : a # p => pc'[a] = pc[a]
    BY <1>3, Zenon DEF Acquire, ProbeMiss, Finish, Goto, LockInv
  <2>3. /\ \A q \in Packets : entry'[q] # None => pc'[q] = "insert"
        /\ \A a \in Actors : todo'[a] # <<>> => pc'[a] \in {"forward", "send"}
    BY <1>2, <1>3, <2>1, <2>2, ActorLemma, ZenonT(30) DEF OrderInv, Acquire, ProbeMiss
  <2> QED
    BY <2>1, <2>3, KeptOrderInv, Zenon
<1> HIDE DEF D, E
<1>4. ASSUME pc[p] \in {"probe", "take", "insert"}
      PROVE  /\ key[p] \in Keys /\ Running(p) /\ (pc[p] # "insert" => p \in Waiting)
             /\ m \in Here(p) /\ t \in Here(p) /\ f \in Here(p)
             /\ D[m] = DataOf(pending[key[p]]) /\ E[m] = DataOf(pending'[key[p]])
             /\ D[t] = DataOf(entry[p]) /\ E[t] = DataOf(entry'[p])
             /\ D[f] = todo[p] /\ E[f] = todo'[p]
  <2>1. key[p] \in Keys /\ Running(p) /\ (pc[p] # "insert" => p \in Waiting)
    BY <1>4, Zenon DEF LockInv, Running, Waiting, Early
  <2> QED
    BY <1>0, <1>1, <2>1, Zenon DEF Here, Shows
<1> DEFINE Fills(x, y) == E[y] = D[x] \/ (pc[p] # "insert" /\ E[y] \in {<<p>>, Append(D[x], p)})
           Clears(y) ==
              /\ (m = y \/ E[m] = <<>>) /\ (t = y \/ E[t] = <<>>) /\ (f = y \/ E[f] = <<>>)
              /\ \A k \in Keys : k # key[p] => pending'[k] = pending[k]
              /\ \A q \in Packets : q # p => entry'[q] = entry[q]
              /\ \A a \in Actors : a # p => todo'[a] = todo[a]
           Moves(l) ==
              /\ pc[p] \in {"probe", "take", "insert"} /\ pc' = [pc EXCEPT ![p] = l]
              /\ entry'[p] # None => l = "insert"
              /\ todo'[p] # <<>> => l \in {"forward", "send"}
              /\ UNCHANGED <<key, turn, sent>>
<1>5. ASSUME NEW x \in Here(p), NEW y \in Here(p), NEW l, Fills(x, y), Clears(y), Moves(l)
      PROVE  OrderInv'
  <2>1. \A z \in Here(p) : z # y => E[z] = <<>>
    <3>1. (m = y \/ E[m] = <<>>) /\ (t = y \/ E[t] = <<>>) /\ (f = y \/ E[f] = <<>>)
      BY <1>5, Zenon
    <3>2. \A z \in Here(p) : z = m \/ z = t \/ z = f
      BY Zenon DEF Here
    <3> HIDE DEF m, t, f
    <3> QED
      BY <3>1, <3>2, Zenon
  <2>2. Running(p) /\ (E[y] = D[x] \/ (p \in Waiting /\ E[y] \in {<<p>>, Append(D[x], p)}))
    BY <1>4, <1>5, Zenon
  <2> QED
    BY <1>5, <2>1, <2>2, FillOrderInv, ZenonT(30) DEF D, E
<1> HIDE DEF m, t, f, Fills, Clears, Moves
<1>6. CASE ProbeHit(p) \/ \E h \in BOOLEAN : SniffForward(p, h)
  <2>1. /\ pc[p] \in {"probe", "take"}
        /\ \A k \in Keys : pending'[k] = IF k = key[p] THEN None ELSE pending[k]
        /\ entry' = entry /\ todo' = [todo EXCEPT ![p] = <<p>>]
        /\ UNCHANGED <<key, turn, sent>>
    BY <1>6, ZenonT(30) DEF ProbeHit, SniffForward, mapVars, histVars, OnceInv
  <2>2. PICK l \in {"forward", "send"} : pc' = [pc EXCEPT ![p] = l]
    BY <1>6, Zenon DEF ProbeHit, SniffForward, Goto
  <2>3. todo'[p] = <<p>> /\ \A a \in Actors : a # p => todo'[a] = todo[a]
    BY <1>1, <2>1, Zenon DEF OnceInv
  <2>4. E[m] = <<>> /\ E[t] = <<>> /\ E[f] = <<p>> /\ entry'[p] = None /\ m \in Here(p) /\ f \in Here(p)
    BY <1>2, <1>4, <2>1, <2>3, Zenon DEF DataOf
  <2>5. Fills(m, f) /\ Clears(f)
    BY <2>1, <2>3, <2>4, Zenon DEF Fills, Clears
  <2>6. Moves(l)
    BY <2>1, <2>2, <2>3, <2>4, Zenon DEF Moves
  <2> QED
    BY <1>5, <2>4, <2>5, <2>6, Zenon
<1>7. CASE TakeExpired(p) \/ TakeMatched(p) \/ TakeFailed(p)
  <2>1. /\ pending' = [pending EXCEPT ![key[p]] = None] /\ entry' = entry
        /\ UNCHANGED <<key, turn, sent>>
        /\ todo' = [todo EXCEPT ![p] = Append(pending[key[p]].data, p)]
        /\ pc' = [pc EXCEPT ![p] = "forward"] /\ pc[p] = "take"
        /\ pending[key[p]] # None
    <3>1. CASE TakeExpired(p)
      BY <3>1, Zenon DEF TakeExpired, Flush, FlushedWith, Goto, mapVars, histVars
    <3>2. CASE TakeMatched(p)
      BY <3>2, Zenon DEF TakeMatched, Fits, Flush, FlushedWith, Goto, mapVars, histVars
    <3>3. CASE TakeFailed(p)
      BY <3>3, Zenon DEF TakeFailed, Fits, Flush, FlushedWith, Goto, mapVars, histVars
    <3> QED
      BY <1>7, <3>1, <3>2, <3>3, ZenonT(30)
  <2>2. /\ \A k \in Keys : pending'[k] = IF k = key[p] THEN None ELSE pending[k]
        /\ \A a \in Actors : a # p => todo'[a] = todo[a]
        /\ todo'[p] = Append(pending[key[p]].data, p)
    BY <1>1, <2>1, Zenon DEF OnceInv
  <2>3. /\ E[m] = <<>> /\ E[t] = <<>> /\ E[f] = Append(D[m], p) /\ entry'[p] = None
        /\ m \in Here(p) /\ f \in Here(p)
    BY <1>2, <1>4, <2>1, <2>2, Zenon DEF DataOf
  <2>4. Fills(m, f) /\ Clears(f)
    BY <2>1, <2>2, <2>3, Zenon DEF Fills, Clears
  <2>5. Moves("forward")
    BY <2>1, <2>2, <2>3, Zenon DEF Moves
  <2> QED
    BY <1>5, <2>3, <2>4, <2>5, Zenon
<1>8. ASSUME NEW clue \in BOOLEAN, TakeMore(p, clue) PROVE OrderInv'
  <2> DEFINE e == [pending[key[p]] EXCEPT !.data = Append(@, p),
                                          !.noClue = IF clue THEN @ ELSE @ + 1]
  <2>1. /\ pending' = [pending EXCEPT ![key[p]] = None] /\ todo' = todo
        /\ UNCHANGED <<key, turn, sent>>
        /\ entry' = [entry EXCEPT ![p] = e]
        /\ pc' = [pc EXCEPT ![p] = "insert"] /\ pc[p] = "take"
        /\ pending[key[p]] # None
    BY <1>8, Zenon DEF TakeMore, Fits, Goto, histVars
  <2>2. pending[key[p]] \in Entry /\ DataOf(pending[key[p]]) = pending[key[p]].data
    BY <1>4, <2>1, Zenon DEF OnceInv, DataOf
  <2>3. e \in Entry /\ e.data = Append(DataOf(pending[key[p]]), p)
    BY <2>2, RecordNoClue, ZenonT(30)
  <2> HIDE DEF e
  <2>4. /\ \A k \in Keys : pending'[k] = IF k = key[p] THEN None ELSE pending[k]
        /\ \A q \in Packets : entry'[q] = IF q = p THEN e ELSE entry[q]
    BY <2>1, Zenon DEF OnceInv
  <2>5. DataOf(e) \in {e.data, <<>>}
    BY Zenon DEF DataOf
  <2>6. /\ E[m] = <<>> /\ E[f] = <<>> /\ D[f] = <<>> /\ E[t] \in {Append(D[m], p), <<>>}
        /\ todo'[p] = <<>> /\ m \in Here(p) /\ t \in Here(p) /\ f \in Here(p)
    <3>1. E[t] = DataOf(e) /\ E[m] = DataOf(None)
      BY <1>4, <2>1, <2>4, Zenon
    <3>2. E[t] \in {Append(D[m], p), <<>>} /\ E[m] = <<>>
      BY <1>4, <2>1, <2>3, <2>5, <3>1, Zenon DEF DataOf
    <3> QED
      BY <1>2, <1>4, <2>1, <3>2, Zenon
  <2>7. CASE E[t] = <<>>
    <3>1. Fills(f, t) /\ Clears(t)
      BY <2>1, <2>4, <2>6, <2>7, Zenon DEF Fills, Clears
    <3>2. Moves("insert")
      BY <2>1, <2>4, <2>6, <2>7, Zenon DEF Moves
    <3> QED
      BY <1>5, <2>6, <3>1, <3>2, Zenon
  <2>8. CASE E[t] = Append(D[m], p)
    <3>1. Fills(m, t) /\ Clears(t)
      BY <2>1, <2>4, <2>6, <2>8, Zenon DEF Fills, Clears
    <3>2. Moves("insert")
      BY <2>1, <2>4, <2>6, <2>8, Zenon DEF Moves
    <3> QED
      BY <1>5, <2>6, <3>1, <3>2, Zenon
  <2> QED
    BY <2>6, <2>7, <2>8, Zenon
<1>9. CASE Insert(p)
  <2>1. /\ pending' = [pending EXCEPT ![key[p]] = entry[p]] /\ todo' = todo
        /\ UNCHANGED <<key, turn, sent>>
        /\ entry' = [entry EXCEPT ![p] = None]
        /\ pc' = [pc EXCEPT ![p] = "len"] /\ pc[p] = "insert"
    BY <1>9, Zenon DEF Insert, Goto, histVars
  <2>2. /\ \A k \in Keys : pending'[k] = IF k = key[p] THEN entry[p] ELSE pending[k]
        /\ \A q \in Packets : entry'[q] = IF q = p THEN None ELSE entry[q]
    BY <2>1, Zenon DEF OnceInv
  <2>3. /\ E[m] = D[t] /\ E[f] = <<>> /\ E[t] = <<>> /\ entry'[p] = None /\ todo'[p] = <<>>
        /\ m \in Here(p) /\ t \in Here(p)
    <3>1. E[m] = DataOf(entry[p]) /\ E[t] = DataOf(None)
      BY <1>4, <2>1, <2>2, Zenon
    <3> QED
      BY <1>2, <1>4, <2>1, <2>2, <3>1, Zenon DEF DataOf
  <2>4. Fills(t, m) /\ Clears(m)
    BY <2>1, <2>2, <2>3, Zenon DEF Fills, Clears
  <2>5. Moves("len")
    BY <2>1, <2>2, <2>3, Zenon DEF Moves
  <2> QED
    BY <1>5, <2>3, <2>4, <2>5, Zenon
<1>10. CASE SniffMore(p)
  <2> DEFINE e == [left |-> Window, noClue |-> 0, data |-> <<p>>]
  <2>1. /\ pending' = [pending EXCEPT ![key[p]] = e] /\ todo' = todo /\ entry' = entry
        /\ UNCHANGED <<key, turn, sent>>
        /\ pc' = [pc EXCEPT ![p] = "len"] /\ pc[p] = "take"
    BY <1>10, Zenon DEF SniffMore, Goto, histVars
  <2>2. DataOf(e) \in {<<p>>, <<>>}
    BY Zenon DEF DataOf
  <2> HIDE DEF e
  <2>3. \A k \in Keys : pending'[k] = IF k = key[p] THEN e ELSE pending[k]
    BY <2>1, Zenon DEF OnceInv
  <2>4. /\ E[m] \in {<<p>>, <<>>} /\ E[f] = <<>> /\ E[t] = <<>> /\ D[f] = <<>>
        /\ entry'[p] = None /\ todo'[p] = <<>> /\ m \in Here(p) /\ f \in Here(p)
    BY <1>2, <1>4, <2>1, <2>2, <2>3, Zenon DEF DataOf
  <2>5. Fills(f, m) /\ Clears(m)
    BY <2>1, <2>3, <2>4, Zenon DEF Fills, Clears
  <2>6. Moves("len")
    BY <2>1, <2>3, <2>4, Zenon DEF Moves
  <2> QED
    BY <1>5, <2>4, <2>5, <2>6, Zenon
<1> QED
  BY <1>3, <1>6, <1>7, <1>8, <1>9, <1>10, ZenonT(30) DEF TaskStep

\* Enforcements drop entries, and flushes proceed.
LEMMA SharedOrderInv ==
    ASSUME LockInv, OnceInv, OrderInv, NEW a \in Actors, EnforceStep(a) \/ ForwardStep(a)
    PROVE  OrderInv'
<1> USE NoneIsNoPacket
<1>1. CASE EnforceStep(a)
  <2>1. /\ UNCHANGED <<entry, todo, sent, turn, key>>
        /\ pending' = pending \/ pending' = [pending EXCEPT ![victim[a]] = None]
    BY <1>1, Zenon DEF EnforceStep, EnforceLen, EnforcePick, EnforceEvict, mapVars, histVars
  <2>2. PICK l \in {"pick", "evict", "len", "done", "reaped"} :
           pc' = [pc EXCEPT ![a] = l] /\ pc[a] \in {"len", "pick", "evict"}
    BY <1>1, Zenon DEF EnforceStep, EnforceLen, EnforcePick, EnforceEvict, Finish, Goto
  <2>3. \A k \in Keys : DataOf(pending'[k]) \in {DataOf(pending[k]), <<>>}
    BY <2>1, ZenonT(30) DEF OnceInv, DataOf
  <2>4. \A b \in Actors : pc[b] \in {"insert", "forward", "send"} => pc'[b] = pc[b]
    BY <2>2, Zenon DEF LockInv
  <2>5. /\ \A p \in Packets : entry'[p] # None => pc'[p] = "insert"
        /\ \A b \in Actors : todo'[b] # <<>> => pc'[b] \in {"forward", "send"}
    BY <2>1, <2>4, ActorLemma, Zenon DEF OrderInv
  <2> QED
    BY <2>1, <2>3, <2>5, KeptOrderInv, ZenonT(30)
<1>2. CASE ForwardReuse(a) \/ \E s \in Sessions : ForwardCreate(a, s)
  <2>1. /\ UNCHANGED <<pending, entry, todo, sent, turn, key>>
        /\ pc[a] = "forward" /\ pc' = [pc EXCEPT ![a] = "send"]
    BY <1>2, Zenon DEF ForwardReuse, ForwardCreate, Goto, mapVars, histVars
  <2>2. \A b \in Actors : pc'[b] = IF b = a THEN "send" ELSE pc[b]
    BY <2>1, Zenon DEF LockInv
  <2>3. /\ \A p \in Packets : entry'[p] # None => pc'[p] = "insert"
        /\ \A b \in Actors : todo'[b] # <<>> => pc'[b] \in {"forward", "send"}
    BY <2>1, <2>2, ActorLemma, Zenon DEF OrderInv
  <2> QED
    BY <2>1, <2>3, KeptOrderInv, Zenon
<1>3. CASE ForwardFail(a) \/ Send(a)
  <2>1. /\ UNCHANGED <<pending, entry, turn>> /\ pc[a] \in {"forward", "send"}
        /\ sent' \subseteq sent \cup {Head(todo[a])}
        /\ NextDatagram(a)
    BY <1>3, ZenonT(30) DEF ForwardFail, Send, mapVars, histVars
  <2>2. todo' = [todo EXCEPT ![a] = Tail(@)]
    BY <2>1, Zenon DEF NextDatagram
  <2>3. PICK l \in {"forward", "reap", "done"} :
           pc' = [pc EXCEPT ![a] = l] /\ (l = "forward" \/ Tail(todo[a]) = <<>>)
    BY <2>1, Zenon DEF NextDatagram, Finish, Goto
  <2>4. /\ \A b \in Actors : pc'[b] = IF b = a THEN l ELSE pc[b]
        /\ \A b \in Actors : todo'[b] = IF b = a THEN Tail(todo[a]) ELSE todo[b]
    BY <2>2, <2>3, Zenon DEF LockInv, OnceInv
  <2>5. /\ \A p \in Packets : entry'[p] # None => pc'[p] = "insert"
        /\ \A b \in Actors : todo'[b] # <<>> => pc'[b] \in {"forward", "send"}
    BY <2>1, <2>3, <2>4, ActorLemma, ZenonT(30) DEF OrderInv
  <2>6. key' = key \/ (Tail(todo[a]) = <<>> /\ key' = [key EXCEPT ![a] = IF a = Loop THEN None ELSE @])
    BY <2>1, Zenon DEF NextDatagram
  <2>7. /\ \A q \in Packets : key'[q] = key[q]
        /\ todo'[Loop] = <<>> \/ key'[Loop] = key[Loop]
    BY <2>4, <2>6, ActorLemma, ZenonT(30) DEF LockInv
  <2> QED
    BY <2>1, <2>2, <2>5, <2>7, PopOrderInv, Zenon
<1> QED
  BY <1>1, <1>2, <1>3, Zenon DEF ForwardStep

\* OrderInv is inductive, given the locks, the turns and OnceInv.
LEMMA NextOrderInv ==
    LockInv /\ OnceInv /\ TurnInv /\ LastInv /\ OrderInv /\ [Next]_vars => OrderInv'
<1> SUFFICES ASSUME LockInv, OnceInv, TurnInv, LastInv, OrderInv, [Next]_vars
             PROVE  OrderInv'
  BY Zenon
<1>1. CASE ReceiveAny \/ LoopStep \/ Stop \/ Tick
  BY <1>1, LoopOrderInv, Zenon
<1>2. ASSUME NEW p \in Packets, TaskStep(p) PROVE OrderInv'
  BY <1>2, TaskOrderInv, Zenon
<1>3. ASSUME NEW a \in Actors, EnforceStep(a) \/ ForwardStep(a) PROVE OrderInv'
  BY <1>3, SharedOrderInv, Zenon
<1>4. CASE (\E s \in Sessions : SessionDies(s) \/ SessionEvicted(s)) \/ Seal \/ UNCHANGED vars
  <2>1. UNCHANGED <<pending, entry, todo, pc, sent, turn, key>>
    BY <1>4, ZenonT(30) DEF SessionDies, SessionEvicted, Seal, vars, mapVars, actorVars, histVars
  <2> QED
    BY <2>1, Zenon DEF OrderInv
<1> QED
  BY <1>1, <1>2, <1>3, <1>4, ZenonT(30) DEF Next

(***************************************************************************)
(* In every run, a task sends a datagram of a key only after every other   *)
(* datagram of the key that has been sent before it in the order of the    *)
(* key lock: the replayed ones before the one that completes the sniff.    *)
(* Only a flush of the reaper, which has no key lock, may come too late.   *)
(***************************************************************************)
THEOREM InOrderUnlessReapedHolds == Spec => InOrderUnlessReaped
<1> DEFINE A == \A p \in Packets : Send(p) =>
                   \A d \in sent' \ sent, e \in sent : key[d] = key[e] => turn[e] < turn[d]
<1>1. OnceInv /\ OrderInv => A
  <2> SUFFICES ASSUME OnceInv, OrderInv, NEW p \in Packets, Send(p),
                      NEW d \in sent' \ sent, NEW e \in sent, key[d] = key[e]
               PROVE  turn[e] < turn[d]
    BY Zenon
  <2> DEFINE D == View(pending, entry, todo)
             f == <<"flush", p>>
  <2>1. p \in Actors /\ p # Loop
    BY ActorLemma, Zenon
  <2>2. d = Head(todo[p]) /\ pc[p] = "send"
    BY Zenon DEF Send
  <2>3. todo[p] # <<>> /\ todo[p] \in Seq(Packets)
    BY <2>1, <2>2, Zenon DEF OnceInv
  <2>4. d \in Range(todo[p])
    BY <2>2, <2>3, SMT, SMTT(30) DEF Range
  <2>5. Shows(D, pending, entry, todo) /\ InLine(D, Owner(key), sent, turn, key)
    BY ViewLemma, Zenon DEF OrderInv
  <2> HIDE DEF D
  <2>6. f \in Spots /\ D[f] = todo[p]
    BY <2>1, <2>5, Zenon DEF Shows
  <2>7. f # Reaper
    BY <2>1, Zenon DEF Reaper
  <2> QED
    BY <2>4, <2>5, <2>6, <2>7, Zenon DEF InLine
<1>2. OnceInv /\ OrderInv => [A]_vars
  BY <1>1, Zenon
<1> HIDE DEF A
<1>3. Spec => [][A]_vars
  BY <1>2, InitLockInv, NextLockInv, InitOnceInv, NextOnceInv, InitTypes, NextTurnInv,
     InitLastInv, NextLastInv, InitOrderInv, NextOrderInv, PTL DEF Spec
<1> QED
  BY <1>3, Zenon DEF A, InOrderUnlessReaped

=============================================================================
