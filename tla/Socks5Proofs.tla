---------------------------- MODULE Socks5Proofs ----------------------------
(***************************************************************************)
(* The SOCKS5 client gets the handshake right with every server.           *)
(***************************************************************************)
EXTENDS FrontEnd, TLAPS

-----------------------------------------------------------------------------
(* The facts about sequences that are used below. *)

LEMMA LenProperties ==
    ASSUME NEW S, NEW seq \in Seq(S)
    PROVE  Len(seq) \in Nat /\ seq \in [1 .. Len(seq) -> S] /\ DOMAIN seq = 1 .. Len(seq)
BY SMT, SMTT(30)

LEMMA ElementOfSeq ==
    ASSUME NEW S, NEW seq \in Seq(S), NEW n \in 1 .. Len(seq)
    PROVE  seq[n] \in S
BY SMT, SMTT(30)

LEMMA EmptySeq ==
    ASSUME NEW S
    PROVE  /\ <<>> \in Seq(S) /\ Len(<<>>) = 0
           /\ \A seq \in Seq(S) : seq # <<>> => Len(seq) \in Nat \ {0}
BY SMT, SMTT(30)

LEMMA SeqEqual ==
    ASSUME NEW S, NEW s \in Seq(S), NEW t \in Seq(S),
           Len(s) = Len(t), \A i \in 1 .. Len(s) : s[i] = t[i]
    PROVE  s = t
BY SMT, SMTT(30)

LEMMA FunctionSeq ==
    ASSUME NEW S, NEW n \in Nat, NEW f \in [1 .. n -> S]
    PROVE  f \in Seq(S) /\ Len(f) = n
BY SMT, SMTT(30)

LEMMA ConcatProperties ==
    ASSUME NEW S, NEW s \in Seq(S), NEW t \in Seq(S)
    PROVE  /\ s \o t \in Seq(S)
           /\ Len(s \o t) = Len(s) + Len(t)
           /\ \A i \in 1 .. Len(s) + Len(t) : (s \o t)[i] = IF i <= Len(s) THEN s[i] ELSE t[i - Len(s)]
BY SMT, SMTT(30)

LEMMA ConcatEmptySeq ==
    ASSUME NEW S, NEW seq \in Seq(S)
    PROVE  seq \o <<>> = seq /\ <<>> \o seq = seq
BY SMT, SMTT(30)

LEMMA SubSeqProperties ==
    ASSUME NEW S, NEW s, NEW m \in Int, NEW n \in Int, \A i \in m .. n : s[i] \in S
    PROVE  /\ SubSeq(s, m, n) \in Seq(S)
           /\ Len(SubSeq(s, m, n)) = IF m <= n THEN n - m + 1 ELSE 0
           /\ \A i \in 1 .. n - m + 1 : SubSeq(s, m, n)[i] = s[m + i - 1]
BY SMT, SMTT(30)

LEMMA SubSeqFull ==
    ASSUME NEW S, NEW seq \in Seq(S)
    PROVE  SubSeq(seq, 1, Len(seq)) = seq
BY SMT, SMTT(30)

-----------------------------------------------------------------------------
(* What the server sends, byte by byte. *)

\* c is a followed by b, and c is s up to n without the first k.
IsJoin(c, a, b, S) ==
    /\ Len(a) \in Nat /\ Len(b) \in Nat
    /\ c \in Seq(S)
    /\ Len(c) = Len(a) + Len(b)
    /\ \A i \in 1 .. Len(a) : c[i] = a[i]
    /\ \A i \in 1 .. Len(b) : c[Len(a) + i] = b[i]

IsPart(c, s, k, n, S) ==
    /\ c \in Seq(S)
    /\ Len(c) = n - k
    /\ \A i \in 1 .. n - k : c[i] = s[k + i]

LEMMA Joined ==
    ASSUME NEW S, NEW a \in Seq(S), NEW b \in Seq(S)
    PROVE  IsJoin(a \o b, a, b, S)
<1>1. Len(a) \in Nat /\ Len(b) \in Nat
  BY LenProperties, Zenon
<1>2. /\ a \o b \in Seq(S)
      /\ Len(a \o b) = Len(a) + Len(b)
      /\ \A i \in 1 .. Len(a) + Len(b) : (a \o b)[i] = IF i <= Len(a) THEN a[i] ELSE b[i - Len(a)]
  BY ConcatProperties, Zenon
<1>3. QED
  BY <1>1, <1>2, SMT, SMTT(30) DEF IsJoin

LEMMA Part ==
    ASSUME NEW S, NEW s \in Seq(S), NEW k \in Nat, NEW n \in Nat, k <= n, n <= Len(s)
    PROVE  IsPart(SubSeq(s, k + 1, n), s, k, n, S)
<1>1. Len(s) \in Nat
  BY LenProperties, Zenon
<1>2. k + 1 \in Int /\ n \in Int /\ k + 1 <= n + 1 /\ \A i \in k + 1 .. n : s[i] \in S
  BY <1>1, ElementOfSeq, SMT, SMTT(30)
<1>3. /\ SubSeq(s, k + 1, n) \in Seq(S)
      /\ Len(SubSeq(s, k + 1, n)) = IF k + 1 <= n THEN n - (k + 1) + 1 ELSE 0
      /\ \A i \in 1 .. n - (k + 1) + 1 : SubSeq(s, k + 1, n)[i] = s[k + 1 + i - 1]
  BY <1>2, SubSeqProperties, SMT, SMTT(30)
<1>4. QED
  BY <1>2, <1>3, SMT, SMTT(30) DEF IsPart

LEMMA Slice ==
    ASSUME NEW S, NEW s \in Seq(S), NEW t \in Seq(S), NEW k \in Nat, NEW n, n = k + Len(t),
           n <= Len(s), \A i \in 1 .. Len(t) : s[k + i] = t[i]
    PROVE  SubSeq(s, k + 1, n) = t
<1> DEFINE c == SubSeq(s, k + 1, n)
<1>1. n \in Nat /\ k <= n /\ Len(t) \in Nat /\ n - k = Len(t)
  BY LenProperties, SMT, SMTT(30)
<1>2. IsPart(c, s, k, n, S)
  BY <1>1, Part, Zenon
<1> HIDE DEF c
<1>3. c \in Seq(S) /\ Len(c) = Len(t) /\ \A i \in 1 .. Len(c) : c[i] = t[i]
  BY <1>1, <1>2, Zenon DEF IsPart
<1>4. c = t
  BY <1>3, SeqEqual, Zenon
<1>5. QED
  BY <1>4, Zenon DEF c

LEMMA FirstAre ==
    ASSUME NEW S, NEW s \in Seq(S), NEW t \in Seq(S), Len(t) <= Len(s)
    PROVE  SubSeq(s, 1, Len(t)) = t <=> \A i \in 1 .. Len(t) : s[i] = t[i]
<1>1. Len(t) \in Nat /\ 0 \in Nat /\ 0 <= Len(t) /\ 0 + 1 = 1
  BY LenProperties, SMT, SMTT(30)
<1>2. IsPart(SubSeq(s, 1, Len(t)), s, 0, Len(t), S)
  BY <1>1, Part, Zenon
<1>3. /\ SubSeq(s, 1, Len(t)) \in Seq(S) /\ Len(SubSeq(s, 1, Len(t))) = Len(t)
      /\ \A i \in 1 .. Len(t) : SubSeq(s, 1, Len(t))[i] = s[i]
  BY <1>1, <1>2, SMT, SMTT(30) DEF IsPart
<1>4. QED
  BY <1>3, SeqEqual, Zenon

LEMMA EncodedBytes ==
    ASSUME NEW t, t.addr \in Seq(Byte), t.atyp = DOMAIN_NAME => Len(t.addr) \in Byte
    PROVE  /\ Encoded(t) \in Seq(Byte)
           /\ Len(Encoded(t)) = Len(t.addr) + (IF t.atyp = DOMAIN_NAME THEN 1 ELSE 0)
           /\ t.atyp = DOMAIN_NAME => Encoded(t)[1] = Len(t.addr)
           /\ \A i \in 1 .. Len(t.addr) :
                 Encoded(t)[i + (IF t.atyp = DOMAIN_NAME THEN 1 ELSE 0)] = t.addr[i]
<1>1. CASE t.atyp # DOMAIN_NAME
  BY <1>1, LenProperties, SMT, SMTT(30) DEF Encoded
<1>2. CASE t.atyp = DOMAIN_NAME
  <2>1. <<Len(t.addr)>> \in Seq(Byte) /\ Len(<<Len(t.addr)>>) = 1 /\ <<Len(t.addr)>>[1] = Len(t.addr)
    BY <1>2, SMT, SMTT(30)
  <2>2. QED
    BY <1>2, <2>1, ConcatProperties, LenProperties, SMT, SMTT(30) DEF Encoded
<1>3. QED
  BY <1>1, <1>2, Zenon

LEMMA ServerType ==
    ASSUME NEW s \in Servers
    PROVE  /\ {s.version, s.method, s.auth, s.code, s.rsv, s.atyp} \subseteq Byte
           /\ s.addr \in Seq(Byte)
           /\ s.cut \in 0 .. Len(Head5(s) \o Answer(s) \o FromServer)
           /\ s.atyp = V4 => Len(s.addr) = 4
           /\ s.atyp = V6 => Len(s.addr) = 16
           /\ s.atyp = DOMAIN_NAME => Len(s.addr) \in Byte
BY SocksAssumption, Zenon

LEMMA HeadBytes ==
    ASSUME NEW s \in Servers
    PROVE  /\ Head5(s) \in Seq(Byte)
           /\ Len(Head5(s)) = IF s.method = 2 THEN 4 ELSE 2
           /\ Head5(s)[1] = s.version
           /\ Head5(s)[2] = s.method
           /\ s.method = 2 => Head5(s)[3] = 1 /\ Head5(s)[4] = s.auth
<1>1. {s.version, s.method, s.auth} \subseteq Byte
  BY ServerType, Zenon
<1>2. <<s.version, s.method>> \in Seq(Byte) /\ <<1, s.auth>> \in Seq(Byte) /\ <<>> \in Seq(Byte)
  BY <1>1, SMT, SMTT(30) DEF Byte
<1>3. CASE s.method = 2
  BY <1>2, <1>3, ConcatProperties, SMT, SMTT(30) DEF Head5
<1>4. CASE s.method # 2
  BY <1>2, <1>4, ConcatProperties, SMT, SMTT(30) DEF Head5
<1>5. QED
  BY <1>3, <1>4, Zenon

LEMMA AnswerBytes ==
    ASSUME NEW s \in Servers
    PROVE  /\ Answer(s) \in Seq(Byte)
           /\ Encoded(s) \in Seq(Byte)
           /\ Len(Answer(s)) = Len(Encoded(s)) + 6
           /\ Answer(s)[1] = 5 /\ Answer(s)[2] = s.code
           /\ Answer(s)[3] = s.rsv /\ Answer(s)[4] = s.atyp
           /\ \A i \in 1 .. Len(Encoded(s)) : Answer(s)[4 + i] = Encoded(s)[i]
<1> DEFINE a == <<5, s.code, s.rsv, s.atyp>>
           b == a \o Encoded(s)
<1>1. /\ a \in Seq(Byte) /\ Len(a) = 4
      /\ a[1] = 5 /\ a[2] = s.code /\ a[3] = s.rsv /\ a[4] = s.atyp
  <2>1. s.code \in 0 .. 255 /\ s.rsv \in 0 .. 255 /\ s.atyp \in 0 .. 255
    BY ServerType, ZenonT(30) DEF Byte
  <2>2. QED
    BY <2>1, SMT, SMTT(30) DEF Byte
<1>2. PORT \in Seq(Byte) /\ Len(PORT) = 2
  BY SMT, SMTT(30) DEF PORT, Byte
<1>3. Encoded(s) \in Seq(Byte)
  BY EncodedBytes, ServerType, Zenon
<1>4. Answer(s) = b \o PORT
  BY Zenon DEF Answer
<1> HIDE DEF a
<1>5. IsJoin(b, a, Encoded(s), Byte)
  BY <1>1, <1>3, Joined, Zenon
<1> HIDE DEF b
<1>6. IsJoin(Answer(s), b, PORT, Byte)
  <2>1. b \in Seq(Byte)
    BY <1>5, Zenon DEF IsJoin
  <2>2. QED
    BY <1>2, <1>4, <2>1, Joined, Zenon
<1>7. /\ \A i \in 1 .. 4 : Answer(s)[i] = a[i]
      /\ \A i \in 1 .. Len(Encoded(s)) : Answer(s)[4 + i] = Encoded(s)[i]
  BY <1>1, <1>5, <1>6, SMT, SMTT(30) DEF IsJoin
<1>8. QED
  BY <1>1, <1>2, <1>3, <1>5, <1>6, <1>7, SMT, SMTT(30) DEF IsJoin

LEMMA SentBytes ==
    ASSUME NEW s \in Servers
    PROVE  /\ Head5(s) \o Answer(s) \in Seq(Byte)
           /\ Len(Head5(s) \o Answer(s)) = Len(Head5(s)) + Len(Answer(s))
           /\ Sent(s) \in Seq(Byte)
           /\ Len(Sent(s)) = s.cut
           /\ s.cut \in Nat
           /\ \A i \in 1 .. Len(Head5(s)) : i <= s.cut => Sent(s)[i] = Head5(s)[i]
           /\ \A i \in 1 .. Len(Answer(s)) :
                 Len(Head5(s)) + i <= s.cut => Sent(s)[Len(Head5(s)) + i] = Answer(s)[i]
<1> DEFINE h == Head5(s)
           a == Answer(s)
           b == h \o a
           all == b \o FromServer
<1>1. h \in Seq(Byte) /\ a \in Seq(Byte) /\ FromServer \in Seq(Byte)
  BY HeadBytes, AnswerBytes, SocksAssumption, Zenon
<1>2. s.cut \in 0 .. Len(all) /\ Sent(s) = SubSeq(all, 1, s.cut)
  BY ServerType, Zenon DEF Sent
<1> HIDE DEF h, a
<1>3. IsJoin(b, h, a, Byte)
  BY <1>1, Joined, Zenon
<1> HIDE DEF b
<1>4. IsJoin(all, b, FromServer, Byte)
  <2>1. b \in Seq(Byte)
    BY <1>3, Zenon DEF IsJoin
  <2>2. QED
    BY <1>1, <2>1, Joined, Zenon
<1> HIDE DEF all
<1>5. /\ all \in Seq(Byte) /\ s.cut \in Nat /\ s.cut <= Len(all)
      /\ 0 \in Nat /\ 0 <= s.cut /\ 0 + 1 = 1
  BY <1>2, <1>3, <1>4, SMT, SMTT(30) DEF IsJoin
<1>6. IsPart(Sent(s), all, 0, s.cut, Byte)
  BY <1>2, <1>5, Part, Zenon
<1>7. \A i \in 1 .. s.cut : Sent(s)[i] = all[i]
  BY <1>5, <1>6, SMT, SMTT(30) DEF IsPart
<1>8. /\ \A i \in 1 .. Len(h) : i <= s.cut => Sent(s)[i] = h[i]
      /\ \A i \in 1 .. Len(a) : Len(h) + i <= s.cut => Sent(s)[Len(h) + i] = a[i]
  BY <1>3, <1>4, <1>5, <1>7, SMT, SMTT(30) DEF IsJoin
<1>9. QED
  BY <1>3, <1>5, <1>6, <1>8, SMT, SMTT(30) DEF IsJoin, IsPart, h, a, b

-----------------------------------------------------------------------------
(* The handshake: how far the client has read, and what it knows by then. *)

Read(n) ==
    /\ n \in 0 .. server.cut
    /\ rest = SubSeq(Sent(server), n + 1, server.cut)

LEMMA ReadBytes ==
    ASSUME server \in Servers, NEW n \in Nat, Read(n)
    PROVE  /\ rest \in Seq(Byte)
           /\ n <= server.cut /\ server.cut \in Nat
           /\ Len(rest) = server.cut - n
           /\ \A i \in 1 .. Len(rest) : rest[i] = Sent(server)[n + i]
<1>1. Sent(server) \in Seq(Byte) /\ Len(Sent(server)) = server.cut /\ server.cut \in Nat
  BY SentBytes, Zenon
<1>2. n <= server.cut /\ server.cut <= Len(Sent(server))
  BY <1>1, SMT, SMTT(30) DEF Read
<1>3. IsPart(rest, Sent(server), n, server.cut, Byte)
  BY <1>1, <1>2, Part, Zenon DEF Read
<1>4. QED
  BY <1>1, <1>3, SMT, SMTT(30) DEF IsPart, Read

LEMMA ReadOn ==
    ASSUME server \in Servers, NEW n \in Nat, Read(n), NEW k \in Nat, k <= Len(rest),
           Takes(k), server' = server
    PROVE  Read(n + k)'
<1> DEFINE b == SubSeq(Sent(server), n + k + 1, server.cut)
<1>1. Sent(server) \in Seq(Byte) /\ Len(Sent(server)) = server.cut /\ server.cut \in Nat
  BY SentBytes, Zenon
<1>2. /\ rest \in Seq(Byte) /\ Len(rest) = server.cut - n /\ n <= server.cut
      /\ \A i \in 1 .. Len(rest) : rest[i] = Sent(server)[n + i]
  BY ReadBytes, Zenon
<1>3. IsPart(b, Sent(server), n + k, server.cut, Byte)
  <2>1. n + k \in Nat /\ n + k <= server.cut /\ server.cut <= Len(Sent(server))
    BY <1>1, <1>2, SMT, SMTT(30)
  <2>2. QED
    BY <1>1, <2>1, Part, Zenon
<1>4. IsPart(rest', rest, k, Len(rest), Byte)
  <2>1. Len(rest) \in Nat /\ Len(rest) <= Len(rest)
    BY <1>1, <1>2, SMT, SMTT(30)
  <2>2. QED
    BY <1>2, <2>1, Part, Zenon DEF Takes
<1> HIDE DEF b
<1>5. rest' \in Seq(Byte) /\ b \in Seq(Byte) /\ Len(rest') = Len(b)
  BY <1>1, <1>2, <1>3, <1>4, SMT, SMTT(30) DEF IsPart
<1>6. \A i \in 1 .. Len(rest') : rest'[i] = b[i]
  <2>1. SUFFICES ASSUME NEW i \in 1 .. Len(rest') PROVE rest'[i] = b[i]
    BY Zenon
  <2>2. i \in 1 .. server.cut - n - k
    BY <1>1, <1>2, <1>4, Zenon DEF IsPart
  <2>3. rest'[i] = rest[k + i] /\ k + i \in 1 .. Len(rest)
    BY <1>1, <1>2, <1>4, <2>2, SMT, SMTT(30) DEF IsPart
  <2>4. rest[k + i] = Sent(server)[n + (k + i)]
    BY <1>2, <2>3, Zenon
  <2>5. b[i] = Sent(server)[n + k + i]
    BY <1>1, <1>3, <2>2, SMT, SMTT(30) DEF IsPart
  <2>6. n + (k + i) = n + k + i
    BY <2>2, <1>1, <1>2, SMT, SMTT(30)
  <2>7. QED
    BY <2>3, <2>4, <2>5, <2>6, Zenon
<1>7. rest' = b
  BY <1>5, <1>6, SeqEqual, Zenon
<1>8. n + k \in 0 .. server.cut
  BY <1>1, <1>2, SMT, SMTT(30)
<1>9. QED
  BY <1>7, <1>8, Zenon DEF b, Read, Sent, Head5, Answer

\* The server agrees on the method, and on user and password.
Greeted ==
    /\ server.version = 5
    /\ server.method = IF creds # None THEN 2 ELSE 0
    /\ server.method = 2 => server.auth = 0

AddressStates == {"v4", "v6", "name"}

SocksInv ==
    /\ socks \in {"idle", "dial", "method", "auth", "reply", "ready", "heard", "failed"} \cup AddressStates
    /\ socks # "idle" => target \in Addresses
    /\ socks \notin {"idle", "dial"} =>
          server \in Servers /\ command \in {"connect", "associate"}
    /\ socks \notin {"idle", "dial", "failed"} => Usable(creds)
    /\ socks = "method" => Read(0)
    /\ socks = "auth" => Read(2) /\ creds # None /\ server.version = 5 /\ server.method = 2
    /\ socks \in {"reply"} \cup AddressStates => Greeted /\ Writable /\ asked = Request
    /\ socks = "reply" => Read(Len(Head5(server)))
    /\ socks \in AddressStates =>
          /\ Read(Len(Head5(server)) + 4)
          /\ server.code = 0 /\ server.rsv = 0
          /\ server.atyp = CASE socks = "v4" -> V4 [] socks = "v6" -> V6 [] OTHER -> DOMAIN_NAME
    /\ Socks5Exact

\* What the steps of a handshake leave alone.
SameCall == UNCHANGED <<target, command, creds, server, udpVars>>

LEMMA CallFrame ==
    ASSUME SameCall
    PROVE  /\ Greeted' = Greeted /\ Writable' = Writable /\ Request' = Request
           /\ (Accepts(server))' = Accepts(server)
           /\ (Usable(creds))' = Usable(creds)
BY Zenon DEF SameCall, Greeted, Writable, Request, Accepts, Usable, udpVars, Head5, Answer, Encoded

\* An accepting server sends its whole part.
LEMMA AcceptsAll ==
    ASSUME server \in Servers
    PROVE  Accepts(server) <=>
              /\ Greeted /\ server.code = 0 /\ server.rsv = 0
              /\ server.atyp \in {V4, DOMAIN_NAME, V6}
              /\ server.cut >= Len(Head5(server)) + Len(Answer(server))
BY SentBytes, Zenon DEF Accepts, Greeted

\* A step into "failed" that is not late.
LEMMA Failing ==
    ASSUME SocksInv, socks \notin {"idle", "dial"}, SameCall, socks' = "failed",
           late' \/ ~Accepts(server) \/ ~Writable
    PROVE  SocksInv'
<1>1. (Accepts(server))' = Accepts(server) /\ Writable' = Writable
  BY CallFrame, Zenon
<1>2. Socks5Exact'
  BY <1>1, Zenon DEF Socks5Exact
<1>3. QED
  BY <1>2, Zenon DEF SocksInv, SameCall, AddressStates

LEMMA IdleSocks == SocksIdle => SocksInv
BY Zenon DEF SocksIdle, SocksInv, Socks5Exact, AddressStates

LEMMA SameSocks == SocksInv /\ UNCHANGED socksVars => SocksInv'
<1> SUFFICES ASSUME SocksInv, UNCHANGED socksVars PROVE SocksInv'
  BY Zenon
<1>1. SameCall /\ UNCHANGED <<asked, rest, socks, relay, answer, heard, late>>
  BY Zenon DEF socksVars, SameCall, udpVars
<1>2. /\ Greeted' = Greeted /\ Writable' = Writable /\ Request' = Request
      /\ (Accepts(server))' = Accepts(server) /\ (Usable(creds))' = Usable(creds)
  BY <1>1, CallFrame, Zenon
<1>3. \A n : Read(n)' = Read(n)
  BY <1>1, Zenon DEF SameCall, Read, Sent, Head5, Answer, Encoded
<1>4. Socks5Exact' = Socks5Exact
  BY <1>1, <1>2, Zenon DEF Socks5Exact, SameCall, udpVars, Sent, Head5, Answer, Encoded
<1>5. QED
  BY <1>1, <1>2, <1>3, <1>4, Zenon DEF SocksInv, SameCall, AddressStates

LEMMA BeginSocks ==
    ASSUME NEW t \in Addresses, SocksBegin(t)
    PROVE  SocksInv'
BY Zenon DEF SocksBegin, SocksInv, Socks5Exact, AddressStates

LEMMA DialSocks == SocksInv /\ Dial => SocksInv'
<1> SUFFICES ASSUME SocksInv, Dial PROVE SocksInv'
  BY Zenon
<1>1. server' \in Servers /\ rest' = Sent(server')
  BY Zenon DEF Dial
<1>2. /\ Sent(server') \in Seq(Byte)
      /\ Len(Sent(server')) = server'.cut
      /\ server'.cut \in Nat
  BY <1>1, SentBytes, Zenon
<1>3. Sent(server') = SubSeq(Sent(server'), 1, server'.cut)
  BY <1>2, SubSeqFull, Zenon
<1>4. Read(0)'
  BY <1>1, <1>2, <1>3, SMT, SMTT(30) DEF Read
<1>5. CASE (Usable(creds))'
  <2>1. socks' = "method"
    BY <1>5, Zenon DEF Dial
  <2>2. Socks5Exact'
    BY <2>1, Zenon DEF Socks5Exact
  <2>3. QED
    BY <1>1, <1>4, <1>5, <2>1, <2>2, Zenon DEF Dial, SocksInv, AddressStates
<1>6. CASE ~(Usable(creds))'
  <2>1. socks' = "failed"
    BY <1>6, Zenon DEF Dial
  <2>2. Socks5Exact'
    BY <1>6, <2>1, Zenon DEF Socks5Exact
  <2>3. QED
    BY <1>1, <2>1, <2>2, Zenon DEF Dial, SocksInv, AddressStates
<1>7. QED
  BY <1>5, <1>6, Zenon

\* The first bytes, as far as they are there.
LEMMA HeadRead ==
    ASSUME SocksInv, socks = "method"
    PROVE  /\ server \in Servers /\ Read(0)
           /\ Len(rest) = server.cut
           /\ Len(rest) >= 2 => rest[1] = server.version /\ rest[2] = server.method
<1>1. server \in Servers /\ Read(0)
  BY Zenon DEF SocksInv, AddressStates
<1>2. /\ server.cut \in Nat /\ Len(rest) = server.cut - 0
      /\ \A i \in 1 .. Len(rest) : rest[i] = Sent(server)[0 + i]
  BY <1>1, ReadBytes, Zenon
<1>3. /\ Len(Head5(server)) \in {2, 4}
      /\ Head5(server)[1] = server.version /\ Head5(server)[2] = server.method
      /\ \A i \in 1 .. Len(Head5(server)) : i <= server.cut => Sent(server)[i] = Head5(server)[i]
  BY <1>1, HeadBytes, SentBytes, Zenon
<1>4. QED
  BY <1>1, <1>2, <1>3, SMT, SMTT(30)

\* The request is written, or the target cannot be.
LEMMA Requesting ==
    ASSUME SocksInv, socks \notin {"idle", "dial", "failed"}, SameCall, Greeted, SendRequest,
           Read(Len(Head5(server)))'
    PROVE  SocksInv'
<1>1. /\ Greeted' = Greeted /\ Writable' = Writable /\ Request' = Request
      /\ (Usable(creds))' = Usable(creds)
  BY CallFrame, Zenon
<1>2. CASE ~Writable
  BY <1>2, Failing, Zenon DEF SendRequest
<1>3. CASE Writable
  <2>1. socks' = "reply" /\ asked' = Request
    BY <1>3, Zenon DEF SendRequest
  <2>2. Socks5Exact'
    BY <2>1, Zenon DEF Socks5Exact
  <2>3. QED
    BY <1>1, <1>3, <2>1, <2>2, Zenon DEF SocksInv, SameCall, AddressStates
<1>4. QED
  BY <1>2, <1>3, Zenon

LEMMA MethodSocks == SocksInv /\ ReadMethod => SocksInv'
<1> SUFFICES ASSUME SocksInv, ReadMethod PROVE SocksInv'
  BY Zenon
<1> DEFINE ok == Len(rest) >= 2 /\ rest[1] = 5 /\ rest[2] = (IF creds # None THEN 2 ELSE 0)
<1>1. socks = "method" /\ SameCall
  BY Zenon DEF ReadMethod, SameCall
<1>2. /\ server \in Servers /\ Read(0)
      /\ Len(rest) = server.cut
      /\ Len(rest) >= 2 => rest[1] = server.version /\ rest[2] = server.method
  BY <1>1, HeadRead, Zenon
<1>3. Len(Head5(server)) = IF server.method = 2 THEN 4 ELSE 2
  BY <1>2, HeadBytes, Zenon
<1>4. CASE ok
  <2>1. server.version = 5 /\ server.method = (IF creds # None THEN 2 ELSE 0) /\ Takes(2)
    BY <1>2, <1>4, Zenon DEF ReadMethod
  <2>2. Read(2)'
    <3>1. 0 \in Nat /\ 2 \in Nat /\ 2 <= Len(rest) /\ 0 + 2 = 2
      BY <1>4, <1>2, SentBytes, SMT, SMTT(30)
    <3>2. Read(0 + 2)'
      BY <1>1, <1>2, <2>1, <3>1, ReadOn, Zenon DEF SameCall
    <3>3. QED
      BY <3>1, <3>2, Zenon
  <2>3. CASE creds # None
    <3>1. socks' = "auth"
      BY <1>4, <2>3, Zenon DEF ReadMethod
    <3>2. Socks5Exact'
      BY <3>1, Zenon DEF Socks5Exact
    <3>3. QED
      BY <1>1, <2>1, <2>2, <2>3, <3>1, <3>2, CallFrame, Zenon DEF SocksInv, SameCall, AddressStates
  <2>4. CASE creds = None
    <3>1. Greeted /\ SendRequest
      BY <1>4, <2>1, <2>4, SMT, SMTT(30) DEF ReadMethod, Greeted
    <3>2. Read(Len(Head5(server)))'
      BY <1>1, <1>3, <2>1, <2>2, <2>4, Zenon DEF SameCall
    <3>3. QED
      BY <1>1, <3>1, <3>2, Requesting, Zenon
  <2>5. QED
    BY <2>3, <2>4, Zenon
<1>5. CASE ~ok
  <2>1. socks' = "failed"
    BY <1>5, Zenon DEF ReadMethod, Fails
  <2>2. ~Accepts(server)
    <3>1. SUFFICES ASSUME Accepts(server) PROVE FALSE
      BY Zenon
    <3>2. Greeted /\ server.cut >= Len(Head5(server)) + Len(Answer(server))
      BY <1>2, <3>1, AcceptsAll, Zenon
    <3>3. Len(Answer(server)) \in Nat /\ server.cut \in Nat
      BY <1>2, AnswerBytes, SentBytes, LenProperties, Zenon
    <3>4. QED
      BY <1>2, <1>3, <1>5, <3>2, <3>3, SMT, SMTT(30) DEF Greeted
  <2>3. QED
    BY <1>1, <2>1, <2>2, Failing, Zenon
<1>6. QED
  BY <1>4, <1>5, Zenon

LEMMA AuthSocks == SocksInv /\ ReadAuth => SocksInv'
<1> SUFFICES ASSUME SocksInv, ReadAuth PROVE SocksInv'
  BY Zenon
<1> DEFINE ok == Len(rest) >= 2 /\ SubSeq(rest, 1, 2) = <<1, 0>>
<1>1. socks = "auth" /\ SameCall
  BY Zenon DEF ReadAuth, SameCall
<1>2. server \in Servers /\ Read(2) /\ creds # None
      /\ server.version = 5 /\ server.method = 2
  BY <1>1, Zenon DEF SocksInv, AddressStates
<1>3. /\ rest \in Seq(Byte) /\ server.cut \in Nat /\ Len(rest) = server.cut - 2
      /\ \A i \in 1 .. Len(rest) : rest[i] = Sent(server)[2 + i]
  BY <1>2, ReadBytes, Zenon
<1>4. /\ Len(Head5(server)) = 4
      /\ Head5(server)[3] = 1 /\ Head5(server)[4] = server.auth
      /\ \A i \in 1 .. Len(Head5(server)) : i <= server.cut => Sent(server)[i] = Head5(server)[i]
  BY <1>2, HeadBytes, SentBytes, Zenon
<1>5. Len(rest) >= 2 => rest[1] = 1 /\ rest[2] = server.auth
  BY <1>3, <1>4, SMT, SMTT(30)
<1>6. ok <=> Len(rest) >= 2 /\ server.auth = 0
  <2>1. SUFFICES ASSUME Len(rest) >= 2 PROVE SubSeq(rest, 1, 2) = <<1, 0>> <=> server.auth = 0
    BY Zenon
  <2> DEFINE t == <<1, 0>>
  <2>2. t \in Seq(Byte) /\ Len(t) = 2 /\ t[1] = 1 /\ t[2] = 0
    BY SMT, SMTT(30) DEF Byte
  <2> HIDE DEF t
  <2>3. SubSeq(rest, 1, Len(t)) = t <=> \A i \in 1 .. Len(t) : rest[i] = t[i]
    BY <1>3, <2>1, <2>2, FirstAre, SMT, SMTT(30)
  <2>4. SubSeq(rest, 1, 2) = t <=> rest[1] = 1 /\ rest[2] = 0
    BY <2>2, <2>3, SMT, SMTT(30)
  <2>5. QED
    BY <1>5, <2>1, <2>4, Zenon DEF t
<1>7. CASE ok
  <2>1. Greeted /\ SendRequest /\ Takes(2)
    BY <1>2, <1>6, <1>7, Zenon DEF ReadAuth, Greeted
  <2>2. Read(Len(Head5(server)))'
    <3>1. 2 \in Nat /\ 2 <= Len(rest) /\ 2 + 2 = 4
      BY <1>3, <1>7, SMT, SMTT(30)
    <3>2. Read(2 + 2)'
      BY <1>1, <1>2, <2>1, <3>1, ReadOn, Zenon DEF SameCall
    <3>3. QED
      BY <1>1, <1>4, <3>1, <3>2, Zenon DEF SameCall
  <2>3. QED
    BY <1>1, <2>1, <2>2, Requesting, Zenon
<1>8. CASE ~ok
  <2>1. socks' = "failed"
    BY <1>8, Zenon DEF ReadAuth, Fails
  <2>2. ~Accepts(server)
    <3>1. SUFFICES ASSUME Accepts(server) PROVE FALSE
      BY Zenon
    <3>2. Greeted /\ server.cut >= Len(Head5(server)) + Len(Answer(server))
      BY <1>2, <3>1, AcceptsAll, Zenon
    <3>3. Len(Answer(server)) \in Nat
      BY <1>2, AnswerBytes, LenProperties, Zenon
    <3>4. QED
      BY <1>2, <1>3, <1>4, <1>6, <1>8, <3>2, <3>3, SMT, SMTT(30) DEF Greeted
  <2>3. QED
    BY <1>1, <2>1, <2>2, Failing, Zenon
<1>9. QED
  BY <1>7, <1>8, Zenon

LEMMA ReplySocks == SocksInv /\ ReadReply => SocksInv'
<1> SUFFICES ASSUME SocksInv, ReadReply PROVE SocksInv'
  BY Zenon
<1> DEFINE h == Len(Head5(server))
           t == <<5, 0, 0>>
           ok == Len(rest) >= 4 /\ SubSeq(rest, 1, 3) = <<5, 0, 0>> /\ rest[4] \in {V4, DOMAIN_NAME, V6}
<1>1. socks = "reply" /\ SameCall
  BY Zenon DEF ReadReply, SameCall
<1>2. server \in Servers /\ Read(h) /\ Greeted /\ Writable /\ asked = Request
  BY <1>1, Zenon DEF SocksInv, AddressStates
<1>3. h \in Nat
  BY <1>2, HeadBytes, SMT, SMTT(30)
<1> HIDE DEF h
<1>4. /\ rest \in Seq(Byte) /\ server.cut \in Nat /\ Len(rest) = server.cut - h
      /\ \A i \in 1 .. Len(rest) : rest[i] = Sent(server)[h + i]
  BY <1>2, <1>3, ReadBytes, Zenon
<1>5. /\ Len(Answer(server)) \in Nat /\ Len(Answer(server)) >= 6
      /\ Answer(server)[1] = 5 /\ Answer(server)[2] = server.code
      /\ Answer(server)[3] = server.rsv /\ Answer(server)[4] = server.atyp
  BY <1>2, AnswerBytes, LenProperties, SMT, SMTT(30)
<1>6. \A i \in 1 .. Len(Answer(server)) : h + i <= server.cut => Sent(server)[h + i] = Answer(server)[i]
  BY <1>2, SentBytes, Zenon DEF h
<1>7. Len(rest) >= 4 =>
         rest[1] = 5 /\ rest[2] = server.code /\ rest[3] = server.rsv /\ rest[4] = server.atyp
  <2>1. ASSUME Len(rest) >= 4, NEW i \in 1 .. 4 PROVE rest[i] = Answer(server)[i]
    <3> DEFINE l == Len(rest)
               a == Len(Answer(server))
               c == server.cut
    <3>0. c \in Nat /\ l = c - h /\ a \in Nat /\ a >= 6 /\ l >= 4
      BY <1>4, <1>5, <2>1, Zenon
    <3> HIDE DEF l, a, c
    <3>1. i \in 1 .. l /\ i \in 1 .. a /\ h + i <= c
      BY <1>3, <2>1, <3>0, SMT, SMTT(30)
    <3> USE DEF l, a, c
    <3>2. QED
      BY <1>4, <1>6, <3>1, Zenon
  <2>2. QED
    BY <1>5, <2>1, SMT, SMTT(30)
<1>8. ok <=> /\ Len(rest) >= 4 /\ server.code = 0 /\ server.rsv = 0
             /\ server.atyp \in {V4, DOMAIN_NAME, V6}
  <2>1. t \in Seq(Byte) /\ Len(t) = 3 /\ t[1] = 5 /\ t[2] = 0 /\ t[3] = 0
    BY SMT, SMTT(30) DEF Byte
  <2> HIDE DEF t
  <2>2. Len(rest) >= 4 => (SubSeq(rest, 1, Len(t)) = t <=> \A i \in 1 .. Len(t) : rest[i] = t[i])
    BY <1>4, <2>1, FirstAre, SMT, SMTT(30)
  <2>3. Len(rest) >= 4 => (SubSeq(rest, 1, 3) = t <=> rest[1] = 5 /\ rest[2] = 0 /\ rest[3] = 0)
    BY <2>1, <2>2, SMT, SMTT(30)
  <2>4. QED
    BY <1>7, <2>3, Zenon DEF t
<1>9. CASE ok
  <2>1. /\ Takes(4) /\ UNCHANGED asked
        /\ socks' = CASE rest[4] = V4 -> "v4" [] rest[4] = V6 -> "v6" [] OTHER -> "name"
    BY <1>9, Zenon DEF ReadReply
  <2>2. Read(h + 4)'
    <3>1. 4 \in Nat /\ 4 <= Len(rest)
      BY <1>9, <1>4, <1>3, Zenon
    <3>2. PICK n \in Nat : n = h
      BY <1>3, Zenon
    <3>3. Read(n + 4)'
      BY <1>1, <1>2, <2>1, <3>1, <3>2, ReadOn, Zenon DEF SameCall
    <3>4. h' = h
      BY <1>1, Zenon DEF h, SameCall
    <3>5. QED
      BY <3>2, <3>3, <3>4, Zenon
  <2>3. Greeted' /\ Writable' /\ (asked = Request)'
    BY <1>1, <1>2, <2>1, CallFrame, Zenon
  <2>4. /\ socks' \in AddressStates
        /\ server.atyp = CASE socks' = "v4" -> V4 [] socks' = "v6" -> V6 [] OTHER -> DOMAIN_NAME
    BY <1>7, <1>8, <1>9, <2>1, Zenon DEF AddressStates, V4, V6, DOMAIN_NAME
  <2>5. Socks5Exact'
    BY <2>4, Zenon DEF Socks5Exact, AddressStates
  <2>6. Read(Len(Head5(server)) + 4)'
    BY <1>1, <2>2, Zenon DEF h, SameCall
  <2>7. QED
    BY <1>1, <1>8, <1>9, <2>3, <2>4, <2>5, <2>6, Zenon DEF SocksInv, SameCall, AddressStates
<1>10. CASE ~ok
  <2>1. socks' = "failed"
    BY <1>10, Zenon DEF ReadReply, Fails
  <2>2. ~Accepts(server)
    <3>1. SUFFICES ASSUME Accepts(server) PROVE FALSE
      BY Zenon
    <3>2. /\ server.cut >= h + Len(Answer(server)) /\ server.code = 0 /\ server.rsv = 0
          /\ server.atyp \in {V4, DOMAIN_NAME, V6}
      BY <1>2, <3>1, AcceptsAll, Zenon DEF h
    <3>3. QED
      BY <1>3, <1>4, <1>5, <1>8, <1>10, <3>2, SMT, SMTT(30)
  <2>3. QED
    BY <1>1, <2>1, <2>2, Failing, Zenon
<1>11. QED
  BY <1>9, <1>10, Zenon

\* What a server reads from the request is what the client was asked for.
LEMMA RequestRead ==
    ASSUME target \in Addresses, Writable, command = "connect"
    PROVE  ServerReads(Request) =
              [command |-> 1, atyp |-> target.atyp, addr |-> target.addr, port |-> PORT]
<1> DEFINE a == <<5, 1, 0, target.atyp>>
           e == Encoded(target)
           b == a \o e
           k == IF target.atyp = DOMAIN_NAME THEN 1 ELSE 0
           n == Len(target.addr)
           l == 4 + k + n
<1>1. /\ target.atyp \in {V4, DOMAIN_NAME, V6} /\ target.addr \in Seq(Byte)
      /\ target.atyp = V4 => n = 4
      /\ target.atyp = V6 => n = 16
      /\ target.atyp = DOMAIN_NAME => n \in 1 .. 255
  <2>1. /\ target \in [atyp : {V4, DOMAIN_NAME, V6}, addr : Seq(Byte)]
        /\ target.atyp = V4 => n = 4
        /\ target.atyp = V6 => n = 16
    BY Zenon DEF Addresses
  <2>2. target.atyp = DOMAIN_NAME => n \in 1 .. 255
    <3>1. command # "associate"
      BY Zenon
    <3>2. QED
      BY <3>1, Zenon DEF Writable
  <2> HIDE DEF n
  <2>3. QED
    BY <2>1, <2>2, Zenon
<1>2. /\ a \in Seq(Byte) /\ Len(a) = 4 /\ a[2] = 1 /\ a[4] = target.atyp
  BY <1>1, SMT, SMTT(30) DEF Byte, V4, V6, DOMAIN_NAME
<1>3. PORT \in Seq(Byte) /\ Len(PORT) = 2
  BY SMT, SMTT(30) DEF PORT, Byte
<1>4. target.atyp = DOMAIN_NAME => n \in Byte
  BY <1>1, SMT, SMTT(30) DEF Byte
<1>5. /\ e \in Seq(Byte) /\ Len(e) = n + k
      /\ target.atyp = DOMAIN_NAME => e[1] = n
      /\ \A i \in 1 .. n : e[i + k] = target.addr[i]
  BY <1>1, <1>4, EncodedBytes, Zenon
<1>6. n \in Nat /\ k \in 0 .. 1 /\ l = 4 + k + n /\ l \in Nat
  <2>1. n \in Nat
    BY <1>1, LenProperties, Zenon
  <2>2. k \in 0 .. 1 /\ l = 4 + k + n
    BY SMT, SMTT(30)
  <2> HIDE DEF n, k, l
  <2>3. QED
    BY <2>1, <2>2, SMT, SMTT(30)
<1>7. Request = b \o PORT
  BY Zenon DEF Request
<1> HIDE DEF a, e, n, k, l
<1>8. IsJoin(b, a, e, Byte)
  BY <1>2, <1>5, Joined, Zenon
<1> HIDE DEF b
<1>9. b \in Seq(Byte) /\ Len(b) = l
  BY <1>2, <1>5, <1>6, <1>8, SMT, SMTT(30) DEF IsJoin
<1>10. IsJoin(Request, b, PORT, Byte)
  BY <1>3, <1>7, <1>9, Joined, Zenon
<1>11. /\ Request \in Seq(Byte) /\ Len(Request) = l + 2
       /\ \A i \in 1 .. l : Request[i] = b[i]
       /\ \A i \in 1 .. 2 : Request[l + i] = PORT[i]
  BY <1>3, <1>9, <1>10, Zenon DEF IsJoin
<1>12. \A i \in 1 .. n : Request[4 + k + i] = target.addr[i]
  <2>1. SUFFICES ASSUME NEW i \in 1 .. n PROVE Request[4 + k + i] = target.addr[i]
    BY Zenon
  <2>2. 4 + k + i \in 1 .. l /\ k + i \in 1 .. Len(e) /\ 4 + k + i = 4 + (k + i) /\ i + k = k + i
    BY <1>5, <1>6, SMT, SMTT(30)
  <2>3. b[4 + (k + i)] = e[k + i]
    BY <1>2, <1>8, <2>2, Zenon DEF IsJoin
  <2>4. QED
    BY <1>5, <1>11, <2>2, <2>3, Zenon
<1>13. Request[2] = 1 /\ Request[4] = target.atyp /\ (target.atyp = DOMAIN_NAME => Request[5] = n)
  <2>1. b[2] = 1 /\ b[4] = target.atyp
    BY <1>2, <1>8, SMT, SMTT(30) DEF IsJoin
  <2>2. target.atyp = DOMAIN_NAME => b[5] = n
    <3>1. SUFFICES ASSUME target.atyp = DOMAIN_NAME PROVE b[5] = n
      BY Zenon
    <3>2. 1 \in 1 .. Len(e) /\ 5 = 4 + 1
      BY <1>5, <1>6, <3>1, SMT, SMTT(30) DEF k
    <3>3. b[4 + 1] = e[1]
      BY <1>2, <1>8, <3>2, Zenon DEF IsJoin
    <3>4. QED
      BY <1>5, <3>1, <3>2, <3>3, Zenon
  <2>3. 2 \in 1 .. l /\ 4 \in 1 .. l /\ (target.atyp = DOMAIN_NAME => 5 \in 1 .. l)
    BY <1>6, SMT, SMTT(30) DEF k
  <2>4. QED
    BY <1>11, <2>1, <2>2, <2>3, Zenon
<1>14. SubSeq(Request, 4 + k + 1, l) = target.addr
  <2>1. n = Len(target.addr)
    BY Zenon DEF n
  <2>2. Len(Request) = l + 2
    BY <1>11, Zenon
  <2>3. 4 + k \in Nat /\ l = (4 + k) + Len(target.addr) /\ l <= Len(Request)
    <3>1. 4 + k \in Nat
      BY <1>6, SMT, SMTT(30)
    <3>2. l = (4 + k) + Len(target.addr)
      BY <1>6, <2>1, Zenon
    <3>3. l <= l + 2
      BY <1>6, SMT, SMTT(30)
    <3>4. QED
      BY <2>2, <3>1, <3>2, <3>3, Zenon
  <2>4. \A i \in 1 .. Len(target.addr) : Request[(4 + k) + i] = target.addr[i]
    BY <1>12, <2>1, Zenon
  <2>5. target.addr \in Seq(Byte) /\ Request \in Seq(Byte)
    BY <1>1, <1>11, Zenon
  <2>6. QED
    BY <2>3, <2>4, <2>5, Slice, Zenon
<1>15. SubSeq(Request, l + 1, l + 2) = PORT
  <2>1. l + 2 = l + Len(PORT) /\ l + 2 <= Len(Request) /\ \A i \in 1 .. Len(PORT) : Request[l + i] = PORT[i]
    BY <1>3, <1>6, <1>11, SMT, SMTT(30)
  <2>2. QED
    BY <1>3, <1>6, <1>11, <2>1, Slice, SMT, SMTT(30)
<1>16. (IF Request[4] = DOMAIN_NAME THEN SubSeq(Request, 6, 5 + Request[5])
        ELSE SubSeq(Request, 5, 4 + (IF Request[4] = V4 THEN 4 ELSE 16))) = target.addr
  <2>1. CASE target.atyp = DOMAIN_NAME
    <3>1. 4 + k + 1 = 6 /\ l = 5 + Request[5]
      BY <1>6, <1>13, <2>1, SMT, SMTT(30) DEF k
    <3>2. QED
      BY <1>13, <1>14, <2>1, <3>1, Zenon
  <2>2. CASE target.atyp # DOMAIN_NAME
    <3>1. 4 + k + 1 = 5 /\ l = 4 + (IF Request[4] = V4 THEN 4 ELSE 16)
      <4>1. k = 0 /\ (Request[4] = V4 => n = 4) /\ (Request[4] # V4 => n = 16)
        BY <1>1, <1>13, <2>2, Zenon DEF k, V4, V6
      <4>2. QED
        BY <1>6, <4>1, SMT, SMTT(30)
    <3>2. QED
      BY <1>13, <1>14, <2>2, <3>1, Zenon
  <2>3. QED
    BY <2>1, <2>2, Zenon
<1>17. Len(Request) - 1 = l + 1 /\ Len(Request) = l + 2
  BY <1>6, <1>11, SMT, SMTT(30)
<1>18. QED
  BY <1>13, <1>15, <1>16, <1>17, Zenon DEF ServerReads

\* The bytes of the address and the port that are still to be read, and where
\* the stream is when they are.
LEMMA AddressRead ==
    ASSUME SocksInv, socks \in AddressStates, NEW n,
           n = IF socks = "name" /\ rest # <<>> THEN rest[1] ELSE 0
    PROVE  /\ AddressLength(n) \in Nat
           /\ Len(rest) >= AddressLength(n) <=>
                 server.cut >= Len(Head5(server)) + Len(Answer(server))
           /\ Len(rest) >= AddressLength(n) =>
                 /\ Len(Head5(server)) + 4 + AddressLength(n) = Len(Head5(server)) + Len(Answer(server))
                 /\ socks # "name" => SubSeq(rest, 1, AddressLength(n) - 2) = server.addr
<1> DEFINE h == Len(Head5(server))
           a == Len(Answer(server))
           m == Len(server.addr)
           e == Encoded(server)
<1>1. server \in Servers /\ Read(h + 4)
      /\ server.atyp = CASE socks = "v4" -> V4 [] socks = "v6" -> V6 [] OTHER -> DOMAIN_NAME
  BY Zenon DEF SocksInv, AddressStates
<1>2. h \in Nat /\ server.addr \in Seq(Byte) /\ m \in Nat
  BY <1>1, HeadBytes, ServerType, LenProperties, Zenon
<1>3. /\ server.atyp = V4 => m = 4
      /\ server.atyp = V6 => m = 16
      /\ server.atyp = DOMAIN_NAME => m \in Byte
  BY <1>1, ServerType, Zenon
<1>4. /\ Len(e) = m + (IF server.atyp = DOMAIN_NAME THEN 1 ELSE 0)
      /\ server.atyp = DOMAIN_NAME => e[1] = m
      /\ \A i \in 1 .. m : e[i + (IF server.atyp = DOMAIN_NAME THEN 1 ELSE 0)] = server.addr[i]
  BY <1>2, <1>3, EncodedBytes, Zenon
<1>5. /\ a = Len(e) + 6
      /\ \A i \in 1 .. Len(e) : Answer(server)[4 + i] = e[i]
      /\ \A i \in 1 .. a : h + i <= server.cut => Sent(server)[h + i] = Answer(server)[i]
  BY <1>1, AnswerBytes, SentBytes, Zenon
<1> HIDE DEF h, a, m, e
<1>6. /\ rest \in Seq(Byte) /\ server.cut \in Nat /\ Len(rest) = server.cut - (h + 4) /\ h + 4 <= server.cut
      /\ \A i \in 1 .. Len(rest) : rest[i] = Sent(server)[h + 4 + i]
  <2>1. h + 4 \in Nat
    BY <1>2, SMT, SMTT(30)
  <2>2. QED
    BY <1>1, <2>1, ReadBytes, Zenon
<1>7. Len(e) \in Nat
  BY <1>2, <1>4, SMT, SMTT(30)
<1>8. \A i \in 1 .. Len(e) : i <= Len(rest) => rest[i] = e[i]
  <2>1. SUFFICES ASSUME NEW i \in 1 .. Len(e), i <= Len(rest) PROVE rest[i] = e[i]
    BY Zenon
  <2>2. /\ i \in 1 .. Len(rest) /\ 4 + i \in 1 .. a
        /\ h + (4 + i) <= server.cut /\ h + 4 + i = h + (4 + i)
    BY <1>2, <1>5, <1>6, <1>7, <2>1, SMT, SMTT(30)
  <2>3. QED
    BY <1>5, <1>6, <2>1, <2>2, Zenon
<1>9. CASE socks = "name"
  <2>1. server.atyp = DOMAIN_NAME /\ Len(e) = m + 1 /\ e[1] = m
    BY <1>1, <1>4, <1>9, Zenon
  <2>2. CASE rest = <<>>
    <3>1. n = 0 /\ AddressLength(n) = 3 /\ Len(rest) = 0
      BY <1>9, <2>2, SMT, SMTT(30) DEF AddressLength
    <3>2. server.cut \in Nat /\ 0 = server.cut - (h + 4) /\ a = m + 1 + 6
      BY <1>5, <1>6, <2>1, <3>1, Zenon
    <3>3. 3 \in Nat /\ ~(0 >= 3) /\ ~(server.cut >= h + a)
      BY <1>2, <3>2, SMT, SMTT(30)
    <3>4. QED
      BY <3>1, <3>3, Zenon DEF h, a
  <2>3. CASE rest # <<>>
    <3>1. Len(rest) >= 1 /\ rest[1] = m
      BY <1>2, <1>6, <1>7, <1>8, <2>1, <2>3, EmptySeq, SMT, SMTT(30)
    <3>2. AddressLength(n) = m + 3
      BY <1>2, <1>9, <2>3, <3>1, SMT, SMTT(30) DEF AddressLength
    <3>3. server.cut \in Nat /\ Len(rest) = server.cut - (h + 4) /\ a = m + 1 + 6
      BY <1>5, <1>6, <2>1, Zenon
    <3>4. m + 3 \in Nat /\ (Len(rest) >= m + 3 <=> server.cut >= h + a) /\ h + 4 + (m + 3) = h + a
      BY <1>2, <3>3, SMT, SMTT(30)
    <3>5. QED
      BY <1>9, <3>2, <3>4, Zenon DEF h, a
  <2>4. QED
    BY <2>2, <2>3, Zenon
<1>10. CASE socks # "name"
  <2>1. AddressLength(n) = m + 2 /\ Len(e) = m /\ server.atyp # DOMAIN_NAME
    BY <1>1, <1>2, <1>3, <1>4, <1>10, SMT, SMTT(30) DEF AddressLength, AddressStates, V4, V6, DOMAIN_NAME
  <2>2. ASSUME Len(rest) >= m + 2 PROVE SubSeq(rest, 1, m) = server.addr
    <3>1. m = Len(server.addr) /\ m <= Len(rest)
      BY <1>2, <1>6, <2>2, SMT, SMTT(30) DEF m
    <3>2. \A i \in 1 .. m : rest[i] = server.addr[i]
      BY <1>2, <1>4, <1>6, <1>8, <2>1, <2>2, SMT, SMTT(30)
    <3>3. QED
      BY <1>2, <1>6, <3>1, <3>2, FirstAre, SMT, SMTT(30)
  <2>3. a = m + 6 /\ server.cut \in Nat /\ Len(rest) = server.cut - (h + 4)
    BY <1>5, <1>6, <2>1, Zenon
  <2>4. m + 2 \in Nat /\ (Len(rest) >= m + 2 <=> server.cut >= h + a) /\ h + 4 + (m + 2) = h + a
    BY <1>2, <2>3, SMT, SMTT(30)
  <2>5. QED
    <3>1. AddressLength(n) = m + 2 /\ AddressLength(n) - 2 = m
      BY <1>2, <2>1, SMT, SMTT(30)
    <3> HIDE DEF h, a
    <3>2. /\ AddressLength(n) \in Nat
          /\ Len(rest) >= AddressLength(n) <=> server.cut >= h + a
          /\ h + 4 + AddressLength(n) = h + a
          /\ Len(rest) >= AddressLength(n) => SubSeq(rest, 1, AddressLength(n) - 2) = server.addr
      BY <2>2, <2>4, <3>1, Zenon
    <3>3. QED
      BY <3>2, Zenon DEF h, a
<1>11. QED
  BY <1>9, <1>10, Zenon

\* Nothing of the reply is left, nothing else is lost.
LEMMA WholeStream ==
    ASSUME server \in Servers, Read(Len(Head5(server)) + Len(Answer(server)))
    PROVE  Head5(server) \o Answer(server) \o rest = Sent(server)
<1> DEFINE h == Len(Head5(server))
           a == Len(Answer(server))
           b == Head5(server) \o Answer(server)
           c == b \o rest
<1>1. IsJoin(b, Head5(server), Answer(server), Byte)
  BY HeadBytes, AnswerBytes, Joined, Zenon
<1>2. /\ Sent(server) \in Seq(Byte) /\ Len(Sent(server)) = server.cut /\ server.cut \in Nat
      /\ \A i \in 1 .. h : i <= server.cut => Sent(server)[i] = Head5(server)[i]
      /\ \A i \in 1 .. a : h + i <= server.cut => Sent(server)[h + i] = Answer(server)[i]
  BY SentBytes, Zenon
<1> HIDE DEF b
<1>3. /\ h \in Nat /\ a \in Nat /\ b \in Seq(Byte) /\ Len(b) = h + a
      /\ \A i \in 1 .. h : b[i] = Head5(server)[i]
      /\ \A i \in 1 .. a : b[h + i] = Answer(server)[i]
  BY <1>1, Zenon DEF IsJoin
<1> HIDE DEF h, a
<1>4. /\ rest \in Seq(Byte) /\ h + a <= server.cut /\ Len(rest) = server.cut - (h + a)
      /\ \A i \in 1 .. Len(rest) : rest[i] = Sent(server)[h + a + i]
  <2>1. h + a \in Nat
    BY <1>3, SMT, SMTT(30)
  <2>2. QED
    BY <2>1, ReadBytes, Zenon DEF h, a
<1>5. IsJoin(c, b, rest, Byte)
  BY <1>3, <1>4, Joined, Zenon
<1> HIDE DEF c
<1>6. c \in Seq(Byte) /\ Len(c) = server.cut
  BY <1>2, <1>3, <1>4, <1>5, SMT, SMTT(30) DEF IsJoin
<1>7. ASSUME NEW i \in 1 .. server.cut PROVE c[i] = Sent(server)[i]
  <2>1. CASE i <= h
    BY <1>2, <1>3, <1>5, <2>1, SMT, SMTT(30) DEF IsJoin
  <2>2. CASE i > h /\ i <= h + a
    <3>1. PICK j \in 1 .. a : i = h + j
      <4>1. i - h \in 1 .. a /\ i = h + (i - h)
        BY <1>3, <2>2, SMT, SMTT(30)
      <4>2. QED
        BY <4>1, Zenon
    <3>2. i \in 1 .. h + a
      BY <1>3, <2>2, SMT, SMTT(30)
    <3>3. c[i] = b[i]
      BY <1>3, <1>5, <3>2, Zenon DEF IsJoin
    <3>4. b[i] = Answer(server)[j]
      BY <1>3, <3>1, Zenon
    <3>5. h + j <= server.cut
      BY <3>1, <1>7, <1>2, SMT, SMTT(30)
    <3>6. QED
      BY <1>2, <3>1, <3>3, <3>4, <3>5, Zenon
  <2>3. CASE i > h + a
    <3>1. PICK j \in 1 .. Len(rest) : i = h + a + j
      <4>1. i - (h + a) \in 1 .. Len(rest) /\ i = h + a + (i - (h + a))
        BY <1>2, <1>3, <1>4, <2>3, SMT, SMTT(30)
      <4>2. QED
        BY <4>1, Zenon
    <3>2. QED
      BY <1>3, <1>4, <1>5, <3>1, Zenon DEF IsJoin
  <2>4. QED
    BY <1>3, <2>1, <2>2, <2>3, SMT, SMTT(30)
<1>8. c = Sent(server)
  BY <1>2, <1>6, <1>7, SeqEqual, Zenon
<1>9. QED
  BY <1>8, Zenon DEF c, b

LEMMA AddressSocks == SocksInv /\ ReadAddress => SocksInv'
<1> SUFFICES ASSUME SocksInv, ReadAddress PROVE SocksInv'
  BY Zenon
<1> DEFINE n == IF socks = "name" /\ rest # <<>> THEN rest[1] ELSE 0
           len == AddressLength(n)
           ip == [atyp |-> IF socks = "v4" THEN V4 ELSE V6, addr |-> SubSeq(rest, 1, len - 2)]
           h == Len(Head5(server))
           a == Len(Answer(server))
<1>1. socks \in AddressStates /\ SameCall
  BY Zenon DEF ReadAddress, SameCall, AddressStates
<1>2. /\ len \in Nat
      /\ Len(rest) >= len <=> server.cut >= h + a
      /\ Len(rest) >= len => /\ h + 4 + len = h + a
                             /\ socks # "name" => SubSeq(rest, 1, len - 2) = server.addr
  <2>1. n = IF socks = "name" /\ rest # <<>> THEN rest[1] ELSE 0
    BY Zenon
  <2> HIDE DEF n
  <2>2. QED
    BY <1>1, <2>1, AddressRead, Zenon
<1>3. /\ server \in Servers /\ command \in {"connect", "associate"} /\ Usable(creds)
      /\ target \in Addresses /\ Greeted /\ Writable /\ asked = Request /\ Read(h + 4)
      /\ server.code = 0 /\ server.rsv = 0
      /\ server.atyp = CASE socks = "v4" -> V4 [] socks = "v6" -> V6 [] OTHER -> DOMAIN_NAME
  BY <1>1, Zenon DEF SocksInv, AddressStates
<1>4. /\ Len(rest) >= len =>
            /\ Takes(len)
            /\ \/ command = "connect" /\ socks' = "ready" /\ UNCHANGED relay
               \/ /\ command = "associate" /\ socks' = "ready"
                  /\ relay' = Effective(IF socks = "name" THEN RelayAddr ELSE ip)
               \/ command = "associate" /\ socks = "name" /\ socks' = "failed" /\ UNCHANGED relay
            /\ late' = (late \/ socks' = "failed")
            /\ UNCHANGED asked
      /\ ~(Len(rest) >= len) => socks' = "failed"
  BY Zenon DEF ReadAddress, Fails
<1> HIDE DEF n, len
<1>5. CASE ~(Len(rest) >= len)
  <2>1. ~Accepts(server)
    BY <1>2, <1>3, <1>5, AcceptsAll, Zenon
  <2>2. QED
    BY <1>1, <1>4, <1>5, <2>1, Failing, Zenon DEF AddressStates
<1>6. CASE Len(rest) >= len /\ socks' = "failed"
  <2>1. late'
    BY <1>4, <1>6, Zenon
  <2>2. QED
    BY <1>1, <1>6, <2>1, Failing, Zenon DEF AddressStates
<1>7. CASE Len(rest) >= len /\ socks' = "ready"
  <2>1. Accepts(server)
    <3>1. server.atyp \in {V4, DOMAIN_NAME, V6}
      BY <1>3, Zenon
    <3>2. QED
      BY <1>2, <1>3, <1>7, <3>1, AcceptsAll, Zenon
  <2>2. server' = server /\ server' \in Servers
    BY <1>1, <1>3, Zenon DEF SameCall
  <2>3. Read(Len(Head5(server)) + Len(Answer(server)))'
    <3>1. PICK k \in Nat : k = h + 4
      BY <1>3, HeadBytes, SMT, SMTT(30)
    <3>2. PICK l \in Nat : l = len
      BY <1>2, Zenon
    <3>3. Read(k + l)'
      <4>1. l <= Len(rest) /\ Takes(l)
        <5>1. Len(rest) \in Nat
          BY <1>3, <3>1, ReadBytes, LenProperties, Zenon
        <5>2. QED
          BY <1>2, <1>4, <1>7, <3>2, <5>1, Zenon
      <4>2. QED
        BY <1>3, <2>2, <3>1, <4>1, ReadOn, Zenon
    <3>4. k + l = h + a /\ (h + a)' = h + a
      BY <1>2, <1>7, <2>2, <3>1, <3>2, Zenon
    <3>5. QED
      BY <3>3, <3>4, Zenon
  <2>4. (Head5(server) \o Answer(server) \o rest = Sent(server))'
    <3>1. (server \in Servers)' /\ Read(Len(Head5(server)) + Len(Answer(server)))'
      BY <2>2, <2>3, Zenon
    <3>2. QED
      BY <3>1, WholeStream, PTL
  <2>5. command = "connect" => ServerReads(asked) =
          [command |-> 1, atyp |-> target.atyp, addr |-> target.addr, port |-> PORT]
    BY <1>3, RequestRead, Zenon
  <2>6. command = "associate" => relay' =
          IF server.atyp = DOMAIN_NAME THEN Effective(RelayAddr)
          ELSE IF Range(server.addr) = {0} THEN ProxyAddr
          ELSE [atyp |-> server.atyp, addr |-> server.addr]
    <3>1. SUFFICES ASSUME command = "associate"
                   PROVE  relay' = IF server.atyp = DOMAIN_NAME THEN Effective(RelayAddr)
                                   ELSE IF Range(server.addr) = {0} THEN ProxyAddr
                                   ELSE [atyp |-> server.atyp, addr |-> server.addr]
      BY Zenon
    <3>2. relay' = Effective(IF socks = "name" THEN RelayAddr ELSE ip)
      BY <1>4, <1>7, <3>1, Zenon
    <3>3. CASE socks = "name"
      BY <1>3, <3>2, <3>3, Zenon DEF V4, V6, DOMAIN_NAME
    <3>4. CASE socks # "name"
      <4>1. /\ server.atyp # DOMAIN_NAME /\ server.atyp = IF socks = "v4" THEN V4 ELSE V6
        BY <1>1, <1>3, <3>4, SMT, SMTT(30) DEF AddressStates, V4, V6, DOMAIN_NAME
      <4>2. ip = [atyp |-> server.atyp, addr |-> server.addr]
        BY <1>2, <1>7, <3>4, <4>1, Zenon
      <4> HIDE DEF ip
      <4>3. ip.atyp = server.atyp /\ ip.addr = server.addr
        BY <4>2, Zenon
      <4>4. QED
        BY <3>2, <3>4, <4>1, <4>2, <4>3, Zenon DEF Effective
    <3>5. QED
      BY <3>3, <3>4, Zenon
  <2>7. /\ UNCHANGED <<asked, target, command>> /\ (Accepts(server))' = Accepts(server)
        /\ (Usable(creds))' = Usable(creds)
    BY <1>1, <1>4, <1>7, CallFrame, Zenon DEF SameCall
  <2>8. Socks5Exact'
    <3>1. (Accepts(server))' /\ (Usable(creds))'
      BY <1>3, <2>1, <2>7, Zenon
    <3>2. (command = "connect" => ServerReads(asked) =
            [command |-> 1, atyp |-> target.atyp, addr |-> target.addr, port |-> PORT])'
      BY <2>5, <2>7, Zenon
    <3>3. (command = "associate" => relay =
            IF server.atyp = DOMAIN_NAME THEN Effective(RelayAddr)
            ELSE IF Range(server.addr) = {0} THEN ProxyAddr
            ELSE [atyp |-> server.atyp, addr |-> server.addr])'
      BY <2>2, <2>6, <2>7, Zenon
    <3>4. QED
      BY <1>7, <2>4, <3>1, <3>2, <3>3, Zenon DEF Socks5Exact
  <2>9. QED
    BY <1>1, <1>3, <1>7, <2>7, <2>8, Zenon DEF SocksInv, SameCall, AddressStates
<1>8. QED
  BY <1>4, <1>5, <1>6, <1>7, Zenon

LEMMA TimeoutSocks == SocksInv /\ Timeout => SocksInv'
BY Failing, Zenon DEF Timeout, SameCall

-----------------------------------------------------------------------------
(* The packets of an association. *)

\* A packet from t as it is built, and as it comes, cut and with another head.
Header(t) == <<0, 0, 0, t.atyp>> \o Encoded(t) \o PORT
Marked(pkt, head) == [i \in DOMAIN pkt |-> IF i <= 3 THEN head[i] ELSE pkt[i]]
Truncated(t, head, cut) == SubSeq(Marked(BuildUdpPacket(t, FromServer), head), 1, cut)

LEMMA SourceType ==
    ASSUME NEW t \in Targets
    PROVE  /\ t.atyp \in Byte /\ t.addr \in Seq(Byte) /\ Len(t.addr) \in Nat
           /\ t.atyp = V4 => Len(t.addr) = 4
           /\ t.atyp = V6 => Len(t.addr) = 16
           /\ t.atyp = DOMAIN_NAME => Len(t.addr) \in Byte
           /\ t = [atyp |-> t.atyp, addr |-> t.addr]
<1>1. t \in [atyp : Byte, addr : Seq(Byte)]
  BY SocksAssumption, Zenon
<1>2. /\ t.atyp \in Byte /\ t.addr \in Seq(Byte)
      /\ t = [atyp |-> t.atyp, addr |-> t.addr]
  BY <1>1, Zenon
<1>3. /\ t.atyp = V4 => Len(t.addr) = 4
      /\ t.atyp = V6 => Len(t.addr) = 16
      /\ t.atyp = DOMAIN_NAME => Len(t.addr) \in Byte
  BY SocksAssumption, Zenon
<1>4. QED
  BY <1>2, <1>3, LenProperties, Zenon

LEMMA HeaderBytes ==
    ASSUME NEW t \in Targets
    PROVE  /\ Header(t) \in Seq(Byte)
           /\ t.atyp = DOMAIN_NAME => Len(Header(t)) = 7 + Len(t.addr)
           /\ t.atyp # DOMAIN_NAME => Len(Header(t)) = 6 + Len(t.addr)
           /\ Header(t)[1] = 0 /\ Header(t)[2] = 0 /\ Header(t)[4] = t.atyp
           /\ t.atyp = DOMAIN_NAME => Header(t)[5] = Len(t.addr)
           /\ t.atyp # DOMAIN_NAME => \A i \in 1 .. Len(t.addr) : Header(t)[4 + i] = t.addr[i]
<1> DEFINE a == <<0, 0, 0, t.atyp>>
           b == a \o Encoded(t)
<1>1. /\ t.atyp \in Byte /\ t.addr \in Seq(Byte) /\ Len(t.addr) \in Nat
      /\ t.atyp = DOMAIN_NAME => Len(t.addr) \in Byte
  BY SourceType, Zenon
<1>2. a \in Seq(Byte) /\ Len(a) = 4 /\ a[1] = 0 /\ a[2] = 0 /\ a[4] = t.atyp
  <2>1. t.atyp \in Byte /\ 0 \in Byte
    BY <1>1, SMT, SMTT(30) DEF Byte
  <2>2. QED
    BY <2>1, SMT, SMTT(30)
<1>3. PORT \in Seq(Byte) /\ Len(PORT) = 2
  BY SMT, SMTT(30) DEF PORT, Byte
<1>4. /\ Encoded(t) \in Seq(Byte)
      /\ Len(Encoded(t)) = Len(t.addr) + (IF t.atyp = DOMAIN_NAME THEN 1 ELSE 0)
      /\ t.atyp = DOMAIN_NAME => Encoded(t)[1] = Len(t.addr)
      /\ \A i \in 1 .. Len(t.addr) :
            Encoded(t)[i + (IF t.atyp = DOMAIN_NAME THEN 1 ELSE 0)] = t.addr[i]
  BY <1>1, EncodedBytes, Zenon
<1>5. Header(t) = b \o PORT
  BY Zenon DEF Header
<1> HIDE DEF a
<1>6. IsJoin(b, a, Encoded(t), Byte)
  BY <1>2, <1>4, Joined, Zenon
<1> HIDE DEF b
<1>7. IsJoin(Header(t), b, PORT, Byte)
  <2>1. b \in Seq(Byte)
    BY <1>6, Zenon DEF IsJoin
  <2>2. QED
    BY <1>3, <1>5, <2>1, Joined, Zenon
<1>8. /\ \A i \in 1 .. 4 : Header(t)[i] = a[i]
      /\ \A i \in 1 .. Len(Encoded(t)) : Header(t)[4 + i] = Encoded(t)[i]
  BY <1>2, <1>6, <1>7, SMT, SMTT(30) DEF IsJoin
<1>9. t.atyp # DOMAIN_NAME => \A i \in 1 .. Len(t.addr) : Header(t)[4 + i] = t.addr[i]
  <2>1. SUFFICES ASSUME t.atyp # DOMAIN_NAME, NEW i \in 1 .. Len(t.addr)
                 PROVE  Header(t)[4 + i] = t.addr[i]
    BY Zenon
  <2>2. Encoded(t)[i + 0] = t.addr[i] /\ i + 0 = i /\ i \in 1 .. Len(Encoded(t))
    BY <1>4, <2>1, SMT, SMTT(30)
  <2>3. QED
    BY <1>8, <2>2, Zenon
<1>10. t.atyp = DOMAIN_NAME => Header(t)[5] = Len(t.addr)
  <2>1. t.atyp = DOMAIN_NAME => 1 \in 1 .. Len(Encoded(t))
    BY <1>1, <1>4, SMT, SMTT(30)
  <2>2. QED
    BY <1>4, <1>8, <2>1, SMT, SMTT(30)
<1>11. Header(t)[1] = 0 /\ Header(t)[2] = 0 /\ Header(t)[4] = t.atyp
  BY <1>2, <1>8, SMT, SMTT(30)
<1>12. Header(t) \in Seq(Byte) /\ Len(Header(t)) = (4 + Len(Encoded(t))) + 2
  BY <1>2, <1>3, <1>6, <1>7, Zenon DEF IsJoin
<1>13. /\ t.atyp = DOMAIN_NAME => Len(Header(t)) = 7 + Len(t.addr)
       /\ t.atyp # DOMAIN_NAME => Len(Header(t)) = 6 + Len(t.addr)
  <2> DEFINE k == Len(t.addr)
             l == Len(Header(t))
             m == Len(Encoded(t))
  <2>1. k \in Nat
    BY <1>1, Zenon
  <2>2. l = (4 + m) + 2 /\ m = k + (IF t.atyp = DOMAIN_NAME THEN 1 ELSE 0)
    BY <1>4, <1>12, Zenon
  <2> HIDE DEF k, l, m
  <2>3. /\ t.atyp = DOMAIN_NAME => l = 7 + k
        /\ t.atyp # DOMAIN_NAME => l = 6 + k
    BY <2>1, <2>2, SMT, SMTT(30)
  <2>4. QED
    BY <2>3, Zenon DEF k, l
<1>14. QED
  BY <1>9, <1>10, <1>11, <1>12, <1>13, Zenon

LEMMA MarkedSeq ==
    ASSUME NEW S, NEW pkt \in Seq(S), NEW head \in [1 .. 3 -> S]
    PROVE  /\ Marked(pkt, head) \in Seq(S)
           /\ Len(Marked(pkt, head)) = Len(pkt)
           /\ \A i \in 1 .. Len(pkt) : Marked(pkt, head)[i] = IF i <= 3 THEN head[i] ELSE pkt[i]
<1>1. Len(pkt) \in Nat /\ DOMAIN pkt = 1 .. Len(pkt) /\ \A i \in 1 .. Len(pkt) : pkt[i] \in S
  BY LenProperties, ElementOfSeq, Zenon
<1>2. \A i \in 1 .. Len(pkt) : i <= 3 => head[i] \in S
  BY <1>1, SMT, SMTT(30)
<1>3. \A i \in 1 .. Len(pkt) : Marked(pkt, head)[i] = IF i <= 3 THEN head[i] ELSE pkt[i]
  BY <1>1, Zenon DEF Marked
<1>4. Marked(pkt, head) \in [1 .. Len(pkt) -> S]
  BY <1>1, <1>2, Zenon DEF Marked
<1>5. Marked(pkt, head) \in Seq(S) /\ Len(Marked(pkt, head)) = Len(pkt)
  BY <1>1, <1>4, FunctionSeq, Zenon
<1>6. QED
  BY <1>3, <1>5, Zenon

IsTruncated(pkt, t, head, cut, h) ==
    /\ pkt \in Seq(Byte) /\ Len(pkt) = cut
    /\ \A i \in 1 .. cut : i <= h => pkt[i] = IF i <= 3 THEN head[i] ELSE Header(t)[i]
    /\ cut >= h => SubSeq(pkt, h + 1, cut) = SubSeq(FromServer, 1, cut - h)

\* A packet that is cut: its header as far as it is there, then the payload.
LEMMA PacketBytes ==
    ASSUME NEW t \in Targets, NEW head \in [1 .. 3 -> {0, 1}],
           NEW cut \in 0 .. Len(BuildUdpPacket(t, FromServer)),
           NEW h, h = Len(Header(t))
    PROVE  IsTruncated(Truncated(t, head, cut), t, head, cut, h)
<1> DEFINE pkt == Truncated(t, head, cut)
           b == BuildUdpPacket(t, FromServer)
           c == Marked(b, head)
           f == Len(FromServer)
<1>1. Header(t) \in Seq(Byte) /\ h \in Nat /\ h >= 6
  <2> DEFINE k == Len(t.addr)
  <2>1. Header(t) \in Seq(Byte) /\ (h = 7 + k \/ h = 6 + k)
    BY HeaderBytes, Zenon
  <2>2. k \in Nat
    BY SourceType, Zenon
  <2> HIDE DEF k
  <2>3. h \in Nat /\ h >= 6
    BY <2>1, <2>2, SMT, SMTT(30)
  <2>4. QED
    BY <2>1, <2>3, Zenon
<1>2. FromServer \in Seq(Byte) /\ f \in Nat
  BY SocksAssumption, LenProperties, Zenon
<1>3. IsJoin(b, Header(t), FromServer, Byte)
  <2>1. b = Header(t) \o FromServer
    BY Zenon DEF BuildUdpPacket, Header
  <2>2. QED
    BY <1>1, <1>2, <2>1, Joined, Zenon
<1> HIDE DEF b
<1>4. /\ b \in Seq(Byte) /\ Len(b) = h + f
      /\ \A i \in 1 .. h : b[i] = Header(t)[i]
      /\ \A i \in 1 .. f : b[h + i] = FromServer[i]
  BY <1>3, Zenon DEF IsJoin
<1>5. /\ c \in Seq(Byte) /\ Len(c) = h + f
      /\ \A i \in 1 .. h + f : c[i] = IF i <= 3 THEN head[i] ELSE b[i]
  <2>1. head \in [1 .. 3 -> Byte]
    BY SMT, SMTT(30) DEF Byte
  <2>2. /\ c \in Seq(Byte) /\ Len(c) = Len(b)
        /\ \A i \in 1 .. Len(b) : c[i] = IF i <= 3 THEN head[i] ELSE b[i]
    BY <1>4, <2>1, MarkedSeq, Zenon
  <2> HIDE DEF c
  <2>3. QED
    BY <1>4, <2>2, Zenon
<1>6. pkt = SubSeq(c, 1, cut) /\ cut \in 0 .. h + f
  BY <1>4, Zenon DEF b, Truncated
<1> HIDE DEF c, pkt
<1>7. IsPart(pkt, c, 0, cut, Byte)
  <2>1. 0 \in Nat /\ cut \in Nat /\ 0 <= cut /\ cut <= Len(c) /\ 0 + 1 = 1
    BY <1>1, <1>2, <1>5, <1>6, SMT, SMTT(30)
  <2>2. IsPart(SubSeq(c, 0 + 1, cut), c, 0, cut, Byte)
    BY <1>5, <2>1, Part, Zenon
  <2>3. QED
    BY <1>6, <2>1, <2>2, Zenon
<1>8. pkt \in Seq(Byte) /\ Len(pkt) = cut /\ \A i \in 1 .. cut : pkt[i] = c[i]
  BY <1>6, <1>7, <1>1, <1>2, SMT, SMTT(30) DEF IsPart
<1>9. \A i \in 1 .. cut : i <= h => pkt[i] = IF i <= 3 THEN head[i] ELSE Header(t)[i]
  <2>1. SUFFICES ASSUME NEW i \in 1 .. cut, i <= h
                 PROVE  pkt[i] = IF i <= 3 THEN head[i] ELSE Header(t)[i]
    BY Zenon
  <2>2. i \in 1 .. h /\ i \in 1 .. h + f
    BY <1>1, <1>2, <1>6, <2>1, SMT, SMTT(30)
  <2>3. pkt[i] = c[i] /\ c[i] = (IF i <= 3 THEN head[i] ELSE b[i]) /\ b[i] = Header(t)[i]
    BY <1>4, <1>5, <1>8, <2>2, Zenon
  <2>4. QED
    BY <2>3, Zenon
<1>10. ASSUME cut >= h PROVE SubSeq(pkt, h + 1, cut) = SubSeq(FromServer, 1, cut - h)
  <2> DEFINE p == SubSeq(pkt, h + 1, cut)
             q == SubSeq(FromServer, 1, cut - h)
  <2>1. cut \in Nat /\ cut - h \in 0 .. f /\ cut - h \in Nat
    BY <1>1, <1>2, <1>6, <1>10, SMT, SMTT(30)
  <2>2. IsPart(p, pkt, h, cut, Byte)
    <3>1. h <= cut /\ cut <= Len(pkt)
      BY <1>1, <1>8, <1>10, <2>1, SMT, SMTT(30)
    <3>2. QED
      BY <1>1, <1>8, <2>1, <3>1, Part, Zenon
  <2>3. IsPart(q, FromServer, 0, cut - h, Byte)
    <3>1. 0 \in Nat /\ 0 <= cut - h /\ cut - h <= f /\ 0 + 1 = 1
      BY <1>2, <2>1, SMT, SMTT(30)
    <3>2. IsPart(SubSeq(FromServer, 0 + 1, cut - h), FromServer, 0, cut - h, Byte)
      BY <1>2, <2>1, <3>1, Part, Zenon
    <3>3. QED
      BY <3>1, <3>2, Zenon
  <2> HIDE DEF p, q
  <2>4. /\ p \in Seq(Byte) /\ q \in Seq(Byte) /\ Len(p) = cut - h /\ Len(q) = cut - h
        /\ \A i \in 1 .. cut - h : p[i] = pkt[h + i]
        /\ \A i \in 1 .. cut - h : q[i] = FromServer[i]
    BY <2>1, <2>2, <2>3, SMT, SMTT(30) DEF IsPart
  <2>5. \A i \in 1 .. Len(p) : p[i] = q[i]
    <3>1. SUFFICES ASSUME NEW i \in 1 .. cut - h PROVE p[i] = q[i]
      BY <2>4, Zenon
    <3>2. h + i \in 1 .. cut /\ h + i \in 1 .. h + f /\ ~(h + i <= 3) /\ i \in 1 .. f
      BY <1>1, <1>2, <2>1, SMT, SMTT(30)
    <3>3. pkt[h + i] = b[h + i] /\ b[h + i] = FromServer[i]
      BY <1>4, <1>5, <1>8, <3>2, Zenon
    <3>4. QED
      BY <2>4, <3>3, Zenon
  <2>6. p = q
    BY <2>4, <2>5, SeqEqual, Zenon
  <2>7. QED
    BY <2>6, Zenon DEF p, q
<1>11. QED
  BY <1>8, <1>9, <1>10, Zenon DEF IsTruncated, pkt

\* What becomes of it.
Kept(t, head, cut, h) == head = <<0, 0, 0>> /\ cut >= h /\ t.atyp \in {V4, DOMAIN_NAME, V6}
Passed(t, head, cut, h, other) ==
    IF Kept(t, head, cut, h)
    THEN [src |-> IF t.atyp = DOMAIN_NAME THEN other ELSE t,
          payload |-> SubSeq(FromServer, 1, cut - h)]
    ELSE None

\* Parsing undoes building; what is cut in its header, has another head or an
\* unknown type is dropped.
LEMMA ParseBuilt ==
    ASSUME NEW t \in Targets, NEW head \in [1 .. 3 -> {0, 1}],
           NEW cut \in 0 .. Len(BuildUdpPacket(t, FromServer)),
           NEW other
    PROVE  ParseUdpPacket(Truncated(t, head, cut), other) = Passed(t, head, cut, Len(Header(t)), other)
<1> DEFINE h == Len(Header(t))
           pkt == Truncated(t, head, cut)
           n == IF pkt[4] = DOMAIN_NAME /\ Len(pkt) >= 5 THEN pkt[5] ELSE 0
           off == 4 + (CASE pkt[4] = V4 -> 6 [] pkt[4] = V6 -> 18 [] OTHER -> 1 + n + 2)
           ok == /\ Len(pkt) >= 4
                 /\ SubSeq(pkt, 1, 3) = <<0, 0, 0>>
                 /\ pkt[4] \in {V4, DOMAIN_NAME, V6}
                 /\ Len(pkt) >= off
           src == IF pkt[4] = DOMAIN_NAME THEN other
                  ELSE [atyp |-> pkt[4], addr |-> SubSeq(pkt, 5, off - 2)]
<1>1. /\ t.atyp \in Byte /\ t.addr \in Seq(Byte) /\ Len(t.addr) \in Nat
      /\ t.atyp = V4 => Len(t.addr) = 4
      /\ t.atyp = V6 => Len(t.addr) = 16
      /\ t = [atyp |-> t.atyp, addr |-> t.addr]
  BY SourceType, Zenon
<1>2. /\ t.atyp = DOMAIN_NAME => h = 7 + Len(t.addr)
      /\ t.atyp # DOMAIN_NAME => h = 6 + Len(t.addr)
      /\ Header(t)[1] = 0 /\ Header(t)[2] = 0 /\ Header(t)[4] = t.atyp
      /\ t.atyp = DOMAIN_NAME => Header(t)[5] = Len(t.addr)
      /\ t.atyp # DOMAIN_NAME => \A i \in 1 .. Len(t.addr) : Header(t)[4 + i] = t.addr[i]
  BY HeaderBytes, Zenon
<1>3. /\ pkt \in Seq(Byte) /\ Len(pkt) = cut
      /\ \A i \in 1 .. cut : i <= h => pkt[i] = IF i <= 3 THEN head[i] ELSE Header(t)[i]
      /\ cut >= h => SubSeq(pkt, h + 1, cut) = SubSeq(FromServer, 1, cut - h)
  <2>1. IsTruncated(pkt, t, head, cut, h)
    BY PacketBytes, Zenon
  <2>2. QED
    BY <2>1, Zenon DEF IsTruncated
<1>4. h \in Nat /\ h >= 6 /\ cut \in Nat
  <2> DEFINE k == Len(t.addr)
  <2>1. cut \in Nat
    BY <1>3, LenProperties, Zenon
  <2>2. k \in Nat /\ (h = 7 + k \/ h = 6 + k)
    BY <1>1, <1>2, Zenon
  <2> HIDE DEF k
  <2>3. QED
    BY <2>1, <2>2, SMT, SMTT(30)
<1>5. ParseUdpPacket(pkt, other) =
         IF ok THEN [src |-> src, payload |-> SubSeq(pkt, off + 1, Len(pkt))] ELSE None
  BY Zenon DEF ParseUdpPacket
<1> SUFFICES ParseUdpPacket(pkt, other) = Passed(t, head, cut, h, other)
  BY Zenon
<1> HIDE DEF pkt, h
<1>6. CASE cut < 4
  <2>1. ~ok /\ ~(cut >= h)
    BY <1>3, <1>4, <1>6, SMT, SMTT(30)
  <2> HIDE DEF ok
  <2>2. QED
    BY <1>5, <2>1, Zenon DEF Passed, Kept
<1>7. CASE cut >= 4
  <2>1. (\A i \in 1 .. 3 : pkt[i] = head[i]) /\ pkt[4] = t.atyp
    <3>1. /\ \A i \in 1 .. 3 : i \in 1 .. cut /\ i <= h /\ i <= 3
          /\ 4 \in 1 .. cut /\ 4 <= h /\ ~(4 <= 3)
      BY <1>4, <1>7, SMT, SMTT(30)
    <3>2. QED
      BY <1>2, <1>3, <3>1, Zenon
  <2>2. SubSeq(pkt, 1, 3) = <<0, 0, 0>> <=> head = <<0, 0, 0>>
    <3>1. <<0, 0, 0>> \in Seq(Byte) /\ Len(<<0, 0, 0>>) = 3
      BY SMT, SMTT(30) DEF Byte
    <3>2. 3 <= Len(pkt)
      BY <1>3, <1>4, <1>7, SMT, SMTT(30)
    <3>3. SubSeq(pkt, 1, 3) = <<0, 0, 0>> <=> \A i \in 1 .. 3 : pkt[i] = <<0, 0, 0>>[i]
      <4> DEFINE z == <<0, 0, 0>>
      <4>1. z \in Seq(Byte) /\ Len(z) = 3 /\ Len(z) <= Len(pkt)
        BY <3>1, <3>2, Zenon
      <4> HIDE DEF z
      <4>2. SubSeq(pkt, 1, Len(z)) = z <=> \A i \in 1 .. Len(z) : pkt[i] = z[i]
        BY <1>3, <4>1, FirstAre, SMT, SMTT(30)
      <4>3. SubSeq(pkt, 1, 3) = z <=> \A i \in 1 .. 3 : pkt[i] = z[i]
        BY <4>1, <4>2, Zenon
      <4>4. QED
        BY <4>3, Zenon DEF z
    <3>4. head = <<0, 0, 0>> <=> \A i \in 1 .. 3 : head[i] = <<0, 0, 0>>[i]
      <4>1. head \in Seq(Byte) /\ Len(head) = 3
        <5>1. head \in [1 .. 3 -> Byte]
          BY SMT, SMTT(30) DEF Byte
        <5>2. 3 \in Nat
          BY SMT, SMTT(30)
        <5>3. QED
          BY <5>1, <5>2, FunctionSeq, Zenon
      <4>2. (\A i \in 1 .. 3 : head[i] = <<0, 0, 0>>[i]) => head = <<0, 0, 0>>
        BY <3>1, <4>1, SeqEqual, SMT, SMTT(30)
      <4>3. QED
        BY <4>2, Zenon
    <3>5. QED
      BY <2>1, <3>3, <3>4, Zenon
  <2>3. cut >= 5 /\ t.atyp = DOMAIN_NAME => pkt[5] = Len(t.addr)
    <3>1. cut >= 5 => 5 \in 1 .. cut /\ 5 <= h /\ ~(5 <= 3)
      BY <1>4, SMT, SMTT(30)
    <3>2. QED
      BY <1>2, <1>3, <3>1, SMT, SMTT(30)
  <2>4. ASSUME t.atyp \in {V4, DOMAIN_NAME, V6}
        PROVE  (cut >= off <=> cut >= h) /\ (cut >= h => off = h)
    <3>1. CASE t.atyp = DOMAIN_NAME
      <4>1. h = 7 + Len(t.addr)
        BY <1>1, <1>2, <3>1, Zenon
      <4>2. off = 7 + n
        <5>1. pkt[4] = 3
          BY <2>1, <3>1, Zenon DEF DOMAIN_NAME
        <5>2. n \in Nat
          BY <1>1, <1>3, <1>4, <2>1, <2>3, <3>1, Zenon
        <5> HIDE DEF n
        <5>3. off = 4 + (1 + n + 2)
          BY <5>1, SMT, SMTT(30) DEF V4, V6, DOMAIN_NAME
        <5> HIDE DEF off
        <5>4. QED
          BY <5>2, <5>3, SMT, SMTT(30)
      <4>3. n = IF cut >= 5 THEN Len(t.addr) ELSE 0
        BY <1>3, <2>1, <2>3, <3>1, Zenon
      <4> HIDE DEF n, off
      <4>4. QED
        BY <1>1, <1>4, <4>1, <4>2, <4>3, SMT, SMTT(30)
    <3>2. CASE t.atyp # DOMAIN_NAME
      <4>1. off = 4 + (IF t.atyp = V4 THEN 6 ELSE 18)
        <5>1. pkt[4] = t.atyp /\ (t.atyp = 1 \/ t.atyp = 4)
          BY <2>1, <2>4, <3>2, Zenon DEF V4, V6, DOMAIN_NAME
        <5>2. QED
          BY <5>1, Zenon DEF V4, V6, DOMAIN_NAME
      <4>2. h = 6 + (IF t.atyp = V4 THEN 4 ELSE 16)
        <5>1. h = 6 + Len(t.addr) /\ Len(t.addr) = (IF t.atyp = V4 THEN 4 ELSE 16)
          BY <1>1, <1>2, <2>4, <3>2, Zenon
        <5>2. QED
          BY <5>1, Zenon
      <4> HIDE DEF off
      <4>3. QED
        BY <4>1, <4>2, SMT, SMTT(30)
    <3>3. QED
      BY <3>1, <3>2, Zenon
  <2>5. ok <=> Kept(t, head, cut, h)
    BY <1>3, <1>7, <2>1, <2>2, <2>4, Zenon DEF Kept
  <2>6. ASSUME cut >= h, t.atyp # DOMAIN_NAME PROVE SubSeq(pkt, 5, h - 2) = t.addr
    <3>1. h - 2 = 4 + Len(t.addr) /\ h - 2 <= Len(pkt)
      BY <1>1, <1>2, <1>3, <1>4, <2>6, SMT, SMTT(30)
    <3>2. \A i \in 1 .. Len(t.addr) : pkt[4 + i] = t.addr[i]
      <4>1. SUFFICES ASSUME NEW i \in 1 .. Len(t.addr) PROVE pkt[4 + i] = t.addr[i]
        BY Zenon
      <4>2. 4 + i \in 1 .. cut /\ 4 + i <= h /\ ~(4 + i <= 3)
        BY <1>1, <1>4, <2>6, <3>1, SMT, SMTT(30)
      <4>3. pkt[4 + i] = Header(t)[4 + i]
        BY <1>3, <4>2, Zenon
      <4>4. QED
        BY <1>2, <2>6, <4>3, Zenon
    <3> DEFINE m == h - 2
               a == t.addr
               k == 4
    <3>3. k \in Nat /\ k + 1 = 5 /\ a \in Seq(Byte)
      BY <1>1, SMT, SMTT(30)
    <3>4. m = k + Len(a) /\ m <= Len(pkt) /\ \A i \in 1 .. Len(a) : pkt[k + i] = a[i]
      BY <3>1, <3>2, Zenon
    <3> HIDE DEF m, a, k
    <3>5. SubSeq(pkt, k + 1, m) = a
      <4>1. pkt \in Seq(Byte)
        BY <1>3, Zenon
      <4>2. QED
        BY <3>3, <3>4, <4>1, Slice, Zenon
    <3>6. QED
      BY <3>3, <3>5, Zenon DEF m, a
  <2> HIDE DEF off, ok
  <2>7. CASE Kept(t, head, cut, h)
    <3>1. t.atyp \in {V4, DOMAIN_NAME, V6} /\ cut >= h
      BY <2>7, Zenon DEF Kept
    <3>2. off = h /\ ok
      BY <2>4, <2>5, <2>7, <3>1, Zenon
    <3>3. src = IF t.atyp = DOMAIN_NAME THEN other ELSE t
      BY <1>1, <2>1, <2>6, <3>1, <3>2, Zenon
    <3>4. SubSeq(pkt, off + 1, Len(pkt)) = SubSeq(FromServer, 1, cut - h)
      BY <1>3, <3>1, <3>2, Zenon
    <3> HIDE DEF src
    <3>5. QED
      BY <1>5, <2>7, <3>2, <3>3, <3>4, Zenon DEF Passed
  <2>8. CASE ~Kept(t, head, cut, h)
    BY <1>5, <2>5, <2>8, Zenon DEF Passed
  <2>9. QED
    BY <2>7, <2>8, Zenon
<1>8. QED
  BY <1>4, <1>6, <1>7, SMT, SMTT(30)

LEMMA ExchangeSocks == SocksInv /\ Exchange => SocksInv'
<1> SUFFICES ASSUME SocksInv, Exchange PROVE SocksInv'
  BY Zenon
<1>1. PICK head \in [1 .. 3 -> {0, 1}], t \in Targets :
         \E cut \in 0 .. Len(BuildUdpPacket(t, FromServer)) :
            answer' = [head |-> head, from |-> t, cut |-> cut]
  BY Zenon DEF Exchange
<1>2. PICK cut \in 0 .. Len(BuildUdpPacket(t, FromServer)) :
         answer' = [head |-> head, from |-> t, cut |-> cut]
  BY <1>1, Zenon
<1> DEFINE pkt == Truncated(t, head, cut)
           h == Len(Header(t))
<1>3. answer'.head = head /\ answer'.from = t /\ answer'.cut = cut
  BY <1>2, Zenon
<1>4. heard' = ParseUdpPacket(pkt, OrigDst)
  <2>1. Packet(answer') = pkt
    BY <1>3, Zenon DEF Packet, Truncated, Marked
  <2>2. QED
    BY <2>1, Zenon DEF Exchange
<1>5. ParseUdpPacket(pkt, OrigDst) = Passed(t, head, cut, h, OrigDst)
  BY ParseBuilt, Zenon
<1>6. Header(t) \in Seq(Byte)
  BY HeaderBytes, Zenon
<1>7. Len(BuildUdpPacket(t, <<>>)) = h
  <2>1. BuildUdpPacket(t, <<>>) = Header(t) \o <<>>
    BY Zenon DEF BuildUdpPacket, Header
  <2>2. QED
    BY <1>6, <2>1, ConcatEmptySeq, Zenon
<1>8. /\ socks' = "heard" /\ socks = "ready" /\ UNCHANGED <<target, command, creds, server>>
      /\ (Usable(creds))' = Usable(creds)
  BY Zenon DEF Exchange, Usable
<1>9. cut \in Nat /\ h \in Nat
  BY <1>6, SMT, SMTT(30)
<1> HIDE DEF pkt, h
<1>10. cut < h <=> ~(cut >= h)
  BY <1>9, SMT, SMTT(30)
<1>11. Socks5Exact'
  <2>1. heard' = IF \/ answer'.head # <<0, 0, 0>> \/ answer'.cut < h
                    \/ answer'.from.atyp \notin {V4, DOMAIN_NAME, V6} THEN None
                 ELSE [src |-> IF answer'.from.atyp = DOMAIN_NAME THEN OrigDst ELSE answer'.from,
                       payload |-> SubSeq(FromServer, 1, answer'.cut - h)]
    BY <1>3, <1>4, <1>5, <1>10, Zenon DEF Passed, Kept
  <2>2. h = Len(BuildUdpPacket(answer'.from, <<>>))
    BY <1>3, <1>7, Zenon
  <2>3. QED
    BY <1>8, <2>1, <2>2, Zenon DEF Socks5Exact
<1>12. QED
  BY <1>8, <1>11, Zenon DEF SocksInv, AddressStates

-----------------------------------------------------------------------------
(* What the client is asked for. *)

Names == Seq({"a", "b", "1", "-", "."})

\* A name that was accepted is in lower case.
LEMMA ValidName ==
    ASSUME NEW h \in Seq(STRING), IsValidSniHostname(Lower(h))
    PROVE  Lower(h) \in Names
<1> DEFINE C == {"a", "b", "1", "-", "."}
           l == Lower(h)
<1>1. DOMAIN h = 1 .. Len(h) /\ Len(h) \in Nat
  BY LenProperties, Zenon
<1>2. DOMAIN l = DOMAIN h
  BY Zenon DEF Lower
<1>3. \A i \in DOMAIN l : l[i] \in C
  <2>1. SUFFICES ASSUME NEW i \in DOMAIN l PROVE l[i] \in C
    BY Zenon
  <2>2. l[i] # "A"
    BY <1>2, <2>1, Zenon DEF Lower
  <2>3. l[i] \in {"a", "b", "A", "1", "-", "."}
    BY <2>1, Zenon DEF IsValidSniHostname, Range, Alphanumeric, Letters
  <2>4. QED
    BY <2>2, <2>3, Zenon
<1>4. l \in [1 .. Len(h) -> C]
  <2>1. l = [i \in DOMAIN l |-> l[i]]
    BY <1>2, Zenon DEF Lower
  <2>2. QED
    BY <1>1, <1>2, <1>3, <2>1, Zenon
<1>5. QED
  BY <1>1, <1>4, SMT, SMTT(30) DEF Names

LEMMA MatchedName ==
    ASSUME NEW e, NEW s \in Streams, NEW n, NEW max, Classify(e, s, n, max).tag = "Matched"
    PROVE  Classify(e, s, n, max).host \in Names
<1> DEFINE good == IsValidSniHostname(Lower(s.host))
           v == Classify(e, s, n, max)
<1>1. v \in {Abort, NeedMore} \/ (v = Matched(s.host) /\ good)
  <2>1. ParseSni(s) = Abort \/ (ParseSni(s) = Matched(s.host) /\ good)
    BY Zenon DEF ParseSni
  <2>2. ParseHost(s) = Abort \/ (ParseHost(s) = Matched(s.host) /\ good)
    BY Zenon DEF ParseHost
  <2>3. SniffTls(s, n, max) \in {Abort, NeedMore, ParseSni(s)}
    BY Zenon DEF SniffTls
  <2>4. SniffHttp(s, n, max) \in {Abort, NeedMore, ParseHost(s)}
    BY Zenon DEF SniffHttp
  <2>5. v \in {Abort, SniffTls(s, n, max), SniffHttp(s, n, max)}
    BY Zenon DEF Classify
  <2> HIDE DEF good, v
  <2>6. QED
    BY <2>1, <2>2, <2>3, <2>4, <2>5, Zenon
<1>2. Abort.tag # "Matched" /\ NeedMore.tag # "Matched" /\ Matched(s.host).host = Lower(s.host)
  BY Zenon DEF Abort, NeedMore, Matched
<1> HIDE DEF v
<1>3. v = Matched(s.host) /\ good
  BY <1>1, <1>2, Zenon DEF v
<1>4. s.host \in Seq(STRING)
  BY StreamAssumption, Zenon
<1>5. Lower(s.host) \in Names
  BY <1>3, <1>4, ValidName, Zenon
<1>6. QED
  BY <1>2, <1>3, <1>5, Zenon DEF v

LEMMA NameBytes ==
    ASSUME NEW d \in Names
    PROVE  AsBytes(d) \in Seq(Byte)
<1>1. DOMAIN d = 1 .. Len(d) /\ Len(d) \in Nat
  BY LenProperties, Zenon DEF Names
<1>2. \A i \in DOMAIN d : d[i] \in {"a", "b", "1", "-", "."}
  BY <1>1, ElementOfSeq, Zenon DEF Names
<1>3. AsBytes(d) \in [DOMAIN d -> {97, 98, 49, 45, 46}]
  BY <1>2, Zenon DEF AsBytes
<1>4. AsBytes(d) \in [1 .. Len(d) -> Byte]
  <2>1. {97, 98, 49, 45, 46} \subseteq Byte
    BY SMT, SMTT(30) DEF Byte
  <2>2. QED
    BY <1>1, <1>3, <2>1, SMT, SMTT(30)
<1>5. QED
  BY <1>1, <1>4, SMT, SMTT(30)

FrontInv ==
    /\ sniffing \in {"peek", "wait", "done", "over"}
    /\ sniffing # "over" => stream \in Streams
    /\ found \in {None} \cup Names
    /\ query # None => query.domain \in {None} \cup Names /\ query.dst \in DstIps
    /\ SocksInv

LEMMA SniffFront == FrontInv /\ SniffNext /\ UNCHANGED <<socksVars, query>> => FrontInv'
<1> SUFFICES ASSUME FrontInv, SniffNext, UNCHANGED <<socksVars, query>> PROVE FrontInv'
  BY Zenon
<1>1. SocksInv'
  BY SameSocks, Zenon DEF FrontInv
<1>2. CASE Arrive
  BY <1>1, <1>2, Zenon DEF FrontInv, Arrive
<1>3. CASE Peek
  <2> DEFINE e == Engines[engine]
             verdict == Classify(e, stream, Min({arrived, peek}), MaxLen(e))
  <2>1. sniffing = "peek" /\ stream' = stream /\ stream \in Streams
    BY <1>3, Zenon DEF Peek, FrontInv
  <2>2. \/ verdict.tag = "Matched" /\ found' = verdict.host /\ sniffing' = "done"
        \/ sniffing' = "wait" /\ found' = found
        \/ GiveUp
    BY <1>3, Zenon DEF Peek
  <2>3. verdict.tag = "Matched" => verdict.host \in Names
    BY <2>1, MatchedName, ZenonT(30)
  <2> HIDE DEF verdict
  <2>4. found' \in {None} \cup Names /\ sniffing' \in {"peek", "wait", "done"}
    BY <2>2, <2>3, Zenon DEF GiveUp, FrontInv
  <2>5. QED
    BY <1>1, <2>1, <2>4, Zenon DEF FrontInv
<1>4. CASE WaitForMore
  BY <1>1, <1>4, Zenon DEF FrontInv, WaitForMore
<1>5. CASE Expire
  BY <1>1, <1>5, Zenon DEF FrontInv, Expire, GiveUp
<1>6. QED
  BY <1>2, <1>3, <1>4, <1>5, Zenon DEF SniffNext

LEMMA TargetAddress ==
    ASSUME FrontInv, query # None
    PROVE  UpstreamTarget(query) \in Addresses
<1>1. query.domain \in {None} \cup Names /\ query.dst \in DstIps
  BY Zenon DEF FrontInv
<1>2. CASE query.domain = None
  BY <1>1, <1>2, FrontEndAssumption, Zenon DEF UpstreamTarget
<1>3. CASE query.domain # None
  <2>1. AsBytes(query.domain) \in Seq(Byte)
    BY <1>1, <1>3, NameBytes, Zenon
  <2>2. UpstreamTarget(query) = [atyp |-> DOMAIN_NAME, addr |-> AsBytes(query.domain)]
    BY <1>3, Zenon DEF UpstreamTarget
  <2>3. QED
    BY <2>1, <2>2, SMT, SMTT(30) DEF Addresses, V4, V6, DOMAIN_NAME
<1>4. QED
  BY <1>2, <1>3, Zenon

\* Every step of the front end keeps the client exact.
LEMMA FrontStep == FrontInv /\ [Next]_vars => FrontInv'
<1> SUFFICES ASSUME FrontInv, [Next]_vars PROVE FrontInv'
  BY Zenon
<1>1. CASE SniffNext /\ UNCHANGED <<socksVars, query>>
  BY <1>1, SniffFront, Zenon
<1>2. CASE Sniffed
  <2>1. SocksInv'
    BY <1>2, SameSocks, Zenon DEF FrontInv, Sniffed
  <2>2. QED
    BY <1>2, <2>1, Zenon DEF FrontInv, Sniffed
<1>3. CASE Route
  <2>1. SocksInv'
    BY <1>3, SameSocks, Zenon DEF FrontInv, Route
  <2>2. UNCHANGED <<stream, sniffing, found>>
    BY <1>3, Zenon DEF Route, sniffVars
  <2>3. query'.domain = found /\ query'.dst \in DstIps
    BY <1>3, SMT, SMTT(30) DEF Route
  <2>4. QED
    BY <2>1, <2>2, <2>3, Zenon DEF FrontInv
<1>4. CASE Proxy
  <2>1. SocksInv'
    <3>1. UpstreamTarget(query) \in Addresses
      BY <1>4, TargetAddress, Zenon DEF Proxy
    <3>2. QED
      BY <1>4, <3>1, BeginSocks, Zenon DEF Proxy
  <2>2. QED
    BY <1>4, <2>1, Zenon DEF FrontInv, Proxy
<1>5. CASE HealthCheck
  <2>1. SocksInv'
    <3>1. PICK url \in CheckUrls : SocksBegin([atyp |-> DOMAIN_NAME, addr |-> url])
      BY <1>5, Zenon DEF HealthCheck
    <3>2. [atyp |-> DOMAIN_NAME, addr |-> url] \in Addresses
      BY FrontEndAssumption, SMT, SMTT(30) DEF Addresses, V4, V6, DOMAIN_NAME
    <3>3. QED
      BY <3>1, <3>2, BeginSocks, Zenon
  <2>2. QED
    BY <1>5, <2>1, Zenon DEF FrontInv, HealthCheck
<1>6. CASE SocksNext /\ UNCHANGED <<sniffVars, query>>
  <2>1. SocksInv'
    BY <1>6, DialSocks, MethodSocks, AuthSocks, ReplySocks, AddressSocks, TimeoutSocks, ExchangeSocks,
       Zenon DEF FrontInv, SocksNext
  <2>2. QED
    BY <1>6, <2>1, Zenon DEF FrontInv, sniffVars
<1>7. CASE UNCHANGED vars
  <2>1. UNCHANGED <<sniffVars, socksVars, query>>
    BY <1>7, Zenon DEF vars
  <2>2. SocksInv'
    BY <2>1, SameSocks, Zenon DEF FrontInv
  <2>3. QED
    BY <2>1, <2>2, Zenon DEF FrontInv, sniffVars
<1>8. QED
  BY <1>1, <1>2, <1>3, <1>4, <1>5, <1>6, <1>7, Zenon DEF Next

\* With whatever user and password, whatever bytes a server sends, and wherever
\* it stops, a handshake succeeds exactly if user, password and target can be
\* sent, the server went along with all of it and no timer ran out; it asks for
\* the target, leaves the stream at the first byte of the connection and takes
\* the address of the association from the reply; and a packet with any head,
\* type of address and length is passed on whole or dropped (socks5_auth,
\* socks5_connect, socks5_udp_associate_for_client and the two packet
\* functions, called for a connection or by check_upstream_health).
THEOREM Socks5ExactHolds == Spec => []Socks5Exact
<1>1. Init => FrontInv
  BY IdleSocks, Zenon DEF Init, SniffInit, FrontInv
<1>2. FrontInv => Socks5Exact
  BY Zenon DEF FrontInv, SocksInv
<1>3. QED
  BY <1>1, <1>2, FrontStep, PTL DEF Spec

=============================================================================
