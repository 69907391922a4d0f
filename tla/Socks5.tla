------------------------------- MODULE Socks5 -------------------------------
(***************************************************************************)
(* The SOCKS5 client (src/socks5.rs): the handshake of socks5_connect and  *)
(* socks5_udp_associate_for_client, and the UDP packets that go through    *)
(* an association.                                                         *)
(*                                                                         *)
(* A byte is a number.  What the server sends is one byte sequence, which  *)
(* may end anywhere; read_exact takes the given number of bytes from it,   *)
(* or fails.  The reply of the server is followed at once by the first     *)
(* bytes of the connection, if the other side speaks first.                *)
(***************************************************************************)
EXTENDS DomainNames

CONSTANTS
    Credentials,  \* what may be configured: None, or the lengths of user and pass
    Targets,      \* where packets come from: [atyp, addr]
    Servers,      \* servers: version, method, auth, code, rsv, atyp, addr, cut
    RelayAddr,    \* the address a relay domain of the server resolves to
    ProxyAddr,    \* the address of the server itself
    OrigDst,      \* target_addr of the session that made the association
    FromServer    \* the first bytes of the connection

V4 == 1
DOMAIN_NAME == 3
V6 == 4
PORT == <<0, 80>>

\* The addresses: those of a family have its length.
Byte == 0 .. 255
Addresses ==
    {t \in [atyp : {V4, DOMAIN_NAME, V6}, addr : Seq(Byte)] :
        /\ t.atyp = V4 => Len(t.addr) = 4
        /\ t.atyp = V6 => Len(t.addr) = 16}

VARIABLES
    target,     \* what is asked for
    command,    \* "connect" or "associate"
    creds,      \* None, or the user and the password
    server,     \* the server that is spoken to
    asked,      \* the request as sent
    rest,       \* what the server sends and has not been read yet
    socks,      \* program counter: what is read next
    relay,      \* relay_addr of the association
    answer,     \* a packet that came through the association: head, from, cut
    heard,      \* what was made of it
    late        \* history: connect_timeout ran out, or no connection

udpVars == <<answer, heard>>
socksVars == <<target, command, creds, server, asked, rest, socks, relay, udpVars, late>>

\* The address as it is encoded: a name carries its length.
Encoded(t) == IF t.atyp = DOMAIN_NAME THEN <<Len(t.addr)>> \o t.addr ELSE t.addr

(***************************************************************************)
(* What the server sends (external).                                       *)
(***************************************************************************)
Head5(s) == <<s.version, s.method>> \o (IF s.method = 2 THEN <<1, s.auth>> ELSE <<>>)
Answer(s) == <<5, s.code, s.rsv, s.atyp>> \o Encoded(s) \o PORT
Sent(s) == SubSeq(Head5(s) \o Answer(s) \o FromServer, 1, s.cut)

\* Whatever a server sends consists of bytes, and ends somewhere; the length
\* of a name is a byte, too, also in a packet.  The type of an address may be
\* one that there is not.
ASSUME SocksAssumption ==
    /\ Credentials \subseteq {None} \cup [user : Nat, pass : Nat]
    /\ FromServer \in Seq(Byte)
    /\ {ProxyAddr, RelayAddr} \subseteq {t \in Addresses : t.atyp # DOMAIN_NAME}
    /\ Targets \subseteq [atyp : Byte, addr : Seq(Byte)]
    /\ \A s \in Servers \cup Targets :
          /\ s.atyp = V4 => Len(s.addr) = 4
          /\ s.atyp = V6 => Len(s.addr) = 16
          /\ s.atyp = DOMAIN_NAME => Len(s.addr) \in Byte
    /\ \A s \in Servers :
          /\ {s.version, s.method, s.auth, s.code, s.rsv, s.atyp} \subseteq Byte
          /\ s.addr \in Seq(Byte)
          /\ s.cut \in 0 .. Len(Head5(s) \o Answer(s) \o FromServer)

\* How a server decodes a request: command, reserved byte, type, address, port.
ServerReads(bytes) ==
    LET addr == IF bytes[4] = DOMAIN_NAME
                THEN SubSeq(bytes, 6, 5 + bytes[5])
                ELSE SubSeq(bytes, 5, 4 + (IF bytes[4] = V4 THEN 4 ELSE 16))
    IN [command |-> bytes[2], atyp |-> bytes[4], addr |-> addr,
        port |-> SubSeq(bytes, Len(bytes) - 1, Len(bytes))]

SocksIdle ==
    /\ target = None /\ command = None /\ creds = None /\ server = None
    /\ asked = <<>> /\ rest = <<>> /\ socks = "idle" /\ relay = None /\ late = FALSE
    /\ answer = None /\ heard = None

SocksBegin(t) ==
    /\ target' = t
    /\ socks' = "dial"
    /\ UNCHANGED <<command, creds, server, asked, rest, relay, udpVars, late>>

\* socks5_auth sends neither an empty user or password nor one of more than
\* 255 bytes; nothing checks them before.
Usable(c) == c = None \/ {c.user, c.pass} \subseteq 1 .. 255

\* The TCP connection to some server, for a TCP connection or for a UDP
\* session; what that server is going to send.
Dial ==
    /\ socks = "dial"
    /\ command' \in {"connect", "associate"}
    /\ creds' \in Credentials
    /\ server' \in Servers
    /\ rest' = Sent(server')
    /\ socks' = IF Usable(creds') THEN "method" ELSE "failed"
    /\ UNCHANGED <<target, asked, relay, udpVars, late>>

(***************************************************************************)
(* The reads of the handshake.                                             *)
(***************************************************************************)
Fails == socks' = "failed" /\ UNCHANGED <<asked, rest, relay>>
Takes(n) == rest' = SubSeq(rest, n + 1, Len(rest))

\* The request: socks5_connect names the target, an association leaves the
\* address open, in the family of the server.
Request ==
    IF command = "connect"
    THEN <<5, 1, 0, target.atyp>> \o Encoded(target) \o PORT
    ELSE <<5, 3, 0, ProxyAddr.atyp>> \o [i \in DOMAIN ProxyAddr.addr |-> 0] \o <<0, 0>>

\* A domain of no character, or of more than 255, is not sent.
Writable == command = "associate" \/ target.atyp # DOMAIN_NAME \/ Len(target.addr) \in 1 .. 255

\* socks5_auth returns: the request is written, or refused by the client.
SendRequest ==
    IF Writable
    THEN asked' = Request /\ socks' = "reply" /\ UNCHANGED relay
    ELSE socks' = "failed" /\ UNCHANGED <<asked, relay>>

\* Method selection: the only method that is accepted depends on creds.
ReadMethod ==
    /\ socks = "method"
    /\ IF Len(rest) >= 2 /\ rest[1] = 5 /\ rest[2] = (IF creds # None THEN 2 ELSE 0)
       THEN /\ Takes(2)
            /\ IF creds # None THEN socks' = "auth" /\ UNCHANGED <<asked, relay>> ELSE SendRequest
       ELSE Fails
    /\ UNCHANGED <<target, command, creds, server, udpVars, late>>

ReadAuth ==
    /\ socks = "auth"
    /\ IF Len(rest) >= 2 /\ SubSeq(rest, 1, 2) = <<1, 0>>
       THEN Takes(2) /\ SendRequest
       ELSE Fails
    /\ UNCHANGED <<target, command, creds, server, udpVars, late>>

ReadReply ==
    /\ socks = "reply"
    /\ IF Len(rest) >= 4 /\ SubSeq(rest, 1, 3) = <<5, 0, 0>> /\ rest[4] \in {V4, DOMAIN_NAME, V6}
       THEN /\ Takes(4)
            /\ socks' = CASE rest[4] = V4 -> "v4" [] rest[4] = V6 -> "v6" [] OTHER -> "name"
            /\ UNCHANGED <<asked, relay>>
       ELSE Fails
    /\ UNCHANGED <<target, command, creds, server, udpVars, late>>

\* 0.0.0.0 and [::] stand for the server itself.
Effective(t) == IF t.atyp # DOMAIN_NAME /\ Range(t.addr) = {0} THEN ProxyAddr ELSE t

\* Mutation of AddressLength: the port that follows a name is forgotten.
NameOnly(n) == CASE socks = "v4" -> 6 [] socks = "v6" -> 18 [] OTHER -> 1 + n

\* The bytes of the address and the port, after the type.
AddressLength(n) == CASE socks = "v4" -> 6 [] socks = "v6" -> 18 [] OTHER -> 1 + n + 2

\* The address of the reply: skipped by socks5_connect, decoded (a name is
\* also resolved) by socks5_udp_associate_for_client.
ReadAddress ==
    LET n == IF socks = "name" /\ rest # <<>> THEN rest[1] ELSE 0
        len == AddressLength(n)
        ip == [atyp |-> IF socks = "v4" THEN V4 ELSE V6, addr |-> SubSeq(rest, 1, len - 2)]
    IN /\ socks \in {"v4", "v6", "name"}
       /\ IF Len(rest) >= len
          THEN /\ Takes(len)
               /\ \/ command = "connect" /\ socks' = "ready" /\ UNCHANGED relay
                  \/ /\ command = "associate" /\ socks' = "ready"
                     /\ relay' = Effective(IF socks = "name" THEN RelayAddr ELSE ip)
                  \/ command = "associate" /\ socks = "name" /\ socks' = "failed" /\ UNCHANGED relay
               /\ late' = (late \/ socks' = "failed")    \* the resolver failed
               /\ UNCHANGED asked
          ELSE Fails /\ UNCHANGED late
       /\ UNCHANGED <<target, command, creds, server, udpVars>>

\* The timeout around the whole handshake, or a connection that is not made.
Timeout ==
    /\ socks \in {"method", "auth", "reply", "v4", "v6", "name"}
    /\ socks' = "failed"
    /\ late' = TRUE
    /\ UNCHANGED <<target, command, creds, server, asked, rest, relay, udpVars>>

(***************************************************************************)
(* UDP packets: build_socks5_udp_packet, and                               *)
(* parse_socks5_udp_packet_with_fallback_src for the answers.              *)
(***************************************************************************)
BuildUdpPacket(t, payload) == <<0, 0, 0, t.atyp>> \o Encoded(t) \o PORT \o payload

ParseUdpPacket(pkt, fallback) ==
    LET n == IF pkt[4] = DOMAIN_NAME /\ Len(pkt) >= 5 THEN pkt[5] ELSE 0
        off == 4 + (CASE pkt[4] = V4 -> 6 [] pkt[4] = V6 -> 18 [] OTHER -> 1 + n + 2)
    IN IF /\ Len(pkt) >= 4
          /\ SubSeq(pkt, 1, 3) = <<0, 0, 0>>
          /\ pkt[4] \in {V4, DOMAIN_NAME, V6}
          /\ Len(pkt) >= off
       THEN [src |-> IF pkt[4] = DOMAIN_NAME THEN fallback
                     ELSE [atyp |-> pkt[4], addr |-> SubSeq(pkt, 5, off - 2)],
             payload |-> SubSeq(pkt, off + 1, Len(pkt))]
       ELSE None

\* A packet comes through the association: with any reserved bytes and number
\* of a fragment before the address, and perhaps truncated.
Packet(a) ==
    LET pkt == BuildUdpPacket(a.from, FromServer)
    IN SubSeq([i \in DOMAIN pkt |-> IF i <= 3 THEN a.head[i] ELSE pkt[i]], 1, a.cut)

Exchange ==
    /\ socks = "ready" /\ command = "associate"
    /\ \E head \in [1 .. 3 -> {0, 1}], from \in Targets :
          \E cut \in 0 .. Len(BuildUdpPacket(from, FromServer)) :
             answer' = [head |-> head, from |-> from, cut |-> cut]
    /\ heard' = ParseUdpPacket(Packet(answer'), OrigDst)
    /\ socks' = "heard"
    /\ UNCHANGED <<target, command, creds, server, asked, rest, relay, late>>

SocksNext == Dial \/ ReadMethod \/ ReadAuth \/ ReadReply \/ ReadAddress \/ Timeout \/ Exchange

-----------------------------------------------------------------------------
\* The server goes along with the whole handshake and sends all of it.
Accepts(s) ==
    /\ s.version = 5 /\ s.method = (IF creds # None THEN 2 ELSE 0)
    /\ s.method = 2 => s.auth = 0
    /\ s.code = 0 /\ s.rsv = 0 /\ s.atyp \in {V4, DOMAIN_NAME, V6}
    /\ s.cut >= Len(Head5(s) \o Answer(s))

(***************************************************************************)
(* A handshake succeeds exactly if user, password and target can be sent,  *)
(* the server went along with all of it and no timer ran out; the server   *)
(* was asked for the target; and the stream is then at the first byte that *)
(* belongs to the connection, with none of it lost and none of the reply   *)
(* left, whatever address the reply carries.  An association sends to the  *)
(* address of the reply, or to the server when that address is             *)
(* unspecified; a packet that comes back is passed on with its source and  *)
(* its whole payload, or dropped if its header is cut, its reserved bytes  *)
(* are not zero, it is a fragment or its type of address is unknown        *)
(* (socks5_auth, socks5_connect, socks5_udp_associate_for_client and the   *)
(* two packet functions).                                                  *)
(***************************************************************************)
Socks5Exact ==
    /\ socks = "failed" /\ ~late => ~Accepts(server) \/ ~Writable \/ ~Usable(creds)
    /\ socks = "ready" =>
          /\ Accepts(server) /\ Usable(creds)
          /\ Head5(server) \o Answer(server) \o rest = Sent(server)
          /\ command = "connect" => ServerReads(asked) =
                [command |-> 1, atyp |-> target.atyp, addr |-> target.addr, port |-> PORT]
          /\ command = "associate" => relay =
                IF server.atyp = DOMAIN_NAME THEN Effective(RelayAddr)
                ELSE IF Range(server.addr) = {0} THEN ProxyAddr
                ELSE [atyp |-> server.atyp, addr |-> server.addr]
    /\ socks = "heard" =>
          LET header == Len(BuildUdpPacket(answer.from, <<>>))
          IN heard = IF \/ answer.head # <<0, 0, 0>> \/ answer.cut < header
                        \/ answer.from.atyp \notin {V4, DOMAIN_NAME, V6} THEN None
                     ELSE [src |-> IF answer.from.atyp = DOMAIN_NAME THEN OrigDst ELSE answer.from,
                           payload |-> SubSeq(FromServer, 1, answer.cut - header)]

=============================================================================
