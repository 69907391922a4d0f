----------------------------- MODULE SniffLoop -----------------------------
(***************************************************************************)
(* Finding the domain at the head of a client's stream (src/sniff/mod.rs)  *)
(* with the TLS and HTTP engines (src/sniff/tls.rs, tls_common.rs and      *)
(* http.rs).  sniff_domain asks the engines in turn; each looks at a       *)
(* prefix of what has arrived, without consuming it, and at a longer one   *)
(* when that is not enough, while the client goes on sending.              *)
(*                                                                         *)
(* A stream is what its lengths and names make of it:                      *)
(*   TLS   records with their end in the stream and their kind, the length *)
(*         of the handshake message, whether it is a well-formed           *)
(*         ClientHello, and its extensions;                                *)
(*   HTTP  lines with their end (after CRLF) and kind.                     *)
(* host is the name the client put into it, port how a Host line goes on.  *)
(***************************************************************************)
EXTENDS DomainNames

CONSTANTS
    Streams,       \* streams a client may send
    Engines,       \* sequence of [proto, peek_len, max_len, max_retries]
    PeekBuffer,    \* tcp_peek_buffer_size
    MaxRecordLen,  \* MAX_TLS_RECORD_PAYLOAD, 18 KiB in the code
    EchOuterName   \* the cover name of encrypted hellos

RECORD_HEADER == 5
MESSAGE_HEADER == 4
BLANK_LINE == 2

VARIABLES
    stream,     \* what the client sends
    arrived,    \* bytes of it that are in the socket
    eof,        \* the client has closed its side
    engine,     \* index of the engine that is asked
    peek,       \* peek_len
    last,       \* last_peek_len
    attempt,    \* attempt
    sniffing,   \* "peek", "wait" or "done"
    found,      \* the domain, or None
    ready,      \* history: all that is needed had arrived at the beginning
    expired     \* history: a timer ran out or a peek failed

sniffVars == <<stream, arrived, eof, engine, peek, last, attempt, sniffing, found, ready, expired>>

(***************************************************************************)
(* The engines: what the first n bytes tell.                               *)
(***************************************************************************)
NeedMore == [tag |-> "NeedMore"]
Abort == [tag |-> "Abort"]
Matched(h) == [tag |-> "Matched", host |-> Lower(h)]

\* parse_sni_from_client_hello_body, with is_filtered_ech_outer_name
ParseSni(s) ==
    IF /\ s.wellFormed
       /\ "sni" \in Range(s.extensions)
       /\ IsValidSniHostname(Lower(s.host))
       /\ Lower(s.host) # EchOuterName
    THEN Matched(s.host) ELSE Abort

\* Where the first k records end, and the bytes of the handshake in them.
RecordEnd(s, k) == IF k = 0 THEN 0 ELSE s.records[k].end
Payload(s, k) == RecordEnd(s, k) - k * RECORD_HEADER
RecordLen(s, k) == Payload(s, k) - Payload(s, k - 1)

\* sniff_tls_sni_from_prefix: the records are read in order, up to the first
\* that is not a handshake record of a legal length, or decides about the
\* message.
SniffTls(s, n, max) ==
    LET all == DOMAIN s.records
        foreign == {k \in all : /\ RecordEnd(s, k - 1) + RECORD_HEADER <= n
                                /\ \/ s.records[k].kind # "handshake"
                                   \/ RecordLen(s, k) \notin 1 .. MaxRecordLen}
        whole == {k \in all : RecordEnd(s, k) <= n}
        decisive == {k \in whole : /\ Payload(s, k) >= MESSAGE_HEADER
                                   /\ \/ ~s.hello
                                      \/ s.total > max
                                      \/ Payload(s, k) >= s.total}
        stops == foreign \cup decisive
    IN CASE n = 0 \/ s.records[1].kind # "handshake" -> Abort
         [] n > 0 /\ s.records[1].kind = "handshake" /\ stops = {} -> NeedMore
         [] OTHER -> IF Min(stops) \in foreign \/ ~s.hello \/ s.total > max
                     THEN Abort ELSE ParseSni(s)

\* parse_http_host_header_value
ParseHost(s) ==
    IF s.port # "bad" /\ IsValidSniHostname(Lower(s.host)) THEN Matched(s.host) ELSE Abort

HeaderEnd(s) == s.lines[Len(s.lines)].end + BLANK_LINE

\* sniff_http_host_from_prefix, with definitely_not_http_1x_prefix and
\* looks_like_http_1x_request_line: the request line is judged as soon as it
\* is there, the others when the header is complete, if all of it is UTF-8
\* (a line that is not is "not text").
SniffHttp(s, n, max) ==
    LET telling == {k \in 2 .. Len(s.lines) : s.lines[k].kind \in {"host", "no colon"}}
    IN CASE n = 0 \/ s.lines[1].kind = "binary" -> Abort
         [] /\ n > 0 /\ s.lines[1].kind # "binary"
            /\ n >= s.lines[1].end /\ s.lines[1].kind # "request" -> Abort
         [] OTHER ->
               IF n < HeaderEnd(s) THEN (IF n >= max THEN Abort ELSE NeedMore)
               ELSE IF /\ \A k \in DOMAIN s.lines : s.lines[k].kind # "not text"
                       /\ telling # {} /\ s.lines[Min(telling)].kind = "host"
               THEN ParseHost(s) ELSE Abort

\* Sniffer::classify; a stream of another protocol fails on its first byte.
Classify(e, s, n, max) ==
    IF e.proto # s.proto THEN Abort
    ELSE IF e.proto = "tls" THEN SniffTls(s, n, max) ELSE SniffHttp(s, n, max)

(***************************************************************************)
(* sniff_with_engine.                                                      *)
(***************************************************************************)
AtLeastOne(n) == Max({n, 1})
MaxLen(e) == Min({AtLeastOne(e.max_len), AtLeastOne(PeekBuffer)})
FirstLen(e) == Min({AtLeastOne(e.peek_len), MaxLen(e)})
NextLen(e, n) == Min({2 * n, MaxLen(e)})

StreamLen(s) == IF s.proto = "tls" THEN RecordEnd(s, Len(s.records)) ELSE HeaderEnd(s)

\* The bytes up to the end of the ClientHello, or of the header.
LastRecord(s) == Min({k \in DOMAIN s.records : Payload(s, k) >= s.total})
Needed(s) == IF s.proto = "tls" THEN RecordEnd(s, LastRecord(s)) ELSE HeaderEnd(s)

\* Records and lines follow each other, a message has a header and is in the
\* records, and a name is text, of whatever characters.
ASSUME StreamAssumption ==
    \A s \in Streams :
        /\ s.host \in Seq(STRING)
        /\ s.proto \in {"tls", "http"}
        /\ s.proto = "tls" =>
              /\ s.records \in Seq([end : Nat, kind : STRING])
              /\ \A k \in DOMAIN s.records : \A i \in 0 .. k - 1 :
                    RecordEnd(s, i) + (k - i) * RECORD_HEADER <= RecordEnd(s, k)
              /\ s.total \in Nat /\ s.total >= MESSAGE_HEADER
              /\ \E k \in DOMAIN s.records : Payload(s, k) >= s.total
        /\ s.proto = "http" =>
              /\ s.lines \in Seq([end : Nat, kind : STRING])
              /\ s.lines # <<>>
              /\ \A i, k \in DOMAIN s.lines : i < k => s.lines[i].end < s.lines[k].end

\* A list without an engine finds nothing, and is left out.
ASSUME EngineAssumption ==
    /\ Engines \in Seq([proto : STRING, peek_len : Nat, max_len : Nat, max_retries : Nat])
    /\ Engines # <<>>
    /\ PeekBuffer \in Nat /\ MaxRecordLen \in Nat

SniffInit ==
    /\ stream \in Streams
    /\ arrived \in 0 .. StreamLen(stream)
    /\ eof = FALSE
    /\ engine = 1
    /\ peek = FirstLen(Engines[1])
    /\ last = 0
    /\ attempt = 0
    /\ sniffing = "peek"
    /\ found = None
    /\ ready = (arrived >= Needed(stream))
    /\ expired = FALSE

\* More of the stream arrives, or the client closes its side.
Arrive ==
    /\ sniffing \in {"peek", "wait"} /\ ~eof
    /\ \/ arrived' \in arrived + 1 .. StreamLen(stream) /\ eof' = FALSE
       \/ eof' = TRUE /\ UNCHANGED arrived
    /\ UNCHANGED <<stream, engine, peek, last, attempt, sniffing, found, ready, expired>>

\* The engine gives up: the next one starts afresh, if there is one.
GiveUp ==
    /\ IF engine < Len(Engines)
       THEN /\ engine' = engine + 1
            /\ peek' = FirstLen(Engines[engine + 1])
            /\ sniffing' = "peek"
       ELSE sniffing' = "done" /\ UNCHANGED <<engine, peek>>
    /\ last' = 0
    /\ attempt' = 0
    /\ UNCHANGED found

\* should_retry_sniff
ShouldRetrySniff(e, n) == attempt < e.max_retries /\ n > 0 /\ n > last

\* peek_client_prefix, which blocks until there is a byte or the end of the
\* stream, and what the loop makes of it.
Peek ==
    LET e == Engines[engine]
        n == Min({arrived, peek})
        verdict == Classify(e, stream, n, MaxLen(e))
    IN /\ sniffing = "peek"
       /\ arrived > 0 \/ eof
       /\ \/ /\ verdict.tag = "Matched"
             /\ found' = verdict.host
             /\ sniffing' = "done"
             /\ UNCHANGED <<engine, peek, last, attempt>>
          \/ /\ verdict.tag = "NeedMore"
             /\ ShouldRetrySniff(e, n) /\ NextLen(e, peek) > peek
             /\ last' = n
             /\ sniffing' = "wait"
             /\ UNCHANGED <<engine, peek, attempt, found>>
          \/ /\ \/ verdict.tag = "Abort"
                \/ verdict.tag = "NeedMore" /\ ~(ShouldRetrySniff(e, n) /\ NextLen(e, peek) > peek)
             /\ GiveUp
       /\ UNCHANGED <<stream, arrived, eof, ready, expired>>

\* Mutation of WaitForMore: the next prefix is as short as the last one.
SamePrefix ==
    /\ sniffing = "wait"
    /\ Min({arrived, NextLen(Engines[engine], peek)}) > last
    /\ attempt' = attempt + 1
    /\ sniffing' = "peek"
    /\ UNCHANGED <<stream, arrived, eof, engine, peek, last, found, ready, expired>>

\* wait_for_more_peek_data sees more than the last prefix.
WaitForMore ==
    /\ sniffing = "wait"
    /\ Min({arrived, NextLen(Engines[engine], peek)}) > last
    /\ peek' = NextLen(Engines[engine], peek)
    /\ attempt' = attempt + 1
    /\ sniffing' = "peek"
    /\ UNCHANGED <<stream, arrived, eof, engine, last, found, ready, expired>>

\* wait_more or the timeout of the engine runs out, or the peek fails.
Expire ==
    /\ sniffing \in {"peek", "wait"}
    /\ GiveUp
    /\ expired' = TRUE
    /\ UNCHANGED <<stream, arrived, eof, ready>>

SniffNext == Arrive \/ Peek \/ WaitForMore \/ Expire

-----------------------------------------------------------------------------
\* The name a stream carries in the clear, whole and where it belongs, in
\* records of a legal length or in a header that is text.
Carried(s) ==
    LET plain == IF s.proto = "tls"
                 THEN /\ s.wellFormed /\ s.hello
                      /\ \A i \in 1 .. LastRecord(s) :
                            s.records[i].kind = "handshake" /\ RecordLen(s, i) \in 1 .. MaxRecordLen
                      /\ "sni" \in Range(s.extensions)
                      /\ Lower(s.host) # EchOuterName
                 ELSE /\ s.lines[1].kind = "request" /\ s.port # "bad"
                      /\ \A i \in DOMAIN s.lines : s.lines[i].kind # "not text"
                      /\ \E i \in DOMAIN s.lines :
                            /\ s.lines[i].kind = "host"
                            /\ \A j \in 1 .. i : s.lines[j].kind # "no colon"
    IN IF plain /\ IsValidSniHostname(Lower(s.host)) THEN Lower(s.host) ELSE None

\* The engine of the stream's protocol can look far enough, in length and in
\* the number of attempts.
InReach(s) ==
    \E e \in Range(Engines) :
        /\ e.proto = s.proto
        /\ Needed(s) <= Min({MaxLen(e), FirstLen(e) * 2 ^ e.max_retries})

(***************************************************************************)
(* The sniffers report no name but the one the client sent, whatever part  *)
(* of the stream they get to see; and they do report it when it was there  *)
(* from the beginning, within the limits of the configuration, and no      *)
(* timer ran out (sniff_domain, sniff_with_engine and the two parsers).    *)
(* A name in a header with a byte that is not UTF-8, anywhere in it, or in *)
(* a hello with a record above 18 KiB does not count as sent: the parsers  *)
(* take such a stream for another protocol.                                *)
(***************************************************************************)
SniffFindsHost ==
    sniffing = "done" =>
        /\ found \in {None, Carried(stream)}
        /\ ready /\ ~expired /\ InReach(stream) => found = Carried(stream)

=============================================================================
