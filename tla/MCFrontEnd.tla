----------------------------- MODULE MCFrontEnd -----------------------------
(* A small instance of FrontEnd for TLC. *)
EXTENDS FrontEnd

A == <<"A">>
BA == <<"b", ".", "a">>
AB == <<"a", "b">>
ABA == <<"a", "b", ".", "A">>
NoLetter == <<"1", ".", "1">>
Dotted == <<"a", ".">>
LongName == <<"a", ".", "b", ".", "a">>
LongLabel == <<"a", "b", "a">>

-----------------------------------------------------------------------------
(* Streams: hellos in one and in two records, with the name whole, missing,
   covered, malformed or too long, and in a record above the limit; headers
   with the name first, last or missing, and with a line that is not text. *)
Rec(len) == [len |-> len, kind |-> "handshake"]
Placed(records) ==
    [i \in DOMAIN records |->
        [end |-> MapThenSumSet(LAMBDA j : RECORD_HEADER + records[j].len, 1 .. i), kind |-> records[i].kind]]
Tls(records, total, hello, ok, ext, host) ==
    [proto |-> "tls", records |-> Placed(records), total |-> total, hello |-> hello,
     wellFormed |-> ok, extensions |-> ext, host |-> host]
MCTls ==
    {Tls(r, 6, TRUE, TRUE, <<"other", "sni">>, h) :
        r \in {<<Rec(6)>>, <<Rec(2), Rec(4)>>, <<Rec(6), [len |-> 2, kind |-> "alert"]>>,
               <<Rec(3), [len |-> 3, kind |-> "alert"]>>, <<Rec(3), Rec(0), Rec(3)>>},
        h \in {ABA, AB, Dotted, LongName, LongLabel}}
    \cup {Tls(r, 14, TRUE, TRUE, <<"sni">>, A) : r \in {<<Rec(14)>>, <<Rec(12), Rec(2)>>, <<Rec(2), Rec(13)>>}}
    \cup {Tls(<<Rec(4), Rec(5)>>, 9, TRUE, TRUE, <<"sni">>, A),
          Tls(<<Rec(20)>>, 20, TRUE, TRUE, <<"sni">>, A),
          Tls(<<Rec(6)>>, 6, FALSE, TRUE, <<"sni">>, A),
          Tls(<<Rec(6)>>, 6, TRUE, FALSE, <<"sni">>, A),
          Tls(<<Rec(6)>>, 6, TRUE, TRUE, <<"ech">>, A),
          Tls(<<Rec(6)>>, 6, TRUE, TRUE, <<"ech", "sni">>, BA)}

Http(kinds, port, host) ==
    [proto |-> "http", port |-> port, host |-> host,
     lines |-> [i \in DOMAIN kinds |-> [end |-> 1 + 3 * i, kind |-> kinds[i]]]]
MCHttp ==
    {Http(k, p, h) :
        k \in {<<"request", "host">>, <<"request", "field", "host">>, <<"request", "field">>,
               <<"request", "host", "no colon">>, <<"request", "no colon", "host">>,
               <<"request", "host", "not text">>, <<"request", "not text", "host">>,
               <<"text", "host">>, <<"binary", "host">>},
        p \in {"none", "digits", "bad"}, h \in {ABA, NoLetter}}

MCStreams == MCTls \cup MCHttp
MCEngines == <<[proto |-> "tls", peek_len |-> 4, max_len |-> 24, max_retries |-> 2],
               [proto |-> "http", peek_len |-> 3, max_len |-> 20, max_retries |-> 3]>>
MCPeekBuffer == 21

-----------------------------------------------------------------------------
(* Two-bit addresses.  Rules for the client's own network, a wider one and
   another one, in every order. *)
Net(v, n, len) == [v |-> v, n |-> n, len |-> len]
Mine == Net(V4, 1, 2)
Wide == Net(V4, 0, 0)
Half == Net(V4, 0, 1)
SameHalf == Net(V4, 1, 1)    \* another way to write it
Other == Net(V4, 3, 2)

MCClientIps == {Net(V4, 1, 0), Net(V4, 2, 0)}
MCDstIps == {[v |-> V4, n |-> 3, bytes |-> <<7, 7, 7, 3>>], [v |-> V4, n |-> 0, bytes |-> <<7, 7, 7, 0>>]}

Orders(S) == UNION {{s \in [1 .. Cardinality(T) -> T] : \A i, j \in DOMAIN s : s[i] = s[j] => i = j} :
                       T \in SUBSET S}
Row(net, value) == [net |-> net, value |-> value]
Pattern(p, g) == [pattern |-> p, group |-> g]

MCClientRoutes == Orders({Row(Wide, "g1"), Row(Mine, "g2"), Row(Other, "g1")})

\* A longer and a shorter suffix of the same domain, and an exact pattern.
MCDomainTables == {<<Pattern(<<".", "a">>, "g1"), Pattern(<<".", "A", "B">> \o <<".", "a">>, "g2")>>,
                   <<Pattern(<<".">> \o ABA, "g2"), Pattern(<<".", "a", ".">>, "g1")>>,
                   <<Pattern(<<".">> \o ABA, "g1"), Pattern(ABA, "g2")>>}
\* A pattern that is no name.
MCBadTable == <<Pattern(ABA, "g1"), Pattern(<<".", ".">>, "g2")>>
MCDomainRoutes == UNION {{<<Row(Mine, t)>>, <<Row(Other, t)>>} : t \in MCDomainTables \cup {MCBadTable}}
    \cup {<<Row(x[1], x[2]), Row(x[3], x[4])>> :
            x \in {<<Wide, s, Mine, t>> : s, t \in MCDomainTables}
                  \cup {<<Mine, s, Half, t>> : s, t \in MCDomainTables}
                  \cup {<<Half, s, SameHalf, t>> : s, t \in MCDomainTables}}
    \cup {<<>>}

MCDstTables == {<<Row(Wide, "g1"), Row(Other, "g2")>>, <<Row(Other, "g2"), Row(Wide, "g1")>>,
                <<Row(Other, "g1")>>}
MCDstRoutes == {<<>>} \cup {<<Row(Mine, t)>> : t \in MCDstTables}
    \cup {<<Row(x[1], x[2]), Row(x[3], x[4])>> :
            x \in {<<Wide, s, Mine, t>> : s, t \in MCDstTables}
                  \cup {<<Half, s, SameHalf, t>> : s, t \in MCDstTables}}

\* Upstreams with no list of groups, with one, and with an empty one.
MCUpstreamLists == {<<None>>, <<{"g1"}, {"g2"}>>, <<{"g1", "g2"}, {}>>, <<{"g1"}, None>>}

Base == [upstream |-> <<None, {"g1", "g2"}>>, client_routes |-> <<>>,
         client_domain_routes |-> <<>>, client_dst_ip_routes |-> <<>>,
         force_socks5_domains |-> {}, force_direct_domains |-> {},
         proxy_geosite |-> {}, direct_geosite |-> {},
         force_socks5_ips |-> {}, force_direct_ips |-> {}, direct_local_ip |-> FALSE,
         local_ips |-> {}, country_ips |-> {}]

MCPatterns == {<<"a">>, <<".", "A">>, <<"a", "b", ".", "a", ".">>, <<".", "b">>, <<".">>}
MCRules == {[type |-> ty, value |-> v] : ty \in {"plain", "domain", "full", "regex"},
                                         v \in {<<"b", ".", "a">>, <<"a">>, <<".">>}}

MCConfigs ==
    {[Base EXCEPT !.client_routes = r, !.client_domain_routes = d, !.client_dst_ip_routes = i] :
        r \in MCClientRoutes, d \in MCDomainRoutes, i \in {<<>>, <<Row(Mine, <<Row(Other, "g1")>>)>>}}
    \cup {[Base EXCEPT !.client_routes = <<Row(Half, "g2")>>, !.client_dst_ip_routes = i] : i \in MCDstRoutes}
    \cup {[Base EXCEPT !.upstream = u, !.client_routes = r, !.client_dst_ip_routes = i] :
            u \in MCUpstreamLists, r \in MCClientRoutes,
            i \in {<<>>, <<Row(Wide, <<Row(Other, "g2")>>)>>}}
    \cup {[Base EXCEPT !.force_socks5_domains = s, !.force_direct_domains = d] :
            s, d \in SUBSET MCPatterns}
    \cup {[Base EXCEPT !.proxy_geosite = p, !.direct_geosite = d, !.force_direct_ips = {Half},
                       !.force_socks5_ips = s] :
            p, d \in {{r} : r \in MCRules} \cup {{}}, s \in {{}, {Other}, {Net(V4, 0, 2), Wide}}}
    \cup {[Base EXCEPT !.direct_local_ip = b, !.local_ips = MCDstIps, !.country_ips = c] :
            b \in BOOLEAN, c \in {{}, MCDstIps}}

-----------------------------------------------------------------------------
Bytes(n, b) == [i \in 1 .. n |-> b]
\* None, both, and one of them empty or too long.
MCCredentials == {None} \cup {[user |-> u, pass |-> p] : u, p \in {1, 255}}
    \cup {[user |-> 0, pass |-> 9], [user |-> 9, pass |-> 0], [user |-> 256, pass |-> 9], [user |-> 9, pass |-> 256]}
\* Sources of packets, one of a type that there is not.
MCTargets == {[atyp |-> V4, addr |-> Bytes(4, 9)], [atyp |-> V6, addr |-> Bytes(16, 9)],
              [atyp |-> DOMAIN_NAME, addr |-> Bytes(3, 9)], [atyp |-> DOMAIN_NAME, addr |-> <<>>],
              [atyp |-> 9, addr |-> Bytes(4, 9)]}
MCCheckUrls == {<<>>, Bytes(2, 9)}
MCRelayAddr == [atyp |-> V4, addr |-> Bytes(4, 6)]
MCProxyAddr == [atyp |-> V4, addr |-> Bytes(4, 5)]
MCOrigDst == [atyp |-> V4, addr |-> Bytes(4, 3)]
MCFromServer == <<11, 12>>

\* Servers that do all they should, one thing wrong, or stop half way.
Good(method, atyp, addr) ==
    [version |-> 5, method |-> method, auth |-> 0, code |-> 0, rsv |-> 0,
     atyp |-> atyp, addr |-> addr, cut |-> 0]
MCGood == {Good(m, x[1], x[2]) : m \in {0, 2},
              x \in {<<V4, Bytes(4, 8)>>, <<V4, Bytes(4, 0)>>, <<V6, Bytes(16, 8)>>, <<V6, Bytes(16, 0)>>,
                     <<DOMAIN_NAME, Bytes(2, 8)>>, <<DOMAIN_NAME, <<>>>>}}
MCBad == UNION {{[s EXCEPT !.version = 4], [s EXCEPT !.method = 255], [s EXCEPT !.auth = 1],
                 [s EXCEPT !.code = 1], [s EXCEPT !.rsv = 1], [s EXCEPT !.atyp = 9]} : s \in MCGood}
MCServers == {[s EXCEPT !.cut = Len(Head5(s) \o Answer(s)) + n] : s \in MCGood \cup MCBad, n \in 0 .. 2}
    \cup (UNION {{[s EXCEPT !.cut = n] : n \in 0 .. Len(Head5(s) \o Answer(s)) - 1} : s \in MCGood})

=============================================================================
