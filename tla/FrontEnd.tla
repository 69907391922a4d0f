------------------------------ MODULE FrontEnd ------------------------------
(***************************************************************************)
(* A proxied TCP connection up to its relay, in full detail for one        *)
(* connection: the sniffers look for a domain (SniffLoop), the rules give  *)
(* the decision and the group (Routing), and the SOCKS5 client speaks to   *)
(* an upstream (Socks5).  Module TcpConnect has the same path with many    *)
(* connections, caches and failover, and takes these three parts as given. *)
(***************************************************************************)
EXTENDS SniffLoop, Routing, Socks5

CONSTANTS
    Configs,     \* configurations
    ClientIps,   \* addresses of clients
    DstIps,      \* addresses of destinations: [v, n], with their bytes
    CheckUrls    \* health_check_url, as bytes

\* A destination is an address of its family; a name to check is bytes.
ASSUME FrontEndAssumption ==
    /\ \A d \in DstIps : d.v # DOMAIN_NAME /\ [atyp |-> d.v, addr |-> d.bytes] \in Addresses
    /\ CheckUrls \subseteq Seq(Byte)

\* A configuration has been parsed: networks and names in tables and lists.
Nets == [v : {V4, V6}, n : Nat, len : 0 .. AddrBits]
Table(values) == Seq([net : Nets, value : values])

ASSUME RulesAssumption ==
    /\ AddrBits \in Nat
    /\ None \notin STRING \cup BOOLEAN
    /\ \A cfg \in Configs :
          /\ cfg.client_routes \in Table(STRING)
          /\ cfg.client_domain_routes \in Table(Seq([pattern : Seq(STRING), group : STRING]))
          /\ cfg.client_dst_ip_routes \in Table(Table(STRING))
          /\ cfg.force_socks5_domains \cup cfg.force_direct_domains \subseteq Seq(STRING)
          /\ cfg.force_socks5_ips \cup cfg.force_direct_ips \subseteq Nets
          /\ \A r \in cfg.proxy_geosite \cup cfg.direct_geosite : r.value \in Seq(STRING)

VARIABLE query   \* configuration, client, destination, domain; the group and the decision

vars == <<sniffVars, socksVars, query>>

Init == SniffInit /\ SocksIdle /\ query = None

\* sniff_domain returns; only the domain is used any more.
Sniffed ==
    /\ sniffing = "done"
    /\ stream' = None /\ sniffing' = "over"
    /\ arrived' = 0 /\ eof' = FALSE /\ engine' = 1 /\ peek' = 0
    /\ last' = 0 /\ attempt' = 0 /\ ready' = FALSE /\ expired' = FALSE
    /\ UNCHANGED <<found, socksVars, query>>

\* handle_tcp_connection: decision and group, for any configuration that the
\* program starts with.
Route ==
    /\ sniffing = "over" /\ socks = "idle" /\ query = None
    /\ \E cfg \in Configs, client \in ClientIps, dst \in DstIps :
          /\ Validate(cfg) /\ Builds(cfg)
          /\ query' = [cfg |-> cfg, client |-> client, dst |-> dst, domain |-> found,
                       group |-> LookupUpstreamGroup(cfg, client, dst, found),
                       direct |-> ShouldDirectSmart(cfg, dst, found)]
    /\ UNCHANGED <<sniffVars, socksVars>>

\* as_bytes: the characters of a domain (they are in lower case).
AsBytes(domain) ==
    LET code(c) == CASE c = "a" -> 97 [] c = "b" -> 98 [] c = "1" -> 49 [] c = "-" -> 45 [] c = "." -> 46
    IN [i \in DOMAIN domain |-> code(domain[i])]

\* decide_tcp_upstream_target: the name if there is one, else the address.
UpstreamTarget(q) ==
    IF q.domain = None THEN [atyp |-> q.dst.v, addr |-> q.dst.bytes]
    ELSE [atyp |-> DOMAIN_NAME, addr |-> AsBytes(q.domain)]

\* connect_tcp_upstream, for a connection that is not direct.
Proxy ==
    /\ query # None
    /\ ~query.direct
    /\ SocksBegin(UpstreamTarget(query))
    /\ query' = None
    /\ found' = None
    /\ UNCHANGED <<stream, arrived, eof, engine, peek, last, attempt, sniffing, ready, expired>>

\* check_upstream_health uses the same client, with a configured name that
\* nothing has validated.
HealthCheck ==
    /\ sniffing = "over" /\ socks = "idle" /\ query = None
    /\ \E url \in CheckUrls : SocksBegin([atyp |-> DOMAIN_NAME, addr |-> url])
    /\ found' = None
    /\ UNCHANGED <<stream, arrived, eof, engine, peek, last, attempt, sniffing, ready, expired, query>>

Next ==
    \/ SniffNext /\ UNCHANGED <<socksVars, query>>
    \/ Sniffed
    \/ Route
    \/ Proxy
    \/ HealthCheck
    \/ SocksNext /\ UNCHANGED <<sniffVars, query>>

Spec == Init /\ [][Next]_vars

-----------------------------------------------------------------------------
(***************************************************************************)
(* The rules as the configuration states them, in no order.                *)
(***************************************************************************)
PatternMatches(p, d) ==
    IF IsSuffixPattern(p) THEN DomainMatchesSuffix(d, SuffixOf(p)) ELSE CanonicalDomain(p) = d

\* An exact pattern beats every suffix, a longer suffix a shorter one.
PatternRank(p) == IF IsSuffixPattern(p) THEN Len(SuffixOf(p)) ELSE Len(CanonicalDomain(p)) + 1

\* The rules of a kind that apply: group, row of the client's network, rank
\* of the network, rank of what is inside.
DstRules(q) ==
    UNION {{[group |-> e.value, row |-> r, outer |-> r.net.len, inner |-> e.net.len] :
              e \in {x \in Range(r.value) : NetContains(x.net, q.dst)}} :
          r \in {x \in Range(q.cfg.client_dst_ip_routes) : NetContains(x.net, q.client)}}

DomainRules(q) ==
    IF q.domain = None THEN {} ELSE
    UNION {{[group |-> e.group, row |-> r, outer |-> r.net.len, inner |-> PatternRank(e.pattern)] :
              e \in {x \in Range(r.value) : PatternMatches(x.pattern, q.domain)}} :
          r \in {x \in Range(q.cfg.client_domain_routes) : NetContains(x.net, q.client)}}

ClientRules(q) ==
    {[group |-> r.value, row |-> r, outer |-> r.net.len, inner |-> 0] :
        r \in {x \in Range(q.cfg.client_routes) : NetContains(x.net, q.client)}}

\* The groups of the rules that no other of them beats; of networks as long
\* as each other neither does.
Best(rules) ==
    {r.group : r \in {x \in rules : \A y \in rules :
        \/ y.outer < x.outer
        \/ y.outer = x.outer /\ (y.row = x.row => y.inner <= x.inner)}}

Listed(patterns, d) == d # None /\ \E p \in patterns : PatternMatches(p, d)
InGeosite(rules, d) == d # None /\ \E r \in rules : GeositeDomainMatch(r, d)

\* An address list is its networks, but for one that holds every address.
InList(nets, ip) == \E net \in nets : net.len > 0 /\ NetContains(net, ip)
ListedDirect(cfg, ip) ==
    /\ ~InList(cfg.force_socks5_ips, ip)
    /\ \/ InList(cfg.force_direct_ips, ip)
       \/ cfg.direct_local_ip /\ ip \in cfg.local_ips
       \/ ip \in cfg.country_ips

(***************************************************************************)
(* A connection goes where the configuration says, in whatever order the   *)
(* hash maps yield their entries: to the group of the most specific rule   *)
(* of the first kind that has one, directly or not as the first list that  *)
(* names it says, rule by rule (lookup_upstream_group, should_direct, and  *)
(* the tables and tries that AppState::build compiles).  If validate has accepted    *)
(* the configuration, that group has an upstream, or it is the default     *)
(* group that validate warns about; unless an upstream has an empty list   *)
(* of groups, which validate and build_upstream_set understand differently.*)
(***************************************************************************)
RoutedAsConfigured ==
    query # None =>
        LET q == query
            kinds == <<DstRules(q), DomainRules(q), ClientRules(q)>>
            applying == {k \in DOMAIN kinds : kinds[k] # {}}
        IN /\ q.group \in IF applying = {} THEN {"default"} ELSE Best(kinds[Min(applying)])
           /\ q.direct = CASE Listed(q.cfg.force_socks5_domains, q.domain) -> FALSE
                           [] /\ ~Listed(q.cfg.force_socks5_domains, q.domain)
                              /\ Listed(q.cfg.force_direct_domains, q.domain) -> TRUE
                           [] OTHER -> IF InGeosite(q.cfg.proxy_geosite, q.domain) THEN FALSE
                                       ELSE InGeosite(q.cfg.direct_geosite, q.domain)
                                            \/ ListedDirect(q.cfg, q.dst)
           /\ \/ UpstreamsOf(q.cfg, q.group) # {}
              \/ q.group = "default"
                 /\ ("default" \in CountedGroups(q.cfg) => {} \in Range(q.cfg.upstream))

=============================================================================
