------------------------------ MODULE Routing ------------------------------
(***************************************************************************)
(* The routing rules: which group serves a client (lookup_upstream_group), *)
(* whether a destination is connected directly (should_direct in smart     *)
(* mode), how the tables are built from the configuration (AppState::build *)
(* and build_upstream_set) and what validate asks of it.                   *)
(*                                                                         *)
(* The maps of the configuration are hash maps: they are sequences here,   *)
(* in the order in which an iteration may yield their entries.             *)
(***************************************************************************)
EXTENDS DomainNames

CONSTANT AddrBits    \* width of an address

(***************************************************************************)
(* Networks: a family, an address and the length of the prefix.            *)
(***************************************************************************)
NetContains(net, ip) ==
    LET unit == 2 ^ (AddrBits - net.len)
    IN net.v = ip.v /\ net.n \div unit = ip.n \div unit

\* sort_by_key with Reverse, a stable sort: the positions of rows, greatest
\* key first and equal keys in the order they had.
SortedRows(rows, key) ==
    LET place(i) == Cardinality({j \in rows : key[j] > key[i] \/ (key[j] = key[i] /\ j <= i)})
    IN [k \in 1 .. Cardinality(rows) |-> CHOOSE i \in rows : place(i) = k]

\* ClientCidrRoutes::finalize: longest prefix first.
Finalize(table) ==
    LET order == SortedRows(DOMAIN table, [i \in DOMAIN table |-> table[i].net.len])
    IN [k \in DOMAIN order |-> table[order[k]]]

\* ClientCidrRoutes::lookup
CidrLookup(table, ip) ==
    LET hits == {i \in DOMAIN table : NetContains(table[i].net, ip)}
    IN IF hits = {} THEN None ELSE table[Min(hits)].value

\* ClientCidrRoutes::find_map_matching: answers has what the closure makes of
\* each row; a row without an answer defers to the next wider network.
FindMapMatching(table, ip, answers) ==
    LET hits == {i \in DOMAIN table : NetContains(table[i].net, ip) /\ answers[i] # None}
    IN IF hits = {} THEN None ELSE answers[Min(hits)]

(***************************************************************************)
(* Domain patterns: ".name" is the name and all below it, "name" itself.   *)
(***************************************************************************)
IsSuffixPattern(p) == p # <<>> /\ Head(p) = "."
SuffixOf(p) == CanonicalDomain(Tail(p))

\* The table that AppState::build makes of the patterns of one client: exact
\* names, of which the last one to be inserted stays, and suffixes, the longest
\* first.
DomainRouteTable(map) ==
    LET whole == {i \in DOMAIN map : ~IsSuffixPattern(map[i].pattern)}
        tails == DOMAIN map \ whole
        order == SortedRows(tails, [i \in tails |-> Len(SuffixOf(map[i].pattern))])
    IN [exact |-> [name \in {CanonicalDomain(map[i].pattern) : i \in whole} |->
                      map[Max({i \in whole : CanonicalDomain(map[i].pattern) = name})].group],
        suffixes |-> [k \in DOMAIN order |->
                         [name |-> SuffixOf(map[order[k]].pattern), group |-> map[order[k]].group]]]

\* DomainRouteTable::lookup
DomainLookup(table, domain) ==
    LET d == CanonicalDomain(domain)
        tails == {i \in DOMAIN table.suffixes : DomainMatchesSuffix(d, table.suffixes[i].name)}
    IN IF d \in DOMAIN table.exact THEN table.exact[d]
       ELSE IF tails # {} THEN table.suffixes[Min(tails)].group ELSE None

\* DomainSet::compile and matches_canonical
DomainSet(patterns) ==
    [exact |-> {CanonicalDomain(p) : p \in {q \in patterns : ~IsSuffixPattern(q)}} \ {<<>>},
     suffixes |-> {SuffixOf(p) : p \in {q \in patterns : IsSuffixPattern(q)}} \ {<<>>}]

MatchesCanonical(set, d) == d \in set.exact \/ Parents(d) \cap set.suffixes # {}

(***************************************************************************)
(* geosite: the rules of a tag, as they are and compiled.                  *)
(***************************************************************************)
GeositeDomainMatch(rule, domain) ==
    LET d == CanonicalDomain(domain)
        value == CanonicalDomain(rule.value)
    IN CASE rule.type = "plain" -> value # <<>> /\ ContainsText(d, value)
         [] rule.type = "domain" -> DomainMatchesSuffix(d, value)
         [] rule.type = "full" -> value # <<>> /\ d = value
         [] OTHER -> FALSE    \* regular expressions are not supported

CompileGeosite(rules) ==
    LET values(type) == {CanonicalDomain(r.value) : r \in {q \in rules : q.type = type}} \ {<<>>}
    IN [exact |-> values("full"), suffixes |-> values("domain"), plain |-> values("plain")]

CompiledGeositeContains(tag, domain) ==
    LET d == CanonicalDomain(domain)
    IN \/ d \in tag.exact
       \/ Parents(d) \cap tag.suffixes # {}
       \/ \E p \in tag.plain : ContainsText(d, p)

(***************************************************************************)
(* What AppState::build derives from a configuration.                      *)
(***************************************************************************)
ClientRoutes(cfg) == Finalize(cfg.client_routes)

ClientDomainRoutes(cfg) ==
    Finalize([i \in DOMAIN cfg.client_domain_routes |->
        [net |-> cfg.client_domain_routes[i].net,
         value |-> DomainRouteTable(cfg.client_domain_routes[i].value)]])

ClientDstIpRoutes(cfg) ==
    Finalize([i \in DOMAIN cfg.client_dst_ip_routes |->
        [net |-> cfg.client_dst_ip_routes[i].net,
         value |-> Finalize(cfg.client_dst_ip_routes[i].value)]])

\* A pattern without a name stops AppState::build.
Builds(cfg) ==
    \A row \in Range(cfg.client_domain_routes) : \A e \in Range(row.value) :
        (IF IsSuffixPattern(e.pattern) THEN SuffixOf(e.pattern) ELSE CanonicalDomain(e.pattern)) # <<>>

\* build_upstream_set and UpstreamSet::new: the upstreams of a group.  No
\* groups given means the default group; an empty list means no group.
UpstreamsOf(cfg, group) ==
    {u \in DOMAIN cfg.upstream :
        group \in IF cfg.upstream[u] = None THEN {"default"} ELSE cfg.upstream[u]}

(***************************************************************************)
(* validate, the part about groups and routes.  It counts an upstream with *)
(* an empty list of groups to the default group.                           *)
(***************************************************************************)
CountedGroups(cfg) ==
    UNION {IF g \in {None, {}} THEN {"default"} ELSE g : g \in Range(cfg.upstream)}

RoutedGroups(cfg) ==
    {row.value : row \in Range(cfg.client_routes)}
    \cup (UNION {{e.group : e \in Range(row.value)} : row \in Range(cfg.client_domain_routes)})
    \cup (UNION {{e.value : e \in Range(row.value)} : row \in Range(cfg.client_dst_ip_routes)})

HasRoutes(cfg) ==
    \/ cfg.client_routes # <<>>
    \/ cfg.client_domain_routes # <<>>
    \/ cfg.client_dst_ip_routes # <<>>

Validate(cfg) ==
    /\ "default" \in CountedGroups(cfg) \/ HasRoutes(cfg)
    /\ RoutedGroups(cfg) \subseteq CountedGroups(cfg)

(***************************************************************************)
(* lookup_upstream_group: destination routes, then domain routes if there  *)
(* is a domain, then the routes of the client, then the default group.     *)
(***************************************************************************)
LookupUpstreamGroup(cfg, client, dst, domain) ==
    LET dstRoutes == ClientDstIpRoutes(cfg)
        byDst == FindMapMatching(dstRoutes, client,
                     [i \in DOMAIN dstRoutes |-> CidrLookup(dstRoutes[i].value, dst)])
        domainRoutes == ClientDomainRoutes(cfg)
        byDomain == IF domain = None THEN None
                    ELSE FindMapMatching(domainRoutes, client,
                             [i \in DOMAIN domainRoutes |-> DomainLookup(domainRoutes[i].value, domain)])
        byClient == CidrLookup(ClientRoutes(cfg), client)
    IN CASE byDst # None -> byDst
         [] byDst = None /\ byDomain # None -> byDomain
         [] OTHER -> IF byClient = None THEN "default" ELSE byClient

(***************************************************************************)
(* should_direct in smart mode: the domain lists, geosite, the address     *)
(* lists, local addresses, the countries.                                  *)
(***************************************************************************)
\* lookup of a trie: the length of the longest network that holds the address;
\* the root, of length 0, always does.
TrieLookup(nets, ip) == Max({0} \cup {net.len : net \in {x \in nets : NetContains(x, ip)}})

\* ipv4_trie_contains, ipv6_trie_contains
InNets(nets, ip) == TrieLookup(nets, ip) # 0

DirectByAddress(cfg, ip) ==
    CASE InNets(cfg.force_socks5_ips, ip) -> FALSE
      [] ~InNets(cfg.force_socks5_ips, ip) /\ InNets(cfg.force_direct_ips, ip) -> TRUE
      [] OTHER -> (cfg.direct_local_ip /\ ip \in cfg.local_ips) \/ ip \in cfg.country_ips

DirectByDomain(cfg, domain) ==
    LET d == CanonicalDomain(domain)
    IN IF MatchesCanonical(DomainSet(cfg.force_socks5_domains), d) THEN FALSE
       ELSE IF MatchesCanonical(DomainSet(cfg.force_direct_domains), d) THEN TRUE
       ELSE IF CompiledGeositeContains(CompileGeosite(cfg.proxy_geosite), d) THEN FALSE
       ELSE IF CompiledGeositeContains(CompileGeosite(cfg.direct_geosite), d) THEN TRUE
       ELSE None

ShouldDirectSmart(cfg, ip, domain) ==
    LET byDomain == IF domain = None THEN None ELSE DirectByDomain(cfg, domain)
    IN IF byDomain = None THEN DirectByAddress(cfg, ip) ELSE byDomain

=============================================================================
