----------------------------- MODULE TcpConnect -----------------------------
(***************************************************************************)
(* From an accepted TCP connection to its relay (src/tcp.rs), with the     *)
(* routing decision and the two route caches of AppState (src/state.rs)    *)
(* and the mode that SIGUSR1 rotates (src/main.rs, ProxyMode in            *)
(* src/cli.rs).                                                            *)
(*                                                                         *)
(* Handlers run concurrently in one generation.  A step ends at an await   *)
(* or where another thread can change what the next one reads: the mode,   *)
(* the caches, the upstreams that answer.  What the rules say of an        *)
(* address, a domain and a client is given by constants (module Routing    *)
(* has the rules themselves), what the sniffers find is a choice, and the  *)
(* scores that steer a pick are in module UpstreamScores: here a pick may  *)
(* return any candidate.                                                   *)
(***************************************************************************)
EXTENDS Naturals, Sequences, FiniteSets

CONSTANTS
    Conns,          \* connections
    Clients,        \* client addresses
    Targets,        \* destination addresses
    Domains,        \* domains the sniffers may find
    Upstreams,
    Groups,         \* names of upstream groups, "default" among them
    None,
    Origins,        \* clients of the connections, None for a port forward
    TargetOf,       \* destination of each connection
    Members,        \* upstreams of each group
    GroupRule,      \* lookup_upstream_group: client, destination, domain -> group
    DomainRule,     \* domain lists and geosite: "socks5", "direct" or None
    IpRule,         \* address lists, local addresses, country: direct or not
    ForceDomains,   \* force_direct_domains or force_socks5_domains is set
    GeositeTags,    \* a geosite file is loaded and a tag is configured
    DomainRoutes,   \* clients covered by client_domain_routes
    Ttl,            \* route_cache_ttl (0: no cache)
    CacheMax,       \* route_cache_max
    MaxTime         \* bound on the clock

Modes == <<"smart", "global", "bypass">>
Names == Domains \cup {None}

ASSUME TcpAssumption ==
    /\ None \notin Domains \cup Upstreams \cup Clients
    /\ None \notin {"socks5", "direct"}
    /\ "default" \in Groups
    /\ Origins \subseteq [Conns -> Clients \cup {None}]
    /\ TargetOf \in [Conns -> Targets]
    /\ Members \in [Groups -> SUBSET Upstreams]
    /\ GroupRule \in [Clients \X Targets \X Names -> Groups]
    /\ DomainRule \in [Names -> {"socks5", "direct", None}]
    /\ DomainRule[None] = None
    /\ (\E d \in Domains : DomainRule[d] # None) => ForceDomains \/ GeositeTags
    /\ IpRule \in [Targets -> BOOLEAN]
    /\ {ForceDomains, GeositeTags} \subseteq BOOLEAN
    /\ Ttl \in Nat /\ CacheMax \in Nat /\ MaxTime \in Nat

VARIABLES
    now,        \* the clock
    mode,       \* runtime.proxy_mode, an index of Modes
    directCache,    \* direct_cache: decision and time by address and domain
    upstreamCache,  \* upstream_cache: upstream and time by client, address, domain
    host,       \* what the sniffers find in each connection, if asked
    client,     \* client of each connection, None if a port forward accepted it
    pc,         \* program counter of each handler
    byIp,       \* direct_by_ip
    geo,        \* need_sniff_for_geosite
    domain,     \* the sniffed domain
    direct,     \* the decision
    group,      \* the group that is being tried
    failed,     \* failed in try_connect_socks5_group
    up,         \* the upstream being connected or connected
    seen,       \* history: the mode of the decision (0: it changed meanwhile)
    down        \* history: upstreams that failed this connection

envVars == <<now, mode, client, host>>
cacheVars == <<directCache, upstreamCache>>
connVars == <<byIp, geo, domain, direct, group, failed, up>>
vars == <<envVars, cacheVars, pc, connVars, seen, down>>

Deciding == {"start", "need", "sniff", "decide"}
Done == {"relay", "over", "failed"}

Init ==
    /\ now = 0
    /\ mode \in 1 .. 3
    /\ directCache = {}
    /\ upstreamCache = {}
    /\ client \in Origins
    /\ host \in {h \in [Conns -> Names] : \A c \in Conns : client[c] = None => h[c] = None}
    /\ pc = [c \in Conns |-> IF client[c] = None THEN "pick" ELSE "start"]
    /\ byIp = [c \in Conns |-> FALSE]
    /\ geo = [c \in Conns |-> FALSE]
    /\ domain = [c \in Conns |-> None]
    /\ direct = [c \in Conns |-> FALSE]
    /\ group = [c \in Conns |-> "default"]
    /\ failed = [c \in Conns |-> {}]
    /\ up = [c \in Conns |-> None]
    /\ seen = [c \in Conns |-> mode]
    /\ down = [c \in Conns |-> {}]

(***************************************************************************)
(* The environment: time and SIGUSR1.  The signal handler loads the mode   *)
(* and stores the next one; nothing else writes it.                        *)
(***************************************************************************)
Tick ==
    /\ now < MaxTime
    /\ now' = now + 1
    /\ UNCHANGED <<mode, client, host, cacheVars, pc, connVars, seen, down>>

Rotate ==
    /\ mode' = (mode % Len(Modes)) + 1
    /\ seen' = [c \in Conns |-> IF pc[c] \in Deciding THEN 0 ELSE seen[c]]
    /\ UNCHANGED <<now, client, host, cacheVars, pc, connVars, down>>

(***************************************************************************)
(* should_direct.  Modes and domain rules come first and are not cached;   *)
(* what the address rules say is, by address and domain, for a while.      *)
(***************************************************************************)
Fresh(e) == now - e.at < Ttl

\* Before an insertion a full cache loses its stale entries, and only these.
Purged(cache) == IF Cardinality(cache) >= CacheMax THEN {e \in cache : Fresh(e)} ELSE cache

\* The cached entry of an address and a domain, if there is a fresh one.
DirectHits(ip, d) == {e \in directCache : e.ip = ip /\ e.domain = d /\ Fresh(e)}

ByAddress(ip, d) ==
    IF DirectHits(ip, d) # {} THEN (CHOOSE e \in DirectHits(ip, d) : TRUE).direct ELSE IpRule[ip]

ShouldDirect(ip, d) ==
    IF Modes[mode] # "smart" THEN Modes[mode] = "bypass"
    ELSE IF DomainRule[d] # None THEN DomainRule[d] = "direct"
    ELSE ByAddress(ip, d)

\* A stale entry is replaced, after an address decision only.
CacheDecision(ip, d) ==
    directCache' =
        IF Modes[mode] # "smart" \/ Ttl = 0 \/ DomainRule[d] # None \/ DirectHits(ip, d) # {}
        THEN directCache
        ELSE {e \in Purged(directCache) : ~(e.ip = ip /\ e.domain = d)}
             \cup {[ip |-> ip, domain |-> d, direct |-> IpRule[ip], at |-> now]}

(***************************************************************************)
(* handle_tcp_connection, up to the decision.                              *)
(***************************************************************************)
DecideByIp(c) ==
    /\ pc[c] = "start"
    /\ byIp' = [byIp EXCEPT ![c] = ShouldDirect(TargetOf[c], None)]
    /\ CacheDecision(TargetOf[c], None)
    /\ pc' = [pc EXCEPT ![c] = "need"]
    /\ UNCHANGED <<envVars, upstreamCache, geo, domain, direct, group, failed, up, seen, down>>

\* need_geosite_sniff reads the mode again.
NeedGeositeSniff == ForceDomains \/ (GeositeTags /\ Modes[mode] = "smart")

\* Mutation of NeedSniff: the domain is not asked for once the address is direct.
FastPathFirst(c) ==
    /\ pc[c] = "need"
    /\ geo' = [geo EXCEPT ![c] = NeedGeositeSniff]
    /\ direct' = [direct EXCEPT ![c] = byIp[c]]
    /\ pc' = [pc EXCEPT ![c] =
          IF byIp[c] THEN "direct"
          ELSE IF geo'[c] \/ client[c] \in DomainRoutes THEN "sniff" ELSE "decide"]
    /\ UNCHANGED <<envVars, cacheVars, byIp, domain, group, failed, up, seen, down>>

\* Direct at once only if no domain can matter; sniff if the decision, or the
\* choice of a group, needs the domain.
NeedSniff(c) ==
    /\ pc[c] = "need"
    /\ geo' = [geo EXCEPT ![c] = NeedGeositeSniff]
    /\ direct' = [direct EXCEPT ![c] = byIp[c]]
    /\ LET routes == client[c] \in DomainRoutes
       IN pc' = [pc EXCEPT ![c] =
              IF byIp[c] /\ ~geo'[c] /\ ~routes THEN "direct"
              ELSE IF geo'[c] \/ (~byIp[c] /\ routes) THEN "sniff" ELSE "decide"]
    /\ UNCHANGED <<envVars, cacheVars, byIp, domain, group, failed, up, seen, down>>

\* sniff_domain finds a domain, or gives up (module SniffLoop).
Sniff(c) ==
    /\ pc[c] = "sniff"
    /\ domain' = [domain EXCEPT ![c] = host[c]]
    /\ pc' = [pc EXCEPT ![c] = "decide"]
    /\ UNCHANGED <<envVars, cacheVars, byIp, geo, direct, group, failed, up, seen, down>>

Decide(c) ==
    /\ pc[c] = "decide"
    /\ direct' = [direct EXCEPT ![c] = IF geo[c] THEN ShouldDirect(TargetOf[c], domain[c]) ELSE byIp[c]]
    /\ IF geo[c] THEN CacheDecision(TargetOf[c], domain[c]) ELSE UNCHANGED directCache
    /\ pc' = [pc EXCEPT ![c] = IF direct'[c] THEN "direct" ELSE "lookup"]
    /\ byIp' = [byIp EXCEPT ![c] = FALSE]    \* not used any more
    /\ geo' = [geo EXCEPT ![c] = FALSE]
    /\ UNCHANGED <<envVars, upstreamCache, domain, group, failed, up, seen, down>>

\* A direct connection is established, or fails or times out.
DirectConnect(c) ==
    /\ pc[c] = "direct"
    /\ pc' = [pc EXCEPT ![c] = "relay"] \/ pc' = [pc EXCEPT ![c] = "failed"]
    /\ UNCHANGED <<envVars, cacheVars, connVars, seen, down>>

(***************************************************************************)
(* The upstream cache.                                                     *)
(***************************************************************************)
\* Mutation of CacheKey: the client is not part of the key.
KeyWithoutClient(c) == <<None, TargetOf[c], domain[c]>>

CacheKey(c) == <<client[c], TargetOf[c], domain[c]>>

UpstreamHits(c) == {e \in upstreamCache : e.key = CacheKey(c) /\ Fresh(e)}

\* pick_and_connect: the group that the routes give to a connection.
Routed(c) == GroupRule[<<client[c], TargetOf[c], domain[c]>>]

\* get_cached_upstream; a stale entry is removed.
Lookup(c) ==
    /\ pc[c] = "lookup"
    /\ \/ /\ Ttl > 0
          /\ \E e \in UpstreamHits(c) : up' = [up EXCEPT ![c] = e.up]
          /\ pc' = [pc EXCEPT ![c] = "cached"]
          /\ UNCHANGED <<upstreamCache, group>>
       \/ /\ Ttl = 0 \/ UpstreamHits(c) = {}
          /\ upstreamCache' = {e \in upstreamCache : e.key # CacheKey(c)}
          /\ group' = [group EXCEPT ![c] = Routed(c)]
          /\ pc' = [pc EXCEPT ![c] = "pick"]
          /\ UNCHANGED up
    /\ UNCHANGED <<envVars, directCache, byIp, geo, domain, direct, failed, seen, down>>

\* The cached upstream is tried; when it fails its entry goes, whoever wrote
\* it, and the upstream is excluded from the pick.
CachedConnect(c) ==
    /\ pc[c] = "cached"
    /\ \/ /\ pc' = [pc EXCEPT ![c] = "store"]
          /\ UNCHANGED <<upstreamCache, group, failed, down>>
       \/ /\ pc' = [pc EXCEPT ![c] = "pick"]
          /\ group' = [group EXCEPT ![c] = Routed(c)]
          /\ down' = [down EXCEPT ![c] = @ \cup {up[c]}]
          /\ upstreamCache' = {e \in upstreamCache : e.key # CacheKey(c)}
          /\ failed' = [failed EXCEPT ![c] = {up[c]}]
    /\ UNCHANGED <<envVars, directCache, byIp, geo, domain, direct, up, seen>>

(***************************************************************************)
(* try_connect_socks5_group: candidates of the group that have not failed, *)
(* then those of the default group, all of them.                           *)
(***************************************************************************)
Candidates(c) == Members[group[c]] \ failed[c]

Pick(c) ==
    /\ pc[c] = "pick"
    /\ \E u \in Candidates(c) : up' = [up EXCEPT ![c] = u]
    /\ pc' = [pc EXCEPT ![c] = "connect"]
    /\ UNCHANGED <<envVars, cacheVars, byIp, geo, domain, direct, group, failed, seen, down>>

\* Mutation of GroupExhausted: no second chance in the default group.
NoFallback(c) ==
    /\ pc[c] = "pick"
    /\ Candidates(c) = {}
    /\ pc' = [pc EXCEPT ![c] = "failed"]
    /\ UNCHANGED <<envVars, cacheVars, connVars, seen, down>>

GroupExhausted(c) ==
    /\ pc[c] = "pick"
    /\ Candidates(c) = {}
    /\ IF group[c] = "default"
       THEN /\ pc' = [pc EXCEPT ![c] = "failed"]
            /\ UNCHANGED <<group, failed>>
       ELSE /\ group' = [group EXCEPT ![c] = "default"]
            /\ failed' = [failed EXCEPT ![c] = {}]
            /\ UNCHANGED pc
    /\ UNCHANGED <<envVars, cacheVars, byIp, geo, domain, direct, up, seen, down>>

\* Mutation of ConnectFails: the upstream is not remembered as failed.
ForgetFailure(c) ==
    /\ pc[c] = "connect"
    /\ down' = [down EXCEPT ![c] = @ \cup {up[c]}]
    /\ pc' = [pc EXCEPT ![c] = "pick"]
    /\ UNCHANGED <<envVars, cacheVars, connVars, seen>>

\* A refused, failed or late handshake; the upstream is also penalised.
ConnectFails(c) ==
    /\ pc[c] = "connect"
    /\ failed' = [failed EXCEPT ![c] = @ \cup {up[c]}]
    /\ down' = [down EXCEPT ![c] = @ \cup {up[c]}]
    /\ pc' = [pc EXCEPT ![c] = "pick"]
    /\ UNCHANGED <<envVars, cacheVars, byIp, geo, domain, direct, group, up, seen>>

Connected(c) ==
    /\ pc[c] = "connect"
    /\ client[c] # None
    /\ pc' = [pc EXCEPT ![c] = "store"]
    /\ UNCHANGED <<envVars, cacheVars, connVars, seen, down>>

\* run_tcp_port_forward relays at once: no decision, no cache.
ForwardConnected(c) ==
    /\ pc[c] = "connect"
    /\ client[c] = None
    /\ pc' = [pc EXCEPT ![c] = "relay"]
    /\ UNCHANGED <<envVars, cacheVars, connVars, seen, down>>

\* cache_upstream: the entry is written, or its time renewed, on every
\* success.
Store(c) ==
    /\ pc[c] = "store"
    /\ upstreamCache' =
          IF Ttl = 0 THEN upstreamCache
          ELSE {e \in Purged(upstreamCache) : e.key # CacheKey(c)}
               \cup {[key |-> CacheKey(c), up |-> up[c], at |-> now]}
    /\ pc' = [pc EXCEPT ![c] = "relay"]
    /\ UNCHANGED <<envVars, directCache, connVars, seen, down>>

\* The relay ends (module Relay).
RelayEnds(c) ==
    /\ pc[c] = "relay"
    /\ pc' = [pc EXCEPT ![c] = "over"]
    /\ direct' = [direct EXCEPT ![c] = FALSE]
    /\ domain' = [domain EXCEPT ![c] = None]
    /\ group' = [group EXCEPT ![c] = "default"]
    /\ failed' = [failed EXCEPT ![c] = {}]
    /\ up' = [up EXCEPT ![c] = None]
    /\ seen' = [seen EXCEPT ![c] = 0]
    /\ down' = [down EXCEPT ![c] = {}]
    /\ UNCHANGED <<envVars, cacheVars, byIp, geo>>

Step(c) ==
    \/ DecideByIp(c) \/ NeedSniff(c) \/ Sniff(c) \/ Decide(c)
    \/ DirectConnect(c)
    \/ Lookup(c) \/ CachedConnect(c)
    \/ Pick(c) \/ GroupExhausted(c) \/ ConnectFails(c) \/ Connected(c)
    \/ ForwardConnected(c) \/ Store(c)

Next ==
    \/ Tick \/ Rotate
    \/ \E c \in Conns : Step(c) \/ RelayEnds(c)

Spec == Init /\ [][Next]_vars

\* Every await of a handler before its relay has a timeout.
FairSpec == Spec /\ \A c \in Conns : WF_vars(Step(c))

-----------------------------------------------------------------------------
(***************************************************************************)
(* Properties.                                                             *)
(***************************************************************************)
TypeOK ==
    /\ now \in 0 .. MaxTime
    /\ mode \in 1 .. 3
    /\ client \in [Conns -> Clients \cup {None}]
    /\ host \in [Conns -> Names]
    /\ directCache \subseteq [ip : Targets, domain : Names, direct : BOOLEAN, at : 0 .. MaxTime]
    /\ upstreamCache \subseteq [key : Clients \X Targets \X Names, up : Upstreams, at : 0 .. MaxTime]
    /\ pc \in [Conns -> {"start", "need", "sniff", "decide", "direct", "lookup", "cached",
                         "pick", "connect", "store", "relay", "over", "failed"}]
    /\ byIp \in [Conns -> BOOLEAN] /\ geo \in [Conns -> BOOLEAN] /\ direct \in [Conns -> BOOLEAN]
    /\ domain \in [Conns -> Names]
    /\ group \in [Conns -> Groups]
    /\ failed \in [Conns -> SUBSET Upstreams]
    /\ up \in [Conns -> Upstreams \cup {None}]
    /\ seen \in [Conns -> 0 .. 3]
    /\ down \in [Conns -> SUBSET Upstreams]

\* What the configuration says of a connection in a mode, without any cache.
Decision(m, ip, d) ==
    \/ Modes[m] = "bypass"
    \/ Modes[m] = "smart" /\ DomainRule[d] = "direct"
    \/ Modes[m] = "smart" /\ DomainRule[d] = None /\ IpRule[ip]

(***************************************************************************)
(* A connection during whose decision the mode did not change goes the way *)
(* that mode prescribes for its address and the domain its client names,   *)
(* although handle_tcp_connection decides twice, asks for the domain only  *)
(* when it may matter and caches what the address rules say.               *)
(***************************************************************************)
DecisionMatchesMode ==
    \A c \in Conns : client[c] # None /\ pc[c] \notin Deciding /\ seen[c] # 0 =>
        direct[c] = Decision(seen[c], TargetOf[c], host[c])

\* The upstreams a connection may use.
Eligible(c) == Members["default"] \cup (IF client[c] = None THEN {} ELSE Members[Routed(c)])

(***************************************************************************)
(* A proxied connection is given up only when every upstream of its group  *)
(* and every upstream of the default group has failed it, counting the     *)
(* cached one that was excluded from the pick (try_connect_socks5_group).  *)
(***************************************************************************)
GivesUpAfterAll ==
    \A c \in Conns : pc[c] = "failed" /\ ~direct[c] =>
        Eligible(c) \subseteq down[c]

(***************************************************************************)
(* A connection is relayed through an upstream of the group the routes     *)
(* give its client, or of the default group, also when the upstream comes  *)
(* from the cache another connection has filled.                           *)
(***************************************************************************)
UpstreamOfGroup ==
    \A c \in Conns : pc[c] = "relay" /\ ~direct[c] => up[c] \in Eligible(c)

(***************************************************************************)
(* Every accepted connection is relayed or given up: the loop over the     *)
(* upstreams of try_connect_socks5_group ends, however they come and go.   *)
(***************************************************************************)
Handled == \A c \in Conns : <>(pc[c] \in Done)

=============================================================================
