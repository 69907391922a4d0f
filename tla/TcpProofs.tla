------------------------------ MODULE TcpProofs ------------------------------
(***************************************************************************)
(* TCP connections: the safety properties of TcpConnect, for any           *)
(* connections, any groups of upstreams, any rules and any cache, and of   *)
(* Relay, for any buffer size, any grace period and any number of bytes.   *)
(***************************************************************************)
EXTENDS TcpConnect, Relay, TLAPS

\* Where a handler has a client: everywhere but in the pick, which port
\* forwards share.
OfClient == {"start", "need", "sniff", "decide", "direct", "lookup", "cached", "store"}

\* The group being tried: the routed one, or the default group once all that
\* lies outside of it has failed.
GroupOk(c) ==
    \/ group[c] = "default" /\ Eligible(c) \subseteq Members["default"] \cup down[c]
    \/ client[c] # None /\ group[c] = Routed(c)

RouteOf(c) ==
    /\ pc[c] \in OfClient => client[c] # None
    /\ pc[c] = "direct" => direct[c]
    /\ pc[c] \in {"cached", "connect", "store"} => up[c] \in Eligible(c)
    /\ pc[c] = "relay" /\ ~direct[c] => up[c] \in Eligible(c)
    /\ pc[c] \in {"pick", "connect"} => GroupOk(c)
    /\ failed[c] \subseteq down[c]
    /\ pc[c] = "failed" /\ ~direct[c] => Eligible(c) \subseteq down[c]

\* A cached upstream belongs to a group its key may use.
CacheOk ==
    \A e \in upstreamCache : e.up \in Members["default"] \cup Members[GroupRule[e.key]]

RouteInv == (\A c \in Conns : RouteOf(c)) /\ CacheOk

-----------------------------------------------------------------------------
(***************************************************************************)
(* A step of a handler leaves the other handlers alone.                    *)
(***************************************************************************)
SameConn(x) ==
    /\ pc'[x] = pc[x] /\ byIp'[x] = byIp[x] /\ geo'[x] = geo[x]
    /\ domain'[x] = domain[x] /\ direct'[x] = direct[x] /\ group'[x] = group[x]
    /\ failed'[x] = failed[x] /\ up'[x] = up[x] /\ seen'[x] = seen[x] /\ down'[x] = down[x]

LEMMA StepFrame ==
    ASSUME TypeOK, NEW c \in Conns, Step(c) \/ RelayEnds(c)
    PROVE UNCHANGED envVars /\ \A x \in Conns \ {c} : SameConn(x)
<1>1. CASE DecideByIp(c) \/ NeedSniff(c) \/ Sniff(c)
  BY <1>1, SMT, SMTT(30) DEF DecideByIp, NeedSniff, Sniff, TypeOK, SameConn, cacheVars
<1>2. CASE Decide(c) \/ DirectConnect(c)
  BY <1>2, SMT, SMTT(30) DEF Decide, DirectConnect, TypeOK, SameConn, cacheVars, connVars
<1>3. CASE Lookup(c) \/ CachedConnect(c)
  BY <1>3, SMT, SMTT(30) DEF Lookup, CachedConnect, TypeOK, SameConn
<1>4. CASE Pick(c) \/ GroupExhausted(c) \/ ConnectFails(c)
  BY <1>4, SMT, SMTT(30) DEF Pick, GroupExhausted, ConnectFails, TypeOK, SameConn, cacheVars
<1>5. CASE Connected(c) \/ ForwardConnected(c) \/ Store(c)
  BY <1>5, Zenon DEF Connected, ForwardConnected, Store, TypeOK, SameConn, cacheVars, connVars
<1>6. CASE RelayEnds(c)
  BY <1>6, SMT, SMTT(30) DEF RelayEnds, TypeOK, SameConn, cacheVars
<1> QED
  BY <1>1, <1>2, <1>3, <1>4, <1>5, <1>6, Zenon DEF Step

\* What the rules give is what the constants are assumed to be.
LEMMA EligibleType ==
    ASSUME TypeOK, NEW c \in Conns
    PROVE /\ Eligible(c) \subseteq Upstreams
          /\ client[c] # None => Routed(c) \in Groups
          /\ client[c] # None => CacheKey(c) \in Clients \X Targets \X Names
          /\ client[c] # None => Routed(c) = GroupRule[CacheKey(c)]
<1>1. /\ client[c] \in Clients \cup {None} /\ TargetOf[c] \in Targets /\ domain[c] \in Names
      /\ GroupRule \in [Clients \X Targets \X Names -> Groups]
      /\ Members \in [Groups -> SUBSET Upstreams] /\ "default" \in Groups
  BY TcpAssumption, Zenon DEF TypeOK
<1>2. client[c] # None => CacheKey(c) \in Clients \X Targets \X Names
  BY <1>1, Zenon DEF CacheKey
<1>3. client[c] # None => Routed(c) = GroupRule[CacheKey(c)]
  BY Zenon DEF Routed, CacheKey
<1>4. client[c] # None => Routed(c) \in Groups
  BY <1>1, <1>2, <1>3, Zenon
<1>5. Eligible(c) \subseteq Upstreams
  BY <1>1, <1>4, Zenon DEF Eligible
<1> QED
  BY <1>2, <1>3, <1>4, <1>5, Zenon

\* Purging takes entries away only.
LEMMA PurgedSubset == \A cache : Purged(cache) \subseteq cache
BY Zenon DEF Purged

-----------------------------------------------------------------------------
(***************************************************************************)
(* Type correctness.                                                       *)
(***************************************************************************)
DirectEntries == [ip : Targets, domain : Names, direct : BOOLEAN, at : 0 .. MaxTime]
UpstreamEntries == [key : Clients \X Targets \X Names, up : Upstreams, at : 0 .. MaxTime]

LEMMA ShouldDirectType ==
    ASSUME TypeOK, NEW ip \in Targets, NEW d \in Names
    PROVE ShouldDirect(ip, d) \in BOOLEAN
<1>1. IpRule[ip] \in BOOLEAN
  BY TcpAssumption, Zenon
<1>2. DirectHits(ip, d) # {} => (CHOOSE e \in DirectHits(ip, d) : TRUE) \in DirectHits(ip, d)
  BY Zenon
<1>3. DirectHits(ip, d) \subseteq DirectEntries
  BY Zenon DEF DirectHits, TypeOK, DirectEntries
<1>4. ByAddress(ip, d) \in BOOLEAN
  BY <1>1, <1>2, <1>3, Zenon DEF ByAddress, DirectEntries
<1> QED
  BY <1>4, ZenonT(30) DEF ShouldDirect

LEMMA CacheDecisionType ==
    ASSUME TypeOK, NEW ip \in Targets, NEW d \in Names, CacheDecision(ip, d)
    PROVE directCache' \subseteq DirectEntries
<1>1. [ip |-> ip, domain |-> d, direct |-> IpRule[ip], at |-> now] \in DirectEntries
  BY TcpAssumption, Zenon DEF TypeOK, DirectEntries
<1>2. directCache \subseteq DirectEntries
  BY Zenon DEF TypeOK, DirectEntries
<1> QED
  BY <1>1, <1>2, PurgedSubset, Zenon DEF CacheDecision

LEMMA InitType == Init => TypeOK
<1> SUFFICES ASSUME Init PROVE TypeOK
  BY Zenon
<1>1. client \in [Conns -> Clients \cup {None}] /\ host \in [Conns -> Names]
  BY TcpAssumption, Zenon DEF Init
<1>2. mode \in 1 .. 3 /\ now \in 0 .. MaxTime /\ "default" \in Groups /\ None \in Names
  BY TcpAssumption, SMT, SMTT(30) DEF Init, Names
<1> QED
  BY <1>1, <1>2, SMT, SMTT(30) DEF Init, TypeOK

LEMMA EnvType == TypeOK /\ (Tick \/ Rotate \/ UNCHANGED vars) => TypeOK'
<1> SUFFICES ASSUME TypeOK, Tick \/ Rotate \/ UNCHANGED vars PROVE TypeOK'
  BY Zenon
<1>1. CASE Tick
  <2>1. now' \in 0 .. MaxTime
    BY <1>1, TcpAssumption, SMT, SMTT(30) DEF Tick, TypeOK
  <2> QED
    BY <1>1, <2>1, Zenon DEF Tick, TypeOK, cacheVars, connVars
<1>2. CASE Rotate
  <2>1. mode' \in 1 .. 3
    BY <1>2, SMT, SMTT(30) DEF Rotate, TypeOK, Modes
  <2>2. seen' \in [Conns -> 0 .. 3]
    BY <1>2, SMT, SMTT(30) DEF Rotate, TypeOK
  <2> QED
    BY <1>2, <2>1, <2>2, Zenon DEF Rotate, TypeOK, cacheVars, connVars
<1>3. CASE UNCHANGED vars
  BY <1>3, Zenon DEF vars, envVars, cacheVars, connVars, TypeOK
<1> QED
  BY <1>1, <1>2, <1>3, Zenon

\* Up to the decision.
LEMMA DecideType ==
    ASSUME TypeOK, NEW c \in Conns,
           DecideByIp(c) \/ NeedSniff(c) \/ Sniff(c) \/ Decide(c) \/ DirectConnect(c)
    PROVE TypeOK'
<1>1. TargetOf[c] \in Targets /\ domain[c] \in Names /\ None \in Names /\ host[c] \in Names
  BY TcpAssumption, Zenon DEF TypeOK, Names
<1>2. /\ ShouldDirect(TargetOf[c], None) \in BOOLEAN
      /\ ShouldDirect(TargetOf[c], domain[c]) \in BOOLEAN
  BY <1>1, ShouldDirectType, Zenon
<1>3. CASE DecideByIp(c)
  <2>1. directCache' \subseteq DirectEntries
    BY <1>1, <1>3, CacheDecisionType, Zenon DEF DecideByIp
  <2> QED
    BY <1>2, <1>3, <2>1, Zenon DEF DecideByIp, TypeOK, envVars, DirectEntries
<1>4. CASE NeedSniff(c)
  <2>1. NeedGeositeSniff \in BOOLEAN
    BY TcpAssumption, Zenon DEF NeedGeositeSniff
  <2>2. geo' \in [Conns -> BOOLEAN] /\ direct' \in [Conns -> BOOLEAN]
    BY <1>4, <2>1, Zenon DEF NeedSniff, TypeOK
  <2>3. pc' \in [Conns -> {"start", "need", "sniff", "decide", "direct", "lookup", "cached",
                           "pick", "connect", "store", "relay", "over", "failed"}]
    BY <1>4, Zenon DEF NeedSniff, TypeOK
  <2> QED
    BY <1>4, <2>2, <2>3, Zenon DEF NeedSniff, TypeOK, envVars, cacheVars
<1>5. CASE Sniff(c)
  BY <1>1, <1>5, Zenon DEF Sniff, TypeOK, envVars, cacheVars
<1>6. CASE Decide(c)
  <2>1. directCache' \subseteq DirectEntries
    <3>1. CASE geo[c]
      BY <1>1, <1>6, <3>1, CacheDecisionType, Zenon DEF Decide
    <3>2. CASE ~geo[c]
      BY <1>6, <3>2, Zenon DEF Decide, TypeOK, DirectEntries
    <3> QED
      BY <3>1, <3>2, Zenon
  <2>2. direct' \in [Conns -> BOOLEAN]
    BY <1>2, <1>6, Zenon DEF Decide, TypeOK
  <2>3. pc' \in [Conns -> {"start", "need", "sniff", "decide", "direct", "lookup", "cached",
                           "pick", "connect", "store", "relay", "over", "failed"}]
    BY <1>6, Zenon DEF Decide, TypeOK
  <2> QED
    BY <1>6, <2>1, <2>2, <2>3, Zenon DEF Decide, TypeOK, envVars, DirectEntries
<1>7. CASE DirectConnect(c)
  BY <1>7, Zenon DEF DirectConnect, TypeOK, envVars, cacheVars, connVars
<1> QED
  BY <1>3, <1>4, <1>5, <1>6, <1>7, Zenon

\* The upstream that is looked up, tried and stored.
LEMMA ConnectType ==
    ASSUME TypeOK, RouteInv, NEW c \in Conns,
           \/ Lookup(c) \/ CachedConnect(c) \/ Pick(c) \/ GroupExhausted(c) \/ ConnectFails(c)
           \/ Connected(c) \/ ForwardConnected(c) \/ Store(c) \/ RelayEnds(c)
    PROVE TypeOK'
<1>1. RouteOf(c) /\ Members \in [Groups -> SUBSET Upstreams] /\ "default" \in Groups
  BY TcpAssumption, Zenon DEF RouteInv
<1>2. client[c] # None => Routed(c) \in Groups
  BY EligibleType, Zenon
<1>3. pc[c] \in {"cached", "connect", "store"} => up[c] \in Upstreams
  BY <1>1, EligibleType, Zenon DEF RouteOf
<1>4. CASE Lookup(c)
  <2>1. Routed(c) \in Groups
    BY <1>1, <1>2, <1>4, Zenon DEF Lookup, RouteOf, OfClient
  <2>2. \A e \in UpstreamHits(c) : e.up \in Upstreams
    BY Zenon DEF UpstreamHits, TypeOK
  <2>3. upstreamCache' \subseteq upstreamCache
    BY <1>4, Zenon DEF Lookup
  <2>4. up' \in [Conns -> Upstreams \cup {None}] /\ group' \in [Conns -> Groups]
    BY <1>4, <2>1, <2>2, SMT, SMTT(30) DEF Lookup, TypeOK
  <2> QED
    BY <1>4, <2>3, <2>4, Zenon DEF Lookup, TypeOK, envVars
<1>5. CASE CachedConnect(c)
  <2>1. Routed(c) \in Groups /\ up[c] \in Upstreams
    BY <1>1, <1>2, <1>3, <1>5, Zenon DEF CachedConnect, RouteOf, OfClient
  <2>2. upstreamCache' \subseteq upstreamCache
    BY <1>5, Zenon DEF CachedConnect
  <2> QED
    BY <1>5, <2>1, <2>2, SMT, SMTT(30) DEF CachedConnect, TypeOK, envVars
<1>6. CASE Pick(c)
  <2>1. group[c] \in Groups
    BY Zenon DEF TypeOK
  <2>2. Candidates(c) \subseteq Upstreams
    BY <1>1, <2>1, Zenon DEF Candidates
  <2> QED
    BY <1>6, <2>2, SMT, SMTT(30) DEF Pick, TypeOK, envVars, cacheVars
<1>7. CASE GroupExhausted(c)
  BY <1>1, <1>7, SMT, SMTT(30) DEF GroupExhausted, TypeOK, envVars, cacheVars
<1>8. CASE ConnectFails(c)
  BY <1>3, <1>8, Zenon DEF ConnectFails, TypeOK, envVars, cacheVars
<1>9. CASE Connected(c) \/ ForwardConnected(c)
  BY <1>9, Zenon DEF Connected, ForwardConnected, TypeOK, envVars, cacheVars, connVars
<1>10. CASE Store(c)
  <2>1. CacheKey(c) \in Clients \X Targets \X Names /\ up[c] \in Upstreams
    BY <1>1, <1>3, <1>10, EligibleType, Zenon DEF Store, RouteOf, OfClient
  <2>2. [key |-> CacheKey(c), up |-> up[c], at |-> now] \in UpstreamEntries
    BY <2>1, Zenon DEF TypeOK, UpstreamEntries
  <2>3. upstreamCache' \subseteq UpstreamEntries
    BY <1>10, <2>2, PurgedSubset, Zenon DEF Store, TypeOK, UpstreamEntries
  <2> QED
    BY <1>10, <2>3, ZenonT(30) DEF Store, TypeOK, envVars, connVars, UpstreamEntries
<1>11. CASE RelayEnds(c)
  BY <1>1, <1>11, SMT, SMTT(30) DEF RelayEnds, TypeOK, envVars, cacheVars, Names
<1> QED
  BY <1>4, <1>5, <1>6, <1>7, <1>8, <1>9, <1>10, <1>11, Zenon

LEMMA NextType == TypeOK /\ RouteInv /\ [Next]_vars => TypeOK'
<1> SUFFICES ASSUME TypeOK, RouteInv, [Next]_vars PROVE TypeOK'
  BY Zenon
<1>1. CASE \E c \in Conns : Step(c) \/ RelayEnds(c)
  BY <1>1, DecideType, ConnectType, Zenon DEF Step
<1> QED
  BY <1>1, EnvType, Zenon DEF Next

-----------------------------------------------------------------------------
(***************************************************************************)
(* Groups and upstreams.                                                   *)
(***************************************************************************)
LEMMA InitRoute == Init => RouteInv
<1> SUFFICES ASSUME Init PROVE RouteInv
  BY Zenon
<1>1. CacheOk
  BY Zenon DEF Init, CacheOk
<1>2. ASSUME NEW c \in Conns PROVE RouteOf(c)
  <2>1. /\ pc[c] = (IF client[c] = None THEN "pick" ELSE "start")
        /\ failed[c] = {} /\ group[c] = "default"
    BY Zenon DEF Init
  <2>2. CASE client[c] = None
    BY <2>1, <2>2, Zenon DEF RouteOf, OfClient, GroupOk, Eligible
  <2>3. CASE client[c] # None
    BY <2>1, <2>3, Zenon DEF RouteOf, OfClient
  <2> QED
    BY <2>2, <2>3, Zenon
<1> QED
  BY <1>1, <1>2, Zenon DEF RouteInv

\* RouteOf(x) is about the entries of x only.
LEMMA SameRoute ==
    ASSUME NEW x, RouteOf(x), client'[x] = client[x], SameConn(x)
    PROVE RouteOf(x)'
BY Zenon DEF RouteOf, SameConn, GroupOk, Eligible, Routed

\* A hit is an upstream the connection may use, whoever stored it.
LEMMA HitIsEligible ==
    ASSUME TypeOK, CacheOk, NEW c \in Conns, client[c] # None, NEW e \in UpstreamHits(c)
    PROVE e.up \in Eligible(c)
<1>1. e \in upstreamCache /\ e.key = CacheKey(c)
  BY Zenon DEF UpstreamHits
<1>2. Routed(c) = GroupRule[e.key]
  BY <1>1, EligibleType, Zenon
<1> QED
  BY <1>1, <1>2, Zenon DEF CacheOk, Eligible

LEMMA StepCache ==
    ASSUME TypeOK, RouteInv, NEW c \in Conns, Step(c) \/ RelayEnds(c)
    PROVE CacheOk'
<1>1. CASE Store(c)
  <2>1. client[c] # None /\ up[c] \in Eligible(c)
    BY <1>1, Zenon DEF Store, RouteInv, RouteOf, OfClient
  <2>2. up[c] \in Members["default"] \cup Members[GroupRule[CacheKey(c)]]
    BY <2>1, EligibleType, Zenon DEF Eligible
  <2>3. \A e \in upstreamCache' :
            e \in upstreamCache \/ e = [key |-> CacheKey(c), up |-> up[c], at |-> now]
    BY <1>1, PurgedSubset, Zenon DEF Store
  <2> QED
    BY <2>2, <2>3, SMT, SMTT(30) DEF RouteInv, CacheOk
<1>2. CASE ~Store(c)
  <2>1. upstreamCache' \subseteq upstreamCache
    BY <1>2, ZenonT(30) DEF Step, DecideByIp, NeedSniff, Sniff, Decide, DirectConnect, Lookup,
                CachedConnect, Pick, GroupExhausted, ConnectFails, Connected, ForwardConnected,
                RelayEnds, cacheVars
  <2> QED
    BY <2>1, Zenon DEF RouteInv, CacheOk
<1> QED
  BY <1>1, <1>2, Zenon

\* Before a group is chosen, and after the relay, there is little to keep.
LEMMA DecideRoute ==
    ASSUME TypeOK, RouteInv, NEW c \in Conns,
           \/ DecideByIp(c) \/ NeedSniff(c) \/ Sniff(c) \/ Decide(c) \/ DirectConnect(c)
           \/ RelayEnds(c)
    PROVE RouteOf(c)'
<1>1. RouteOf(c) /\ UNCHANGED client
  BY StepFrame, Zenon DEF RouteInv, Step, envVars
<1>2. CASE DecideByIp(c)
  BY <1>1, <1>2, Zenon DEF DecideByIp, RouteOf, OfClient, TypeOK
<1>3. CASE NeedSniff(c)
  <2>1. pc'[c] \in {"direct", "sniff", "decide"} /\ (pc'[c] = "direct" => byIp[c])
    BY <1>3, Zenon DEF NeedSniff, TypeOK
  <2>2. direct'[c] = byIp[c] /\ failed' = failed /\ down' = down /\ pc[c] = "need"
    BY <1>3, Zenon DEF NeedSniff, TypeOK
  <2> QED
    BY <1>1, <2>1, <2>2, ZenonT(30) DEF RouteOf, OfClient
<1>4. CASE Sniff(c)
  BY <1>1, <1>4, Zenon DEF Sniff, RouteOf, OfClient, TypeOK
<1>5. CASE Decide(c)
  <2>1. pc'[c] \in {"direct", "lookup"} /\ (pc'[c] = "direct" => direct'[c])
    BY <1>5, Zenon DEF Decide, TypeOK
  <2>2. failed' = failed /\ down' = down /\ pc[c] = "decide"
    BY <1>5, ZenonT(30) DEF Decide
  <2> QED
    BY <1>1, <2>1, <2>2, Zenon DEF RouteOf, OfClient
<1>6. CASE DirectConnect(c)
  BY <1>1, <1>6, Zenon DEF DirectConnect, connVars, RouteOf, OfClient, TypeOK
<1>7. CASE RelayEnds(c)
  BY <1>1, <1>7, Zenon DEF RelayEnds, RouteOf, OfClient, TypeOK
<1> QED
  BY <1>2, <1>3, <1>4, <1>5, <1>6, <1>7, Zenon

\* The cache and the loop over the candidates.
LEMMA ConnectRoute ==
    ASSUME TypeOK, RouteInv, NEW c \in Conns,
           \/ Lookup(c) \/ CachedConnect(c) \/ Pick(c) \/ GroupExhausted(c) \/ ConnectFails(c)
           \/ Connected(c) \/ ForwardConnected(c) \/ Store(c)
    PROVE RouteOf(c)'
<1>1. RouteOf(c) /\ CacheOk /\ UNCHANGED client
  BY StepFrame, Zenon DEF RouteInv, Step, envVars
<1>2. UNCHANGED domain /\ UNCHANGED direct
  BY ZenonT(30) DEF Lookup, CachedConnect, Pick, GroupExhausted, ConnectFails, Connected,
         ForwardConnected, Store, connVars
<1>3. Eligible(c)' = Eligible(c) /\ Routed(c)' = Routed(c)
  BY <1>1, <1>2, ZenonT(30) DEF Eligible, Routed
<1>4. CASE Lookup(c)
  <2>1. client[c] # None /\ failed' = failed /\ down' = down /\ pc[c] = "lookup"
    BY <1>1, <1>4, ZenonT(30) DEF Lookup, RouteOf, OfClient
  <2>2. CASE UpstreamHits(c) # {} /\ pc' = [pc EXCEPT ![c] = "cached"]
    <3>1. PICK e \in UpstreamHits(c) : up' = [up EXCEPT ![c] = e.up]
      BY <1>4, <2>2, <2>1, Zenon DEF Lookup, TypeOK
    <3>2. up'[c] \in Eligible(c) /\ pc'[c] = "cached"
      BY <1>1, <2>1, <2>2, <3>1, HitIsEligible, Zenon DEF TypeOK
    <3> QED
      BY <1>1, <1>3, <2>1, <3>2, ZenonT(30) DEF RouteOf, OfClient
  <2>3. CASE pc' = [pc EXCEPT ![c] = "pick"] /\ group' = [group EXCEPT ![c] = Routed(c)]
    <3>1. pc'[c] = "pick" /\ group'[c] = Routed(c)
      BY <2>3, Zenon DEF TypeOK
    <3> QED
      BY <1>1, <1>3, <2>1, <3>1, ZenonT(30) DEF RouteOf, OfClient, GroupOk
  <2> QED
    BY <1>4, <2>2, <2>3, Zenon DEF Lookup
<1>5. CASE CachedConnect(c)
  <2>1. client[c] # None /\ up[c] \in Eligible(c) /\ up' = up /\ pc[c] = "cached"
    BY <1>1, <1>5, ZenonT(30) DEF CachedConnect, RouteOf, OfClient
  <2>2. CASE pc' = [pc EXCEPT ![c] = "store"] /\ UNCHANGED <<group, failed, down>>
    <3>1. pc'[c] = "store"
      BY <2>2, Zenon DEF TypeOK
    <3> QED
      BY <1>1, <1>3, <2>1, <2>2, <3>1, ZenonT(30) DEF RouteOf, OfClient
  <2>3. CASE /\ pc' = [pc EXCEPT ![c] = "pick"]
             /\ group' = [group EXCEPT ![c] = Routed(c)]
             /\ down' = [down EXCEPT ![c] = @ \cup {up[c]}]
             /\ failed' = [failed EXCEPT ![c] = {up[c]}]
    <3>1. /\ pc'[c] = "pick" /\ group'[c] = Routed(c)
          /\ failed'[c] \subseteq down'[c]
      BY <2>3, Zenon DEF TypeOK
    <3> QED
      BY <1>1, <1>3, <2>1, <3>1, Zenon DEF RouteOf, OfClient, GroupOk
  <2> QED
    BY <1>5, <2>2, <2>3, Zenon DEF CachedConnect
<1>6. CASE Pick(c)
  <2>1. PICK u \in Candidates(c) : up' = [up EXCEPT ![c] = u]
    BY <1>6, ZenonT(30) DEF Pick
  <2>2. /\ pc[c] = "pick" /\ pc'[c] = "connect" /\ up'[c] = u
        /\ failed' = failed /\ down' = down /\ group' = group
    BY <1>6, <2>1, Zenon DEF Pick, TypeOK
  <2>3. GroupOk(c) /\ u \in Members[group[c]]
    BY <1>1, <2>1, <2>2, Zenon DEF RouteOf, Candidates
  <2>4. u \in Eligible(c)
    BY <2>3, Zenon DEF GroupOk, Eligible
  <2> QED
    BY <1>1, <1>3, <2>2, <2>3, <2>4, ZenonT(30) DEF RouteOf, OfClient, GroupOk
<1>7. CASE GroupExhausted(c)
  <2>1. /\ pc[c] = "pick" /\ up' = up /\ down' = down
        /\ GroupOk(c) /\ Members[group[c]] \subseteq failed[c]
    BY <1>1, <1>7, ZenonT(30) DEF GroupExhausted, RouteOf, Candidates
  <2>2. Members[group[c]] \subseteq down[c]
    BY <1>1, <2>1, ZenonT(30) DEF RouteOf
  <2>3. CASE group[c] = "default"
    <3>1. pc'[c] = "failed" /\ failed' = failed
      BY <1>7, <2>3, Zenon DEF GroupExhausted, TypeOK
    <3>2. Eligible(c) \subseteq down[c]
      BY <2>1, <2>2, <2>3, ZenonT(30) DEF GroupOk, Eligible
    <3> QED
      BY <1>1, <1>3, <2>1, <3>1, <3>2, Zenon DEF RouteOf, OfClient
  <2>4. CASE group[c] # "default"
    <3>1. pc' = pc /\ group'[c] = "default" /\ failed'[c] = {}
      BY <1>7, <2>4, Zenon DEF GroupExhausted, TypeOK
    <3>2. Eligible(c) \subseteq Members["default"] \cup down[c]
      BY <2>1, <2>2, <2>4, ZenonT(30) DEF GroupOk, Eligible
    <3> QED
      BY <1>1, <1>3, <2>1, <3>1, <3>2, ZenonT(30) DEF RouteOf, OfClient, GroupOk
  <2> QED
    BY <2>3, <2>4, Zenon
<1>8. CASE ConnectFails(c)
  <2>1. /\ pc[c] = "connect" /\ pc'[c] = "pick" /\ group' = group /\ up' = up
        /\ failed'[c] = failed[c] \cup {up[c]} /\ down'[c] = down[c] \cup {up[c]}
    BY <1>8, Zenon DEF ConnectFails, TypeOK
  <2> QED
    BY <1>1, <1>3, <2>1, ZenonT(30) DEF RouteOf, OfClient, GroupOk
<1>9. CASE Connected(c) \/ ForwardConnected(c) \/ Store(c)
  <2>1. /\ pc[c] \in {"connect", "store"} /\ pc'[c] \in {"store", "relay"}
        /\ UNCHANGED <<group, failed, up, down>>
        /\ pc'[c] = "store" => client[c] # None
    BY <1>9, ZenonT(30) DEF Connected, ForwardConnected, Store, connVars, TypeOK
  <2> QED
    BY <1>1, <1>3, <2>1, ZenonT(30) DEF RouteOf, OfClient
<1> QED
  BY <1>4, <1>5, <1>6, <1>7, <1>8, <1>9, Zenon

LEMMA NextRoute == TypeOK /\ RouteInv /\ [Next]_vars => RouteInv'
<1> SUFFICES ASSUME TypeOK, RouteInv, [Next]_vars PROVE RouteInv'
  BY Zenon
<1>1. CASE \E c \in Conns : Step(c) \/ RelayEnds(c)
  <2>1. PICK c \in Conns : Step(c) \/ RelayEnds(c)
    BY <1>1, Zenon
  <2>2. RouteOf(c)'
    BY <2>1, DecideRoute, ConnectRoute, Zenon DEF Step
  <2>3. ASSUME NEW x \in Conns \ {c} PROVE RouteOf(x)'
    BY <2>1, StepFrame, SameRoute, Zenon DEF RouteInv, envVars
  <2>4. CacheOk'
    BY <2>1, StepCache, Zenon
  <2> QED
    BY <2>2, <2>3, <2>4, Zenon DEF RouteInv
<1>2. CASE Tick \/ Rotate \/ UNCHANGED vars
  <2>1. UNCHANGED <<client, upstreamCache, pc, domain, direct, group, failed, up, down>>
    BY <1>2, Zenon DEF Tick, Rotate, vars, envVars, cacheVars, connVars
  <2> QED
    BY <2>1, ZenonT(30) DEF RouteInv, RouteOf, CacheOk, GroupOk, Eligible, Routed
<1> QED
  BY <1>1, <1>2, Zenon DEF Next

LEMMA RoutedInv == Spec => [](TypeOK /\ RouteInv)
BY InitType, InitRoute, NextType, NextRoute, PTL DEF Spec

\* The variables of the connect path keep their types (TypeOK).
THEOREM TypeCorrect == Spec => []TypeOK
BY RoutedInv, PTL

\* A relayed connection uses an upstream of its group or of the default group,
\* whatever the other connections have put into the cache (UpstreamOfGroup).
THEOREM UpstreamOfGroupHolds == Spec => []UpstreamOfGroup
<1>1. RouteInv => UpstreamOfGroup
  BY ZenonT(30) DEF RouteInv, RouteOf, UpstreamOfGroup
<1> QED
  BY <1>1, RoutedInv, PTL

\* A proxied connection is given up only when all upstreams it may use have
\* failed it (GivesUpAfterAll).
THEOREM GivesUpAfterAllHolds == Spec => []GivesUpAfterAll
<1>1. RouteInv => GivesUpAfterAll
  BY Zenon DEF RouteInv, RouteOf, GivesUpAfterAll
<1> QED
  BY <1>1, RoutedInv, PTL

-----------------------------------------------------------------------------
(***************************************************************************)
(* The decision.                                                           *)
(***************************************************************************)
\* The cache repeats what the address rules say.
DirectCacheOk == \A e \in directCache : e.direct = IpRule[e.ip]

\* While no rotation comes between, the decision by the address is the one of
\* the mode, a domain that matters is asked for, and what is decided in the end
\* is what the mode says of the domain the client names.
DecideOf(c) ==
    /\ pc[c] \in {"start", "need"} => domain[c] = None
    /\ pc[c] \in Deciding /\ seen[c] # 0 => seen[c] = mode
    /\ pc[c] \in {"need", "sniff", "decide"} /\ seen[c] # 0 =>
          byIp[c] = Decision(seen[c], TargetOf[c], None)
    /\ pc[c] \in {"sniff", "decide"} /\ seen[c] # 0 /\ ~geo[c] =>
          byIp[c] = Decision(seen[c], TargetOf[c], host[c])
    /\ pc[c] = "decide" /\ geo[c] => domain[c] = host[c]
    /\ client[c] # None /\ pc[c] \notin Deciding /\ seen[c] # 0 =>
          direct[c] = Decision(seen[c], TargetOf[c], host[c])

DecideInv == (\A c \in Conns : DecideOf(c)) /\ DirectCacheOk

\* With a cache that repeats the rules, should_direct says what the rules say.
LEMMA ShouldDirectIsDecision ==
    ASSUME TypeOK, DirectCacheOk, NEW ip \in Targets, NEW d \in Names
    PROVE ShouldDirect(ip, d) = Decision(mode, ip, d)
<1>1. DirectHits(ip, d) # {} => (CHOOSE e \in DirectHits(ip, d) : TRUE) \in DirectHits(ip, d)
  BY Zenon
<1>2. \A e \in DirectHits(ip, d) : e.direct = IpRule[ip]
  BY Zenon DEF DirectHits, DirectCacheOk
<1>3. ByAddress(ip, d) = IpRule[ip]
  BY <1>1, <1>2, Zenon DEF ByAddress
<1>4. /\ DomainRule[d] \in {"socks5", "direct", None} /\ None \notin {"socks5", "direct"}
      /\ IpRule[ip] \in BOOLEAN
  BY TcpAssumption, Zenon
<1>5. CASE Modes[mode] # "smart"
  BY <1>5, ZenonT(30) DEF ShouldDirect, Decision
<1>6. CASE Modes[mode] = "smart" /\ DomainRule[d] # None
  BY <1>4, <1>6, ZenonT(30) DEF ShouldDirect, Decision
<1>7. CASE Modes[mode] = "smart" /\ DomainRule[d] = None
  BY <1>3, <1>4, <1>7, ZenonT(30) DEF ShouldDirect, Decision
<1> QED
  BY <1>5, <1>6, <1>7, Zenon

\* Where no sniffing is needed, the domain does not matter.
LEMMA DomainDoesNotMatter ==
    ASSUME ~NeedGeositeSniff, NEW ip \in Targets, NEW d \in Names
    PROVE Decision(mode, ip, d) = Decision(mode, ip, None)
<1>1. CASE Modes[mode] = "smart"
  <2>1. ~ForceDomains /\ ~GeositeTags
    BY <1>1, Zenon DEF NeedGeositeSniff
  <2>2. DomainRule[d] = None /\ DomainRule[None] = None
    BY <2>1, TcpAssumption, Zenon DEF Names
  <2> QED
    BY <2>2, Zenon DEF Decision
<1>2. CASE Modes[mode] # "smart"
  BY <1>2, Zenon DEF Decision
<1> QED
  BY <1>1, <1>2, Zenon

LEMMA CacheDecisionOk ==
    ASSUME DirectCacheOk, NEW ip, NEW d, CacheDecision(ip, d)
    PROVE DirectCacheOk'
<1>1. \A e \in directCache' :
          e \in directCache \/ e = [ip |-> ip, domain |-> d, direct |-> IpRule[ip], at |-> now]
  BY PurgedSubset, Zenon DEF CacheDecision
<1> QED
  BY <1>1, SMT, SMTT(30) DEF DirectCacheOk

LEMMA InitDecide == Init => DecideInv
<1> SUFFICES ASSUME Init PROVE DecideInv
  BY Zenon
<1>1. DirectCacheOk
  BY Zenon DEF Init, DirectCacheOk
<1>2. ASSUME NEW c \in Conns PROVE DecideOf(c)
  <2>1. /\ pc[c] = (IF client[c] = None THEN "pick" ELSE "start")
        /\ seen[c] = mode /\ domain[c] = None
    BY Zenon DEF Init
  <2> QED
    BY <2>1, Zenon DEF DecideOf, Deciding
<1> QED
  BY <1>1, <1>2, Zenon DEF DecideInv

LEMMA StepDirectCache ==
    ASSUME DecideInv, NEW c \in Conns, Step(c) \/ RelayEnds(c)
    PROVE DirectCacheOk'
<1>1. CASE DecideByIp(c) \/ (Decide(c) /\ geo[c])
  BY <1>1, CacheDecisionOk, ZenonT(30) DEF DecideByIp, Decide, DecideInv
<1>2. CASE ~(DecideByIp(c) \/ (Decide(c) /\ geo[c]))
  <2>1. directCache' = directCache
    BY <1>2, ZenonT(30) DEF Step, NeedSniff, Sniff, Decide, DirectConnect, Lookup, CachedConnect,
                Pick, GroupExhausted, ConnectFails, Connected, ForwardConnected, Store, RelayEnds,
                cacheVars
  <2> QED
    BY <2>1, ZenonT(30) DEF DecideInv, DirectCacheOk
<1> QED
  BY <1>1, <1>2, Zenon

LEMMA StepDecide ==
    ASSUME TypeOK, RouteInv, DecideInv, NEW c \in Conns, Step(c) \/ RelayEnds(c)
    PROVE DecideOf(c)'
<1>1. DecideOf(c) /\ DirectCacheOk /\ UNCHANGED <<mode, client, host>>
  BY StepFrame, Zenon DEF DecideInv, envVars
<1>2. /\ TargetOf[c] \in Targets /\ domain[c] \in Names /\ None \in Names
      /\ host[c] \in Names /\ mode \in 1 .. 3
  BY TcpAssumption, Zenon DEF TypeOK, Names
<1>3. \A d \in Names : ShouldDirect(TargetOf[c], d) = Decision(mode, TargetOf[c], d)
  BY <1>1, <1>2, ShouldDirectIsDecision, Zenon
<1>4. CASE DecideByIp(c)
  <2>1. /\ pc[c] = "start" /\ pc'[c] = "need" /\ seen' = seen /\ domain' = domain
        /\ byIp'[c] = Decision(mode, TargetOf[c], None)
    BY <1>2, <1>3, <1>4, Zenon DEF DecideByIp, TypeOK
  <2>2. domain[c] = None /\ (seen[c] # 0 => seen[c] = mode)
    BY <1>1, <2>1, ZenonT(30) DEF DecideOf, Deciding
  <2> QED
    BY <1>1, <2>1, <2>2, ZenonT(30) DEF DecideOf, Deciding
<1>5. CASE NeedSniff(c)
  <2>1. /\ pc[c] = "need" /\ seen' = seen /\ byIp' = byIp /\ domain' = domain
        /\ geo'[c] = NeedGeositeSniff /\ direct'[c] = byIp[c]
        /\ pc'[c] \in {"direct", "sniff", "decide"}
        /\ pc'[c] \in {"direct", "decide"} => ~geo'[c]
    BY <1>5, Zenon DEF NeedSniff, TypeOK
  <2>2. seen[c] # 0 => seen[c] = mode /\ byIp[c] = Decision(seen[c], TargetOf[c], None)
    BY <1>1, <2>1, Zenon DEF DecideOf, Deciding
  <2>3. seen[c] # 0 /\ ~geo'[c] => byIp[c] = Decision(seen[c], TargetOf[c], host[c])
    BY <1>2, <2>1, <2>2, DomainDoesNotMatter, ZenonT(30)
  <2> QED
    BY <1>1, <2>1, <2>2, <2>3, ZenonT(30) DEF DecideOf, Deciding
<1>6. CASE Sniff(c)
  <2>1. /\ pc[c] = "sniff" /\ pc'[c] = "decide" /\ domain'[c] = host[c]
        /\ UNCHANGED <<byIp, geo, seen>>
    BY <1>6, Zenon DEF Sniff, TypeOK
  <2> QED
    BY <1>1, <2>1, Zenon DEF DecideOf, Deciding
<1>7. CASE Decide(c)
  <2>1. /\ pc[c] = "decide" /\ pc'[c] \in {"direct", "lookup"} /\ UNCHANGED <<domain, seen>>
        /\ direct'[c] = IF geo[c] THEN ShouldDirect(TargetOf[c], domain[c]) ELSE byIp[c]
    BY <1>7, Zenon DEF Decide, TypeOK
  <2>2. seen[c] # 0 => direct'[c] = Decision(seen[c], TargetOf[c], host[c])
    <3>1. CASE geo[c]
      BY <1>1, <1>2, <1>3, <2>1, <3>1, ZenonT(30) DEF DecideOf, Deciding
    <3>2. CASE ~geo[c]
      BY <1>1, <2>1, <3>2, Zenon DEF DecideOf
    <3> QED
      BY <3>1, <3>2, ZenonT(30)
  <2> QED
    BY <1>1, <2>1, <2>2, ZenonT(30) DEF DecideOf, Deciding
<1>8. CASE \/ DirectConnect(c) \/ Lookup(c) \/ CachedConnect(c) \/ Pick(c) \/ GroupExhausted(c)
           \/ ConnectFails(c) \/ Connected(c) \/ ForwardConnected(c) \/ Store(c)
  <2>1. pc[c] \notin Deciding /\ pc'[c] \notin Deciding /\ UNCHANGED <<direct, seen>>
    BY <1>8, ZenonT(30) DEF DirectConnect, Lookup, CachedConnect, Pick, GroupExhausted, ConnectFails,
                Connected, ForwardConnected, Store, connVars, TypeOK, Deciding
  <2> QED
    BY <1>1, <2>1, ZenonT(30) DEF DecideOf, Deciding
<1>9. CASE RelayEnds(c)
  <2>1. pc'[c] = "over" /\ seen'[c] = 0
    BY <1>9, Zenon DEF RelayEnds, TypeOK
  <2> QED
    BY <2>1, ZenonT(30) DEF DecideOf, Deciding
<1> QED
  BY <1>4, <1>5, <1>6, <1>7, <1>8, <1>9, Zenon DEF Step

LEMMA SameDecide ==
    ASSUME NEW x, DecideOf(x), client'[x] = client[x], host'[x] = host[x], mode' = mode, SameConn(x)
    PROVE DecideOf(x)'
BY ZenonT(30) DEF DecideOf, SameConn, Deciding, Decision

LEMMA NextDecide == TypeOK /\ RouteInv /\ DecideInv /\ [Next]_vars => DecideInv'
<1> SUFFICES ASSUME TypeOK, RouteInv, DecideInv, [Next]_vars PROVE DecideInv'
  BY Zenon
<1>1. CASE \E c \in Conns : Step(c) \/ RelayEnds(c)
  <2>1. PICK c \in Conns : Step(c) \/ RelayEnds(c)
    BY <1>1, Zenon
  <2>2. DecideOf(c)' /\ DirectCacheOk'
    BY <2>1, StepDecide, StepDirectCache, Zenon
  <2>3. ASSUME NEW x \in Conns \ {c} PROVE DecideOf(x)'
    BY <2>1, StepFrame, SameDecide, ZenonT(30) DEF DecideInv, envVars
  <2> QED
    BY <2>2, <2>3, Zenon DEF DecideInv
<1>2. CASE Rotate
  <2>1. UNCHANGED <<client, host, directCache, pc, byIp, geo, domain, direct>>
    BY <1>2, ZenonT(30) DEF Rotate, cacheVars, connVars
  <2>2. ASSUME NEW c \in Conns PROVE DecideOf(c)'
    <3>1. seen'[c] = IF pc[c] \in Deciding THEN 0 ELSE seen[c]
      BY <1>2, ZenonT(30) DEF Rotate
    <3>2. DecideOf(c)
      BY Zenon DEF DecideInv
    <3> QED
      BY <2>1, <3>1, <3>2, ZenonT(30) DEF DecideOf, Deciding
  <2> QED
    BY <2>1, <2>2, Zenon DEF DecideInv, DirectCacheOk
<1>3. CASE Tick \/ UNCHANGED vars
  <2>1. /\ UNCHANGED <<mode, client, host, directCache>>
        /\ \A x \in Conns : SameConn(x)
    BY <1>3, ZenonT(30) DEF Tick, vars, envVars, cacheVars, connVars, SameConn
  <2> QED
    BY <2>1, SameDecide, ZenonT(30) DEF DecideInv, DirectCacheOk
<1> QED
  BY <1>1, <1>2, <1>3, Zenon DEF Next

\* A connection goes the way its mode prescribes, in spite of the two decisions,
\* the lazy sniffing and the cache (DecisionMatchesMode).
THEOREM DecisionMatchesModeHolds == Spec => []DecisionMatchesMode
<1>1. DecideInv => DecisionMatchesMode
  BY ZenonT(30) DEF DecideInv, DecideOf, DecisionMatchesMode
<1> QED
  BY <1>1, RoutedInv, InitDecide, NextDecide, PTL DEF Spec

-----------------------------------------------------------------------------
(***************************************************************************)
(* The relay.                                                              *)
(***************************************************************************)
\* The types that the arguments about time need.
Times == quiet \in 0 .. Grace /\ timer \in 0 .. Grace

\* A relay that is over has an end, and RST is asked for by a timeout only.
Ends ==
    /\ stage = "over" <=> end # "none"
    /\ linger => end = "timeout"

\* The flags of copy_bidirectional tell what has happened: the timer is armed
\* after an EOF only, and an EOF was read from some source.
Flags ==
    /\ {eof, activity, armed, guarded} \subseteq BOOLEAN
    /\ readDone \in [Directions -> BOOLEAN]
    /\ armed => eof
    /\ eof => \E d \in Directions : readDone[d]
    /\ stage = "check" => guarded

\* An armed timer never runs ahead of the silence: what is left on it and the
\* ticks since the last byte make up the grace period, unless a byte has moved
\* that the check of the timer has not seen yet.
TimerInv == armed /\ ~activity => timer + quiet >= Grace

Timed == end = "timeout" => guarded /\ eof /\ quiet = Grace

SilenceInv == Times /\ Ends /\ Flags /\ TimerInv /\ Timed

LEMMA InitSilence == RelayInit => SilenceInv
<1>1. Grace \in Nat /\ Grace > 0
  BY RelayAssumption, SMT, SMTT(30)
<1>2. RelayInit => Times
  BY <1>1, SMT, SMTT(30) DEF RelayInit, Times
<1>3. RelayInit => Ends /\ Flags
  BY Zenon DEF RelayInit, Ends, Flags, Enabled
<1>4. RelayInit => TimerInv /\ Timed
  BY Zenon DEF RelayInit, TimerInv, Timed
<1> QED
  BY <1>2, <1>3, <1>4, Zenon DEF SilenceInv

\* The peers leave the relay alone.
LEMMA PeerSilence ==
    ASSUME SilenceInv, NEW d \in Directions, Sends(d) \/ Closes(d) \/ Drains(d)
    PROVE SilenceInv'
<1>1. UNCHANGED <<guarded, readDone, eof, activity, armed, timer, stage, end, linger, quiet>>
  BY Zenon DEF Sends, Closes, Drains, flagVars, copyVars
<1> QED
  BY <1>1, Zenon DEF SilenceInv, Times, Ends, Flags, TimerInv, Timed

\* A tick takes from the timer what it adds to the silence.
LEMMA TickSilence == SilenceInv /\ RelayTick => SilenceInv'
<1> SUFFICES ASSUME SilenceInv, RelayTick PROVE SilenceInv'
  BY Zenon
<1>1. Grace \in Nat /\ quiet \in 0 .. Grace /\ timer \in 0 .. Grace
  BY RelayAssumption, Zenon DEF SilenceInv, Times
<1>2. UNCHANGED <<guarded, readDone, eof, activity, armed, stage, end, linger>> /\ end = "none"
  BY Zenon DEF RelayTick, copyVars, Running
<1>3. quiet' = (IF quiet < Grace THEN quiet + 1 ELSE quiet) /\ timer' = Dec(timer)
  BY Zenon DEF RelayTick
<1>4. Times'
  BY <1>1, <1>3, SMT, SMTT(30) DEF Times, Dec
<1>5. TimerInv'
  BY <1>1, <1>2, <1>3, SMT, SMTT(30) DEF SilenceInv, TimerInv, Dec
<1>6. Ends' /\ Flags'
  BY <1>2, Zenon DEF SilenceInv, Ends, Flags
<1>7. Timed'
  BY <1>2, Zenon DEF Timed
<1> QED
  BY <1>4, <1>5, <1>6, <1>7, Zenon DEF SilenceInv

\* The copy: a byte that moves ends the silence and says so.
LEMMA CopySilence ==
    ASSUME SilenceInv, NEW d \in Directions, Read(d) \/ ReadEof(d) \/ Write(d) \/ Shutdown(d)
    PROVE SilenceInv'
<1>1. stage = "copy" /\ UNCHANGED <<guarded, armed, timer, stage, end, linger>>
  BY Zenon DEF Read, ReadEof, Write, Shutdown, flagVars
<1>2. end = "none"
  BY <1>1, Zenon DEF SilenceInv, Ends
<1>3. Grace \in Nat
  BY RelayAssumption, Zenon
<1>4. CASE Read(d) \/ Write(d)
  <2>1. activity' = TRUE /\ quiet' = 0 /\ UNCHANGED <<eof, readDone>>
    BY <1>4, Zenon DEF Read, Write
  <2>2. Times' /\ TimerInv'
    BY <1>1, <1>3, <2>1, SMT, SMTT(30) DEF SilenceInv, Times, TimerInv
  <2>3. Flags'
    BY <1>1, <2>1, Zenon DEF SilenceInv, Flags
  <2>4. Ends' /\ Timed'
    BY <1>1, <1>2, Zenon DEF SilenceInv, Ends, Timed
  <2> QED
    BY <2>2, <2>3, <2>4, Zenon DEF SilenceInv
<1>5. CASE ReadEof(d)
  <2>1. /\ readDone' = [readDone EXCEPT ![d] = TRUE] /\ eof' = TRUE
        /\ quiet' = (IF eof THEN quiet ELSE 0) /\ UNCHANGED activity
    BY <1>5, Zenon DEF ReadEof
  <2>2. Flags'
    BY <1>1, <2>1, Zenon DEF SilenceInv, Flags
  <2>3. Times' /\ TimerInv'
    BY <1>1, <1>3, <2>1, SMT, SMTT(30) DEF SilenceInv, Times, TimerInv, Flags
  <2>4. Ends' /\ Timed'
    BY <1>1, <1>2, Zenon DEF SilenceInv, Ends, Timed
  <2> QED
    BY <2>2, <2>3, <2>4, Zenon DEF SilenceInv
<1>6. CASE Shutdown(d)
  <2>1. UNCHANGED <<eof, readDone, activity, quiet>>
    BY <1>6, Zenon DEF Shutdown, flagVars
  <2>2. Times' /\ TimerInv' /\ Flags'
    BY <1>1, <2>1, Zenon DEF SilenceInv, Times, TimerInv, Flags
  <2>3. Ends' /\ Timed'
    BY <1>1, <1>2, Zenon DEF SilenceInv, Ends, Timed
  <2> QED
    BY <2>2, <2>3, Zenon DEF SilenceInv
<1> QED
  BY <1>4, <1>5, <1>6, Zenon

\* The ends of the copy, and the beginning of a poll.
LEMMA PollSilence == SilenceInv /\ (Wake \/ Finish \/ Fail \/ CopyPending) => SilenceInv'
<1> SUFFICES ASSUME SilenceInv, Wake \/ Finish \/ Fail \/ CopyPending PROVE SilenceInv'
  BY Zenon
<1>1. UNCHANGED <<guarded, readDone, eof, activity, armed, timer, linger, quiet>>
  BY Zenon DEF Wake, Finish, Fail, CopyPending, copyVars, flagVars
<1>2. stage \in {"idle", "copy"} /\ end = "none"
  BY Zenon DEF SilenceInv, Ends, Wake, Finish, Fail, CopyPending
<1>3. /\ end' \in {"none", "finished", "error"} /\ (stage' = "over" <=> end' # "none")
      /\ stage' = "check" => guarded
  BY <1>2, Zenon DEF Wake, Finish, Fail, CopyPending
<1> QED
  BY <1>1, <1>2, <1>3, Zenon DEF SilenceInv, Times, Ends, Flags, TimerInv, Timed

\* The check: the timer is set anew, or it has not been since the last byte.
LEMMA CheckSilence == SilenceInv /\ CheckTimer => SilenceInv'
<1> SUFFICES ASSUME SilenceInv, CheckTimer PROVE SilenceInv'
  BY Zenon
<1>1. /\ Grace \in Nat /\ Grace > 0 /\ quiet \in 0 .. Grace /\ timer \in 0 .. Grace
      /\ stage = "check" /\ guarded /\ end = "none" /\ ~linger
  BY RelayAssumption, SMT, SMTT(30) DEF SilenceInv, Times, Ends, Flags, CheckTimer
<1>2. /\ activity' = FALSE /\ armed' = (armed \/ eof)
      /\ timer' = (IF eof /\ (~armed \/ activity) THEN Grace ELSE timer)
      /\ UNCHANGED <<guarded, readDone, eof, quiet>>
  BY Zenon DEF CheckTimer, HalfClosed, Restarts, copyVars
<1>3. Times' /\ TimerInv'
  BY <1>1, <1>2, SMT, SMTT(30) DEF SilenceInv, Times, TimerInv, Flags
<1>4. CASE eof /\ timer' = 0
  <2>1. stage' = "over" /\ end' = "timeout" /\ linger' = TRUE
    BY <1>4, Zenon DEF CheckTimer, HalfClosed, Reclaim
  <2>2. armed' /\ ~activity'
    BY <1>2, <1>4, Zenon
  <2>3. quiet' = Grace
    BY <1>1, <1>2, <1>3, <1>4, <2>2, SMT, SMTT(30) DEF TimerInv, Times
  <2> QED
    BY <1>1, <1>2, <1>3, <1>4, <2>1, <2>3, Zenon DEF SilenceInv, Ends, Flags, Timed
<1>5. CASE ~(eof /\ timer' = 0)
  <2>1. stage' = "idle" /\ UNCHANGED <<end, linger>>
    BY <1>5, Zenon DEF CheckTimer, HalfClosed
  <2> QED
    BY <1>1, <1>2, <1>3, <2>1, Zenon DEF SilenceInv, Ends, Flags, Timed
<1> QED
  BY <1>4, <1>5, Zenon

LEMMA NextSilence == SilenceInv /\ [RelayNext]_relayVars => SilenceInv'
<1> SUFFICES ASSUME SilenceInv, [RelayNext]_relayVars PROVE SilenceInv'
  BY Zenon
<1>1. CASE \E d \in Directions : Sends(d) \/ Closes(d) \/ Drains(d)
  BY <1>1, PeerSilence, Zenon
<1>2. CASE Copies
  BY <1>2, CopySilence, Zenon DEF Copies
<1>3. CASE UNCHANGED relayVars
  BY <1>3, Zenon DEF relayVars, copyVars, flagVars, SilenceInv, Times, Ends, Flags, TimerInv, Timed
<1> QED
  BY <1>1, <1>2, <1>3, TickSilence, PollSilence, CheckSilence, Zenon DEF RelayNext

\* A relay is reclaimed only after a silent grace period (ReclaimedOnlyIfSilent).
THEOREM ReclaimedOnlyIfSilentHolds == RelaySpec => []ReclaimedOnlyIfSilent
<1>1. SilenceInv => ReclaimedOnlyIfSilent
  BY Zenon DEF SilenceInv, Ends, Flags, Timed, ReclaimedOnlyIfSilent
<1> QED
  BY <1>1, InitSilence, NextSilence, PTL DEF RelaySpec

-----------------------------------------------------------------------------
(***************************************************************************)
(* The copy is polled before the timer.                                    *)
(***************************************************************************)
Shapes ==
    /\ inq \in [Directions -> Nat] /\ buf \in [Directions -> Nat]
    /\ room \in [Directions -> 0 .. 1]
    /\ fin \in [Directions -> BOOLEAN] /\ shut \in [Directions -> BOOLEAN]
    /\ readDone \in [Directions -> BOOLEAN]

\* A poll that found something to do still has it to do until a byte moves, and
\* cannot come to the check before; only an armed timer can have run out.
Promised == ready /\ stage = "copy" => activity \/ ~armed \/ Promising
Checked == ready /\ stage = "check" => activity \/ ~armed

PollInv == SilenceInv /\ Shapes /\ Promised /\ Checked /\ CopyWinsOverTimer

LEMMA InitPoll == RelayInit => PollInv
<1>1. RelayInit => Shapes
  BY SMT, SMTT(30) DEF RelayInit, Shapes
<1> QED
  BY <1>1, InitSilence, Zenon DEF RelayInit, PollInv, Promised, Checked, CopyWinsOverTimer

LEMMA NextShapes == Shapes /\ [RelayNext]_relayVars => Shapes'
<1> SUFFICES ASSUME Shapes, [RelayNext]_relayVars PROVE Shapes'
  BY Zenon
<1>1. CASE \E d \in Directions : Sends(d) \/ Closes(d) \/ Drains(d)
  <2>1. PICK d \in Directions : Sends(d) \/ Closes(d) \/ Drains(d)
    BY <1>1, Zenon
  <2>2. CASE Sends(d)
    BY <2>2, SMT, SMTT(30) DEF Sends, Shapes
  <2>3. CASE Closes(d)
    BY <2>3, Zenon DEF Closes, copyVars, Shapes
  <2>4. CASE Drains(d)
    BY <2>4, SMT, SMTT(30) DEF Drains, peerVars, Shapes
  <2> QED
    BY <2>1, <2>2, <2>3, <2>4, Zenon
<1>2. CASE Copies
  <2>1. PICK d \in Directions : Read(d) \/ ReadEof(d) \/ Write(d) \/ Shutdown(d)
    BY <1>2, Zenon DEF Copies
  <2>2. CASE Read(d)
    <3>1. inq[d] \in Nat /\ inq[d] > 0 /\ buf[d] \in Nat
      BY <2>2, Zenon DEF Read, CanRead, Shapes
    <3> QED
      BY <2>2, <3>1, SMT, SMTT(30) DEF Read, peerVars, Shapes
  <2>3. CASE ReadEof(d)
    BY <2>3, Zenon DEF ReadEof, peerVars, Shapes
  <2>4. CASE Write(d)
    <3>1. buf[d] \in Nat /\ buf[d] > 0 /\ room[d] = 1
      BY <2>4, SMT, SMTT(30) DEF Write, CanWrite, Shapes
    <3> QED
      BY <2>4, <3>1, SMT, SMTT(30) DEF Write, peerVars, Shapes
  <2>5. CASE Shutdown(d)
    BY <2>5, Zenon DEF Shutdown, peerVars, Shapes
  <2> QED
    BY <2>1, <2>2, <2>3, <2>4, <2>5, Zenon
<1>3. CASE RelayTick \/ Wake \/ Finish \/ Fail \/ CopyPending \/ CheckTimer \/ UNCHANGED relayVars
  <2>1. UNCHANGED <<peerVars, copyVars>>
    BY <1>3, Zenon DEF RelayTick, Wake, Finish, Fail, CopyPending, CheckTimer, relayVars
  <2> QED
    BY <2>1, Zenon DEF peerVars, copyVars, Shapes
<1> QED
  BY <1>1, <1>2, <1>3, Zenon DEF RelayNext

\* A peer takes nothing away that the poll could move.
LEMMA PeerKeepsPromise ==
    ASSUME Shapes, Promising, NEW d \in Directions, Sends(d) \/ Closes(d) \/ Drains(d)
    PROVE Promising'
<1>1. CASE \E e \in Directions : CanRead(e) \/ CanWrite(e)
  <2>1. PICK e \in Directions : CanRead(e) \/ CanWrite(e)
    BY <1>1, Zenon
  <2>2. CanRead(e)' \/ CanWrite(e)'
    <3>1. CASE Sends(d)
      BY <2>1, <3>1, SMT, SMTT(30) DEF Sends, CanRead, MayRead, CanWrite, Shapes
    <3>2. CASE Closes(d)
      BY <2>1, <3>2, Zenon DEF Closes, copyVars, CanRead, MayRead, CanWrite
    <3>3. CASE Drains(d)
      BY <2>1, <3>3, SMT, SMTT(30) DEF Drains, CanRead, MayRead, CanWrite, Shapes
    <3> QED
      BY <3>1, <3>2, <3>3, Zenon
  <2> QED
    BY <2>2, Zenon DEF Promising
<1>2. CASE \A e \in Directions : fin[e] /\ inq[e] = 0 /\ buf[e] = 0
  <2>1. Drains(d)
    BY <1>2, Zenon DEF Sends, Closes
  <2> QED
    BY <1>2, <2>1, ZenonT(30) DEF Drains, peerVars, Promising
<1> QED
  BY <1>1, <1>2, Zenon DEF Promising

\* Neither does the end of a stream, read or passed on.
LEMMA EndKeepsPromise ==
    ASSUME Shapes, Promising, NEW d \in Directions, ReadEof(d) \/ Shutdown(d)
    PROVE Promising'
<1>1. UNCHANGED <<fin, inq, buf, room>>
  BY Zenon DEF ReadEof, Shutdown, peerVars
<1>2. \A e \in Directions : CanRead(e) => readDone'[e] = readDone[e]
  BY SMT, SMTT(30) DEF ReadEof, Shutdown, CanReadEof, CanRead, Shapes
<1> QED
  BY <1>1, <1>2, Zenon DEF Promising, CanRead, MayRead, CanWrite

\* With something to do the copy is not pending.
LEMMA PromisingIsNotPending == Shapes /\ Promising => ~CopyPending
<1> SUFFICES ASSUME Shapes, Promising, CopyPending PROVE FALSE
  BY Zenon
<1>1. \A e \in Directions : ~CanRead(e) /\ ~CanReadEof(e) /\ ~CanWrite(e) /\ ~CanShut(e)
  BY Zenon DEF CopyPending, CanMove
<1>2. \A e \in Directions : fin[e] /\ inq[e] = 0 /\ buf[e] = 0
  BY <1>1, Zenon DEF Promising
<1>3. PICK e \in Directions : ~shut[e]
  BY Zenon DEF CopyPending
<1>4. readDone[e]
  BY <1>1, <1>2, RelayAssumption, SMT, SMTT(30) DEF CanReadEof, MayRead
<1> QED
  BY <1>1, <1>2, <1>3, <1>4, Zenon DEF CanShut

LEMMA NextPoll == PollInv /\ [RelayNext]_relayVars => PollInv'
<1> SUFFICES ASSUME PollInv, [RelayNext]_relayVars PROVE Promised' /\ Checked' /\ CopyWinsOverTimer'
  BY NextSilence, NextShapes, Zenon DEF PollInv
<1> USE DEF PollInv
<1>1. CASE \E d \in Directions : Sends(d) \/ Closes(d) \/ Drains(d)
  <2>1. PICK d \in Directions : Sends(d) \/ Closes(d) \/ Drains(d)
    BY <1>1, Zenon
  <2>2. UNCHANGED <<ready, stage, activity, armed, end>>
    BY <2>1, Zenon DEF Sends, Closes, Drains, flagVars
  <2>3. Promising => Promising'
    BY <2>1, PeerKeepsPromise, Zenon
  <2> QED
    BY <2>2, <2>3, Zenon DEF Promised, Checked, CopyWinsOverTimer
<1>2. CASE Copies
  <2>1. PICK d \in Directions : Read(d) \/ ReadEof(d) \/ Write(d) \/ Shutdown(d)
    BY <1>2, Zenon DEF Copies
  <2>2. stage = "copy" /\ UNCHANGED <<ready, stage, armed, end>>
    BY <2>1, Zenon DEF Read, ReadEof, Write, Shutdown, flagVars
  <2>3. activity' = TRUE \/ (activity' = activity /\ (Promising => Promising'))
    BY <2>1, EndKeepsPromise, ZenonT(30) DEF Read, ReadEof, Write, Shutdown, flagVars
  <2> QED
    BY <2>2, <2>3, Zenon DEF Promised, Checked, CopyWinsOverTimer
<1>3. CASE RelayTick \/ UNCHANGED relayVars
  <2>1. UNCHANGED <<ready, stage, activity, armed, end, fin, inq, room, buf, readDone>>
    BY <1>3, Zenon DEF RelayTick, relayVars, peerVars, copyVars, flagVars
  <2> QED
    BY <2>1, Zenon DEF Promised, Checked, CopyWinsOverTimer, Promising, CanRead, MayRead, CanWrite
<1>4. CASE Wake
  <2>1. /\ stage = "idle" /\ stage' = "copy" /\ ready' = Promising /\ end' = end
        /\ UNCHANGED <<fin, inq, room, buf, readDone>>
    BY <1>4, Zenon DEF Wake, peerVars, copyVars
  <2>2. end # "timeout"
    BY <2>1, Zenon DEF SilenceInv, Ends
  <2> QED
    BY <2>1, <2>2, Zenon DEF Promised, Checked, CopyWinsOverTimer, Promising, CanRead, MayRead, CanWrite
<1>5. CASE Finish \/ Fail
  BY <1>5, Zenon DEF Finish, Fail, Promised, Checked, CopyWinsOverTimer
<1>6. CASE CopyPending
  <2>1. stage = "copy" /\ stage' # "copy" /\ UNCHANGED <<ready, activity, armed, end>>
    BY <1>6, Zenon DEF CopyPending, flagVars
  <2>2. ~Promising
    BY <1>6, PromisingIsNotPending, Zenon
  <2> QED
    BY <2>1, <2>2, Zenon DEF Promised, Checked, CopyWinsOverTimer
<1>7. CASE CheckTimer
  <2>1. stage = "check" /\ stage' \in {"idle", "over"} /\ ready' = ready
    BY <1>7, Zenon DEF CheckTimer, Reclaim
  <2>2. end = "none"
    BY <2>1, Zenon DEF SilenceInv, Ends
  <2>3. ASSUME end' = "timeout" PROVE armed /\ ~activity
    BY <1>7, <2>2, <2>3, RelayAssumption, Zenon DEF CheckTimer, Restarts, HalfClosed
  <2> QED
    BY <2>1, <2>3, Zenon DEF Promised, Checked, CopyWinsOverTimer
<1> QED
  BY <1>1, <1>2, <1>3, <1>4, <1>5, <1>6, <1>7, Zenon DEF RelayNext

\* What arrives together with the deadline wins (CopyWinsOverTimer).
THEOREM CopyWinsOverTimerHolds == RelaySpec => []CopyWinsOverTimer
<1>1. PollInv => CopyWinsOverTimer
  BY Zenon DEF PollInv
<1> QED
  BY <1>1, InitPoll, NextPoll, PTL DEF RelaySpec

-----------------------------------------------------------------------------
(***************************************************************************)
(* Types.  No more bytes wait than were sent, so that the bound of the     *)
(* sender bounds the socket; a buffer is not read into when it is full.    *)
(***************************************************************************)
Amounts ==
    /\ sent \in [Directions -> 0 .. MaxBytes]
    /\ \A d \in Directions : inq[d] <= sent[d] /\ buf[d] <= Buffer
    /\ stage \in {"idle", "copy", "check", "over"}
    /\ end \in {"none", "finished", "error", "timeout"}
    /\ linger \in BOOLEAN /\ ready \in BOOLEAN

LEMMA InitAmounts == RelayInit => Amounts
<1> SUFFICES ASSUME RelayInit PROVE Amounts
  BY Zenon
<1>1. Buffer \in Nat /\ MaxBytes \in Nat
  BY RelayAssumption, Zenon
<1>2. \A d \in Directions : sent[d] = 0 /\ inq[d] = 0 /\ buf[d] = 0
  BY Zenon DEF RelayInit
<1>3. sent \in [Directions -> 0 .. MaxBytes]
  BY <1>1, SMT, SMTT(30) DEF RelayInit
<1>4. stage = "copy" /\ end = "none" /\ linger = FALSE /\ ready = TRUE
  BY Zenon DEF RelayInit
<1>5. \A d \in Directions : inq[d] <= sent[d] /\ buf[d] <= Buffer
  <2> TAKE d \in Directions
  <2>1. sent[d] = 0 /\ inq[d] = 0 /\ buf[d] = 0
    BY <1>2, Zenon
  <2> QED
    BY <1>1, <2>1, SMT, SMTT(30)
<1> QED
  BY <1>3, <1>4, <1>5, Zenon DEF Amounts

LEMMA NextAmounts == Shapes /\ Amounts /\ [RelayNext]_relayVars => Amounts'
<1> SUFFICES ASSUME Shapes, Amounts, [RelayNext]_relayVars PROVE Amounts'
  BY Zenon
<1>0. Buffer \in Nat /\ MaxBytes \in Nat
  BY RelayAssumption, Zenon
<1>1. CASE \E d \in Directions : Sends(d) \/ Closes(d) \/ Drains(d)
  <2>1. PICK d \in Directions : Sends(d) \/ Closes(d) \/ Drains(d)
    BY <1>1, Zenon
  <2>2. CASE Sends(d)
    BY <1>0, <2>2, SMT, SMTT(30) DEF Sends, Shapes, Amounts
  <2>3. CASE Closes(d) \/ Drains(d)
    BY <2>3, Zenon DEF Closes, Drains, copyVars, peerVars, Amounts
  <2> QED
    BY <2>1, <2>2, <2>3, Zenon
<1>2. CASE Copies
  <2>1. PICK d \in Directions : Read(d) \/ ReadEof(d) \/ Write(d) \/ Shutdown(d)
    BY <1>2, Zenon DEF Copies
  <2>2. CASE Read(d)
    <3>1. inq[d] > 0 /\ buf[d] < Buffer
      BY <2>2, Zenon DEF Read, CanRead, MayRead
    <3> QED
      BY <1>0, <2>2, <3>1, SMT, SMTT(30) DEF Read, peerVars, Shapes, Amounts
  <2>3. CASE Write(d)
    <3>1. buf[d] > 0
      BY <2>3, Zenon DEF Write, CanWrite
    <3> QED
      BY <1>0, <2>3, <3>1, SMT, SMTT(30) DEF Write, peerVars, Shapes, Amounts
  <2>4. CASE ReadEof(d) \/ Shutdown(d)
    BY <2>4, Zenon DEF ReadEof, Shutdown, peerVars, Amounts
  <2> QED
    BY <2>1, <2>2, <2>3, <2>4, Zenon
<1>3. CASE RelayTick \/ Wake \/ Finish \/ Fail \/ CopyPending \/ CheckTimer \/ UNCHANGED relayVars
  <2>1. UNCHANGED <<sent, inq, buf>>
    BY <1>3, ZenonT(30) DEF RelayTick, Wake, Finish, Fail, CopyPending, CheckTimer, relayVars, peerVars, copyVars
  <2>2. /\ stage' \in {"idle", "copy", "check", "over"}
        /\ end' \in {"none", "finished", "error", "timeout"}
        /\ linger' \in BOOLEAN /\ ready' \in BOOLEAN
    BY <1>3, Zenon DEF RelayTick, Wake, Finish, Fail, CopyPending, CheckTimer, Reclaim, Promising, relayVars, Amounts
  <2> QED
    BY <2>1, <2>2, Zenon DEF Amounts
<1> QED
  BY <1>1, <1>2, <1>3, Zenon DEF RelayNext

\* The variables of a relay keep their types: no buffer overflows (RelayTypeOK).
THEOREM RelayTypeCorrect == RelaySpec => []RelayTypeOK
<1>1. RelayInit => SilenceInv /\ Shapes /\ Amounts
  BY InitPoll, InitAmounts, Zenon DEF PollInv
<1>2. SilenceInv /\ Shapes /\ Amounts /\ [RelayNext]_relayVars => (SilenceInv /\ Shapes /\ Amounts)'
  BY NextSilence, NextShapes, NextAmounts, Zenon
<1>3. SilenceInv /\ Shapes /\ Amounts => RelayTypeOK
  <2> SUFFICES ASSUME SilenceInv, Shapes, Amounts PROVE RelayTypeOK
    BY Zenon
  <2>1. Buffer \in Nat /\ MaxBytes \in Nat
    BY RelayAssumption, Zenon
  <2>2. inq \in [Directions -> 0 .. MaxBytes] /\ buf \in [Directions -> 0 .. Buffer]
    BY <2>1, SMT, SMTT(30) DEF Shapes, Amounts
  <2> QED
    BY <2>2, Zenon DEF RelayTypeOK, SilenceInv, Times, Flags, Shapes, Amounts
<1> QED
  BY <1>1, <1>2, <1>3, PTL DEF RelaySpec

=============================================================================
