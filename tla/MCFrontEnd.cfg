SPECIFICATION Spec
CONSTANTS
    None = None
    MaxHostLen = 4
    MaxLabelLen = 2
    Streams <- MCStreams
    Engines <- MCEngines
    PeekBuffer <- MCPeekBuffer
    MaxRecordLen = 12
    EchOuterName <- BA
    AddrBits = 2
    Credentials <- MCCredentials
    Targets <- MCTargets
    Servers <- MCServers
    RelayAddr <- MCRelayAddr
    ProxyAddr <- MCProxyAddr
    OrigDst <- MCOrigDst
    FromServer <- MCFromServer
    Configs <- MCConfigs
    ClientIps <- MCClientIps
    DstIps <- MCDstIps
    CheckUrls <- MCCheckUrls
INVARIANTS
    SniffFindsHost
    RoutedAsConfigured
    Socks5Exact
CHECK_DEADLOCK FALSE
