---------------------------- MODULE MCTcpConnect ----------------------------
(* A small instance of TcpConnect for TLC. *)
EXTENDS TcpConnect, TLC

CONSTANTS c1, c2, a, b, t, d, u1, u2

\* Two clients, two connections of one, or a port forward beside a client.
MCOrigins == {(c1 :> a) @@ (c2 :> b), (c1 :> a) @@ (c2 :> a), (c1 :> a) @@ (c2 :> None)}
MCTargetOf == [c \in Conns |-> t]
MCMembers == ("default" :> {u1}) @@ ("home" :> {u2}) @@ ("guests" :> {u1, u2})

\* Client a has its group in any case, client b by the domain only.
MCGroupRule == [k \in Clients \X Targets \X Names |->
    IF k[1] = a THEN "home" ELSE IF k[3] = d THEN "guests" ELSE "default"]

\* The address is direct, the domain goes through a proxy.
MCDomainRule == (d :> "socks5") @@ (None :> None)
MCIpRule == [k \in Targets |-> TRUE]

=============================================================================
