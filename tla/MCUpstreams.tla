---------------------------- MODULE MCUpstreams -----------------------------
(* A small instance of UpstreamPick for TLC. *)
EXTENDS UpstreamPick, TLC

CONSTANTS u1, u2

\* Connections are interchangeable.
MCSymmetry == Permutations(Conns)

\* A good and a bad report.
MCReports == {[rtt |-> 10, loss |-> 0, mtu |-> 1500], [rtt |-> 500, loss |-> 30, mtu |-> 1000]}

MCOtherScore == u2 :> 100

=============================================================================
