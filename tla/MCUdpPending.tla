---------------------------- MODULE MCUdpPending ----------------------------
(* Small instances of UdpPending for TLC. *)
EXTENDS UdpPending, TLC

\* Next treats keys alike, and sessions.
Symmetry == Permutations(Keys) \cup Permutations(Sessions)

=============================================================================
