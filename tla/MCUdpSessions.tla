--------------------------- MODULE MCUdpSessions ---------------------------
(* Small instances of UdpSessions for TLC. *)
EXTENDS UdpSessions, TLC

\* Handlers, keys and sessions are interchangeable: Next treats them alike.
Symmetry == Permutations(Handlers) \cup Permutations(Keys) \cup Permutations(Sessions)

=============================================================================
