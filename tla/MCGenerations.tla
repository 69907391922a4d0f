--------------------------- MODULE MCGenerations ---------------------------
(* Small instances of Generations for TLC. *)
EXTENDS Generations, TLC

\* A generation with UDP listeners, health checks and the score printer is
\* replaced; one with UDP listeners and port forwards is started, rolled back
\* or stopped; two reloads follow each other.
MCConfigs == {<<{"udp_listeners", "health_check", "score_debug_printer"}, {}>>,
              <<{}, {"udp_listeners", "port_forwards"}>>,
              <<{"port_forwards"}>>,
              <<{"score_debug_printer"}, {}, {"relative_score"}>>}

\* A generation with relative scoring is replaced.
RelativeConfigs == {<<{"relative_score"}, {}>>}

=============================================================================
