-------------------------- MODULE SessionRegistry --------------------------
(***************************************************************************)
(* What the UDP session registry promises to its users, without locks,     *)
(* create tasks, receive loops or the GC: a map from keys to sessions.  A  *)
(* session enters the map once, while it is new; it leaves the map dead;   *)
(* after the seal the map stays empty.                                     *)
(***************************************************************************)
CONSTANTS Keys, Sessions, None

VARIABLES
    reg,    \* the session a key is served by, or None
    life,   \* "fresh" before it is published, then "live", then "dead"
    open    \* the registry has not been sealed

vars == <<reg, life, open>>

Init ==
    /\ reg = [k \in Keys |-> None]
    /\ life = [s \in Sessions |-> "fresh"]
    /\ open = TRUE

\* A new session becomes the session of a key that has none.
Publish(k, s) ==
    /\ open
    /\ reg[k] = None
    /\ life[s] = "fresh"
    /\ reg' = [reg EXCEPT ![k] = s]
    /\ life' = [life EXCEPT ![s] = "live"]
    /\ UNCHANGED open

\* A session dies: a new one that is never published, or one in the map.
Die(s) ==
    /\ life[s] # "dead"
    /\ life' = [life EXCEPT ![s] = "dead"]
    /\ UNCHANGED <<reg, open>>

\* The sessions of S leave the map, and are dead when they do.
Evict(S) ==
    /\ \A s \in S : \E k \in Keys : reg[k] = s
    /\ reg' = [k \in Keys |-> IF reg[k] \in S THEN None ELSE reg[k]]
    /\ life' = [s \in Sessions |-> IF s \in S THEN "dead" ELSE life[s]]
    /\ UNCHANGED open

\* Everything leaves the map, for good.
Seal ==
    /\ open
    /\ open' = FALSE
    /\ reg' = [k \in Keys |-> None]
    /\ life' = [s \in Sessions |-> IF \E k \in Keys : reg[k] = s THEN "dead" ELSE life[s]]

Next ==
    \/ \E k \in Keys, s \in Sessions : Publish(k, s)
    \/ \E s \in Sessions : Die(s)
    \/ \E S \in SUBSET Sessions : Evict(S)
    \/ Seal

Spec == Init /\ [][Next]_vars

=============================================================================
