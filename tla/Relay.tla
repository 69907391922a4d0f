------------------------------- MODULE Relay --------------------------------
(***************************************************************************)
(* The relay of a TCP connection (relay_tcp_streams in src/util.rs,        *)
(* copy_bidirectional in src/relay.rs): two directions of bytes, and a     *)
(* timer inside the copy loop that reclaims a connection when one side has *)
(* closed and nothing moves any more.                                      *)
(*                                                                         *)
(* A poll of the future is a run of steps: the copy moves what it can,     *)
(* then the timer is looked at.  Bytes, the room to write them and time    *)
(* arrive between any two steps.  The loop that copies is tokio's, so its  *)
(* steps are modelled as external, with the layer Tracked around them.     *)
(***************************************************************************)
EXTENDS Naturals

CONSTANTS
    Directions,     \* the two directions of a connection
    Buffer,         \* bytes a copy buffer holds
    MaxBytes,       \* bound on the bytes of a direction
    Grace           \* half_close_timeout in ticks, when it is not 0

ASSUME RelayAssumption ==
    /\ Buffer \in Nat \ {0}
    /\ MaxBytes \in Nat
    /\ Grace \in Nat \ {0}

VARIABLES
    guarded,    \* the timeout is enabled: splice is off and half_close_timeout > 0
    sent,       \* bytes each source has sent
    inq,        \* bytes that wait to be read
    fin,        \* the source has closed its side
    room,       \* bytes the destination can take now
    buf,        \* bytes in the copy buffer
    readDone,   \* the copy has read the end of the stream
    shut,       \* the copy has shut the destination's side down
    eof, activity, armed,   \* variables of copy_bidirectional
    timer,      \* ticks until the timer fires
    stage,         \* "idle", "copy", "check" or "over"
    end,        \* how the relay ended
    linger,     \* SO_LINGER is 0: closing sends RST
    quiet,      \* history: ticks since a byte moved or the first EOF was read
    ready       \* history: this poll found a byte to move or the relay complete

peerVars == <<sent, fin>>
copyVars == <<inq, room, buf, readDone, shut>>
flagVars == <<eof, activity, armed, timer>>
relayVars == <<guarded, peerVars, copyVars, flagVars, stage, end, linger, quiet, ready>>

\* half_close_grace: 0 seconds is no timeout; splice has none either.
Enabled(secs, splice) == secs > 0 /\ ~splice

RelayInit ==
    /\ \E secs \in {0, Grace}, splice \in BOOLEAN : guarded = Enabled(secs, splice)
    /\ sent = [d \in Directions |-> 0]
    /\ inq = [d \in Directions |-> 0]
    /\ fin = [d \in Directions |-> FALSE]
    /\ room = [d \in Directions |-> 1]
    /\ buf = [d \in Directions |-> 0]
    /\ readDone = [d \in Directions |-> FALSE]
    /\ shut = [d \in Directions |-> FALSE]
    /\ eof = FALSE /\ activity = FALSE /\ armed = FALSE
    /\ timer = Grace
    /\ stage = "copy" /\ end = "none" /\ linger = FALSE
    /\ quiet = 0 /\ ready = TRUE

Running == end = "none"

(***************************************************************************)
(* The peers and time.                                                     *)
(***************************************************************************)
Sends(d) ==
    /\ Running /\ ~fin[d] /\ sent[d] < MaxBytes
    /\ sent' = [sent EXCEPT ![d] = @ + 1]
    /\ inq' = [inq EXCEPT ![d] = @ + 1]
    /\ UNCHANGED <<guarded, fin, room, buf, readDone, shut, flagVars, stage, end, linger, quiet, ready>>

Closes(d) ==
    /\ Running /\ ~fin[d]
    /\ fin' = [fin EXCEPT ![d] = TRUE]
    /\ UNCHANGED <<guarded, sent, copyVars, flagVars, stage, end, linger, quiet, ready>>

Drains(d) ==
    /\ Running /\ room[d] = 0
    /\ room' = [room EXCEPT ![d] = 1]
    /\ UNCHANGED <<guarded, peerVars, inq, buf, readDone, shut, flagVars, stage, end, linger, quiet, ready>>

Dec(n) == IF n = 0 THEN 0 ELSE n - 1

RelayTick ==
    /\ Running
    /\ timer' = Dec(timer)
    /\ quiet' = IF quiet < Grace THEN quiet + 1 ELSE quiet
    /\ UNCHANGED <<guarded, peerVars, copyVars, eof, activity, armed, stage, end, linger, ready>>

(***************************************************************************)
(* The copy loop under Tracked.  A direction reads into an empty buffer,   *)
(* or tops it up when it cannot write; a full buffer is not read into.     *)
(***************************************************************************)
MayRead(d) == ~readDone[d] /\ (buf[d] = 0 \/ room[d] = 0) /\ buf[d] < Buffer
CanRead(d) == MayRead(d) /\ inq[d] > 0
CanReadEof(d) == MayRead(d) /\ inq[d] = 0 /\ fin[d]
CanWrite(d) == buf[d] > 0 /\ room[d] > 0
CanShut(d) == readDone[d] /\ buf[d] = 0 /\ ~shut[d]
CanMove(d) == CanRead(d) \/ CanReadEof(d) \/ CanWrite(d) \/ CanShut(d)

\* A byte can move, or only the ends of the streams are left to read.
Promising ==
    \/ \E d \in Directions : CanRead(d) \/ CanWrite(d)
    \/ \A d \in Directions : fin[d] /\ inq[d] = 0 /\ buf[d] = 0

\* Mutation of Wake: the timer is looked at before the copy.
TimerFirst ==
    /\ stage = "idle"
    /\ stage' = IF guarded /\ armed /\ timer = 0 THEN "check" ELSE "copy"
    /\ ready' = Promising
    /\ UNCHANGED <<guarded, peerVars, copyVars, flagVars, end, linger, quiet>>

\* The task is polled, for a byte, for room, for the timer or for nothing.
Wake ==
    /\ stage = "idle"
    /\ stage' = "copy"
    /\ ready' = Promising
    /\ UNCHANGED <<guarded, peerVars, copyVars, flagVars, end, linger, quiet>>

Read(d) ==
    /\ stage = "copy" /\ CanRead(d)
    /\ inq' = [inq EXCEPT ![d] = @ - 1]
    /\ buf' = [buf EXCEPT ![d] = @ + 1]
    /\ activity' = TRUE
    /\ quiet' = 0
    /\ UNCHANGED <<guarded, peerVars, room, readDone, shut, eof, armed, timer, stage, end, linger, ready>>

\* Nothing read although there was room for it.
ReadEof(d) ==
    /\ stage = "copy" /\ CanReadEof(d)
    /\ readDone' = [readDone EXCEPT ![d] = TRUE]
    /\ eof' = TRUE
    /\ quiet' = IF eof THEN quiet ELSE 0
    /\ UNCHANGED <<guarded, peerVars, inq, room, buf, shut, activity, armed, timer, stage, end, linger, ready>>

Write(d) ==
    /\ stage = "copy" /\ CanWrite(d)
    /\ buf' = [buf EXCEPT ![d] = @ - 1]
    /\ room' = [room EXCEPT ![d] = @ - 1]
    /\ activity' = TRUE
    /\ quiet' = 0
    /\ UNCHANGED <<guarded, peerVars, inq, readDone, shut, eof, armed, timer, stage, end, linger, ready>>

Shutdown(d) ==
    /\ stage = "copy" /\ CanShut(d)
    /\ shut' = [shut EXCEPT ![d] = TRUE]
    /\ UNCHANGED <<guarded, peerVars, inq, room, buf, readDone, flagVars, stage, end, linger, quiet, ready>>

\* Both directions are through: Ready(Ok), before the timer is looked at.
Finish ==
    /\ stage = "copy" /\ \A d \in Directions : shut[d]
    /\ stage' = "over" /\ end' = "finished"
    /\ UNCHANGED <<guarded, peerVars, copyVars, flagVars, linger, quiet, ready>>

\* A read or a write fails: the error is counted and passed on, no RST.
Fail ==
    /\ stage = "copy"
    /\ stage' = "over" /\ end' = "error"
    /\ UNCHANGED <<guarded, peerVars, copyVars, flagVars, linger, quiet, ready>>

\* The copy is Pending; without the timeout that is the whole poll.
CopyPending ==
    /\ stage = "copy"
    /\ \A d \in Directions : ~CanMove(d)
    /\ \E d \in Directions : ~shut[d]
    /\ stage' = IF guarded THEN "check" ELSE "idle"
    /\ UNCHANGED <<guarded, peerVars, copyVars, flagVars, end, linger, quiet, ready>>

(***************************************************************************)
(* What the poll does after the copy is Pending.                           *)
(***************************************************************************)
\* Mutation of Restarts: a byte that moves does not extend the deadline.
RestartsOnce == ~armed

\* The timer is set by the first EOF and by every byte that moves after it.
Restarts == ~armed \/ activity

\* Mutation of HalfClosed: armed by the shutdown of the other side, not by EOF.
HalfShut == \E d \in Directions : shut[d]

HalfClosed == eof

\* relay_tcp_streams on a half-close timeout: abort_with_rst on both sides.
Reclaim == stage' = "over" /\ end' = "timeout" /\ linger' = TRUE

\* Time may pass between the copy and this step, and none within it.
CheckTimer ==
    /\ stage = "check"
    /\ activity' = FALSE
    /\ armed' = (armed \/ HalfClosed)
    /\ timer' = IF HalfClosed /\ Restarts THEN Grace ELSE timer
    /\ IF HalfClosed /\ timer' = 0
       THEN Reclaim
       ELSE stage' = "idle" /\ UNCHANGED <<end, linger>>
    /\ UNCHANGED <<guarded, peerVars, copyVars, eof, quiet, ready>>

Copies == \E d \in Directions : Read(d) \/ ReadEof(d) \/ Write(d) \/ Shutdown(d)

RelayNext ==
    \/ \E d \in Directions : Sends(d) \/ Closes(d) \/ Drains(d)
    \/ RelayTick
    \/ Wake \/ Copies \/ Finish \/ Fail \/ CopyPending \/ CheckTimer

RelaySpec == RelayInit /\ [][RelayNext]_relayVars

\* What wakes the task: a socket that is ready, or the timer once it is armed.
Due == (\E d \in Directions : CanMove(d)) \/ (armed /\ timer = 0)

Poll == (Due /\ Wake) \/ Copies \/ Finish \/ CopyPending \/ CheckTimer

\* The runtime polls a task that was woken and a poll does not block.
FairRelay == RelaySpec /\ WF_relayVars(Poll) /\ WF_timer(RelayTick)

-----------------------------------------------------------------------------
(***************************************************************************)
(* Properties.                                                             *)
(***************************************************************************)
RelayTypeOK ==
    /\ guarded \in BOOLEAN
    /\ sent \in [Directions -> 0 .. MaxBytes]
    /\ inq \in [Directions -> 0 .. MaxBytes]
    /\ fin \in [Directions -> BOOLEAN]
    /\ room \in [Directions -> 0 .. 1]
    /\ buf \in [Directions -> 0 .. Buffer]
    /\ readDone \in [Directions -> BOOLEAN]
    /\ shut \in [Directions -> BOOLEAN]
    /\ eof \in BOOLEAN /\ activity \in BOOLEAN /\ armed \in BOOLEAN
    /\ timer \in 0 .. Grace
    /\ stage \in {"idle", "copy", "check", "over"}
    /\ end \in {"none", "finished", "error", "timeout"}
    /\ linger \in BOOLEAN
    /\ quiet \in 0 .. Grace
    /\ ready \in BOOLEAN

(***************************************************************************)
(* A relay is reclaimed, and its sockets reset, only with the timeout      *)
(* enabled, after the end of one stream was read, and when for the whole   *)
(* grace period no byte moved in either direction: an idle connection that *)
(* nobody has closed, and a half-closed one that still carries data, are   *)
(* never killed (copy_bidirectional).                                      *)
(***************************************************************************)
ReclaimedOnlyIfSilent ==
    end = "timeout" \/ linger =>
        guarded /\ (\E d \in Directions : readDone[d]) /\ quiet = Grace

(***************************************************************************)
(* A poll that finds a byte to move, or both streams at their ends, does   *)
(* not reclaim the relay: the copy is polled before the timer, so that     *)
(* what arrives together with the deadline wins.                           *)
(***************************************************************************)
CopyWinsOverTimer == end = "timeout" => ~ready

(***************************************************************************)
(* With the timeout enabled, a relay that has read the end of a stream     *)
(* ends, also when the other side never reads and never closes: nothing    *)
(* stays half-closed for ever.                                             *)
(***************************************************************************)
HalfClosedEnds == (guarded /\ \E d \in Directions : readDone[d]) ~> ~Running

=============================================================================
