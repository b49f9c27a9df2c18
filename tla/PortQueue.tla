------------------------------ MODULE PortQueue ------------------------------
(***************************************************************************)
(* The links of a network of nodes that exchange packets over channels     *)
(* (common/dispatcher/PortQueue.cc).  A channel transmits one packet at a  *)
(* time, and delivers each one a delay after its transmission has ended.   *)
(* The PortQueue before it keeps the packets that find it busy, and sends  *)
(* them when its timer goes off.                                           *)
(*                                                                         *)
(* Time is reduced to what the queue asks of it: whether the channel is    *)
(* busy, and which event the timer is set to coincide with.                *)
(***************************************************************************)
EXTENDS Integers, Sequences

CONSTANT Link   \* the channels: pairs <<sender, receiver>>

VARIABLE port   \* per link: its queue, timer and channel

(* The timer of a queue is not set, or set to when the transmission ends,  *)
(* or to when the first k packets on the wire have arrived.  0 is now.     *)
NoTimer == -1
AtFinish == -2
Now == 0

(* The states of a link that carries packets of the given kinds. *)
Port(Kind) ==
    [queue : Seq(Kind),              \* waiting in the PortQueue
     wire  : Seq(Kind),              \* transmitted, or being transmitted
     busy  : BOOLEAN,                \* the last one still is
     timer : Nat \cup {NoTimer, AtFinish}]

IdlePort == [queue |-> <<>>, wire |-> <<>>, busy |-> FALSE, timer |-> NoTimer]

-----------------------------------------------------------------------------
(* handleMessage() for several packets that one handler submits.  The      *)
(* first one goes out at once if the channel is free, whatever is queued;  *)
(* the others find it busy, and rescheduleAt() moves the timer.  (Faults:  *)
(* the timer is left alone, or queued packets are replaced.)               *)
SubmitUntimed(s, packets) ==
    IF packets = <<>> THEN s
    ELSE IF s.busy
         THEN [s EXCEPT !.queue = @ \o packets]
         ELSE [s EXCEPT !.wire = Append(@, Head(packets)),
                        !.busy = TRUE,
                        !.queue = @ \o Tail(packets)]
SubmitReplacing(s, packets) ==
    IF packets = <<>> THEN s
    ELSE IF s.busy
         THEN [s EXCEPT !.queue = packets, !.timer = AtFinish]
         ELSE [s EXCEPT !.wire = Append(@, Head(packets)),
                        !.busy = TRUE,
                        !.queue = @ \o Tail(packets),
                        !.timer = IF Len(packets) > 1 THEN AtFinish ELSE @]
Submit(s, packets) ==
    IF packets = <<>> THEN s
    ELSE IF s.busy
         THEN [s EXCEPT !.queue = @ \o packets, !.timer = AtFinish]
         ELSE [s EXCEPT !.wire = Append(@, Head(packets)),
                        !.busy = TRUE,
                        !.queue = @ \o Tail(packets),
                        !.timer = IF Len(packets) > 1 THEN AtFinish ELSE @]

(* The timer for what is left after a packet was popped and sent: the time *)
(* at which that packet arrives.  (Fault: it is not set again.)            *)
NoRearm(s) == NoTimer
Rearm(s) == IF Len(s.queue) > 1 THEN Len(s.wire) + 1 ELSE NoTimer

(* handleTimer().  Another packet may have taken the channel meanwhile. *)
Pop(s) ==
    IF s.queue = <<>>
    THEN [s EXCEPT !.timer = NoTimer]
    ELSE IF s.busy
         THEN [s EXCEPT !.timer = AtFinish]
         ELSE [queue |-> Tail(s.queue),
               wire  |-> Append(s.wire, Head(s.queue)),
               busy  |-> TRUE,
               timer |-> Rearm(s)]

HandleTimer(l) ==
    /\ port[l].timer = Now
    /\ port' = [port EXCEPT ![l] = Pop(@)]

(* The channel becomes free.  No time passes while a timer is due. *)
FinishTransmission(l) ==
    /\ port[l].busy
    /\ port[l].timer # Now
    /\ port' = [port EXCEPT ![l].busy = FALSE,
                            ![l].timer = IF @ = AtFinish THEN Now ELSE @]

(* The first packet on the wire reaches the other end. *)
Arrives(l) ==
    /\ port[l].timer # Now
    /\ Len(port[l].wire) > IF port[l].busy THEN 1 ELSE 0

Arrived(s) ==
    [s EXCEPT !.wire = Tail(@),
              !.timer = IF @ > Now THEN @ - 1 ELSE @]

(* The packets that a link still has to deliver. *)
Pending(l) == port[l].wire \o port[l].queue
=============================================================================
