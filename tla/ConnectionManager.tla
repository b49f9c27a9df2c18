-------------------------- MODULE ConnectionManager --------------------------
(***************************************************************************)
(* The handshake and the applications of nodes that exchange packets: each *)
(* node runs a ConnectionManager and a Pinger, whose packets wait in its   *)
(* AppBase until the peer is connected.  Two nodes may start the handshake *)
(* at the same time, and a node may be pinged before it is connected.      *)
(*                                                                         *)
(* A handler, and the messages it passes without delay through Dispatcher  *)
(* and PortQueue, are one step.  What a node keeps of a peer is indexed by *)
(* its link to that peer.                                                  *)
(***************************************************************************)
EXTENDS PortQueue, FiniteSets, SequencesExt

CONSTANTS
    Node,      \* the nodes
    MaxPing    \* bound: how often the timer of each Pinger goes off

ASSUME LinkAssumption ==
    /\ Link \subseteq Node \X Node
    /\ \A n, p \in Node : <<n, p>> \in Link => n # p /\ <<p, n>> \in Link
ASSUME MaxPingAssumption == MaxPing \in Nat

VARIABLES
    state,      \* the ConnectionState of the peer
    notifyMap,  \* the callbacks registered for the peer, each known by the
                \* packet it was registered to send
    queue,      \* which of these packets AppBase still holds, by position
    asked,      \* the pings made for the peer
    answered    \* the pongs received from the peer

appVars == <<state, notifyMap, queue>>
vars == <<port, appVars, asked, answered>>

Kind == {"VERSION", "VERACK", "PING", "PONG"}

Back(l) == <<l[2], l[1]>>

-----------------------------------------------------------------------------
(* The handlers of a node for the peer at the other end of its link l,     *)
(* given the state P of all ports.                                         *)

Output(P, l, packets) == port' = [P EXCEPT ![l] = Submit(@, packets)]

(* connect() keeps the callback beside those of the peer it already has.   *)
(* (Fault: in their place.)                                                *)
RegisteredAlone(callbacks, kind) == <<kind>>
Registered(callbacks, kind) == Append(callbacks, kind)

(* AppBase::sendPacket(): at once if the peer is connected; else the       *)
(* packet is held, connect() registers a callback, and the first time it   *)
(* starts the handshake.  (Fault: nothing is held.)                        *)
SendAnyway(P, l, kind) ==
    /\ Output(P, l, <<kind>>)
    /\ UNCHANGED appVars
SendPacket(P, l, kind) ==
    IF state[l] = "CONNECTED"
    THEN /\ Output(P, l, <<kind>>)
         /\ UNCHANGED appVars
    ELSE /\ notifyMap' = [notifyMap EXCEPT ![l] = Registered(@, kind)]
         /\ queue' = [queue EXCEPT ![l] = @ \cup {Len(notifyMap[l]) + 1}]
         /\ state' = [state EXCEPT ![l] = "HALF_CONNECTED"]
         /\ Output(P, l, IF state[l] = "UNCONNECTED" THEN <<"VERSION">>
                                                     ELSE <<>>)

(* handleVersionPacket().  (Fault: the own version is always sent.) *)
AlwaysIntroduced(l) == <<"VERSION", "VERACK">>
Introduced(l) ==
    IF state[l] = "UNCONNECTED" THEN <<"VERSION", "VERACK">> ELSE <<"VERACK">>

HandleVersion(P, l) ==
    /\ state' = [state EXCEPT ![l] = IF @ = "UNCONNECTED"
                                     THEN "HALF_CONNECTED" ELSE @]
    /\ Output(P, l, Introduced(l))
    /\ UNCHANGED <<notifyMap, queue>>

(* notifyApps() runs all callbacks of the peer; those whose packet is      *)
(* still held release it.  (Fault: only the first one is run.)             *)
FirstReleased(l) == queue[l] \cap {1}
Released(l) == queue[l] \cap DOMAIN notifyMap[l]

(* onPeerConnected() sends these packets, in the order of the callbacks.   *)
InOrder(S, k) == CHOOSE i \in S : Cardinality({j \in S : j <= i}) = k
Packets(l) ==
    [k \in 1 .. Cardinality(Released(l)) |-> notifyMap[l][InOrder(Released(l), k)]]

HandleVerack(P, l) ==
    /\ state' = [state EXCEPT ![l] = "CONNECTED"]
    /\ queue' = [queue EXCEPT ![l] = @ \ Released(l)]
    /\ Output(P, l, Packets(l))
    /\ UNCHANGED notifyMap

(* Dispatcher::handleIncomingPacket() and the application that listens for *)
(* this kind of packet: it came from the peer over Back(l).                *)
Handle(P, l, kind) ==
    \/ /\ kind = "VERSION"
       /\ HandleVersion(P, l)
       /\ UNCHANGED answered
    \/ /\ kind = "VERACK"
       /\ HandleVerack(P, l)
       /\ UNCHANGED answered
    \/ /\ kind = "PING"
       /\ SendPacket(P, l, "PONG")
       /\ UNCHANGED answered
    \/ /\ kind = "PONG"
       /\ port' = P
       /\ answered' = [answered EXCEPT ![l] = @ + 1]
       /\ UNCHANGED appVars

Deliver(l) ==
    /\ Arrives(l)
    /\ Handle([port EXCEPT ![l] = Arrived(@)], Back(l), Head(port[l].wire))
    /\ UNCHANGED asked

(* How often the timer of a node's Pinger has gone off. *)
PingsMade(n) ==
    FoldFunctionOnSet(+, 0, asked, {l \in Link : l[1] = n})

(* Pinger::handleSelfMessage(): the timer goes off and picks a peer. *)
Ping(l) ==
    /\ PingsMade(l[1]) < MaxPing
    /\ asked' = [asked EXCEPT ![l] = @ + 1]
    /\ SendPacket(port, l, "PING")
    /\ UNCHANGED answered

(* Dispatcher::initialize() has filled the peer tables. *)
Init ==
    /\ port = [l \in Link |-> IdlePort]
    /\ state = [l \in Link |-> "UNCONNECTED"]
    /\ notifyMap = [l \in Link |-> <<>>]
    /\ queue = [l \in Link |-> {}]
    /\ asked = [l \in Link |-> 0]
    /\ answered = [l \in Link |-> 0]

(* The time limit of the simulation, placed where the bounded model ends. *)
TimeLimit ==
    /\ \A l \in Link : port[l] = IdlePort /\ PingsMade(l[1]) = MaxPing
    /\ UNCHANGED vars

Elapse(l) ==
    /\ HandleTimer(l) \/ FinishTransmission(l)
    /\ UNCHANGED <<appVars, asked, answered>>

Next ==
    \/ \E l \in Link : Ping(l)
    \/ \E l \in Link : Deliver(l)
    \/ \E l \in Link : Elapse(l)
    \/ TimeLimit

(* Time passes: transmissions end, packets arrive and timers go off. *)
Spec ==
    /\ Init
    /\ [][Next]_vars
    /\ \A l \in Link : WF_vars(Elapse(l)) /\ WF_vars(Deliver(l))

-----------------------------------------------------------------------------
(* Properties                                                              *)

(* How many packets of a kind are underway over l. *)
Underway(l, kind) == Cardinality({i \in DOMAIN Pending(l) : Pending(l)[i] = kind})

(* How many of them the node keeps until the peer is connected. *)
Held(l, kind) == Cardinality({i \in queue[l] : notifyMap[l][i] = kind})

(* Every variable holds a value of its type, and AppBase holds only        *)
(* packets that a callback will send.                                      *)
ConnectionTypeOK ==
    /\ port \in [Link -> Port(Kind)]
    /\ state \in [Link -> {"UNCONNECTED", "HALF_CONNECTED", "CONNECTED"}]
    /\ notifyMap \in [Link -> Seq({"PING", "PONG"})]
    /\ \A l \in Link : queue[l] \subseteq DOMAIN notifyMap[l]
    /\ asked \in [Link -> Nat]
    /\ answered \in [Link -> Nat]

(* The handshake takes place once per link, even if both ends start it at  *)
(* the same time: what is underway has not been received before, and is    *)
(* only what the state of both ends allows.                                *)
HandshakeOnce ==
    \A l \in Link :
        /\ Underway(l, "VERSION") + Underway(l, "VERACK") > 0 =>
              /\ state[l] # "UNCONNECTED"
              /\ state[Back(l)] # "CONNECTED"
        /\ Underway(l, "VERSION") <= 1
        /\ Underway(l, "VERACK") <= 1

(* A node takes its peer for connected only after the peer has handled its *)
(* version; so no ping and no pong reaches a peer that does not know the   *)
(* sender, although packets may overtake each other in a PortQueue.        *)
Acquainted ==
    \A l \in Link :
        (state[l] = "CONNECTED" \/ Underway(l, "PING") + Underway(l, "PONG") > 0)
        => /\ state[l] = "CONNECTED"
           /\ state[Back(l)] # "UNCONNECTED"
           /\ Underway(l, "VERSION") = 0

(* The documentation of the Pinger: the ping "will be sent to the peer as  *)
(* soon as the handshaking completes".  So nothing is held for a connected *)
(* peer.                                                                   *)
NothingHeldOnceConnected ==
    \A l \in Link : state[l] = "CONNECTED" => queue[l] = {}

(* The timer that empties a PortQueue is always set while a packet is in   *)
(* it, and set to an event that is still to come.                          *)
PortNeverStalls ==
    \A l \in Link :
        LET s == port[l]
        IN  s.queue # <<>> =>
                \/ s.timer = AtFinish /\ s.busy
                \/ s.timer \in 0 .. Len(s.wire)

(* Every ping is held, underway, or turned into one pong, which is held,   *)
(* underway or received: none is lost or answered twice.                   *)
PingsAreAccountedFor ==
    \A l \in Link :
        asked[l] = Held(l, "PING") + Underway(l, "PING")
                   + Held(Back(l), "PONG") + Underway(Back(l), "PONG")
                   + answered[l]

PS == INSTANCE PingService

(* Every ping is answered, once. *)
ImplementsPingService == PS!Spec
=============================================================================
