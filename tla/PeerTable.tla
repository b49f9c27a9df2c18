----------------------------- MODULE PeerTable -----------------------------
(***************************************************************************)
(* The table of a node's peers (common/PeerTable.cc, Peer.msg): three maps *)
(* that find a peer by its gate, by its address, and by both.  There is    *)
(* one peer per gate (Dispatcher.cc), so a peer stands for its gate, too.  *)
(* A peer whose address changes tells the table so, before it changes.     *)
(***************************************************************************)
CONSTANTS
    Peer,                           \* the peers
    Address, Port,                  \* their possible addresses
    DefaultAddress, DefaultPort     \* those of every new peer

ASSUME PeerAssumption == DefaultAddress \in Address /\ DefaultPort \in Port

VARIABLES
    peers,      \* the map by gate and address: rows <<gate, address, peer>>
    gateMap,    \* rows <<gate, peer>>
    ipMap,      \* rows <<address, peer>>
    address,    \* per peer: its address and port
    called,     \* the peers that have the table's callback
    listed      \* the peers added and not removed (a history variable)

peerVars == <<peers, gateMap, ipMap, address, called, listed>>

Key(p) == <<p, address[p], p>>

PeerInit ==
    /\ peers = {} /\ gateMap = {} /\ ipMap = {}
    /\ address = [p \in Peer |-> <<DefaultAddress, DefaultPort>>]
    /\ called = {} /\ listed = {}

(* The lookups: getPeer() and hasPeer() by gate, by address and by both,   *)
(* and getAllPeers().                                                      *)
ByGate(g) == {row[2] : row \in {r \in gateMap : r[1] = g}}
ByAddress(a) == {row[2] : row \in {r \in ipMap : r[1] = a}}
ByBoth(g, a) == {row[3] : row \in {r \in peers : r[1] = g /\ r[2] = a}}
AllPeers == {row[3] : row \in peers}

-----------------------------------------------------------------------------
(* addPeer(), for a peer that was just created *)
AddPeer(p) ==
    /\ p \notin called /\ ByBoth(p, address[p]) = {}
    /\ peers' = peers \cup {Key(p)}
    /\ gateMap' = gateMap \cup {<<p, p>>}
    /\ ipMap' = ipMap \cup {<<address[p], p>>}
    /\ called' = called \cup {p}
    /\ listed' = listed \cup {p}
    /\ UNCHANGED address

(* removePeer(): the callback stays. *)
RemovePeer(p) ==
    /\ p \in listed
    /\ peers' = peers \ {Key(p)}
    /\ gateMap' = gateMap \ {<<p, p>>}
    /\ ipMap' = ipMap \ {<<address[p], p>>}
    /\ listed' = listed \ {p}
    /\ UNCHANGED <<address, called>>

(* updatePeer(): it runs before the peer changes, so that the rows it puts *)
(* back are those it has erased, and the table goes on under the address   *)
(* the peer had.  (Fault: it does not put them back.)                      *)
Unlist(p) ==
    /\ peers' = peers \ {Key(p)}
    /\ ipMap' = ipMap \ {<<address[p], p>>}
UpdatePeer(p) ==
    /\ peers' = (peers \ {Key(p)}) \cup {Key(p)}
    /\ ipMap' = (ipMap \ {<<address[p], p>>}) \cup {<<address[p], p>>}

(* Peer::setAddress(), Peer::setPort().  (Without a callback the call of   *)
(* the empty function throws.)                                             *)
Change(p, new) ==
    /\ new # address[p] /\ p \in called
    /\ UpdatePeer(p)
    /\ address' = [address EXCEPT ![p] = new]
    /\ UNCHANGED <<gateMap, called, listed>>

SetAddress(p, a) == Change(p, <<a, address[p][2]>>)
SetPort(p, n) == Change(p, <<address[p][1], n>>)

PeerNext ==
    \E p \in Peer :
        \/ AddPeer(p) \/ RemovePeer(p)
        \/ \E a \in Address : SetAddress(p, a)
        \/ \E n \in Port : SetPort(p, n)

PeerSpec == PeerInit /\ [][PeerNext]_peerVars

-----------------------------------------------------------------------------
(* However often peers announce other addresses, a packet that arrives at  *)
(* a gate is taken for one of the peer of that gate and of no other, as    *)
(* long as that peer is in the table; it is among the peers that messages  *)
(* go to; and packets of a removed peer are refused.  (It may be listed    *)
(* under several addresses: the table keeps the old ones.)                 *)
PeersStayReachable ==
    \A p \in Peer :
        IF p \in listed THEN ByGate(p) = {p} /\ p \in AllPeers
        ELSE ByGate(p) = {}
=============================================================================
