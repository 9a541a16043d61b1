----------------------------- MODULE Membership -----------------------------
(***************************************************************************)
(* The peer table of bndl/net/node.py: Node.start contacting its seeds,    *)
(* Node._peer_connected (the connection contest under _peer_table_lock),  *)
(* Node._notifiy_peers (the discovery snapshot sent to the new peer and   *)
(* the fan-out to the others) and Node._discovered (connecting to every   *)
(* unknown name of a discovery message).  Every coroutine step between two *)
(* awaits of the event loop is one action; the lock makes each of          *)
(* _peer_connected and one iteration of _discovered a single step.         *)
(*                                                                         *)
(* A connection has two ends, the initiator's PeerNode and the acceptor's; *)
(* each end runs the hello and then _peer_connected at its node.  PeerNode *)
(* (connect, hello, disconnect, __lt__, PeerTable.filter) is not in src/:  *)
(* it is modelled from spec.md.                                            *)
(***************************************************************************)
EXTENDS Naturals, Sequences, FiniteSets

CONSTANTS
    N,          \* number of nodes; node names are 1..N
    Seeds,      \* Seeds[n]: the nodes n's seed addresses point at (n itself: an alias of its own address)
    MaxConns    \* bound on the connections created

Nodes == 1..N
Ends == {"ini", "acc"}
ConnIds == 1..MaxConns

VARIABLES
    conns,      \* the connections: [ini, acc, open: the ends still connected, pend: the ends whose _peer_connected is to run]
    peers,      \* peers[n][m]: the connection of n's PeerNode for name m, 0 if m is not in n.peers
    seedsLeft,  \* the seeds Node.start has still to connect to
    notify,     \* the _notifiy_peers tasks: <<node, connection of the new peer>>
    msgs        \* _notify_discovery calls in flight, one per name: [from, to, via, name]

vars == <<conns, peers, seedsLeft, notify, msgs>>

----------------------------------------------------------------------------
(* PeerNode, from spec.md: the node at an end of a connection, the remote  *)
(* name it learns in the hello, connect and disconnect.                    *)
EndNode(c, e) == IF e = "ini" THEN conns[c].ini ELSE conns[c].acc
Remote(c, e) == IF e = "ini" THEN conns[c].acc ELSE conns[c].ini

Connect(n, m) ==
    /\ Len(conns) < MaxConns
    /\ conns' = Append(conns, [ini |-> n, acc |-> m, open |-> Ends, pend |-> Ends])

(* The tiebreak key: spec.md asks for a total order on which both ends of  *)
(* a pair agree; here the initiator's name, then the connection.           *)
PeerLess(c1, c2) ==
    \/ conns[c1].ini < conns[c2].ini
    \/ conns[c1].ini = conns[c2].ini /\ c1 < c2

(* The end of connection c at node n, and its PeerNode.is_connected.       *)
EndAt(c, n) == IF conns[c].ini = n THEN "ini" ELSE "acc"
IsConnected(c, e) == e \in conns[c].open

(* PeerTable.filter(): the connected peers, as their names.                *)
Connected(n) == {m \in Nodes : peers[n][m] # 0 /\ IsConnected(peers[n][m], EndAt(peers[n][m], n))}

Init ==
    /\ conns = << >>
    /\ peers = [n \in Nodes |-> [m \in Nodes |-> 0]]
    /\ seedsLeft = Seeds
    /\ notify = {}
    /\ msgs = {}

----------------------------------------------------------------------------
(* Node.start: for seed in self.seeds: PeerNode(...).connect(), one after  *)
(* the other (the servers are listening; a seed equal to one of           *)
(* self.servers was filtered out of Seeds).                                *)
StartSeed(n) ==
    /\ \E s \in seedsLeft[n] :
          /\ Connect(n, s)
          /\ seedsLeft' = [seedsLeft EXCEPT ![n] = @ \ {s}]
    /\ UNCHANGED <<peers, notify, msgs>>

\* mutant: the new peer is stored under the node's own name
InstallUnderOwnName(n, r, c) ==
    /\ peers' = [peers EXCEPT ![n][n] = c]
    /\ notify' = notify \cup {<<n, c>>}

(* self.peers[peer.name] = peer, then _notifiy_peers is spawned.           *)
Install(n, r, c) ==
    /\ peers' = [peers EXCEPT ![n][r] = c]
    /\ notify' = notify \cup {<<n, c>>}

(* PeerNode.disconnect at end e: that end is no longer connected; the      *)
(* other end finds out later (Hangup).                                     *)
Close(cs, c, e) == [cs EXCEPT ![c].open = @ \ {e}]

\* mutant: an open known peer always wins, whatever the tiebreak key says
KnownWinsAlways(n, known, c) == IsConnected(known, EndAt(known, n))

(* known_peer.is_connected and known_peer < peer                           *)
KnownWins(n, known, c) == IsConnected(known, EndAt(known, n)) /\ PeerLess(known, c)

\* mutant: the known peer is deleted and the new one is not installed
ReplaceWithoutInstall(cs, n, r, c, known) ==
    /\ conns' = Close(cs, known, EndAt(known, n))
    /\ peers' = [peers EXCEPT ![n][r] = 0]
    /\ UNCHANGED notify

(* known_peer.disconnect(); del self.peers[peer.name]; and the new peer is *)
(* installed.                                                              *)
Replace(cs, n, r, c, known) ==
    /\ conns' = Close(cs, known, EndAt(known, n))
    /\ Install(n, r, c)

(* Node._peer_connected for end e of connection c, under the lock: a new   *)
(* name is installed; a known one makes the AssertionError of a closed     *)
(* connection, the self connect, the known peer winning (the new one is    *)
(* disconnected) or the new one winning (the known one is disconnected and *)
(* replaced).                                                              *)
PeerConnected(c, e) ==
    LET n == EndNode(c, e)
        r == Remote(c, e)
        known == peers[n][r]
        done == [conns EXCEPT ![c].pend = @ \ {e}]
    IN
    /\ e \in conns[c].pend
    /\ \/ /\ known = 0
          /\ conns' = done
          /\ Install(n, r, c)
       \/ /\ known # 0 /\ ~IsConnected(c, e)
          /\ conns' = done
          /\ UNCHANGED <<peers, notify>>
       \/ /\ known # 0 /\ IsConnected(c, e)
          /\ n = r \/ KnownWins(n, known, c)
          /\ conns' = Close(done, c, e)
          /\ UNCHANGED <<peers, notify>>
       \/ /\ known # 0 /\ IsConnected(c, e) /\ n # r
          /\ ~KnownWins(n, known, c)
          /\ Replace(done, n, r, c, known)
    /\ UNCHANGED <<seedsLeft, msgs>>

(* Node._notifiy_peers(new_peer): the snapshot of the connected peers      *)
(* under the lock; their names but the new peer's go to the new peer, and  *)
(* the new peer's name to each of them, over the connections of the        *)
(* snapshot.  A list of names is one call per name: _discovered takes the  *)
(* lock afresh for each, and the list is shuffled.  The fan-out may be     *)
(* handled before the call to the new peer: wait_for gives up on that one  *)
(* after 3 * HELLO_TIMEOUT.                                                *)
NotifyPeers(n, c) ==
    LET r == Remote(c, EndAt(c, n))
        others == Connected(n) \ {r}
    IN
    /\ <<n, c>> \in notify
    /\ notify' = notify \ {<<n, c>>}
    /\ msgs' = msgs
               \cup {[from |-> n, to |-> r, via |-> c, name |-> p] : p \in others}
               \cup {[from |-> n, to |-> p, via |-> peers[n][p], name |-> r] : p \in others}
    /\ UNCHANGED <<conns, peers, seedsLeft>>

(* The _notify_discovery call reaches the remote node; one iteration of    *)
(* Node._discovered, under the lock: connect to the name if it is not in   *)
(* self.peers.                                                             *)
Deliver(m) ==
    /\ m \in msgs
    /\ msgs' = msgs \ {m}
    /\ \/ peers[m.to][m.name] = 0 /\ Connect(m.to, m.name)
       \/ peers[m.to][m.name] # 0 /\ UNCHANGED conns
    /\ UNCHANGED <<peers, seedsLeft, notify>>

(* Over a connection closed at either end the call fails instead; the     *)
(* exception is logged.                                                    *)
Lose(m) ==
    /\ m \in msgs /\ conns[m.via].open # Ends
    /\ msgs' = msgs \ {m}
    /\ UNCHANGED <<conns, peers, seedsLeft, notify>>

(* The other end of a connection disconnected at one end sees it closed.  *)
Hangup(c) ==
    /\ conns[c].open \notin {{}, Ends}
    /\ conns' = [conns EXCEPT ![c].open = {}]
    /\ UNCHANGED <<peers, seedsLeft, notify, msgs>>

----------------------------------------------------------------------------
Next ==
    \/ \E n \in Nodes : StartSeed(n)
    \/ \E c \in DOMAIN conns, e \in Ends : PeerConnected(c, e)
    \/ \E t \in notify : NotifyPeers(t[1], t[2])
    \/ \E m \in msgs : Deliver(m) \/ Lose(m)
    \/ \E c \in DOMAIN conns : Hangup(c)

(* The event loop runs every ready task: start, the hello of every end,    *)
(* every spawned notification and every _discovered; a call is answered.   *)
(* Calls are grouped by receiver and connection: only finitely many are   *)
(* ever made, so fairness of each group reaches every call.               *)
Fairness ==
    /\ \A n \in Nodes : WF_vars(StartSeed(n))
    /\ \A c \in ConnIds, e \in Ends : WF_vars(c \in DOMAIN conns /\ PeerConnected(c, e))
    /\ \A n \in Nodes, c \in ConnIds : WF_vars(NotifyPeers(n, c))
    /\ \A n \in Nodes, c \in ConnIds :
          WF_vars(\E m \in msgs : m.to = n /\ m.via = c /\ Deliver(m))
    /\ \A c \in ConnIds : WF_vars(c \in DOMAIN conns /\ Hangup(c))

Spec == Init /\ [][Next]_vars /\ Fairness

----------------------------------------------------------------------------
Pair(c, a, b) == {conns[c].ini, conns[c].acc} = {a, b}

(* Types, and every entry of a peer table is a connection between the     *)
(* node and the name it is kept under.                                     *)
TypeOK ==
    /\ conns \in Seq([ini : Nodes, acc : Nodes, open : SUBSET Ends, pend : SUBSET Ends])
    /\ Len(conns) <= MaxConns
    /\ peers \in [Nodes -> [Nodes -> 0..Len(conns)]]
    /\ \A n, m \in Nodes : peers[n][m] # 0 => Pair(peers[n][m], n, m)
    /\ seedsLeft \in [Nodes -> SUBSET Nodes]
    /\ notify \subseteq Nodes \X DOMAIN conns
    /\ msgs \subseteq [from : Nodes, to : Nodes, via : DOMAIN conns, name : Nodes]


(* spec.md 8: of the connections two nodes open to each other, the contest *)
(* of _peer_connected disconnects all but one: it never disconnects the    *)
(* last open connection of a pair, whatever order the two nodes run their *)
(* _peer_connected calls in.                                               *)
PairKeepsConnection ==
    \A a, b \in Nodes :
        a # b /\ (\E c \in DOMAIN conns : Pair(c, a, b))
        => \E c \in DOMAIN conns : Pair(c, a, b) /\ conns[c].open = Ends

(* MaxConns stops a connect the code would make: a node with an unknown    *)
(* name to connect to, from a seed or a discovery, when no connection can  *)
(* be added.                                                               *)
BoundReached ==
    /\ Len(conns) = MaxConns
    /\ \/ \E n \in Nodes : seedsLeft[n] # {}
       \/ \E m \in msgs : peers[m.to][m.name] = 0

MeshFormed ==
    \A a, b \in Nodes :
        a # b =>
        /\ peers[a][b] # 0
        /\ peers[a][b] = peers[b][a]
        /\ \A c \in DOMAIN conns : Pair(c, a, b) /\ conns[c].open = Ends <=> c = peers[a][b]

(* spec.md 4.1 and 8: the nodes form a mesh: eventually every two nodes    *)
(* hold each other under the same connection, it is open, and it is the    *)
(* only open connection between them, once seeding, the contests of        *)
(* _peer_connected and the gossip of _notifiy_peers and _discovered have   *)
(* run; for every behaviour in which MaxConns stops no connect.            *)
MeshConverges == [](~BoundReached) => <>[]MeshFormed

(* spec.md 4.1: a connection whose remote is the node itself is            *)
(* disconnected; the peer table never holds the node's own name.           *)
NoSelfPeer == \A n \in Nodes : peers[n][n] = 0

====
