----------------------------- MODULE NodeServer -----------------------------
(***************************************************************************)
(* The listening side of Node (bndl/net/node.py): start opens a server for *)
(* each address, probing for a free TCP port, then contacts the seeds;     *)
(* stop disconnects the peers, closes the servers and cancels the start    *)
(* task.  The processes are workers that run_workers starts on one host    *)
(* with the same arguments (bndl/compute/worker.py), so each listens on a  *)
(* UNIX socket of its own name and on tcp://<fqdn>:5000, or the next port  *)
(* that is free.  A port is its offset from 5000; a seed is a port of this *)
(* host.  Each process runs start and stop on its own event loop.          *)
(***************************************************************************)
EXTENDS Naturals, Sequences, FiniteSets

CONSTANTS
    Procs,      \* the worker processes on the host
    PortSpan,   \* range(port, port + 1000): the ports one server tries
    Seeds       \* bndl.net.seeds: a sequence of ports, << >> when not set

Ports == 0..(PortSpan - 1)
NoServer == PortSpan
StartPC == {"unix", "unixStore", "tcp", "tcpStore", "seeds", "started", "failed", "cancelled"}
StopPC == {"idle", "ready", "peersWait", "unixWait", "tcpWait", "done"}

VARIABLES
    foreign,    \* ports whose bind fails for another reason: other programs
    alias,      \* the seed URLs spell the host differently from getfqdn()
    pc,         \* where start is, per process
    port,       \* the port _start_tcp_server tries
    addr,       \* the TCP key of self.servers
    srv,        \* the port the TCP socket listens on, or NoServer
    tcpRec,     \* self.servers holds the TCP server
    unixUp,     \* the UNIX socket listens
    unixRec,    \* self.servers holds the UNIX server
    si,         \* the seed the for loop of start is at
    peers,      \* the processes reached through a seed (self for a self-connect)
    stopPc,     \* where stop is
    lateStop    \* stop was called after start had ended

vars == <<foreign, alias, pc, port, addr, srv, tcpRec, unixUp, unixRec, si, peers,
          stopPc, lateStop>>

(* main(): seeds = args.seeds or conf.get('bndl.net.seeds') or            *)
(* ['tcp://%s:5000' % getlocalhostname()]                                 *)
SeedList == IF Seeds = << >> THEN <<0>> ELSE Seeds

(* Node.__init__ with no addresses: a UNIX socket and tcp://<fqdn>:5000,   *)
(* both None, then start_async.  Whether getlocalhostname() in the seeds  *)
(* is the same text as getfqdn() depends on the host, so both are initial *)
(* states.                                                                 *)
Init ==
    /\ foreign \in SUBSET Ports
    /\ alias \in BOOLEAN
    /\ pc = [n \in Procs |-> "unix"]
    /\ port = [n \in Procs |-> 0]
    /\ addr = [n \in Procs |-> 0]
    /\ srv = [n \in Procs |-> NoServer]
    /\ tcpRec = [n \in Procs |-> FALSE]
    /\ unixUp = [n \in Procs |-> FALSE]
    /\ unixRec = [n \in Procs |-> FALSE]
    /\ si = [n \in Procs |-> 1]
    /\ peers = [n \in Procs |-> {}]
    /\ stopPc = [n \in Procs |-> "idle"]
    /\ lateStop = [n \in Procs |-> FALSE]

(* The start task is in _iotasks and not done.                             *)
Running(n) == pc[n] \in {"unix", "unixStore", "tcp", "tcpStore", "seeds"}

(* A bind succeeds on a port no socket listens on.                         *)
Free(p) == p \notin foreign /\ \A m \in Procs : srv[m] # p

----------------------------------------------------------------------------
(* Each action of start runs from one await to the next.  The server      *)
(* coroutines of asyncio 3.7 and later yield once (sleep(0)) after the    *)
(* socket listens and before they return the server; on 3.4-3.6 the       *)
(* bind and the store below happen in one step, which is one of the      *)
(* interleavings here.                                                     *)

(* _start_unix_server: unlink the path if it exists, bind.  The path has   *)
(* the process's own name, so no other process holds it.                   *)
StartUnix(n) ==
    /\ pc[n] = "unix"
    /\ unixUp' = [unixUp EXCEPT ![n] = TRUE]
    /\ pc' = [pc EXCEPT ![n] = "unixStore"]
    /\ UNCHANGED <<foreign, alias, port, addr, srv, tcpRec, unixRec, si, peers, stopPc, lateStop>>

(* self.servers[address] = server                                          *)
StoreUnix(n) ==
    /\ pc[n] = "unixStore"
    /\ unixRec' = [unixRec EXCEPT ![n] = TRUE]
    /\ pc' = [pc EXCEPT ![n] = "tcp"]
    /\ UNCHANGED <<foreign, alias, port, addr, srv, tcpRec, unixUp, si, peers, stopPc, lateStop>>

\* mutant: range(port, port + 1001): one port past the span is tried
ProbeOnePast(n) ==
    /\ pc[n] = "tcp" /\ port[n] <= PortSpan
    /\ IF Free(port[n])
       THEN /\ srv' = [srv EXCEPT ![n] = port[n]]
            /\ pc' = [pc EXCEPT ![n] = "tcpStore"]
            /\ UNCHANGED port
       ELSE /\ port' = [port EXCEPT ![n] = @ + 1]
            /\ UNCHANGED <<pc, srv>>
    /\ UNCHANGED <<foreign, alias, addr, tcpRec, unixUp, unixRec, si, peers, stopPc, lateStop>>

(* One iteration of the port loop of _start_tcp_server: start_server      *)
(* binds, or the loop goes on to the next port on EADDRINUSE (or any      *)
(* other OSError, which is logged).                                        *)
Probe(n) ==
    /\ pc[n] = "tcp" /\ port[n] < PortSpan
    /\ IF Free(port[n])
       THEN /\ srv' = [srv EXCEPT ![n] = port[n]]
            /\ pc' = [pc EXCEPT ![n] = "tcpStore"]
            /\ UNCHANGED port
       ELSE /\ port' = [port EXCEPT ![n] = @ + 1]
            /\ UNCHANGED <<pc, srv>>
    /\ UNCHANGED <<foreign, alias, addr, tcpRec, unixUp, unixRec, si, peers, stopPc, lateStop>>

\* mutant: the placeholder key is kept when another port was bound
StoreKeepingPlaceholder(n) ==
    /\ pc[n] = "tcpStore"
    /\ tcpRec' = [tcpRec EXCEPT ![n] = TRUE]
    /\ pc' = [pc EXCEPT ![n] = "seeds"]
    /\ UNCHANGED <<foreign, alias, port, addr, srv, unixUp, unixRec, si, peers, stopPc, lateStop>>

(* if parsed.port != port: del self.servers[address]; address =           *)
(* 'tcp://host:port' -- self.servers[address] = server                     *)
Store(n) ==
    /\ pc[n] = "tcpStore"
    /\ addr' = [addr EXCEPT ![n] = port[n]]
    /\ tcpRec' = [tcpRec EXCEPT ![n] = TRUE]
    /\ pc' = [pc EXCEPT ![n] = "seeds"]
    /\ UNCHANGED <<foreign, alias, port, srv, unixUp, unixRec, si, peers, stopPc, lateStop>>

\* mutant: the port loop as `while not server`, which never gives up
GiveUpPastSpan(n) ==
    /\ pc[n] = "tcp" /\ port[n] = PortSpan + 1
    /\ pc' = [pc EXCEPT ![n] = "seeds"]
    /\ UNCHANGED <<foreign, alias, port, addr, srv, tcpRec, unixUp, unixRec, si, peers, stopPc, lateStop>>

(* if not server: return.  The placeholder address stays in self.servers. *)
GiveUp(n) ==
    /\ pc[n] = "tcp" /\ port[n] = PortSpan
    /\ pc' = [pc EXCEPT ![n] = "seeds"]
    /\ UNCHANGED <<foreign, alias, port, addr, srv, tcpRec, unixUp, unixRec, si, peers, stopPc, lateStop>>

(* for seed in self.seeds: if seed not in self.servers:                   *)
(* yield from PeerNode(..., addresses=[seed]).connect().  A connect to a  *)
(* port no process of the host listens on either raises, which leaves     *)
(* start, or returns without a peer.                                       *)
ContactSeed(n) ==
    /\ pc[n] = "seeds" /\ si[n] <= Len(SeedList)
    /\ LET p == SeedList[si[n]] IN
       \/ /\ ~alias /\ p = addr[n]
          /\ si' = [si EXCEPT ![n] = @ + 1]
          /\ UNCHANGED <<pc, peers>>
       \/ /\ alias \/ p # addr[n]
          /\ \E m \in Procs :
                /\ srv[m] = p
                /\ peers' = [peers EXCEPT ![n] = @ \cup {m}]
                /\ si' = [si EXCEPT ![n] = @ + 1]
                /\ UNCHANGED pc
       \/ /\ alias \/ p # addr[n]
          /\ \A m \in Procs : srv[m] # p
          /\ \/ /\ pc' = [pc EXCEPT ![n] = "failed"]
                /\ UNCHANGED si
             \/ /\ si' = [si EXCEPT ![n] = @ + 1]
                /\ UNCHANGED pc
          /\ UNCHANGED peers
    /\ UNCHANGED <<foreign, alias, port, addr, srv, tcpRec, unixUp, unixRec, stopPc, lateStop>>

(* The for loop over the seeds ends: start returns.                       *)
EndStart(n) ==
    /\ pc[n] = "seeds" /\ si[n] > Len(SeedList)
    /\ pc' = [pc EXCEPT ![n] = "started"]
    /\ UNCHANGED <<foreign, alias, port, addr, srv, tcpRec, unixUp, unixRec, si, peers,
                   stopPc, lateStop>>

----------------------------------------------------------------------------
(* stop runs on the same loop and suspends only in peer.disconnect() and  *)
(* server.wait_closed(); each action below runs it from one of those      *)
(* awaits (or from its start) to the next.                                 *)

(* stop_async: the stop task is scheduled, at any time.                    *)
RequestStop(n) ==
    /\ stopPc[n] = "idle"
    /\ stopPc' = [stopPc EXCEPT ![n] = "ready"]
    /\ lateStop' = [lateStop EXCEPT ![n] = ~Running(n)]
    /\ UNCHANGED <<foreign, alias, pc, port, addr, srv, tcpRec, unixUp, unixRec, si, peers>>

(* for task in self._iotasks[:]: task.cancel().  start is cancelled at    *)
(* the await it is suspended in: a socket bound by a server coroutine that *)
(* has not returned yet stays open, and is in no entry of self.servers.    *)
CancelTasks(n) ==
    /\ pc' = [pc EXCEPT ![n] = IF Running(n) THEN "cancelled" ELSE @]
    /\ stopPc' = [stopPc EXCEPT ![n] = "done"]

\* mutant: the servers loop skips the TCP entry
ServersFromTcpSkipped(n) == UNCHANGED srv /\ CancelTasks(n)

(* The servers loop at the TCP entry, as it is when the loop gets there   *)
(* (a rename by start is seen): close it and await wait_closed() if it    *)
(* holds a server, else go on to the tasks.                                *)
ServersFromTcp(n) ==
    \/ /\ tcpRec[n]
       /\ srv' = [srv EXCEPT ![n] = NoServer]
       /\ stopPc' = [stopPc EXCEPT ![n] = "tcpWait"]
       /\ UNCHANGED pc
    \/ /\ ~tcpRec[n]
       /\ UNCHANGED srv
       /\ CancelTasks(n)

(* The servers loop at the UNIX entry, which comes first: close it and    *)
(* await wait_closed() (the socket file is removed after it), or go on.    *)
ServersFromUnix(n) ==
    \/ /\ unixRec[n]
       /\ unixUp' = [unixUp EXCEPT ![n] = FALSE]
       /\ stopPc' = [stopPc EXCEPT ![n] = "unixWait"]
       /\ UNCHANGED <<srv, pc>>
    \/ /\ ~unixRec[n]
       /\ UNCHANGED unixUp
       /\ ServersFromTcp(n)

(* The stop task's first step: it runs after the first step of start,     *)
(* which was scheduled before it.  for peer in list(self.peers.values()): *)
(* yield from peer.disconnect() -- with no peers, straight on to the      *)
(* servers loop.                                                           *)
StopBegin(n) ==
    /\ stopPc[n] = "ready" /\ pc[n] # "unix"
    /\ \/ /\ peers[n] # {}
          /\ stopPc' = [stopPc EXCEPT ![n] = "peersWait"]
          /\ UNCHANGED <<pc, srv, unixUp>>
       \/ /\ peers[n] = {}
          /\ ServersFromUnix(n)
    /\ UNCHANGED <<foreign, alias, port, addr, tcpRec, unixRec, si, peers, lateStop>>

(* The disconnects are done: self.peers.clear(), which also drops a peer  *)
(* start installed meanwhile, then the servers loop.                       *)
StopAfterPeers(n) ==
    /\ stopPc[n] = "peersWait"
    /\ peers' = [peers EXCEPT ![n] = {}]
    /\ ServersFromUnix(n)
    /\ UNCHANGED <<foreign, alias, port, addr, tcpRec, unixRec, si, lateStop>>

(* wait_closed() of the UNIX server returns: os.remove, the TCP entry.     *)
StopAfterUnix(n) ==
    /\ stopPc[n] = "unixWait"
    /\ ServersFromTcp(n)
    /\ UNCHANGED <<foreign, alias, port, addr, tcpRec, unixUp, unixRec, si, peers, lateStop>>

(* wait_closed() of the TCP server returns: the tasks are cancelled.      *)
StopAfterTcp(n) ==
    /\ stopPc[n] = "tcpWait"
    /\ CancelTasks(n)
    /\ UNCHANGED <<foreign, alias, port, addr, srv, tcpRec, unixUp, unixRec, si, peers, lateStop>>

StartStep(n) ==
    \/ StartUnix(n) \/ StoreUnix(n) \/ Probe(n) \/ Store(n) \/ GiveUp(n)
    \/ ContactSeed(n) \/ EndStart(n)

StopStep(n) ==
    \/ StopBegin(n) \/ StopAfterPeers(n) \/ StopAfterUnix(n) \/ StopAfterTcp(n)

Next == \E n \in Procs : StartStep(n) \/ RequestStop(n) \/ StopStep(n)

(* Each process runs its own event loop, which runs the start task and the *)
(* stop task whenever they are ready; stop_async need never be called.     *)
Fairness == \A n \in Procs : WF_vars(StartStep(n)) /\ WF_vars(StopStep(n))

Spec == Init /\ [][Next]_vars /\ Fairness

----------------------------------------------------------------------------
TypeOK ==
    /\ foreign \subseteq Ports /\ alias \in BOOLEAN
    /\ pc \in [Procs -> StartPC] /\ stopPc \in [Procs -> StopPC]
    /\ port \in [Procs -> 0..PortSpan]
    /\ addr \in [Procs -> Ports]
    /\ srv \in [Procs -> Ports \cup {NoServer}]
    /\ tcpRec \in [Procs -> BOOLEAN] /\ unixUp \in [Procs -> BOOLEAN]
    /\ unixRec \in [Procs -> BOOLEAN]
    /\ si \in [Procs -> 1..(Len(SeedList) + 1)]
    /\ peers \in [Procs -> SUBSET Procs]
    /\ lateStop \in [Procs -> BOOLEAN]

(* Workers of one host probe the same ports at the same time: two whose   *)
(* TCP server is in self.servers and listening have different TCP keys,   *)
(* so the addresses they advertise name their own servers (the port loop  *)
(* and the rename of _start_tcp_server).                                   *)
ListenersHaveDistinctAddresses ==
    \A n, m \in Procs :
        (n # m /\ tcpRec[n] /\ tcpRec[m] /\ srv[n] # NoServer /\ srv[m] # NoServer)
            => addr[n] # addr[m]

(* A stop called after start has ended leaves the process listening on    *)
(* nothing: the servers loop of stop closes the UNIX and the TCP server.  *)
LateStopClosesServers ==
    \A n \in Procs :
        (stopPc[n] = "done" /\ lateStop[n]) => (srv[n] = NoServer /\ ~unixUp[n])

(* spec.md 4.1, Shutdown: stop closes each server and cancels the pending  *)
(* I/O tasks, so a process whose stop has ended listens on nothing,       *)
(* whenever stop_async was called (Node.stop against Node.start).          *)
StopClosesServers ==
    \A n \in Procs : stopPc[n] = "done" => (srv[n] = NoServer /\ ~unixUp[n])

(* spec.md 4.1: connection failures to seeds are surfaced but do not      *)
(* abort startup, so no seed is left untried after one that failed: a     *)
(* start that raised did so at the last seed (the seed loop of            *)
(* Node.start).                                                            *)
SeedsAllAttempted ==
    \A n \in Procs : pc[n] = "failed" => si[n] = Len(SeedList)

(* start always ends, with every port taken or refused and every seed     *)
(* unreachable: it returns, raises, or is cancelled by stop (the bounded  *)
(* port loop of _start_tcp_server and the seed loop of start).            *)
StartEnds == \A n \in Procs : <>(pc[n] \in {"started", "failed", "cancelled"})

====
