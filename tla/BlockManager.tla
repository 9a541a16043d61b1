---------------------------- MODULE BlockManager ----------------------------
(***************************************************************************)
(* BlockManager of bndl/rmi/blocks.py for one block set: the seeder that   *)
(* served it, worker nodes whose task threads call get_blocks, the         *)
(* availability and block RPCs between nodes, and remove_blocks, locally   *)
(* or from a peer.  A block is abstracted to its index: the block a slot   *)
(* holds is the index of the seeder's block it was copied from.           *)
(***************************************************************************)
EXTENDS Integers, FiniteSets

CONSTANTS
    Nodes,        \* the nodes, each with a BlockManager
    Seeder,       \* block_spec.seeder
    Workers,      \* the nodes with node_type 'worker'
    Callers,      \* task threads that call get_blocks(block_spec)
    NodeOf,       \* the node a caller thread runs on
    NumBlocks,    \* block_spec.num_blocks
    MaxCalls,     \* get_blocks calls per thread
    MaxRemovals   \* remove_blocks calls in a behaviour

ASSUME Seeder \in Nodes /\ Workers \subseteq Nodes
ASSUME NodeOf \in [Callers -> Nodes \ {Seeder}]
ASSUME NumBlocks \in Nat \ {0} /\ MaxCalls \in Nat /\ MaxRemovals \in Nat

Idx == 1..NumBlocks
None == 0              \* an empty slot of a block list
Nil == -1              \* no cache entry / no event
(* Each get_blocks call that registers an event creates the event and,    *)
(* as downloader, one list: both carry the number of the call.  Id 0 is   *)
(* the seeder's list and event from serve_blocks.                         *)
MaxIds == Cardinality(Callers) * MaxCalls
Ids == 0..MaxIds

PC == {"idle", "wait", "alloc", "next", "fetch", "fallback", "set",
       "return", "done", "failed"}

VARIABLES
    cache,       \* _blocks_cache[name] of each node: a list id or Nil
    events,      \* _available_events[name] of each node: an event id or Nil
    slots,       \* the contents of each list
    isSet,       \* whether each event is set
    nextId,      \* the next fresh id
    pc,          \* where each caller thread is
    ev,          \* the event a caller waits on or will set
    lst,         \* the local `blocks` list of a downloader
    iter,        \* iterations of `for _ in blocks` done
    idx,         \* the block index chosen by _next_download
    cands,       \* candidates not yet tried for idx
    calls,       \* get_blocks calls made by each thread
    removals,    \* history: remove_blocks calls that hit each node
    regAt,       \* history: removals[node] when a downloader registered
    returned,    \* history: the list each finished call returned
    pendingRm,   \* _remove_blocks RPCs sent and not yet handled
    rmCalls      \* remove_blocks calls made

vars == <<cache, events, slots, isSet, nextId, pc, ev, lst, iter, idx,
          cands, calls, removals, regAt, returned, pendingRm, rmCalls>>

threadVars == <<pc, ev, lst, iter, idx, cands, calls, regAt, returned>>

----------------------------------------------------------------------------
(* serve_blocks on the seeder: the full list and a set event, id 0.        *)
Init ==
    /\ cache = [n \in Nodes |-> IF n = Seeder THEN 0 ELSE Nil]
    /\ events = [n \in Nodes |-> IF n = Seeder THEN 0 ELSE Nil]
    /\ slots = [i \in Ids |-> [k \in Idx |-> IF i = 0 THEN k ELSE None]]
    /\ isSet = [i \in Ids |-> i = 0]
    /\ nextId = 1
    /\ pc = [c \in Callers |-> "idle"]
    /\ ev = [c \in Callers |-> Nil]
    /\ lst = [c \in Callers |-> Nil]
    /\ iter = [c \in Callers |-> 0]
    /\ idx = [c \in Callers |-> 1]
    /\ cands = [c \in Callers |-> {}]
    /\ calls = [c \in Callers |-> 0]
    /\ removals = [n \in Nodes |-> 0]
    /\ regAt = [c \in Callers |-> 0]
    /\ returned = [c \in Callers |-> Nil]
    /\ pendingRm = {}
    /\ rmCalls = 0

(* The blocks node p holds: the indices of non-empty slots of its cache    *)
(* entry, nothing if it has none (_get_blocks_available).                 *)
BlocksAvailable(p) ==
    IF cache[p] = Nil THEN {} ELSE {k \in Idx : slots[cache[p]][k] # None}

(* _get_block on p succeeds when p holds block k.                         *)
HasBlock(p, k) == k \in BlocksAvailable(p)

(* The block _get_block(name, k) on p sends.                              *)
GetBlock(p, k) == slots[cache[p]][k]

(* The missing slots of a list.                                           *)
Missing(l) == {k \in Idx : slots[l][k] = None}

----------------------------------------------------------------------------
\* mutant: only a finished download is joined
InProgressOnlyIfSet(n) == events[n] # Nil /\ isSet[events[n]]

(* An event is registered for the name on node n.                        *)
InProgress(n) == events[n] # Nil

(* get_blocks, the part under _available_lock: wait on the registered     *)
(* event, or register a new, unset one and become the downloader.         *)
GetBlocks(c) ==
    LET n == NodeOf[c] IN
    /\ pc[c] \in {"idle", "done", "failed"}
    /\ calls[c] < MaxCalls
    /\ calls' = [calls EXCEPT ![c] = @ + 1]
    /\ \/ /\ InProgress(n)
          /\ ev' = [ev EXCEPT ![c] = events[n]]
          /\ pc' = [pc EXCEPT ![c] = "wait"]
          /\ UNCHANGED <<events, nextId, regAt>>
       \/ /\ ~InProgress(n)
          /\ events' = [events EXCEPT ![n] = nextId]
          /\ ev' = [ev EXCEPT ![c] = nextId]
          /\ nextId' = nextId + 1
          /\ regAt' = [regAt EXCEPT ![c] = removals[n]]
          /\ pc' = [pc EXCEPT ![c] = "alloc"]
    /\ UNCHANGED <<cache, slots, isSet, lst, iter, idx, cands, removals,
                   returned, pendingRm, rmCalls>>

(* available.wait()                                                       *)
Wait(c) ==
    /\ pc[c] = "wait"
    /\ isSet[ev[c]]
    /\ pc' = [pc EXCEPT ![c] = "return"]
    /\ UNCHANGED <<cache, events, slots, isSet, nextId, ev, lst, iter, idx,
                   cands, calls, removals, regAt, returned, pendingRm, rmCalls>>

(* return self._blocks_cache[name]: a KeyError if it was removed.         *)
Return(c) ==
    LET n == NodeOf[c] IN
    /\ pc[c] = "return"
    /\ \/ /\ cache[n] # Nil
          /\ returned' = [returned EXCEPT ![c] = cache[n]]
          /\ pc' = [pc EXCEPT ![c] = "done"]
       \/ /\ cache[n] = Nil
          /\ pc' = [pc EXCEPT ![c] = "failed"]
          /\ UNCHANGED returned
    /\ UNCHANGED <<cache, events, slots, isSet, nextId, ev, lst, iter, idx,
                   cands, calls, removals, regAt, pendingRm, rmCalls>>

(* _download: blocks = [None] * num_blocks; self._blocks_cache[name] =    *)
(* blocks.  The list takes the id of the downloader's event.              *)
Alloc(c) ==
    /\ pc[c] = "alloc"
    /\ cache' = [cache EXCEPT ![NodeOf[c]] = ev[c]]
    /\ lst' = [lst EXCEPT ![c] = ev[c]]
    /\ iter' = [iter EXCEPT ![c] = 0]
    /\ pc' = [pc EXCEPT ![c] = "next"]
    /\ UNCHANGED <<events, slots, isSet, nextId, ev, idx, cands, calls,
                   removals, regAt, returned, pendingRm, rmCalls>>

\* mutant: the loop runs one iteration too many
LoopDoneLate(c) == iter[c] = NumBlocks + 1

(* for _ in blocks: one iteration per block of the spec.                  *)
LoopDone(c) == iter[c] = NumBlocks

(* The answering peers that advertise block k.                            *)
Advertisers(answered, k) == {p \in answered : HasBlock(p, k)}

\* mutant: the `blocks[idx] is None` filter is dropped
AvailabilityUnfiltered(view, answered) ==
    {k \in Idx : Advertisers(answered, k) # {}}

(* availability: the blocks missing from the cached list `view` that some *)
(* answering peer advertises.                                             *)
Availability(view, answered) ==
    {k \in Missing(view) : Advertisers(answered, k) # {}}

(* One iteration of `for _ in blocks` in _download: _next_download reads  *)
(* self._blocks_cache[name] (a KeyError if removed), asks every worker    *)
(* peer for _get_blocks_available and keeps the answers that arrive       *)
(* within AVAILABILITY_TIMEOUT.  If a missing block is advertised it      *)
(* picks one of them with its advertisers as candidates (the sort on      *)
(* itemgetter(1) depends on PeerNode ordering, so any advertised block    *)
(* may come first); otherwise random.choice over the missing slots with  *)
(* the seeder as sole candidate, an IndexError if there are none.         *)
NextDownload(c) ==
    LET n == NodeOf[c] IN
    /\ pc[c] = "next"
    /\ \/ /\ LoopDone(c)
          /\ pc' = [pc EXCEPT ![c] = "set"]
          /\ UNCHANGED <<idx, cands>>
       \/ /\ ~LoopDone(c)
          /\ cache[n] = Nil
          /\ pc' = [pc EXCEPT ![c] = "failed"]
          /\ UNCHANGED <<idx, cands>>
       \/ /\ ~LoopDone(c)
          /\ cache[n] # Nil
          /\ \E answered \in SUBSET (Workers \ {n}) :
               LET miss == Missing(cache[n])
                   advertised == Availability(cache[n], answered)
               IN  \/ \E k \in advertised :
                        /\ idx' = [idx EXCEPT ![c] = k]
                        /\ cands' = [cands EXCEPT ![c] = Advertisers(answered, k)]
                        /\ pc' = [pc EXCEPT ![c] = "fetch"]
                   \/ /\ advertised = {}
                      /\ \E k \in miss :
                           /\ idx' = [idx EXCEPT ![c] = k]
                           /\ cands' = [cands EXCEPT ![c] = {Seeder}]
                           /\ pc' = [pc EXCEPT ![c] = "fetch"]
                   \/ /\ advertised = {}
                      /\ miss = {}
                      /\ pc' = [pc EXCEPT ![c] = "failed"]
                      /\ UNCHANGED <<idx, cands>>
    /\ UNCHANGED <<cache, events, slots, isSet, nextId, ev, lst, iter, calls,
                   removals, regAt, returned, pendingRm, rmCalls>>

(* download(source): blocks[idx] = source._get_block(name, idx).result()  *)
(* .block, into the downloader's own list.                                *)
Store(c, s) ==
    /\ slots' = [slots EXCEPT ![lst[c]][idx[c]] = GetBlock(s, idx[c])]
    /\ iter' = [iter EXCEPT ![c] = @ + 1]
    /\ pc' = [pc EXCEPT ![c] = "next"]

\* mutant: an error of a candidate propagates (no `except Exception: pass`)
FetchWithoutFallThrough(c) ==
    /\ pc[c] = "fetch"
    /\ \/ /\ cands[c] = {}
          /\ pc' = [pc EXCEPT ![c] = "fallback"]
          /\ UNCHANGED <<slots, iter, cands>>
       \/ \E s \in cands[c] :
            /\ cands' = [cands EXCEPT ![c] = @ \ {s}]
            /\ \/ /\ HasBlock(s, idx[c])
                  /\ Store(c, s)
               \/ /\ ~HasBlock(s, idx[c])
                  /\ pc' = [pc EXCEPT ![c] = "failed"]
                  /\ UNCHANGED <<slots, iter>>
    /\ UNCHANGED <<cache, events, isSet, nextId, ev, lst, idx, calls,
                   removals, regAt, returned, pendingRm, rmCalls>>

(* while local or remote: try a random remaining candidate; an error      *)
(* (the source lost the block or is gone) falls through to the next one,  *)
(* a success breaks; with none left, the else clause.                     *)
Fetch(c) ==
    /\ pc[c] = "fetch"
    /\ \/ /\ cands[c] = {}
          /\ pc' = [pc EXCEPT ![c] = "fallback"]
          /\ UNCHANGED <<slots, iter, cands>>
       \/ \E s \in cands[c] :
            /\ cands' = [cands EXCEPT ![c] = @ \ {s}]
            /\ \/ /\ HasBlock(s, idx[c])
                  /\ Store(c, s)
               \/ /\ ~HasBlock(s, idx[c])
                  /\ UNCHANGED <<slots, iter, pc>>
    /\ UNCHANGED <<cache, events, isSet, nextId, ev, lst, idx, calls,
                   removals, regAt, returned, pendingRm, rmCalls>>

(* else: download(self.peers[block_spec.seeder]); its error propagates   *)
(* out of _download and get_blocks.                                       *)
Fallback(c) ==
    /\ pc[c] = "fallback"
    /\ \/ /\ HasBlock(Seeder, idx[c])
          /\ Store(c, Seeder)
       \/ /\ ~HasBlock(Seeder, idx[c])
          /\ pc' = [pc EXCEPT ![c] = "failed"]
          /\ UNCHANGED <<slots, iter>>
    /\ UNCHANGED <<cache, events, isSet, nextId, ev, lst, idx, cands, calls,
                   removals, regAt, returned, pendingRm, rmCalls>>

\* mutant: available.set() is forgotten
SetEventSkipped(c) ==
    /\ pc[c] = "set"
    /\ pc' = [pc EXCEPT ![c] = "return"]
    /\ UNCHANGED <<cache, events, slots, isSet, nextId, ev, lst, iter, idx, cands,
                   calls, removals, regAt, returned, pendingRm, rmCalls>>

(* available.set() after _download returned.                              *)
SetEvent(c) ==
    /\ pc[c] = "set"
    /\ isSet' = [isSet EXCEPT ![ev[c]] = TRUE]
    /\ pc' = [pc EXCEPT ![c] = "return"]
    /\ UNCHANGED <<cache, events, slots, nextId, ev, lst, iter, idx, cands,
                   calls, removals, regAt, returned, pendingRm, rmCalls>>

----------------------------------------------------------------------------
(* Delete the cache entry and the event of node n, KeyErrors ignored.     *)
Drop(n) ==
    /\ cache' = [cache EXCEPT ![n] = Nil]
    /\ events' = [events EXCEPT ![n] = Nil]
    /\ removals' = [removals EXCEPT ![n] = @ + 1]

(* remove_blocks(name, from_peers) on node n, from any thread: drop the   *)
(* local entry, and with from_peers send _remove_blocks to every peer     *)
(* without waiting for the answers.                                       *)
RemoveBlocks(n, fromPeers) ==
    /\ rmCalls < MaxRemovals
    /\ rmCalls' = rmCalls + 1
    /\ Drop(n)
    /\ pendingRm' = IF fromPeers THEN pendingRm \cup (Nodes \ {n}) ELSE pendingRm
    /\ UNCHANGED <<slots, isSet, nextId, threadVars>>

(* _remove_blocks RPC handled on peer p.                                  *)
HandleRemove(p) ==
    /\ p \in pendingRm
    /\ Drop(p)
    /\ pendingRm' = pendingRm \ {p}
    /\ UNCHANGED <<slots, isSet, nextId, rmCalls, threadVars>>

----------------------------------------------------------------------------
Thread(c) ==
    \/ Wait(c) \/ Return(c) \/ Alloc(c) \/ NextDownload(c) \/ Fetch(c)
    \/ Fallback(c) \/ SetEvent(c)

Next ==
    \/ \E c \in Callers : GetBlocks(c) \/ Thread(c)
    \/ \E n \in Nodes, fromPeers \in BOOLEAN : RemoveBlocks(n, fromPeers)
    \/ \E p \in Nodes : HandleRemove(p)

(* A thread inside get_blocks keeps running, and a _remove_blocks RPC is  *)
(* eventually handled.  Nobody has to call get_blocks or remove_blocks.   *)
Fairness ==
    /\ \A c \in Callers : WF_vars(Thread(c))
    /\ \A p \in Nodes : WF_vars(HandleRemove(p))

Spec == Init /\ [][Next]_vars /\ Fairness

----------------------------------------------------------------------------
TypeOK ==
    /\ cache \in [Nodes -> Ids \cup {Nil}]
    /\ events \in [Nodes -> Ids \cup {Nil}]
    /\ slots \in [Ids -> [Idx -> Idx \cup {None}]]
    /\ isSet \in [Ids -> BOOLEAN]
    /\ nextId \in 1..MaxIds + 1
    /\ pc \in [Callers -> PC]
    /\ ev \in [Callers -> Ids \cup {Nil}]
    /\ lst \in [Callers -> Ids \cup {Nil}]
    /\ iter \in [Callers -> 0..NumBlocks]
    /\ idx \in [Callers -> Idx]
    /\ cands \in [Callers -> SUBSET Nodes]
    /\ calls \in [Callers -> 0..MaxCalls]
    /\ removals \in [Nodes -> Nat]
    /\ regAt \in [Callers -> Nat]
    /\ returned \in [Callers -> Ids \cup {Nil}]
    /\ pendingRm \subseteq Nodes
    /\ rmCalls \in 0..MaxRemovals

InCall(c) == pc[c] \notin {"idle", "done", "failed"}
Downloading(c) == pc[c] \in {"alloc", "next", "fetch", "fallback", "set"}

(* There is one downloader per node and name until remove_blocks is      *)
(* called there: two threads of a node download at once only if the       *)
(* entry was removed between their registrations (the check and the       *)
(* registration of get_blocks under _available_lock).                     *)
SingleDownloader ==
    \A c1, c2 \in Callers :
        (/\ c1 # c2 /\ NodeOf[c1] = NodeOf[c2]
         /\ Downloading(c1) /\ Downloading(c2)) => regAt[c1] # regAt[c2]

(* Stale availability answers cost only a retry: a get_blocks call       *)
(* raises only after remove_blocks dropped the entry on its own node (a   *)
(* KeyError in _next_download or at the return, or an IndexError on       *)
(* another download's list), or the seeder itself lost the blocks (the    *)
(* fallback fails).  A candidate that advertised a block and removed it   *)
(* before the fetch never makes the call fail (the candidate loop of      *)
(* _download falls through to the next candidate and the seeder).         *)
FailsOnlyOnRemoval ==
    \A c \in Callers :
        pc[c] = "failed" => removals[NodeOf[c]] > 0 \/ removals[Seeder] > 0

(* A get_blocks call that returns a list returns it without empty slots,  *)
(* whether it downloaded or waited on another thread's download.          *)
CompleteResult ==
    \A c \in Callers : pc[c] = "done" => Missing(returned[c]) = {}

(* Every get_blocks call eventually returns or raises.                    *)
GetBlocksReturns ==
    \A c \in Callers : InCall(c) ~> ~InCall(c)

====
