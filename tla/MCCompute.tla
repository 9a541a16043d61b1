----------------------------- MODULE MCCompute -----------------------------
(***************************************************************************)
(* The components of a compute cluster that share no state, checked in one *)
(* model.  A behaviour is one part ("part", chosen in the initial state):  *)
(*  - "compute": a Job run by the driver (Job.tla) and, interleaved with   *)
(*    it, the Cassandra scan a task of it materializes on a worker        *)
(*    (CassandraScan.tla);                                                 *)
(*  - "manager": a driver seeds two blocks and two workers download them, *)
(*    one with two task threads calling get_blocks at once, and nobody     *)
(*    calls remove_blocks (BlockManager.tla);                              *)
(*  - "split": an input of serve_data (BlockSplit.tla);                    *)
(*  - "choice": an input of _next_download (DownloadChoice.tla);           *)
(*  - "server": two workers started on one host with the same arguments,  *)
(*    probing ports 5000 and 5001, seeded with both, and stopped at any    *)
(*    time (NodeServer.tla).                                               *)
(* The parts not chosen keep fixed values.  Each part's fairness is asked *)
(* only of its own steps, and its liveness properties are stated for its  *)
(* own behaviours.                                                         *)
(***************************************************************************)
EXTENDS Naturals, TLC

CONSTANTS NumStages, NumTasks, NumRanges, MaxPages,
          MinLength, MaxLength, MaxBlockSize, NumBlocks, NumWorkers,
          MaxCalls, MaxRemovals, s, a, b, a1, a2, b1, w1, w2

VARIABLES job, jpc, jcur, listening, closed, st, raisedOut, kc,
          pages, spc, scur, waiting, reqs, out,
          cache, events, slots, isSet, nextId, bpc, ev, lst, iter, idx,
          cands, calls, removals, regAt, returned, pendingRm, rmCalls,
          length, blockSize, missing, order, adv,
          foreign, alias, npc, port, addr, srv, tcpRec, unixUp, unixRec, si,
          nsPeers, stopPc, lateStop,
          part

jobVars == <<job, jpc, jcur, listening, closed, st, raisedOut, kc>>
scanVars == <<pages, spc, scur, waiting, reqs, out>>
bmVars == <<cache, events, slots, isSet, nextId, bpc, ev, lst, iter, idx,
            cands, calls, removals, regAt, returned, pendingRm, rmCalls>>
opsVars == <<length, blockSize, missing, order, adv>>
nsVars == <<foreign, alias, npc, port, addr, srv, tcpRec, unixUp, unixRec, si,
            nsPeers, stopPc, lateStop>>
vars == <<jobVars, scanVars, bmVars, opsVars, nsVars, part>>

J == INSTANCE Job WITH cur <- jcur
S == INSTANCE CassandraScan WITH pc <- spc, cur <- scur
BM == INSTANCE BlockManager
        WITH Nodes <- {s, a, b}, Seeder <- s, Workers <- {a, b}, pc <- bpc,
             Callers <- {a1, a2, b1}, NodeOf <- (a1 :> a) @@ (a2 :> a) @@ (b1 :> b)
Split == INSTANCE BlockSplit
Choice == INSTANCE DownloadChoice

(* bndl.net.seeds = tcp://<host>:5000, tcp://<host>:5001                   *)
NSSeeds == <<0, 1>>

NS == INSTANCE NodeServer
        WITH Procs <- {w1, w2}, PortSpan <- 2, Seeds <- NSSeeds, pc <- npc,
             peers <- nsPeers

(* The values of the parts that are not chosen.                            *)
ScanFixed == S!Init /\ pages = [r \in S!Ranges |-> 1]
SplitFixed == length = MinLength /\ blockSize = 1
ChoiceFixed == missing = {} /\ order = << >> /\ adv = [w \in Choice!Workers |-> {}]
ServerFixed == NS!Init /\ foreign = {} /\ alias = FALSE

Init ==
    /\ part \in {"compute", "manager", "split", "choice", "server"}
    /\ J!Init /\ BM!Init
    /\ IF part = "compute" THEN S!Init ELSE ScanFixed
    /\ IF part = "split" THEN Split!Init ELSE SplitFixed
    /\ IF part = "choice" THEN Choice!Init ELSE ChoiceFixed
    /\ IF part = "server" THEN NS!Init ELSE ServerFixed

Next ==
    \/ part = "compute" /\ J!Next /\ UNCHANGED <<scanVars, bmVars, opsVars, nsVars, part>>
    \/ part = "compute" /\ S!Next /\ UNCHANGED <<jobVars, bmVars, opsVars, nsVars, part>>
    \/ part = "manager" /\ BM!Next /\ UNCHANGED <<jobVars, scanVars, opsVars, nsVars, part>>
    \/ part = "server" /\ NS!Next /\ UNCHANGED <<jobVars, scanVars, bmVars, opsVars, part>>

(* The Fairness of Job, CassandraScan, BlockManager and NodeServer, each   *)
(* over its own variables and asked only of the steps of its own part:    *)
(* in a behaviour of another part its actions are never enabled.          *)
Fairness ==
    /\ WF_jobVars(part = "compute" /\ J!JStart) /\ WF_jobVars(part = "compute" /\ J!JCheck)
    /\ WF_jobVars(part = "compute" /\ J!JFinally)
    /\ WF_jobVars(part = "compute" /\ (J!JResume \/ J!JClose))
    /\ WF_jobVars(part = "compute" /\ J!JobCancelStage)
    /\ \A x \in J!Stages : /\ WF_jobVars(part = "compute" /\ J!SBegin(x))
                           /\ WF_jobVars(part = "compute" /\ (J!SYield(x) \/ J!SStop(x)))
    /\ WF_scanVars(part = "compute" /\ S!Begin) /\ WF_scanVars(part = "compute" /\ S!Receive)
    /\ WF_scanVars(part = "compute" /\ (S!Resume \/ S!Close))
    /\ \A r \in S!Ranges, p \in 1..MaxPages :
          WF_scanVars(part = "compute" /\ \E q \in reqs : q.page = <<r, p>> /\ S!Answer(q))
    /\ \A c \in {a1, a2, b1} : WF_bmVars(part = "manager" /\ BM!Thread(c))
    /\ \A n \in {s, a, b} : WF_bmVars(part = "manager" /\ BM!HandleRemove(n))
    /\ \A n \in {w1, w2} : /\ WF_nsVars(part = "server" /\ NS!StartStep(n))
                           /\ WF_nsVars(part = "server" /\ NS!StopStep(n))

Spec == Init /\ [][Next]_vars /\ Fairness

----------------------------------------------------------------------------
(* Job.tla: types, a stopped job has run its stages, and (JobTerminates)  *)
(* every job of the compute part signals stop or is cancelled.            *)
JobTypeOK == J!TypeOK
StopMeansStagesDone == J!StopMeansStagesDone
JobTerminates == <>(part # "compute" \/ job.stopped \/ job.cancelled)

(* CassandraScan.tla: types, pages in order, one page read ahead, and      *)
(* (ScanEnds) every scan of the compute part ends.                         *)
ScanTypeOK == S!TypeOK
ScanInOrder == S!ScanInOrder
PrefetchDepthOne == S!PrefetchDepthOne
ScanEnds == <>(part # "compute" \/ spc \in {"done", "failed", "closed"})

(* serve_data splits every byte string as spec.md states (BlockSplit).     *)
ServeDataSplitsData == Split!ServeDataSplitsData

(* _next_download picks a missing block with exactly its advertisers as    *)
(* candidates, or the seeder (DownloadChoice).                             *)
CandidatesAreAdvertisers == Choice!CandidatesAreAdvertisers

(* Without remove_blocks, a get_blocks call that returns a list returns   *)
(* it complete, and every call returns or raises (BlockManager; callers   *)
(* of the other parts never call).                                         *)
CompleteResult == BM!CompleteResult
GetBlocksReturns == BM!GetBlocksReturns

(* NodeServer.tla: types, distinct advertised addresses, servers closed   *)
(* by a late stop, and the two statements of spec.md 4.1 that the code    *)
(* does not meet (SeedsAllAttempted, StopClosesServers).                  *)
ServerTypeOK == NS!TypeOK
ListenersHaveDistinctAddresses == NS!ListenersHaveDistinctAddresses
LateStopClosesServers == NS!LateStopClosesServers
SeedsAllAttempted == NS!SeedsAllAttempted
StopClosesServers == NS!StopClosesServers

(* NodeServer.tla: every start of the server part returns, raises or is   *)
(* cancelled.                                                              *)
StartEnds ==
    \A n \in {w1, w2} : <>(part # "server" \/ npc[n] \in {"started", "failed", "cancelled"})
====
