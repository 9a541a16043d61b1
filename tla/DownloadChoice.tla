--------------------------- MODULE DownloadChoice ---------------------------
(***************************************************************************)
(* The selection of BlockManager._next_download (src/bndl/rmi/blocks.py)   *)
(* as pure operators: the insertion-ordered availability dict built from  *)
(* the availability answers, and the pick                                 *)
(*     sorted(availability.items(), key=itemgetter(1), reverse=True)[0].   *)
(* BlockManager.tla lets any advertised block be chosen; this module pins  *)
(* down which one the code chooses.  The state is one input: the missing  *)
(* slots, the order in which the answers arrive (as_completed; a peer     *)
(* that timed out or failed is absent) and what each peer advertises.      *)
(* Peers are compared by their number: PeerNode's ordering is not in src/, *)
(* and spec.md only says it is a total order.                              *)
(***************************************************************************)
EXTENDS Integers, Sequences, SequencesExt

CONSTANTS NumBlocks, NumWorkers

Idx == 0..(NumBlocks - 1)
Workers == 1..NumWorkers
Seeder == 0

VARIABLES missing, order, adv

vars == <<missing, order, adv>>

(* The answers in completion order: <<worker, indices it holds>>.          *)
Answers == [i \in DOMAIN order |-> <<order[i], adv[order[i]]>>]

(* PeerNode ordering (spec.md: a total order; here the peer's number).      *)
PeerLess(p, q) == p < q

(* Python's list < list: lexicographic, a proper prefix is smaller.        *)
RECURSIVE PeersLess(_, _)
PeersLess(a, b) ==
    IF a = << >> THEN b # << >>
    ELSE IF b = << >> THEN FALSE
    ELSE IF Head(a) # Head(b) THEN PeerLess(Head(a), Head(b))
    ELSE PeersLess(Tail(a), Tail(b))

\* mutant: a second advertiser of a block is not appended
AdvertiseFirstOnly(av, idx, w) ==
    IF SelectInSeq(av, LAMBDA e : e[1] = idx) = 0
    THEN Append(av, <<idx, <<w>>>>) ELSE av

(* availability[idx].append(worker) on a defaultdict(list); the dict is    *)
(* kept as its items in insertion order.                                   *)
Advertise(av, idx, w) ==
    LET pos == SelectInSeq(av, LAMBDA e : e[1] = idx) IN
    IF pos = 0 THEN Append(av, <<idx, <<w>>>>)
    ELSE [av EXCEPT ![pos][2] = Append(@, w)]

(* The as_completed loop: for each answer, for each index in it (ascending,*)
(* as enumerate lists them), if blocks[idx] is None, record the worker.     *)
Availability(miss, answers) ==
    FoldLeft(LAMBDA av, a :
                FoldLeft(LAMBDA av2, i :
                            IF i \in miss THEN Advertise(av2, i, a[1]) ELSE av2,
                         av, SetToSortSeq(a[2], <)),
             << >>, answers)

(* sorted(items, key=itemgetter(1), reverse=True)[0]: the sort is stable,  *)
(* so this is the first item whose list no other list exceeds.              *)
FirstMaximal(av) ==
    av[Min({i \in DOMAIN av : \A j \in DOMAIN av : ~PeersLess(av[i][2], av[j][2])})]

(* The possible results of _next_download: the pick among the advertised  *)
(* blocks, otherwise random.choice(remaining) from the seeder; no result   *)
(* (IndexError) when nothing is missing.                                   *)
NextDownload(miss, answers) ==
    LET av == Availability(miss, answers) IN
    IF av # << >> THEN {FirstMaximal(av)}
    ELSE {<<k, <<Seeder>>>> : k \in miss}

Init ==
    /\ missing \in SUBSET Idx
    /\ order \in UNION {SetToSeqs(S) : S \in SUBSET Workers}
    /\ adv \in [Workers -> SUBSET Idx]

Next == UNCHANGED vars

Spec == Init /\ [][Next]_vars

----------------------------------------------------------------------------
(* The answering peers advertising block k, in the order they answered.    *)
AdvertisersOf(k) == SelectSeq(order, LAMBDA w : k \in adv[w])

(* _next_download hands _download the right candidates: the chosen block  *)
(* is missing, its candidates are exactly the answering peers that hold it *)
(* in answer order, or the seeder alone when no peer advertises it, and it *)
(* fails only when no slot is missing.                                      *)
CandidatesAreAdvertisers ==
    /\ NextDownload(missing, Answers) = {} <=> missing = {}
    /\ \A ch \in NextDownload(missing, Answers) :
          /\ ch[1] \in missing
          /\ ch[2] = IF AdvertisersOf(ch[1]) # << >> THEN AdvertisersOf(ch[1])
                     ELSE <<Seeder>>

(* spec.md: among the missing blocks some peer advertises, _next_download  *)
(* picks one with the most advertisers.                                    *)
MostAdvertisedChosen ==
    \A ch \in NextDownload(missing, Answers) :
        \A k \in missing : Len(AdvertisersOf(k)) <= Len(ch[2])

=============================================================================
