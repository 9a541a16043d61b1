---------------------------- MODULE CassandraScan ----------------------------
(***************************************************************************)
(* CassandraScanPartition._materialize (bndl/compute/cassandra/dataset.py):*)
(* a generator that scans the partition's token ranges one after the      *)
(* other, page by page, and fetches the next page (or the first page of    *)
(* the next range) while the consumer works on the current one.  The      *)
(* driver answers each request, or fails it (a read timeout or an error   *)
(* of the cluster); the consumer may stop iterating at any yield.  A page *)
(* is named <<range, page>>; its rows are abstracted to the name.          *)
(***************************************************************************)
EXTENDS Naturals, Sequences, FiniteSets, SequencesExt

CONSTANTS
    NumRanges,  \* len(self.token_ranges)
    MaxPages    \* bound on the pages of one token range

Ranges == 1..NumRanges
Status == {"start", "await", "yield", "done", "failed", "closed"}

VARIABLES
    pages,      \* pages[r]: the pages the query returns for range r (an empty range: one empty page)
    pc,         \* where the generator is
    cur,        \* the page of resultset
    waiting,    \* the page next_rs.result() or response_future.result() waits for
    reqs,       \* the requests of the driver: [page, st], st "pending", "ok" or "failed"
    out         \* the pages yielded, in order

vars == <<pages, pc, cur, waiting, reqs, out>>

None == <<0, 0>>

(* resultset.response_future.has_more_pages                               *)
HasMore(p) == p[2] < pages[p[1]]

Request(p) == [page |-> p, st |-> "pending"]

Init ==
    /\ pages \in [Ranges -> 1..MaxPages]
    /\ pc = "start"
    /\ cur = None
    /\ waiting = None
    /\ reqs = {}
    /\ out = << >>

----------------------------------------------------------------------------
(* next_rs = session.execute_async(query, self.token_ranges[0], ...); the  *)
(* for loop's first next_rs.result().                                      *)
Begin ==
    /\ pc = "start"
    /\ reqs' = {Request(<<1, 1>>)}
    /\ waiting' = <<1, 1>>
    /\ pc' = "await"
    /\ UNCHANGED <<pages, cur, out>>

(* The page the scan reads after p: the next page of its range, or the    *)
(* first page of the next range (next_tr), or none after the last range.   *)
Succ(p) ==
    IF HasMore(p) THEN <<p[1], p[2] + 1>>
    ELSE IF p[1] < NumRanges THEN <<p[1] + 1, 1>>
    ELSE None

\* mutant: start_fetching_next_page() left out; only next ranges are queried
PrefetchRangesOnly(p) ==
    IF ~HasMore(p) /\ p[1] < NumRanges THEN {Request(<<p[1] + 1, 1>>)} ELSE {}

\* mutant: `elif next_tr` read as `if next_tr`: the next range is queried as well
PrefetchBoth(p) ==
    (IF HasMore(p) THEN {Request(<<p[1], p[2] + 1>>)} ELSE {})
    \cup (IF p[1] < NumRanges THEN {Request(<<p[1] + 1, 1>>)} ELSE {})

\* mutant: start_fetching_next_page() without looking at has_more_pages
PrefetchIgnoringHasMore(p) == {Request(<<p[1], p[2] + 1>>)}

(* if has_more: start_fetching_next_page(); elif next_tr:                  *)
(* session.execute_async(query, next_tr)                                   *)
Prefetch(p) == IF Succ(p) = None THEN {} ELSE {Request(Succ(p))}

(* result() returns the page once the driver has it, or raises its error, *)
(* which leaves the generator and the session.  With the page in hand the *)
(* loop asks for the next one and then yields the rows of this one.        *)
Receive ==
    /\ pc = "await"
    /\ \E q \in reqs :
          /\ q.page = waiting /\ q.st # "pending"
          /\ IF q.st = "ok"
             THEN /\ cur' = waiting
                  /\ reqs' = (reqs \ {q}) \cup Prefetch(waiting)
                  /\ out' = Append(out, waiting)
                  /\ pc' = "yield"
             ELSE /\ reqs' = reqs \ {q}
                  /\ pc' = "failed"
                  /\ UNCHANGED <<cur, out>>
    /\ UNCHANGED <<pages, waiting>>

\* mutant: `return` for `break`: the scan ends with the first range read out
ResumeReturnAtRangeEnd ==
    /\ pc = "yield"
    /\ IF ~HasMore(cur)
       THEN /\ pc' = "done" /\ UNCHANGED waiting
       ELSE /\ pc' = "await" /\ waiting' = Succ(cur)
    /\ UNCHANGED <<pages, cur, reqs, out>>

(* The consumer asks for more rows: the while loop reads the next page of *)
(* the range (response_future.result()), or breaks to the for loop, which *)
(* waits for next_rs, or ends after the last range.                        *)
Resume ==
    /\ pc = "yield"
    /\ IF Succ(cur) = None
       THEN /\ pc' = "done" /\ UNCHANGED waiting
       ELSE /\ pc' = "await" /\ waiting' = Succ(cur)
    /\ UNCHANGED <<pages, cur, reqs, out>>

(* The consumer stops iterating: the generator is closed at its yield and *)
(* the session is left.                                                    *)
Close ==
    /\ pc = "yield"
    /\ pc' = "closed"
    /\ UNCHANGED <<pages, cur, waiting, reqs, out>>

(* The driver answers a request, or fails it.                              *)
Answer(q) ==
    /\ q \in reqs /\ q.st = "pending"
    /\ \E st \in {"ok", "failed"} : reqs' = (reqs \ {q}) \cup {[q EXCEPT !.st = st]}
    /\ UNCHANGED <<pages, pc, cur, waiting, out>>

Next ==
    \/ Begin \/ Receive \/ Resume \/ Close
    \/ \E q \in reqs : Answer(q)

(* The driver answers every request; the generator runs whenever its      *)
(* consumer asks for rows; whether the consumer goes on or stops is left  *)
(* open.                                                                   *)
Fairness ==
    /\ WF_vars(Begin) /\ WF_vars(Receive) /\ WF_vars(Resume \/ Close)
    /\ \A r \in Ranges, p \in 1..MaxPages :
          WF_vars(\E q \in reqs : q.page = <<r, p>> /\ Answer(q))

Spec == Init /\ [][Next]_vars /\ Fairness

----------------------------------------------------------------------------
(* Every page of the partition, range after range and page after page:   *)
(* the reference the scan is checked against.                              *)
AllPages == FlattenSeq([r \in Ranges |-> [i \in 1..pages[r] |-> <<r, i>>]])

PageIds == (Ranges \X (1..MaxPages)) \cup {None}

TypeOK ==
    /\ pages \in [Ranges -> 1..MaxPages]
    /\ pc \in Status
    /\ cur \in PageIds /\ waiting \in PageIds
    /\ reqs \subseteq [page : PageIds, st : {"pending", "ok", "failed"}]
    /\ out \in Seq(PageIds)

(* The rows of a partition come out range by range and page by page, with *)
(* none skipped or repeated, and a scan that ends without an error or a   *)
(* close has yielded every page (the has_more / next_tr branches of the   *)
(* while loop in _materialize).                                            *)
ScanInOrder ==
    /\ IsPrefix(out, AllPages)
    /\ pc = "done" => out = AllPages

(* The scan keeps at most one query outstanding against the cluster, and *)
(* that one is for the page right after the last one yielded: the read-   *)
(* ahead of _materialize is one page deep, also when the consumer closes  *)
(* the generator while it is out.                                          *)
PrefetchDepthOne ==
    /\ Cardinality(reqs) <= 1
    /\ \A q \in reqs : Len(out) < Len(AllPages) /\ q.page = AllPages[Len(out) + 1]

(* A scan whose requests are all answered, and whose consumer keeps       *)
(* asking or stops, ends: it never waits on a page no request fetches.    *)
ScanEnds == <>(pc \in {"done", "failed", "closed"})

====
