----------------------------- MODULE BlockSplit -----------------------------
(***************************************************************************)
(* BlockManager.serve_data (src/bndl/rmi/blocks.py): the split of a byte   *)
(* string into at most block_size long blocks, as pure operators, checked  *)
(* against the split spec.md asks for over every length and block size up  *)
(* to a bound.  A byte string of length L is the sequence 1..L, so that a  *)
(* misplaced or lost byte shows in the concatenation.  The state is the   *)
(* input pair only; it is chosen in Init and never changes.               *)
(***************************************************************************)
EXTENDS Integers, Sequences, SequencesExt

CONSTANTS MinLength, MaxLength, MaxBlockSize

VARIABLES length, blockSize

vars == <<length, blockSize>>

(* The data: distinct bytes 1..L.                                          *)
Data(L) == [i \in 1..L |-> i]

(* Python's data[a:b] on a memoryview for 0 <= a <= b: clamped to len.     *)
Slice(s, a, b) == SubSeq(s, a + 1, IF b < Len(s) THEN b ELSE Len(s))

\* mutant: the "1 short" correction of parts is dropped
PartsRounded(L, bs) == L \div bs

(* parts = int((length - 1) / block_size), one short of the block count.   *)
Parts(L, bs) == (L - 1) \div bs

(* step = math.ceil(length / (parts + 1)).                                 *)
Step(L, bs) == (L + Parts(L, bs)) \div (Parts(L, bs) + 1)

(* for _ in range(parts): blocks.append(data[offset:offset + step]);       *)
(* offset += step.                                                         *)
RECURSIVE Cut(_, _, _, _)
Cut(data, offset, step, n) ==
    IF n = 0 THEN << >>
    ELSE << Slice(data, offset, offset + step) >> \o Cut(data, offset + step, step, n - 1)

(* serve_data: one block if the data fits, otherwise parts blocks of step  *)
(* bytes and the remainder data[offset:].                                  *)
ServeData(data, bs) ==
    LET L == Len(data) IN
    IF L > bs
    THEN LET p == Parts(L, bs)
             s == Step(L, bs)
         IN  Cut(data, 0, s, p) \o << Slice(data, p * s, L) >>
    ELSE << data >>

----------------------------------------------------------------------------
(* The reference split of spec.md: ceil(len / block_size) blocks that     *)
(* concatenate to the data, none longer than block_size, the last one     *)
(* non-empty.                                                              *)
CeilDiv(a, b) == (a + b - 1) \div b

ValidSplit(data, bs, blocks) ==
    /\ FlattenSeq(blocks) = data
    /\ Len(blocks) = CeilDiv(Len(data), bs)
    /\ \A i \in DOMAIN blocks : Len(blocks[i]) <= bs
    /\ Len(blocks) > 0 /\ Len(Last(blocks)) >= 1

Init ==
    /\ length \in MinLength..MaxLength
    /\ blockSize \in 1..MaxBlockSize

Next == UNCHANGED vars

Spec == Init /\ [][Next]_vars

(* serve_data splits every byte string the way spec.md states: the blocks  *)
(* concatenate to the data, there are ceil(len/block_size) of them, each   *)
(* at most block_size long and the last non-empty, including at the        *)
(* boundaries where the length equals or is a multiple of block_size.      *)
ServeDataSplitsData ==
    ValidSplit(Data(length), blockSize, ServeData(Data(length), blockSize))

=============================================================================
