------------------------------ MODULE LogFile ------------------------------
(***************************************************************************)
(* The write-ahead log as a file of frames (storage/wal_v3.cpp): what      *)
(* replay reads back when the last frame was torn by a crash and others    *)
(* were appended behind it, and what truncate keeps.                       *)
(*                                                                         *)
(* A frame carries the seq of its record.  Of a torn frame the length in   *)
(* its header is what counts: decode calls it incomplete ("torn") until    *)
(* enough bytes follow, and only then compares checksums, which fail; need *)
(* is the number of later frames that takes.  A frame that lacks its magic *)
(* and is the first of the file hides the file from replay altogether.     *)
(***************************************************************************)
EXTENDS Integers, Sequences, FiniteSets

Whole == [torn |-> FALSE, need |-> 0, magic |-> TRUE]
Tears == {[torn |-> TRUE, need |-> n, magic |-> m] : n \in 1 .. 2, m \in BOOLEAN}

\* decode of the frame at position i: a record, incomplete, or a checksum
\* that fails.
DecodedAt_Trusting(file, i) == "record"
DecodedAt(file, i) ==
    IF ~file[i].state.torn THEN "record"
    ELSE IF Len(file) - i < file[i].state.need THEN "incomplete"
    ELSE "crc_failed"

\* Replay gives up at an incomplete frame and skips one whose checksum fails.
Reached(file, i) ==
    /\ file[1].state.magic
    /\ \A j \in 1 .. i : DecodedAt(file, j) # "incomplete"
Records(file) ==
    {i \in 1 .. Len(file) : Reached(file, i) /\ DecodedAt(file, i) = "record"}

\* The frames at the positions S of a file, in their order.
Nth(S, n) == CHOOSE i \in S : Cardinality({j \in S : j < i}) = n - 1
Frames(file, S) == [n \in 1 .. Cardinality(S) |-> file[Nth(S, n)]]

replay(file, from_seq) ==
    Frames(file, {i \in Records(file) : file[i].seq > from_seq})

\* seq_ after a replay: the largest one seen.
LastSeq(file) ==
    LET seqs == {0} \cup {file[i].seq : i \in Records(file)}
    IN  CHOOSE n \in seqs : \A m \in seqs : m <= n

truncate(file, cutoff_seq) == replay(file, cutoff_seq)
=============================================================================
