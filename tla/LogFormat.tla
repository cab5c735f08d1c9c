------------------------------ MODULE LogFormat ------------------------------
(***************************************************************************)
(* LevelDB's log files (leveldb/db/log_writer.cc, log_reader.cc): records are    *)
(* cut into fragments that never cross a block, and are put together again when   *)
(* the log is read after a stop, whose tail may be missing.                       *)
(*                                                                           *)
(* A log is a sequence of cells.  The header of a fragment takes LgHeader cells,   *)
(* the first [type, len, ok], ok telling whether the checksum over the fragment     *)
(* holds; a cell of data is [rec, pos], and a block's end is filled with LgFill.       *)
(***************************************************************************)
EXTENDS Integers, Sequences, FiniteSets, SequencesExt

CONSTANTS
    LgBlock,            \* log::kBlockSize, in cells
    LgHeader,           \* log::kHeaderSize, in cells
    LgSizes,            \* the sizes of records
    LgMax               \* bound: how many records are written

LgFill == [type |-> "zero", len |-> 0, ok |-> FALSE]

VARIABLES
    lgFile,             \* the cells of the log
    lgOffset,           \* Writer::block_offset_
    lgSizes,            \* the sizes of the records written
    lgEnds              \* how long the log was after each

lgVars == <<lgFile, lgOffset, lgSizes, lgEnds>>

-----------------------------------------------------------------------------
(* Writer. *)
Fragment(type, rec, from, n) ==
    <<[type |-> type, len |-> n, ok |-> TRUE]>> \o [i \in 1..(LgHeader - 1) |-> LgFill]
        \o [i \in 1..n |-> [rec |-> rec, pos |-> from + i]]
TypeOf(begin, end) ==
    IF begin THEN (IF end THEN "full" ELSE "first") ELSE (IF end THEN "last" ELSE "middle")

Least(a, b) == IF a < b THEN a ELSE b
\* w: the cells and the block offset; the record rec has n cells left of size.
RECURSIVE AddFragments(_, _, _, _)
Emit(w, rec, size, n, len) ==
    AddFragments([cells |-> w.cells \o Fragment(TypeOf(n = size, n = len), rec, size - n, len),
                  off |-> w.off + LgHeader + len], rec, size, n - len)
SwitchBlock(w) ==
    IF LgBlock - w.off >= LgHeader THEN w
    ELSE [cells |-> w.cells \o [i \in 1..(LgBlock - w.off) |-> LgFill], off |-> 0]
EmitIn(w, rec, size, n) == Emit(w, rec, size, n, Least(n, LgBlock - w.off - LgHeader))
AddFragments(w, rec, size, n) ==
    IF n = 0 THEN w ELSE EmitIn(SwitchBlock(w), rec, size, n)
\* An empty record is one empty fragment.
AddRecordTo(w, rec, size) ==
    IF size = 0 THEN EmitIn(SwitchBlock(w), rec, 0, 0) ELSE AddFragments(w, rec, size, size)

-----------------------------------------------------------------------------
(* Reader: the cells not read yet, the buffer, eof_, and the records returned; frag is the   *)
(* record in hand (<<>> when there is none), bad counts the corruptions reported.      *)
NewReader(cells) == [rest |-> cells, buf |-> <<>>, eof |-> FALSE, out |-> <<>>, infrag |-> FALSE,
                     frag |-> <<>>, bad |-> 0, done |-> FALSE]

ReadBlock(r) ==
    [r EXCEPT !.buf = SubSeq(r.rest, 1, Least(LgBlock, Len(r.rest))),
              !.rest = SubSeq(r.rest, LgBlock + 1, Len(r.rest)), !.eof = Len(r.rest) < LgBlock]

\* kEof: a record without its end is forgotten, not reported.
ReadEof(r) == [r EXCEPT !.buf = <<>>, !.frag = <<>>, !.done = TRUE]
\* Slip: the record in hand outlives the damage.
BadRecordKept(r, report) == [r EXCEPT !.buf = <<>>, !.bad = @ + report]
\* kBadRecord.
BadRecord(r, report) ==
    [r EXCEPT !.buf = <<>>, !.bad = @ + report + (IF r.infrag THEN 1 ELSE 0), !.infrag = FALSE, !.frag = <<>>]

LostStart(r) == IF r.infrag /\ r.frag # <<>> THEN 1 ELSE 0
TakeFragment(r, type, data) ==
    CASE type = "full" -> [r EXCEPT !.bad = @ + LostStart(r), !.out = Append(@, data),
                                    !.infrag = FALSE, !.frag = <<>>]
      [] type = "first" -> [r EXCEPT !.bad = @ + LostStart(r), !.frag = data, !.infrag = TRUE]
      [] type = "middle" /\ r.infrag -> [r EXCEPT !.frag = @ \o data]
      [] type = "last" /\ r.infrag -> [r EXCEPT !.out = Append(@, r.frag \o data), !.infrag = FALSE, !.frag = <<>>]
      [] OTHER -> [r EXCEPT !.bad = @ + 1]

HasHeader(r) == Len(r.buf) >= LgHeader
Drop(r, n) == [r EXCEPT !.buf = SubSeq(@, n + 1, Len(@))]
ReadHeader(r, h) ==
    IF LgHeader + h.len > Len(r.buf) THEN (IF r.eof THEN ReadEof(r) ELSE BadRecord(r, 1))
    ELSE IF h.type = "zero" /\ h.len = 0 THEN BadRecord(r, 0)
    ELSE IF ~h.ok THEN BadRecord(r, 1)
    ELSE TakeFragment(Drop(r, LgHeader + h.len), h.type, SubSeq(r.buf, LgHeader + 1, LgHeader + h.len))

RECURSIVE ReadFrom(_)
ReadFrom(r) ==
    IF r.done THEN r
    ELSE IF HasHeader(r) THEN ReadFrom(ReadHeader(r, r.buf[1]))
    ELSE IF r.eof THEN ReadEof(r)
    ELSE ReadFrom(ReadBlock(r))
ReadAll(cells) == ReadFrom(NewReader(cells))

-----------------------------------------------------------------------------
LgInit == lgFile = <<>> /\ lgOffset = 0 /\ lgSizes = <<>> /\ lgEnds = <<>>

AddRecord(size) ==
    /\ Len(lgSizes) < LgMax
    /\ \E w \in {AddRecordTo([cells |-> lgFile, off |-> lgOffset], Len(lgSizes) + 1, size)} :
           lgFile' = w.cells /\ lgOffset' = w.off
    /\ lgSizes' = Append(lgSizes, size)
    /\ lgEnds' = Append(lgEnds, Len(lgFile'))

LgStep == \E size \in LgSizes : AddRecord(size)

-----------------------------------------------------------------------------
IsHeader(c) == "ok" \in DOMAIN c /\ c.type # "zero"
Record(i) == [p \in 1..lgSizes[i] |-> [rec |-> i, pos |-> p]]
LengthOf(i) == IF i = 0 THEN 0 ELSE lgEnds[i]

\* The records whole in the first n cells, and nothing reported.
CutReads(n) ==
    \E r \in {ReadAll(SubSeq(lgFile, 1, n))} :
        /\ r.bad = 0
        /\ \E k \in 0..Len(lgSizes) :
               /\ r.out = [i \in 1..k |-> Record(i)]
               /\ LengthOf(k) <= n
               /\ k < Len(lgSizes) => LengthOf(k + 1) > n

\* With the fragment at cell n damaged: the records with no cell in its block, and the loss reported.
BlocksOf(i) == {(p - 1) \div LgBlock : p \in (LengthOf(i - 1) + 1)..LengthOf(i)}
DamageContained(n) ==
    \E r \in {ReadAll([lgFile EXCEPT ![n].ok = FALSE])} :
        /\ r.bad > 0
        /\ \E S \in SUBSET (1..Len(lgSizes)) :
               /\ {i \in 1..Len(lgSizes) : (n - 1) \div LgBlock \notin BlocksOf(i)} \subseteq S
               /\ r.out = [i \in 1..Cardinality(S) |->
                              Record(CHOOSE k \in S : Cardinality({x \in S : x < k}) = i - 1)]

(* However short a log is cut, reading it gives exactly the records that are whole in what   *)
(* is left, in the order they were written, and reports no corruption: a stop in the middle   *)
(* of a write looks like the end of the log.  A fragment whose checksum fails takes with it    *)
(* only what shares its block: every other record is read as it was written, in order, no     *)
(* record is made up, and the loss is reported (log_reader.cc ReadRecord,                  *)
(* ReadPhysicalRecord; log_writer.cc AddRecord).                                       *)
LogReads ==
    /\ \A n \in 0..Len(lgFile) : CutReads(n)
    /\ \A n \in {i \in 1..Len(lgFile) : IsHeader(lgFile[i])} : DamageContained(n)
=============================================================================
