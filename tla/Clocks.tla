-------------------------------- MODULE Clocks --------------------------------
(***************************************************************************)
(* The estimate of a clock exchange between a node and the server          *)
(* (core/src/time/clock_sync.rs) and the file clock-table.jsonl, to which  *)
(* measurements of several nodes are appended and from which the table of  *)
(* the newest of each node is replayed (node_clock_table.rs).  Nothing in  *)
(* this version calls either or passes the one's result to the other.      *)
(*                                                                         *)
(* Nanos stands for the 1,000,000 ns of a millisecond, OffsetMax for       *)
(* i32::MAX.  The node's clock is skew[n] ahead of the server's.  A row's  *)
(* measurement is its offset.                                              *)
(***************************************************************************)
EXTENDS Integers, Sequences, FiniteSetsExt

CONSTANTS ClockNodes, Nanos, OffsetMax, Skews, LastTime,
          TableOffsets,    \* offsets that are measured
          MaxRows          \* rows that are appended

ASSUME ClockAssumption ==
  Nanos \in Nat \ {0} /\ OffsetMax \in Nat /\ Skews \subseteq Nat /\ TableOffsets \subseteq Int

VARIABLES real,      \* time by the server's clock
          skew,      \* how far the node's clock is ahead
          exchange   \* the timestamps taken so far

VARIABLES rows,      \* clock-table.jsonl: rows, and pieces of rows run together
          newest,    \* history: the last offset appended for each node
          joined,    \* history: nodes whose last row was appended to a piece
          intact_    \* history: no row was cut off

clock_vars == <<real, skew, exchange>>
table_vars == <<rows, newest, joined, intact_>>

ClockInit ==
  real = 0 /\ skew \in Skews \cup {-s : s \in Skews} /\ exchange = <<>>

-----------------------------------------------------------------------------
(* Rust's division cuts off towards zero; i64::midpoint does as well.      *)
Quotient(a, b) == IF a >= 0 THEN a \div b ELSE -((-a) \div b)

(* Mutant of estimate_offset_rtt_ms: the request's way only. *)
estimate_one_way(t1, t2, t3, t4) ==
  [offset |-> Quotient(t2 - t1, Nanos), rtt |-> Quotient((t4 - t1) - (t3 - t2), Nanos)]

(* An offset that does not fit is i32::MAX, whatever its sign; the round   *)
(* trip is at least 0.                                                     *)
estimate_offset_rtt_ms(t1, t2, t3, t4) ==
  LET offset == Quotient(Quotient((t2 - t1) + (t3 - t4), 2), Nanos)
      rtt == (t4 - t1) - (t3 - t2)
  IN  [offset |-> IF offset \in -(OffsetMax + 1) .. OffsetMax THEN offset ELSE OffsetMax,
       rtt |-> Quotient(IF rtt > 0 THEN rtt ELSE 0, Nanos)]

(* The four timestamps: node, server, server, node. *)
Stamp ==
  /\ Len(exchange) < 4
  /\ exchange' = Append(exchange, IF Len(exchange) \in {0, 3} THEN real + skew ELSE real)
  /\ UNCHANGED <<real, skew>>

PassClock ==
  /\ real < LastTime /\ real' = real + 1
  /\ UNCHANGED <<skew, exchange>>

Measured ==
  estimate_offset_rtt_ms(exchange[1], exchange[2], exchange[3], exchange[4])

ClockNext == Stamp \/ PassClock
ClockSpec == ClockInit /\ [][ClockNext]_clock_vars

-----------------------------------------------------------------------------
NotMeasured == 0      \* offset_ms of a node without an entry
TableInit ==
  /\ rows = <<>> /\ newest = [n \in ClockNodes |-> NotMeasured]
  /\ joined = {} /\ intact_ = TRUE

AfterPiece == rows # <<>> /\ rows[Len(rows)].kind = "cut"

(* append_jsonl: the row and its newline.  A row after a piece of another  *)
(* is on the same line and does not parse.                                 *)
AppendRow(n, o) ==
  /\ Len(rows) < MaxRows
  /\ rows' = IF AfterPiece
             THEN Append(SubSeq(rows, 1, Len(rows) - 1), [kind |-> "bad", node |-> n, offset |-> o])
             ELSE Append(rows, [kind |-> "row", node |-> n, offset |-> o])
  /\ newest' = [newest EXCEPT ![n] = o]
  /\ joined' = IF AfterPiece THEN joined \cup {n} ELSE joined \ {n}
  /\ UNCHANGED intact_

(* write_all gets some of the row into the file and fails, or the process  *)
(* dies in it.                                                             *)
CutRow(n, o) ==
  /\ Len(rows) < MaxRows
  /\ rows' = IF AfterPiece THEN rows
             ELSE Append(rows, [kind |-> "cut", node |-> n, offset |-> o])
  /\ intact_' = FALSE
  /\ UNCHANGED <<newest, joined>>

(* Mutant of load_jsonl: the first row of a node stays. *)
load_jsonl_first(file_) ==
  [n \in ClockNodes |->
     LET own == {k \in 1..Len(file_) : file_[k].kind = "row" /\ file_[k].node = n}
     IN IF own = {} THEN NotMeasured ELSE file_[Min(own)].offset]

(* Every row that parses is put into the table (upsert), the others are    *)
(* counted: of the rows of a node the last one stays.                      *)
RowsOf(file_, n) == {k \in 1..Len(file_) : file_[k].kind = "row" /\ file_[k].node = n}
load_jsonl(file_) ==
  [n \in ClockNodes |->
     IF RowsOf(file_, n) = {} THEN NotMeasured ELSE file_[Max(RowsOf(file_, n))].offset]

(* clock_table::read_all refuses a file with a row that does not parse. *)
read_all == \A k \in DOMAIN rows : rows[k].kind = "row"

TableNext == \E n \in ClockNodes, o \in TableOffsets : AppendRow(n, o) \/ CutRow(n, o)
TableSpec == TableInit /\ [][TableNext]_table_vars

-----------------------------------------------------------------------------
(* The estimated offset is within half the round trip, plus the            *)
(* milliseconds cut off, of how far the server's clock really is ahead of  *)
(* the node's (the table documents the opposite sign), however the         *)
(* exchange was delayed ("Cristian-style offset estimation"), unless the   *)
(* clocks are so far apart, and half the exchange so long, that the sum    *)
(* may not fit the offset's type.                                          *)
Trip == (exchange[4] - exchange[1]) - (exchange[3] - exchange[2])

OffsetWithinRtt ==
  Len(exchange) = 4 =>
    LET m == Measured
        error == m.offset * Nanos + skew
        bound == (m.rtt + 1) * Nanos
        far == 2 * OffsetMax * Nanos - Trip
    IN  \/ 2 * skew \notin -far .. far
        \/ /\ 2 * error <= bound + 2 * Nanos
           /\ -2 * error <= bound + 2 * Nanos
           /\ m.rtt >= 0

(* What is loaded for a node is what was appended last for it, however     *)
(* many rows of any node were cut off, unless that last row ran into the   *)
(* piece of one; and the strict reader takes the file exactly when no row  *)
(* was cut off.                                                            *)
LoadGivesLatest ==
  /\ \A n \in ClockNodes \ joined : load_jsonl(rows)[n] = newest[n]
  /\ read_all <=> intact_

(* The estimate and the file say what the exchanges and the appends allow  *)
(* to say.                                                                 *)
ClockTableTrue == OffsetWithinRtt /\ LoadGivesLatest
=============================================================================
